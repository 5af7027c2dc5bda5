-------------------------- MODULE VtsRequest_proofs --------------------------
(***************************************************************************)
(* Proofs about VtsRequest and VtsDisplay for any number of connections    *)
(* and any configuration files, requests, keys and upstreams: how far a    *)
(* limit can be passed, that every node counts what the file owes it, that *)
(* a page fits the buffer measured for it and shows every node once.       *)
(***************************************************************************)
EXTENDS VtsDisplay, VtsConf_proofs, FiniteSetTheorems

(* A set of naturals that is not empty has a least element. *)
LEMMA MinIn ==
  ASSUME NEW S \in SUBSET Nat, S # {}
  PROVE  Min(S) \in S
BY LeastNat DEF Min

(* What a file says of a limit on a server. *)
LEMMA LimitOfFile ==
  ASSUME NEW f \in Files, NEW s \in Seq(Directives(f, "limit_traffics"))
  PROVE  /\ DOMAIN s \in SUBSET Nat
         /\ \A i \in DOMAIN s : /\ s[i].key = <<>>
                                /\ s[i].size \in Nat
                                /\ s[i].code # 0
<1> DEFINE T == Directives(f, "limit_traffics")
<1>1. \A d \in T : d.key = <<>> /\ d.size \in Nat /\ d.code # 0
  BY RequestAssumption DEF Limits
<1>2. s \in Seq(T)
  OBVIOUS
<1> HIDE DEF T
<1> QED
  BY <1>1, <1>2

(* The limits on servers in force are directives of the file. *)
LEMMA LimitsTyped ==
  ASSUME ConfTypeOK, NEW b \in Blocks
  PROVE  /\ file \in Files
         /\ conf[b]["limit_traffics"] \in Seq(Directives(file, "limit_traffics"))
BY DEF ConfTypeOK, Arrays

(* An array that refuses nothing has no limit that is exceeded. *)
LEMMA NotRefused ==
  ASSUME ConfTypeOK, NEW b \in Blocks, NEW r,
         limit_handler_traffic(conf[b]["limit_traffics"], r) = 0,
         NEW i \in DOMAIN conf[b]["limit_traffics"]
  PROVE  ~Exceeded(conf[b]["limit_traffics"][i], r)
<1> DEFINE limits == conf[b]["limit_traffics"]
           over == {n \in DOMAIN limits : Exceeded(limits[n], r)}
<1>1. /\ DOMAIN limits \in SUBSET Nat
      /\ \A n \in DOMAIN limits : limits[n].code # 0
  BY LimitsTyped, LimitOfFile
<1>2. over = {} \/ limits[Min(over)].code = 0
  BY DEF limit_handler_traffic
<1>3. over # {} => Min(over) \in over
  BY <1>1, MinIn
<1>4. over = {}
  BY <1>1, <1>2, <1>3
<1> QED
  BY <1>4

(* A request passes a limit on the requests of its server only while that  *)
(* server has not been served more of them.                                *)
LEMMA ServedWithin ==
  ASSUME CountInv, ConfTypeOK, NEW b \in Blocks, NEW r \in Requests,
         limit_handler_traffic(conf[b]["limit_traffics"], r) = 0,
         NEW l \in Range(conf[b]["limit_traffics"]),
         l.variable = <<"request">>,
         NEW k \in Keys, k = ServerKey(r), NEW c \in Blocks
  PROVE  l.size \in Nat /\ served[c][k] <= l.size
<1>1. PICK i \in DOMAIN conf[b]["limit_traffics"] :
        l = conf[b]["limit_traffics"][i]
  BY DEF Range
<1>2. ~Exceeded(l, r)
  BY <1>1, NotRefused
<1>3. l.key = <<>> /\ l.size \in Nat
  BY <1>1, LimitsTyped, LimitOfFile
<1>4. Value(l.variable, r) = <<"request">>
  BY RequestAssumption
<1>5. LimitKey(l, r) = k
  BY <1>3 DEF LimitKey
<1>6. k \in live => ~(stat_request_counter[k] > l.size)
  <2>1. node_member(k, <<"request">>) = stat_request_counter[k]
    BY DEF node_member
  <2>2. <<"request">> # <<>>
    OBVIOUS
  <2> QED
    BY <1>2, <1>4, <1>5, <2>1, <2>2 DEF Exceeded
<1>7. stat_request_counter[k] \in Nat /\ served[c][k] \in Nat
  BY DEF CountInv
<1>8. /\ k \notin live => stat_request_counter[k] = 0
      /\ served[c][k] <= stat_request_counter[k]
  BY Zenon DEF CountInv
<1> QED
  BY <1>3, <1>6, <1>7, <1>8

(* Requests past an array are connections. *)
LEMMA PastFinite ==
  ASSUME NEW S \in SUBSET Conns
  PROVE  /\ IsFiniteSet(S)
         /\ Cardinality(S) \in Nat /\ Cardinality(Conns) \in Nat
         /\ Cardinality(S) <= Cardinality(Conns)
         /\ \A T \in SUBSET S : Cardinality(T) \in Nat
                                 /\ Cardinality(T) <= Cardinality(S)
BY RequestAssumption, FS_Subset, FS_CardinalityType
-----------------------------------------------------------------------------
(* Nothing was served yet. *)
LEMMA InitInv == Init => IInv
<1> SUFFICES ASSUME Init PROVE IInv
  OBVIOUS
<1>1. PathInv
  BY DEF Init, PathInv
<1>2. CountInv
  BY DEF Init, CountInv
<1>3. RoomInv
  BY DEF Init, ConfInit, RoomInv
<1> QED
  BY <1>1, <1>2, <1>3 DEF IInv

(* The configuration is complete before the first request. *)
LEMMA ConfigureInv ==
  ASSUME IInv, ConfTypeOK, ConfTypeOK', Configure
  PROVE  IInv'
<1> USE DEF IInv
<1>1. stage # "serve"
  BY DEF Configure, ConfNext, ReadLine, EndOfFile, InitMainConf, MergeLocConf
<1>2. \A c \in Conns : pc[c] = "idle"
  BY <1>1 DEF PathInv
<1>3. PathInv'
  BY <1>1, <1>2 DEF PathInv, Configure, flight
<1>4. CountInv'
  BY <1>1 DEF CountInv, Configure, counters
<1>5. RoomInv'
  <2> SUFFICES ASSUME NEW b \in {"server", "location"}, NEW j \in {1, 2},
                      NEW k \in Keys,
                      NEW l \in Range(limit_handler(b)[j])'
               PROVE  (served[b][k] + Cardinality(Past(b, k, j))
                         <= l.size + Cardinality(Conns))'
    BY DEF RoomInv
  <2>1. PICK d \in Blocks : l \in Range(conf[d]["limit_traffics"])'
    BY DEF limit_handler, Blocks
  <2>2. l.size \in Nat
    <3>1. /\ file' \in Files
          /\ conf'[d]["limit_traffics"] \in Seq(Directives(file', "limit_traffics"))
      BY DEF ConfTypeOK, Arrays
    <3>2. PICK i \in DOMAIN conf'[d]["limit_traffics"] :
            l = conf'[d]["limit_traffics"][i]
      BY <2>1 DEF Range
    <3> QED
      BY <3>1, <3>2, LimitOfFile
  <2>3. served'[b][k] = 0
    BY <1>1 DEF CountInv, Configure, Blocks
  <2>4. Past(b, k, j)' \in SUBSET Conns
    BY DEF Past
  <2> QED
    BY <2>2, <2>3, <2>4, PastFinite
<1> QED
  BY <1>3, <1>4, <1>5
-----------------------------------------------------------------------------
(* Nothing more is served than before and nobody passes a limit. *)
LEMMA RoomKept ==
  ASSUME IInv, conf' = conf, stage' = stage, ConfTypeOK,
         \A b \in Blocks, k \in Keys :
           served'[b][k] \in Nat /\ served'[b][k] <= served[b][k],
         \A b \in {"server", "location"}, k \in Keys, j \in {1, 2} :
           Past(b, k, j)' \subseteq Past(b, k, j)
  PROVE  RoomInv'
<1> SUFFICES ASSUME NEW b \in {"server", "location"}, NEW j \in {1, 2},
                    NEW k \in Keys, Limiting(b), stage = "serve",
                    NEW l \in Range(limit_handler(b)[j]),
                    l.variable = <<"request">>
             PROVE  served'[b][k] + Cardinality(Past(b, k, j)')
                      <= l.size + Cardinality(Conns)
  BY DEF RoomInv, limit_handler
<1>1. served[b][k] + Cardinality(Past(b, k, j)) <= l.size + Cardinality(Conns)
  BY DEF IInv, RoomInv
<1>2. PICK d \in Blocks : l \in Range(conf[d]["limit_traffics"])
  BY DEF limit_handler, Blocks
<1>3. l.size \in Nat
  <2>1. PICK i \in DOMAIN conf[d]["limit_traffics"] :
          l = conf[d]["limit_traffics"][i]
    BY <1>2 DEF Range
  <2> QED
    BY <2>1, LimitsTyped, LimitOfFile
<1>4. Past(b, k, j) \in SUBSET Conns /\ Past(b, k, j)' \in SUBSET Past(b, k, j)
  BY DEF Past
<1>5. /\ Cardinality(Past(b, k, j)) \in Nat /\ Cardinality(Conns) \in Nat
      /\ Cardinality(Past(b, k, j)') \in Nat
      /\ Cardinality(Past(b, k, j)') <= Cardinality(Past(b, k, j))
  BY <1>4, PastFinite
<1>6. b \in Blocks
  BY DEF Blocks
<1>7. /\ served'[b][k] \in Nat /\ served'[b][k] <= served[b][k]
      /\ served[b][k] \in Nat
  BY <1>6 DEF IInv, CountInv
<1> QED
  BY <1>1, <1>3, <1>5, <1>7

(* A new request has passed nothing. *)
LEMMA TakeInv ==
  ASSUME IInv, ConfTypeOK, NEW c \in Conns, NEW r \in Requests, Take(c, r)
  PROVE  IInv'
<1>1. /\ stage = "serve" /\ stage' = stage /\ conf' = conf
      /\ pc[c] = "idle" /\ gate[c] = 0 /\ gate' = gate /\ code' = code
      /\ UNCHANGED <<served, stat_request_counter, live>>
  BY DEF Take, confVars, counters, IInv, PathInv
<1>2. PathInv'
  BY <1>1 DEF IInv, PathInv, Take
<1>3. CountInv'
  BY <1>1 DEF IInv, CountInv
<1>4. \A b \in {"server", "location"}, k \in Keys, j \in {1, 2} :
        Past(b, k, j)' \subseteq Past(b, k, j)
  BY <1>1 DEF Past, Take, IInv, PathInv
<1>5. RoomInv'
  BY <1>1, <1>4, RoomKept DEF IInv, CountInv
<1> QED
  BY <1>2, <1>3, <1>5 DEF IInv

(* The one step that makes room smaller: c passes an array of limits.      *)
LEMMA LimitHandlerInv ==
  ASSUME IInv, ConfTypeOK, NEW c \in Conns, LimitHandler(c)
  PROVE  IInv'
<1> DEFINE r == req[c]
           rc == limit_handler_traffic(limit_handler(r.block)[gate[c] + 1], r)
<1>1. /\ stage' = stage /\ conf' = conf /\ pc[c] = "limit" /\ req' = req
      /\ gate' = [gate EXCEPT ![c] = gate[c] + 1]
      /\ code' = [code EXCEPT ![c] = rc]
      /\ pc' = [pc EXCEPT ![c] = IF rc = 0 /\ gate'[c] < 4 THEN "limit"
                                                            ELSE "serve"]
      /\ UNCHANGED <<served, stat_request_counter, live>>
  BY DEF LimitHandler, confVars, counters
<1>2. gate[c] \in Nat /\ gate[c] < 4 /\ r \in Requests /\ stage = "serve"
  BY <1>1 DEF IInv, PathInv
<1>3. PathInv'
  <2> HIDE DEF rc, r
  <2> QED
    BY <1>1, <1>2 DEF IInv, PathInv
<1>4. CountInv'
  BY <1>1 DEF IInv, CountInv
<1>5. RoomInv'
  <2> SUFFICES ASSUME NEW b \in {"server", "location"}, NEW j \in {1, 2},
                      NEW k \in Keys, Limiting(b), stage = "serve",
                      NEW l \in Range(limit_handler(b)[j]),
                      l.variable = <<"request">>
               PROVE  served[b][k] + Cardinality(Past(b, k, j)')
                        <= l.size + Cardinality(Conns)
    BY <1>1 DEF RoomInv, limit_handler
  <2>1. served[b][k] + Cardinality(Past(b, k, j)) <= l.size + Cardinality(Conns)
    BY DEF IInv, RoomInv
  <2>2. PICK d \in Blocks : limit_handler(b)[j] = conf[d]["limit_traffics"]
    BY DEF limit_handler, Blocks
  <2>3. l.size \in Nat /\ b \in Blocks
    <3>1. PICK i \in DOMAIN conf[d]["limit_traffics"] :
            l = conf[d]["limit_traffics"][i]
      BY <2>2 DEF Range
    <3> QED
      BY <3>1, LimitsTyped, LimitOfFile DEF Blocks
  <2>4. Past(b, k, j) \in SUBSET Conns /\ Past(b, k, j)' \in SUBSET Conns
    BY DEF Past
  <2>5. /\ Cardinality(Past(b, k, j)) \in Nat /\ Cardinality(Conns) \in Nat
        /\ Cardinality(Past(b, k, j)') \in Nat
        /\ Cardinality(Past(b, k, j)') <= Cardinality(Conns)
    BY <2>4, PastFinite
  <2>6. served[b][k] \in Nat
    BY <2>3 DEF IInv, CountInv
  <2>7. CASE c \in Past(b, k, j)' /\ c \notin Past(b, k, j)
    <3>1. rc = 0 /\ gate[c] + 1 = j /\ r.block = b /\ ServerKey(r) = k
      <4> HIDE DEF rc
      <4> QED
        BY <1>1, <1>2, <2>7 DEF Past, IInv, PathInv
    <3>2. served[b][k] <= l.size
      BY <1>2, <2>2, <2>3, <3>1, ServedWithin DEF IInv
    <3> QED
      BY <2>3, <2>5, <2>6, <3>2
  <2>8. CASE ~(c \in Past(b, k, j)' /\ c \notin Past(b, k, j))
    <3>1. Past(b, k, j)' \in SUBSET Past(b, k, j)
      <4> HIDE DEF rc
      <4> QED
        BY <1>1, <2>8 DEF Past, IInv, PathInv
    <3>2. Cardinality(Past(b, k, j)') <= Cardinality(Past(b, k, j))
      BY <2>4, <3>1, PastFinite
    <3> QED
      BY <2>1, <2>3, <2>5, <2>6, <3>2
  <2> QED
    BY <2>7, <2>8
<1> QED
  BY <1>3, <1>4, <1>5 DEF IInv

(* The log phase begins: who is past the limits stays so. *)
LEMMA HandlerInv ==
  ASSUME IInv, ConfTypeOK, NEW c \in Conns, Handler(c)
  PROVE  IInv'
<1>1. /\ stage' = stage /\ conf' = conf /\ req' = req
      /\ pc[c] = "serve" /\ gate' = gate /\ code' = code
      /\ pc' = [pc EXCEPT ![c] = pc'[c]] /\ pc'[c] \in {"log", "done"}
      /\ UNCHANGED <<served, stat_request_counter, live>>
  BY DEF Handler, confVars, counters, IInv, PathInv
<1>2. PathInv'
  BY <1>1 DEF IInv, PathInv
<1>3. CountInv'
  BY <1>1 DEF IInv, CountInv
<1>4. \A b \in {"server", "location"}, k \in Keys, j \in {1, 2} :
        Past(b, k, j)' \subseteq Past(b, k, j)
  BY <1>1 DEF Past, IInv, PathInv
<1>5. RoomInv'
  BY <1>1, <1>4, RoomKept DEF IInv, CountInv
<1> QED
  BY <1>2, <1>3, <1>5 DEF IInv

(* Counting a node counts one request, of a node that is not live too. *)
LEMMA NodeCounted ==
  ASSUME CountInv, NEW n, NEW e, shm_add_node(n, e)
  PROVE  /\ live' = live \cup {n}
         /\ stat_request_counter' \in [Keys -> Nat]
         /\ \A k \in Keys : stat_request_counter'[k] =
              IF k = n THEN stat_request_counter[k] + 1
                       ELSE stat_request_counter[k]
<1>1. live' = live \cup {n}
  BY DEF shm_add_node
<1>2. stat_request_counter' = [stat_request_counter EXCEPT ![n] =
        (IF n \in live THEN stat_request_counter[n] ELSE 0) + 1]
  BY DEF shm_add_node
<1>3. \A k \in Keys : k \notin live => stat_request_counter[k] = 0
  BY DEF CountInv
<1>4. stat_request_counter \in [Keys -> Nat]
  BY DEF CountInv
<1>5. CASE n \in Keys
  <2>1. (IF n \in live THEN stat_request_counter[n] ELSE 0) + 1
          = stat_request_counter[n] + 1
    BY <1>3, <1>5
  <2>2. stat_request_counter[n] + 1 \in Nat
    BY <1>4, <1>5
  <2>3. stat_request_counter' =
          [stat_request_counter EXCEPT ![n] = stat_request_counter[n] + 1]
    BY <1>2, <2>1
  <2> QED
    BY <1>1, <1>4, <1>5, <2>2, <2>3
<1>6. CASE n \notin Keys
  <2>1. stat_request_counter' = stat_request_counter
    BY <1>2, <1>4, <1>6
  <2> QED
    BY <1>1, <1>4, <1>6, <2>1
<1> QED
  BY <1>5, <1>6

(* A request that was not refused leaves those past the limits as it is    *)
(* counted as served.                                                      *)
LEMMA AddServerInv ==
  ASSUME IInv, ConfTypeOK, NEW c \in Conns, AddServer(c)
  PROVE  IInv'
<1> DEFINE n == ServerKey(req[c])
<1>1. /\ stage' = stage /\ conf' = conf /\ req' = req
      /\ pc[c] = "log" /\ gate' = gate /\ code' = code
      /\ pc' = [pc EXCEPT ![c] = "done"]
      /\ served' = [served EXCEPT ![req[c].block][n] =
                      IF code[c] = 0 THEN served[req[c].block][n] + 1
                                     ELSE served[req[c].block][n]]
      /\ shm_add_node(n, IsError(c))
  BY DEF AddServer, confVars
<1>2. req[c] \in Requests /\ stage = "serve"
  BY <1>1 DEF IInv, PathInv
<1>3. req[c].block \in {"server", "location"} /\ req[c].block \in Blocks
  BY <1>2, RequestAssumption DEF Blocks
<1>4. PathInv'
  BY <1>1 DEF IInv, PathInv
<1>5. /\ live' = live \cup {n}
      /\ stat_request_counter' \in [Keys -> Nat]
      /\ \A k \in Keys : stat_request_counter'[k] =
           IF k = n THEN stat_request_counter[k] + 1
                    ELSE stat_request_counter[k]
  BY <1>1, NodeCounted DEF IInv
<1> HIDE DEF n
<1>6. /\ served' \in [Blocks -> [Keys -> Nat]]
      /\ \A b \in Blocks, k \in Keys : served'[b][k] =
           IF b = req[c].block /\ k = n /\ code[c] = 0
             THEN served[b][k] + 1 ELSE served[b][k]
  <2>1. served \in [Blocks -> [Keys -> Nat]]
    BY DEF IInv, CountInv
  <2>2. served' = [served EXCEPT ![req[c].block] =
          [served[req[c].block] EXCEPT ![n] =
             IF code[c] = 0 THEN served[req[c].block][n] + 1
                            ELSE served[req[c].block][n]]]
    BY <1>1
  <2>3. served[req[c].block] \in [Keys -> Nat]
    BY <1>3, <2>1
  <2>4. ASSUME NEW k \in Keys
        PROVE  served'[req[c].block][k] =
                 IF k = n /\ code[c] = 0 THEN served[req[c].block][k] + 1
                                         ELSE served[req[c].block][k]
    BY <1>3, <2>1, <2>2, <2>3
  <2>5. [served[req[c].block] EXCEPT ![n] =
             IF code[c] = 0 THEN served[req[c].block][n] + 1
                            ELSE served[req[c].block][n]] \in [Keys -> Nat]
    <3>1. CASE n \in Keys
      <4>1. served[req[c].block][n] \in Nat
        BY <2>3, <3>1
      <4> QED
        BY <2>3, <3>1, <4>1
    <3>2. CASE n \notin Keys
      BY <2>3, <3>2
    <3> QED
      BY <3>1, <3>2
  <2> QED
    BY <1>3, <2>1, <2>2, <2>4, <2>5
<1>7. CountInv'
  <2>1. \A k \in Keys : k \notin live' => stat_request_counter'[k] = 0
    BY <1>5 DEF IInv, CountInv
  <2>2. ASSUME NEW k \in Keys, NEW b \in Blocks
        PROVE  served'[b][k] <= stat_request_counter'[k]
    <3>1. /\ served[b][k] \in Nat /\ stat_request_counter[k] \in Nat
          /\ served[b][k] <= stat_request_counter[k]
      BY DEF IInv, CountInv
    <3> QED
      BY <1>5, <1>6, <3>1
  <2> QED
    BY <1>1, <1>2, <1>5, <1>6, <2>1, <2>2 DEF CountInv
<1>8. RoomInv'
  <2> SUFFICES ASSUME NEW b \in {"server", "location"}, NEW j \in {1, 2},
                      NEW k \in Keys, Limiting(b),
                      NEW l \in Range(limit_handler(b)[j]),
                      l.variable = <<"request">>
               PROVE  served'[b][k] + Cardinality(Past(b, k, j)')
                        <= l.size + Cardinality(Conns)
    BY <1>1 DEF RoomInv, limit_handler
  <2>1. served[b][k] + Cardinality(Past(b, k, j)) <= l.size + Cardinality(Conns)
    BY <1>2 DEF IInv, RoomInv
  <2>2. PICK d \in Blocks : limit_handler(b)[j] = conf[d]["limit_traffics"]
    BY DEF limit_handler, Blocks
  <2>3. l.size \in Nat /\ b \in Blocks
    <3>1. PICK i \in DOMAIN conf[d]["limit_traffics"] :
            l = conf[d]["limit_traffics"][i]
      BY <2>2 DEF Range
    <3> QED
      BY <3>1, LimitsTyped, LimitOfFile DEF Blocks
  <2>4. Past(b, k, j) \in SUBSET Conns /\ Past(b, k, j)' = Past(b, k, j) \ {c}
    BY <1>1 DEF Past, IInv, PathInv
  <2>5. served[b][k] \in Nat
    BY <2>3 DEF IInv, CountInv
  <2>6. /\ Cardinality(Past(b, k, j)) \in Nat /\ Cardinality(Conns) \in Nat
        /\ Cardinality(Past(b, k, j)') =
             IF c \in Past(b, k, j) THEN Cardinality(Past(b, k, j)) - 1
                                    ELSE Cardinality(Past(b, k, j))
    BY <2>4, PastFinite, FS_RemoveElement
  <2>7. CASE b = req[c].block /\ k = n /\ code[c] = 0
    <3>1. c \in Past(b, k, j)
      BY <1>1, <2>7 DEF Past, IInv, PathInv, n
    <3> QED
      BY <1>6, <2>1, <2>3, <2>5, <2>6, <2>7, <3>1
  <2>8. CASE ~(b = req[c].block /\ k = n /\ code[c] = 0)
    BY <1>6, <2>1, <2>3, <2>5, <2>6, <2>8
  <2> QED
    BY <2>7, <2>8
<1> QED
  BY <1>4, <1>7, <1>8 DEF IInv

(* Counting a filter, peer or cache serves nobody. *)
LEMMA AddNodeInv ==
  ASSUME IInv, ConfTypeOK, NEW c \in Conns, AddNode(c)
  PROVE  IInv'
<1>1. /\ UNCHANGED <<stage, conf, req, pc, gate, code, served>>
      /\ shm_add_node(Head(todo[c]), IsError(c))
  BY DEF AddNode, confVars
<1>2. /\ live' = live \cup {Head(todo[c])}
      /\ stat_request_counter' \in [Keys -> Nat]
      /\ \A k \in Keys : stat_request_counter'[k] =
           IF k = Head(todo[c]) THEN stat_request_counter[k] + 1
                                ELSE stat_request_counter[k]
  BY <1>1, NodeCounted DEF IInv
<1>3. CountInv'
  <2>1. ASSUME NEW k \in Keys, NEW b \in Blocks
        PROVE  served'[b][k] <= stat_request_counter'[k]
    <3>1. /\ served[b][k] \in Nat /\ stat_request_counter[k] \in Nat
          /\ served[b][k] <= stat_request_counter[k]
      BY DEF IInv, CountInv
    <3> QED
      BY <1>1, <1>2, <3>1
  <2> QED
    BY <1>1, <1>2, <2>1 DEF IInv, CountInv
<1>4. PathInv'
  BY <1>1 DEF IInv, PathInv
<1>5. RoomInv'
  BY <1>1, RoomKept DEF IInv, CountInv, Past
<1> QED
  BY <1>3, <1>4, <1>5 DEF IInv

(* End and Crash. *)
LEMMA ForgetInv ==
  ASSUME IInv, ConfTypeOK, NEW c \in Conns, Forget(c),
         UNCHANGED <<confVars, counters, served>>
  PROVE  IInv'
<1>1. UNCHANGED <<stage, conf, served, stat_request_counter, live>>
  BY DEF confVars, counters
<1>2. PathInv'
  BY <1>1 DEF IInv, PathInv, Forget
<1>3. CountInv'
  BY <1>1 DEF IInv, CountInv
<1>4. \A b \in {"server", "location"}, k \in Keys, j \in {1, 2} :
        Past(b, k, j)' \subseteq Past(b, k, j)
  BY <1>1 DEF Past, Forget, IInv, PathInv
<1>5. RoomInv'
  BY <1>1, <1>4, RoomKept DEF IInv, CountInv
<1> QED
  BY <1>2, <1>3, <1>5 DEF IInv

(* node_delete and node_reset. *)
LEMMA ZeroedInv ==
  ASSUME IInv, ConfTypeOK, NEW S, Zeroed(S), UNCHANGED <<confVars, flight>>,
         live' = live \/ live' = live \ S
  PROVE  IInv'
<1>1. UNCHANGED <<stage, conf, req, pc, gate, code>>
  BY DEF confVars, flight
<1>2. PathInv'
  BY <1>1 DEF IInv, PathInv
<1>3. /\ \A k \in Keys : stat_request_counter'[k] =
           IF k \in S THEN 0 ELSE stat_request_counter[k]
      /\ \A b \in Blocks, k \in Keys : served'[b][k] =
           IF k \in S THEN 0 ELSE served[b][k]
  BY DEF Zeroed
<1>4. /\ stat_request_counter' \in [Keys -> Nat]
      /\ served' \in [Blocks -> [Keys -> Nat]]
  BY DEF Zeroed, IInv, CountInv
<1>5. CountInv'
  <2>1. \A k \in Keys : k \notin live' => stat_request_counter'[k] = 0
    BY <1>3 DEF IInv, CountInv
  <2>2. ASSUME NEW k \in Keys, NEW b \in Blocks
        PROVE  /\ served'[b][k] <= stat_request_counter'[k]
               /\ stage' # "serve" => served'[b][k] = 0
    BY <1>1, <1>3 DEF IInv, CountInv
  <2> QED
    BY <1>4, <2>1, <2>2 DEF CountInv
<1>6. \A b \in Blocks, k \in Keys :
        served'[b][k] \in Nat /\ served'[b][k] <= served[b][k]
  BY <1>3 DEF IInv, CountInv
<1>7. RoomInv'
  BY <1>1, <1>6, RoomKept DEF Past
<1> QED
  BY <1>2, <1>5, <1>7 DEF IInv
-----------------------------------------------------------------------------
(* Every step of requests, commands and the configuration. *)
LEMMA NextInv ==
  ASSUME IInv, ConfTypeOK, ConfTypeOK', [Next]_vars
  PROVE  IInv'
<1>1. CASE Configure
  BY <1>1, ConfigureInv
<1>2. ASSUME NEW c \in Conns, NEW r \in Requests, Take(c, r)
      PROVE  IInv'
  BY <1>2, TakeInv
<1>3. ASSUME NEW c \in Conns, LimitHandler(c)
      PROVE  IInv'
  BY <1>3, LimitHandlerInv
<1>4. ASSUME NEW c \in Conns, Handler(c)
      PROVE  IInv'
  BY <1>4, HandlerInv
<1>5. ASSUME NEW c \in Conns, AddServer(c)
      PROVE  IInv'
  BY <1>5, AddServerInv
<1>6. ASSUME NEW c \in Conns, AddNode(c)
      PROVE  IInv'
  BY <1>6, AddNodeInv
<1>7. ASSUME NEW c \in Conns, End(c) \/ Crash(c)
      PROVE  IInv'
  BY <1>7, ForgetInv DEF End, Crash
<1>8. ASSUME NEW g, NEW z, node_delete(g, z) \/ node_reset(g, z)
      PROVE  IInv'
  BY <1>8, ZeroedInv DEF node_delete, node_reset
<1>9. CASE UNCHANGED vars
  <2>1. UNCHANGED <<stage, conf, pc, req, gate, code, live,
                    stat_request_counter, served>>
    BY <1>9 DEF vars, confVars, flight, counters
  <2> QED
    BY <2>1 DEF IInv, PathInv, CountInv, RoomInv, Past, limit_handler
<1> QED
  BY <1>1, <1>2, <1>3, <1>4, <1>5, <1>6, <1>7, <1>8, <1>9 DEF Next

(* The configuration is read as VtsConf says, whatever happens besides.    *)
LEMMA Configures == Spec => ConfSpec
<1>1. Init => ConfInit
  BY DEF Init
<1>2. [Next]_vars => [ConfNext]_confVars
  <2> SUFFICES ASSUME [Next]_vars PROVE ConfNext \/ UNCHANGED confVars
    OBVIOUS
  <2>1. CASE Configure
    BY <2>1 DEF Configure
  <2>2. ASSUME NEW c \in Conns,
               \/ \E r \in Requests : Take(c, r)
               \/ LimitHandler(c) \/ Handler(c)
               \/ AddServer(c) \/ AddNode(c) \/ End(c)
               \/ Crash(c)
        PROVE  UNCHANGED confVars
    BY <2>2 DEF Take, LimitHandler, Handler, AddServer, AddNode, End, Crash
  <2>3. ASSUME NEW g, NEW z, node_delete(g, z) \/ node_reset(g, z)
        PROVE  UNCHANGED confVars
    BY <2>3 DEF node_delete, node_reset
  <2>4. CASE UNCHANGED vars
    BY <2>4 DEF vars
  <2> QED
    BY <2>1, <2>2, <2>3, <2>4 DEF Next
<1> QED
  BY <1>1, <1>2, PTL DEF Spec, ConfSpec

(* Room includes what has been served. *)
LEMMA InvOvershoot ==
  ASSUME IInv, ConfTypeOK
  PROVE  LimitOvershoot
<1> SUFFICES ASSUME NEW b \in {"server", "location"}, Limiting(b),
                    stage = "serve", NEW k \in Keys,
                    NEW l \in Range(conf["http"]["limit_traffics"])
                               \cup Range(conf[b]["limit_traffics"]),
                    l.variable = <<"request">>
             PROVE  served[b][k] <= l.size + Cardinality(Conns)
  BY DEF LimitOvershoot
<1>1. PICK j \in {1, 2} : l \in Range(limit_handler(b)[j])
  BY DEF limit_handler
<1>2. served[b][k] + Cardinality(Past(b, k, j)) <= l.size + Cardinality(Conns)
  BY <1>1 DEF IInv, RoomInv
<1>3. Past(b, k, j) \in SUBSET Conns
  BY DEF Past
<1>4. Cardinality(Past(b, k, j)) \in Nat /\ Cardinality(Conns) \in Nat
  BY <1>3, PastFinite
<1>5. PICK d \in Blocks : l \in Range(conf[d]["limit_traffics"])
  BY DEF Blocks
<1>6. PICK i \in DOMAIN conf[d]["limit_traffics"] :
        l = conf[d]["limit_traffics"][i]
  BY <1>5 DEF Range
<1>7. l.size \in Nat
  BY <1>6, LimitsTyped, LimitOfFile
<1>8. served[b][k] \in Nat
  BY DEF IInv, CountInv, Blocks
<1> QED
  BY <1>2, <1>4, <1>7, <1>8

(* For any number of connections, any configuration, any requests and any  *)
(* interleaving with deletes, resets and kills: between two resets a limit *)
(* of n requests lets at most n plus the number of connections through     *)
(* (limit_handler against shm_add_node).                                   *)
THEOREM Overshoot == Spec => []LimitOvershoot
<1>1. Init => IInv
  BY InitInv
<1>a. Spec => []ConfTypeOK
  BY Configures, ConfTypesHold, PTL
<1>2. IInv /\ ConfTypeOK /\ ConfTypeOK' /\ [Next]_vars => IInv'
  BY NextInv
<1>3. IInv /\ ConfTypeOK => LimitOvershoot
  BY InvOvershoot
<1> QED
  BY <1>1, <1>a, <1>2, <1>3, PTL DEF Spec
-----------------------------------------------------------------------------
(* Where k stands in a sequence. *)
Times(q, k) == {i \in DOMAIN q : q[i] = k}

(* A set has as many members as one that it is mapped onto one to one.     *)
LEMMA SameSize ==
  ASSUME NEW S, NEW T, NEW f \in [S -> T], IsFiniteSet(S),
         \A x, y \in S : f[x] = f[y] => x = y,
         \A y \in T : \E x \in S : f[x] = y
  PROVE  IsFiniteSet(T) /\ Cardinality(T) = Cardinality(S)
<1>1. f \in Bijection(S, T)
  <2>1. f \in Injection(S, T)
    BY DEF Injection, IsInjective
  <2>2. f \in Surjection(S, T)
    BY DEF Surjection
  <2> QED
    BY <2>1, <2>2 DEF Bijection
<1>2. ExistsBijection(S, T)
  BY <1>1 DEF ExistsBijection
<1> QED
  BY <1>2, FS_Bijection

(* A sequence has a member a finite number of times. *)
LEMMA TimesFinite ==
  ASSUME NEW S, NEW q \in Seq(S), NEW k
  PROVE  /\ IsFiniteSet(Times(q, k)) /\ Cardinality(Times(q, k)) \in Nat
         /\ DOMAIN q = 1 .. Len(q) /\ Len(q) \in Nat
<1>1. DOMAIN q = 1 .. Len(q) /\ Len(q) \in Nat
  OBVIOUS
<1>2. Times(q, k) \in SUBSET (1 .. Len(q))
  BY <1>1 DEF Times
<1>3. IsFiniteSet(1 .. Len(q))
  BY <1>1, FS_Interval
<1> QED
  BY <1>1, <1>2, <1>3, FS_Subset, FS_CardinalityType

(* Two sequences on end have a member as often as both together. *)
LEMMA TimesConcat ==
  ASSUME NEW S, NEW p \in Seq(S), NEW q \in Seq(S), NEW k
  PROVE  Cardinality(Times(p \o q, k)) = Cardinality(Times(p, k)) + Cardinality(Times(q, k))
<1> DEFINE r == p \o q
           L == Len(p)
           T == {i \in Times(r, k) : i > L}
           f == [i \in Times(q, k) |-> i + L]
<1>1. /\ DOMAIN p = 1 .. L /\ L \in Nat
      /\ DOMAIN q = 1 .. Len(q) /\ Len(q) \in Nat
  OBVIOUS
<1>2. r \in Seq(S) /\ DOMAIN r = 1 .. L + Len(q)
  BY <1>1
<1>3. /\ \A i \in 1 .. L : r[i] = p[i]
      /\ \A i \in 1 .. Len(q) : r[i + L] = q[i]
  BY <1>1
<1> HIDE DEF r, L
<1>4. Times(r, k) = Times(p, k) \cup T
  <2>1. ASSUME NEW i \in 1 .. L PROVE i \in Times(r, k) <=> i \in Times(p, k)
    BY <1>1, <1>2, <1>3 DEF Times
  <2>2. ASSUME NEW i \in Times(r, k) PROVE i \in 1 .. L \/ i \in T
    BY <1>1, <1>2 DEF Times
  <2>3. Times(p, k) \subseteq 1 .. L
    BY <1>1 DEF Times
  <2> QED
    BY <2>1, <2>2, <2>3
<1>5. Times(p, k) \cap T = {}
  BY <1>1 DEF Times
<1>6. f \in [Times(q, k) -> T]
  <2>1. ASSUME NEW i \in Times(q, k) PROVE i + L \in T
    <3>1. i \in 1 .. Len(q) /\ q[i] = k
      BY <1>1 DEF Times
    <3>2. i + L \in 1 .. L + Len(q) /\ i + L > L
      BY <1>1, <3>1
    <3> QED
      BY <1>2, <1>3, <3>1, <3>2 DEF Times
  <2> QED
    BY <2>1
<1>7. \A i, j \in Times(q, k) : f[i] = f[j] => i = j
  BY <1>1 DEF Times
<1>8. \A j \in T : \E i \in Times(q, k) : f[i] = j
  <2> SUFFICES ASSUME NEW j \in T PROVE \E i \in Times(q, k) : f[i] = j
    OBVIOUS
  <2>1. j \in 1 .. L + Len(q) /\ r[j] = k /\ j > L
    BY <1>2 DEF Times
  <2>2. j - L \in 1 .. Len(q) /\ (j - L) + L = j
    BY <1>1, <2>1
  <2>3. j - L \in Times(q, k)
    BY <1>1, <1>3, <2>1, <2>2 DEF Times
  <2> QED
    BY <2>2, <2>3
<1> HIDE DEF f, T
<1>9. IsFiniteSet(T) /\ Cardinality(T) = Cardinality(Times(q, k))
  <2>1. IsFiniteSet(Times(q, k))
    BY TimesFinite
  <2> QED
    BY <1>6, <1>7, <1>8, <2>1, SameSize
<1>10. /\ IsFiniteSet(Times(p, k))
       /\ Cardinality(Times(p, k)) \in Nat /\ Cardinality(Times(q, k)) \in Nat
  BY TimesFinite
<1>11. /\ Cardinality(Times(r, k)) =
            Cardinality(Times(p, k)) + Cardinality(T) - Cardinality(Times(p, k) \cap T)
  BY <1>4, <1>9, <1>10, FS_Union
<1>12. Cardinality(Times(p, k) \cap T) = 0
  BY <1>5, FS_EmptySet
<1> QED
  BY <1>9, <1>10, <1>11, <1>12 DEF r

(* The sequences of no and of one member. *)
LEMMA TimesOne ==
  ASSUME NEW k
  PROVE  /\ Times(<<>>, k) = {} /\ Cardinality(Times(<<>>, k)) = 0
         /\ \A h : Cardinality(Times(<<h>>, k)) = IF h = k THEN 1 ELSE 0
<1>1. Times(<<>>, k) = {}
  BY DEF Times
<1>2. ASSUME NEW h PROVE Times(<<h>>, k) = IF h = k THEN {1} ELSE {}
  BY DEF Times
<1> QED
  BY <1>1, <1>2, FS_EmptySet, FS_Singleton

(* Taking the first member takes it once. *)
LEMMA TimesTail ==
  ASSUME NEW S, NEW q \in Seq(S), q # <<>>, NEW k
  PROVE  Cardinality(Times(q, k)) =
           Cardinality(Times(Tail(q), k)) + IF Head(q) = k THEN 1 ELSE 0
<1>1. Head(q) \in S /\ Tail(q) \in Seq(S) /\ <<Head(q)>> \in Seq(S)
  OBVIOUS
<1>2. q = <<Head(q)>> \o Tail(q)
  OBVIOUS
<1> DEFINE h == Head(q)
           t == Tail(q)
<1> HIDE DEF h, t
<1>3. Cardinality(Times(<<h>> \o t, k)) =
        Cardinality(Times(<<h>>, k)) + Cardinality(Times(t, k))
  BY <1>1, TimesConcat DEF h, t
<1>4. Cardinality(Times(<<h>>, k)) = IF h = k THEN 1 ELSE 0
  BY TimesOne
<1>5. Cardinality(Times(t, k)) \in Nat
  BY <1>1, TimesFinite DEF t
<1>6. Cardinality(Times(<<h>> \o t, k)) =
        Cardinality(Times(t, k)) + IF h = k THEN 1 ELSE 0
  BY <1>3, <1>4, <1>5
<1> QED
  BY <1>2, <1>6 DEF h, t
-----------------------------------------------------------------------------
(* The key of every filter is counted, but no empty one. *)
LEMMA NodesOfFilters ==
  ASSUME NEW S, NEW filters \in Seq(S), NEW r,
         \A i \in DOMAIN filters : filter_node(filters[i], r) \in Keys \cup {<<>>}
  PROVE  /\ shm_add_filter_node(filters, r) \in Seq(Keys)
         /\ \A k \in Keys :
              LET hit == {i \in DOMAIN filters : filter_node(filters[i], r) = k}
              IN  /\ IsFiniteSet(hit)
                  /\ Cardinality(Times(shm_add_filter_node(filters, r), k))
                       = Cardinality(hit)
<1> DEFINE q == shm_add_filter_node(filters, r)
           N == {i \in DOMAIN filters : filter_node(filters[i], r) # <<>>}
           index == InOrder(N, Len(filters))
<1>1. DOMAIN filters = 1 .. Len(filters) /\ Len(filters) \in Nat
  OBVIOUS
<1>2. /\ index \in Seq(N \cap 1 .. Len(filters))
      /\ \A k \in N \cap 1 .. Len(filters) : \E i \in DOMAIN index : index[i] = k
      /\ \A i, j \in DOMAIN index : i < j => index[i] < index[j]
  <2> HIDE DEF N
  <2> QED
    BY <1>1, InOrderIs
<1>3. q = [j \in DOMAIN index |-> filter_node(filters[index[j]], r)]
  BY DEF shm_add_filter_node
<1>4. /\ DOMAIN index = 1 .. Len(index) /\ Len(index) \in Nat
      /\ \A j \in DOMAIN index : index[j] \in N /\ index[j] \in Nat
  <2> HIDE DEF N, index
  <2>1. N \cap 1 .. Len(filters) \subseteq N /\ N \cap 1 .. Len(filters) \subseteq Nat
    OBVIOUS
  <2> DEFINE M == N \cap 1 .. Len(filters)
  <2>2. index \in Seq(M)
    BY <1>2
  <2> HIDE DEF M
  <2>3. DOMAIN index = 1 .. Len(index) /\ Len(index) \in Nat /\ \A j \in DOMAIN index : index[j] \in M
    BY <2>2
  <2> QED
    BY <2>1, <2>3 DEF M
<1>5. \A n \in N : n \in 1 .. Len(filters) /\ filter_node(filters[n], r) \in Keys
  BY <1>1
<1> HIDE DEF index, q
<1>6. q \in Seq(Keys)
  <2>1. \A j \in DOMAIN index : filter_node(filters[index[j]], r) \in Keys
    BY <1>4, <1>5
  <2>2. q \in [1 .. Len(index) -> Keys]
    BY <1>3, <1>4, <2>1
  <2> QED
    BY <1>4, <2>2
<1>7. ASSUME NEW k \in Keys
      PROVE  LET hit == {i \in DOMAIN filters : filter_node(filters[i], r) = k}
             IN  IsFiniteSet(hit) /\ Cardinality(Times(q, k)) = Cardinality(hit)
  <2> DEFINE hit == {i \in DOMAIN filters : filter_node(filters[i], r) = k}
             f == [j \in Times(q, k) |-> index[j]]
  <2>1. hit \subseteq N
    BY KeyAssumption
  <2>2. f \in [Times(q, k) -> hit]
    <3>1. ASSUME NEW j \in Times(q, k) PROVE index[j] \in hit
      <4>1. j \in DOMAIN index /\ filter_node(filters[index[j]], r) = k
        BY <1>3 DEF Times
      <4> QED
        BY <1>1, <1>4, <4>1
    <3> QED
      BY <3>1
  <2>3. \A i, j \in Times(q, k) : f[i] = f[j] => i = j
    <3> SUFFICES ASSUME NEW i \in Times(q, k), NEW j \in Times(q, k), index[i] = index[j]
                 PROVE  i = j
      OBVIOUS
    <3>1. i \in DOMAIN index /\ j \in DOMAIN index
      BY <1>3 DEF Times
    <3>2. index[i] \in Nat /\ index[j] \in Nat /\ i \in Nat /\ j \in Nat
      BY <1>4, <3>1
    <3>3. ~(i < j) /\ ~(j < i)
      BY <1>2, <3>1, <3>2
    <3> QED
      BY <3>2, <3>3
  <2>4. \A n \in hit : \E j \in Times(q, k) : f[j] = n
    <3> SUFFICES ASSUME NEW n \in hit PROVE \E j \in Times(q, k) : f[j] = n
      OBVIOUS
    <3>1. n \in N \cap 1 .. Len(filters)
      BY <1>1, <2>1
    <3>2. PICK j \in DOMAIN index : index[j] = n
      BY <1>2, <3>1
    <3>3. j \in Times(q, k)
      BY <1>3, <3>2 DEF Times
    <3> QED
      BY <3>2, <3>3
  <2>5. IsFiniteSet(Times(q, k))
    BY <1>6, TimesFinite
  <2> HIDE DEF f, hit
  <2>6. IsFiniteSet(hit) /\ Cardinality(hit) = Cardinality(Times(q, k))
    BY <2>2, <2>3, <2>4, <2>5, SameSize
  <2> QED
    BY <2>6 DEF hit
<1> QED
  BY <1>6, <1>7 DEF q

(* The first of each text. *)
Firsts(w) == {n \in DOMAIN w : \A j \in 1 .. n - 1 : Text(w[j]) # Text(w[n])}

(* Of the elements in G, unique keeps one of each text. *)
LEMMA UniqueCounts ==
  ASSUME NEW S, NEW s \in Seq(S), \A i \in DOMAIN s : HashOf(s, i) \in Nat,
         Near({HashOf(s, i) : i \in DOMAIN s}),
         \A i, j \in DOMAIN s : HashOf(s, i) = HashOf(s, j) => Text(s[i]) = Text(s[j]),
         NEW G, \A i \in DOMAIN s : s[i] \in G => HashOf(s, i) # 0
  PROVE  Cardinality({i \in DOMAIN unique(s) : unique(s)[i] \in G})
           = Cardinality({n \in Firsts(s) : s[n] \in G})
<1> DEFINE c == unique(s)
           C == {i \in DOMAIN c : c[i] \in G}
           F == {n \in Firsts(s) : s[n] \in G}
<1>1. DOMAIN s = 1 .. Len(s) /\ Len(s) \in Nat
  OBVIOUS
<1>2. \A i, j \in DOMAIN s : Text(s[i]) = Text(s[j]) => HashOf(s, i) = HashOf(s, j)
  BY DEF HashOf
<1>3. CASE Len(Kept(s)) = Len(s)
  <2>1. c = s
    BY <1>3 DEF unique
  <2>2. ASSUME NEW n \in DOMAIN s PROVE n \in Firsts(s)
    <3>1. ASSUME NEW j \in 1 .. n - 1, Text(s[j]) = Text(s[n]) PROVE FALSE
      <4>1. j \in DOMAIN s /\ j # n
        BY <1>1
      <4>2. HashOf(s, j) = HashOf(s, n)
        BY <1>2, <3>1, <4>1
      <4> QED
        BY <1>3, <4>1, <4>2, AllKept
    <3> QED
      BY <3>1 DEF Firsts
  <2>3. C = F
    BY <2>1, <2>2 DEF Firsts
  <2> QED
    BY <2>3
<1>4. CASE Len(Kept(s)) # Len(s)
  <2>1. c = Kept(s)
    BY <1>4 DEF unique
  <2> HIDE DEF c
  <2>2. c \in Seq(S) /\ DOMAIN c = 1 .. Len(c) /\ Len(c) \in Nat
    <3>1. c \in Seq(S)
      BY <2>1, KeptIs
    <3> QED
      BY <3>1
  <2>3. \A j \in DOMAIN c : \E n \in Firsts(s) : c[j] = s[n]
    <3> SUFFICES ASSUME NEW j \in DOMAIN c PROVE \E n \in Firsts(s) : c[j] = s[n]
      OBVIOUS
    <3>1. PICK n \in DOMAIN s :
            c[j] = s[n] /\ \A k \in 1 .. n - 1 : HashOf(s, k) # HashOf(s, n)
      BY <2>1, KeptFirst
    <3>2. \A k \in 1 .. n - 1 : k \in DOMAIN s
      BY <1>1
    <3>3. n \in Firsts(s)
      BY <1>2, <3>1, <3>2 DEF Firsts
    <3> QED
      BY <3>1, <3>3
  <2> DEFINE f == [j \in C |-> CHOOSE n \in Firsts(s) : c[j] = s[n]]
  <2>4. \A j \in C : f[j] \in Firsts(s) /\ c[j] = s[f[j]] /\ f[j] \in F
    BY <2>3
  <2>5. f \in [C -> F]
    BY <2>4
  <2> HIDE DEF f
  <2>6. \A i, j \in C : f[i] = f[j] => i = j
    <3> SUFFICES ASSUME NEW i \in C, NEW j \in C, f[i] = f[j] PROVE i = j
      OBVIOUS
    <3>1. c[i] = c[j]
      BY <2>4
    <3>2. HashOf(c, i) = HashOf(c, j)
      BY <3>1 DEF HashOf
    <3> QED
      BY <2>1, <3>2, KeptDistinct
  <2>7. \A n \in F : \E j \in C : f[j] = n
    <3> SUFFICES ASSUME NEW n \in F PROVE \E j \in C : f[j] = n
      OBVIOUS
    <3>1. n \in DOMAIN s /\ n \in Firsts(s) /\ s[n] \in G
      BY DEF Firsts
    <3>2. PICK j \in DOMAIN c : HashOf(c, j) = HashOf(s, n)
      BY <2>1, <3>1, KeptHashes
    <3>3. PICK m \in Firsts(s) : c[j] = s[m]
      BY <2>3
    <3>4. m \in DOMAIN s /\ HashOf(s, m) = HashOf(s, n)
      BY <3>2, <3>3 DEF HashOf, Firsts
    <3>5. Text(s[m]) = Text(s[n])
      BY <3>1, <3>4
    <3>6. m = n
      <4>1. m \in Nat /\ n \in Nat /\ m >= 1 /\ n >= 1
        BY <1>1, <3>1, <3>4
      <4>2. ~(m < n)
        <5> SUFFICES ASSUME m < n PROVE FALSE
          OBVIOUS
        <5>1. m \in 1 .. n - 1
          BY <4>1
        <5> QED
          BY <3>1, <3>5, <5>1 DEF Firsts
      <4>3. ~(n < m)
        <5> SUFFICES ASSUME n < m PROVE FALSE
          OBVIOUS
        <5>1. n \in 1 .. m - 1
          BY <4>1
        <5> QED
          BY <3>3, <3>5, <5>1 DEF Firsts
      <4> QED
        BY <4>1, <4>2, <4>3
    <3>7. j \in C
      BY <3>1, <3>3, <3>6
    <3>8. f[j] = n
      <4>1. f[j] \in Firsts(s) /\ c[j] = s[f[j]]
        BY <2>4, <3>7
      <4> DEFINE l == f[j]
      <4> HIDE DEF l
      <4>2. l \in DOMAIN s /\ Text(s[l]) = Text(s[n])
        BY <3>3, <3>6, <4>1 DEF Firsts, l
      <4>3. l \in Nat /\ n \in Nat /\ l >= 1 /\ n >= 1
        BY <1>1, <3>1, <4>2
      <4>4. ~(l < n)
        <5> SUFFICES ASSUME l < n PROVE FALSE
          OBVIOUS
        <5>1. l \in 1 .. n - 1
          BY <4>3
        <5> QED
          BY <3>1, <4>2, <5>1 DEF Firsts
      <4>5. ~(n < l)
        <5> SUFFICES ASSUME n < l PROVE FALSE
          OBVIOUS
        <5>1. n \in 1 .. l - 1
          BY <4>3
        <5>2. l \in Firsts(s)
          BY <4>1 DEF l
        <5> QED
          BY <4>2, <5>1, <5>2 DEF Firsts
      <4> QED
        BY <4>3, <4>4, <4>5 DEF l
    <3> QED
      BY <3>7, <3>8
  <2>8. IsFiniteSet(C)
    <3>1. C \in SUBSET (1 .. Len(c)) /\ IsFiniteSet(1 .. Len(c))
      BY <2>2, FS_Interval
    <3> QED
      BY <3>1, FS_Subset
  <2> HIDE DEF C, F
  <2>9. Cardinality(F) = Cardinality(C)
    BY <2>5, <2>6, <2>7, <2>8, SameSize
  <2> QED
    BY <2>9 DEF C, F, c
<1> QED
  BY <1>3, <1>4
-----------------------------------------------------------------------------
(* A filter without a text is one without a key, which counts nothing.     *)
LEMMA TextOfFilter ==
  ASSUME NEW f \in Files, NEW d \in Directives(f, "filter_keys"), Text(d) = <<>>, NEW r
  PROVE  filter_node(d, r) = <<>>
<1>1. PICK i \in DOMAIN f : d = Resolved(f[i]) /\ ~IsFlag(f[i]) /\ f[i].array = "filter_keys"
  BY DEF Directives, Range
<1>2. d = f[i] /\ d.array = "filter_keys"
  BY <1>1 DEF Resolved
<1>3. d.key \in Seq(Chars) /\ d.name \in Seq(Chars)
  BY <1>1, <1>2, ConfAssumption
<1>4. d.key \o d.name = <<>>
  BY <1>2 DEF Text
<1>5. d.key = <<>>
  BY <1>3, <1>4
<1>6. Value(<<>>, r) = <<>>
  <2> DEFINE e == <<>>
             seqs == [j \in DOMAIN e |->
                        IF e[j] \in DOMAIN r.vars THEN r.vars[e[j]] ELSE <<e[j]>>]
  <2>1. seqs = <<>>
    OBVIOUS
  <2>2. FlattenSeq(<<>>) = <<>>
    BY DEF FlattenSeq
  <2> QED
    BY <2>1, <2>2 DEF Value
<1> QED
  BY <1>5, <1>6 DEF filter_node

(* What is owed to the node of k. *)
OwedTo(S, k) == {x \in S : x[2] = k}

(* A request is counted once for each filter it owes. *)
LEMMA FiltersCounted ==
  ASSUME ConfInv, HashesNear, HashesApart, stage = "serve",
         NEW b \in Blocks, NEW r \in Requests
  PROVE  /\ shm_add_filter_node(conf[b]["filter_keys"], r) \in Seq(Keys)
         /\ \A k \in Keys :
              /\ IsFiniteSet(OwedTo(FiltersOwed(b, r), k))
              /\ Cardinality(Times(shm_add_filter_node(conf[b]["filter_keys"], r), k))
                   = Cardinality(OwedTo(FiltersOwed(b, r), k))
<1> DEFINE a == "filter_keys"
           c == conf[b][a]
           D == Directives(file, a)
           w == Intended(b, a)
<1>0. a \in Arrays
  BY DEF Arrays
<1>1. /\ file \in Files /\ Source(b, a) \in Blocks /\ w = Given(Source(b, a), a)
      /\ c = IF w # <<>> /\ Dropping(b, a) THEN unique(w) ELSE w
  BY <1>0, InForce
<1>2. c \in Seq(D)
  BY <1>0, ConfInvParts, ConfTypes DEF Entries
<1>3. \A d \in D : filter_node(d, r) \in Keys \cup {<<>>}
  BY <1>1, KeyAssumption
<1>4. \A i \in DOMAIN c : filter_node(c[i], r) \in Keys \cup {<<>>}
  <2> HIDE DEF D, c
  <2> QED
    BY <1>2, <1>3
<1>5. /\ w \in Seq(D)
      /\ DOMAIN w = 1 .. Len(w) /\ Len(w) \in Nat
      /\ \A i \in DOMAIN w : HashOf(w, i) \in Nat /\ w[i] \in D
  <2>1. \A i \in DOMAIN w : HashOf(w, i) \in 0 .. W - 1
    BY <1>0, <1>1, GivenIs
  <2>2. \A i \in DOMAIN w : HashOf(w, i) \in Nat
    BY <2>1
  <2> QED
    BY <1>0, <1>1, <2>2, GivenIs DEF Entries
<1>6. Near({HashOf(w, i) : i \in DOMAIN w})
  BY <1>0, <1>1, GivenNear
<1>7. \A i, j \in DOMAIN w : HashOf(w, i) = HashOf(w, j) => Text(w[i]) = Text(w[j])
  BY <1>0, <1>1, <1>5 DEF HashesApart, HashOf
<1> HIDE DEF D, c, w
<1>8. ASSUME NEW k \in Keys
      PROVE  /\ IsFiniteSet(OwedTo(FiltersOwed(b, r), k))
             /\ Cardinality(Times(shm_add_filter_node(c, r), k))
                  = Cardinality(OwedTo(FiltersOwed(b, r), k))
  <2> USE DEF OwedTo
  <2> DEFINE G == {d \in D : filter_node(d, r) = k}
             first(n) == \A j \in 1 .. n - 1 : Text(w[j]) # Text(w[n])
             counts == {n \in DOMAIN w : Dropping(b, a) => first(n)}
             hits == {n \in counts : w[n] \in G}
             owed == OwedTo(FiltersOwed(b, r), k)
             C == {i \in DOMAIN c : c[i] \in G}
  <2>1. Cardinality(Times(shm_add_filter_node(c, r), k)) = Cardinality(C) /\ IsFiniteSet(C)
    <3> DEFINE H == {i \in DOMAIN c : filter_node(c[i], r) = k}
    <3>1. \A i \in DOMAIN c : c[i] \in D
      BY <1>2
    <3>2. H = C
      BY <3>1
    <3>3. IsFiniteSet(H) /\ Cardinality(Times(shm_add_filter_node(c, r), k)) = Cardinality(H)
      BY <1>2, <1>4, NodesOfFilters
    <3> QED
      BY <3>2, <3>3
  <2>2. Cardinality(C) = Cardinality(hits)
    <3>1. ASSUME NEW i \in DOMAIN w, w[i] \in G PROVE HashOf(w, i) # 0
      <4>1. w[i] \in D /\ filter_node(w[i], r) # <<>>
        BY <1>5, <3>1, KeyAssumption
      <4>2. Text(w[i]) # <<>>
        BY <1>1, <4>1, TextOfFilter DEF D
      <4> QED
        BY <1>0, <1>1, <4>1, <4>2 DEF HashesApart, HashOf, D
    <3>2. CASE w # <<>> /\ Dropping(b, a)
      <4>1. c = unique(w)
        BY <1>1, <3>2 
      <4>2. hits = {n \in Firsts(w) : w[n] \in G}
        BY <3>2 DEF Firsts
      <4> HIDE DEF G, hits
      <4>3. Cardinality({i \in DOMAIN unique(w) : unique(w)[i] \in G})
              = Cardinality({n \in Firsts(w) : w[n] \in G})
        <5>1. \A i \in DOMAIN w : w[i] \in G => HashOf(w, i) # 0
          BY <3>1
        <5>2. w \in Seq(D) /\ \A i \in DOMAIN w : HashOf(w, i) \in Nat
          BY <1>5
        <5> QED
          BY <5>1, <5>2, <1>6, <1>7, UniqueCounts
      <4> QED
        BY <4>1, <4>2, <4>3
    <3>3. CASE ~(w # <<>> /\ Dropping(b, a))
      <4>1. c = w
        BY <1>1, <3>3
      <4>2. counts = DOMAIN w
        BY <3>3, <1>5
      <4> QED
        BY <4>1, <4>2
    <3> QED
      BY <3>2, <3>3
  <2>3. IsFiniteSet(hits)
    <3>1. hits \in SUBSET (1 .. Len(w)) /\ IsFiniteSet(1 .. Len(w))
      BY <1>5, FS_Interval
    <3> QED
      BY <3>1, FS_Subset
  <2>4. IsFiniteSet(owed) /\ Cardinality(owed) = Cardinality(hits)
    <3> DEFINE f == [n \in hits |-> <<<<b, n>>, k>>]
    <3>1. FiltersOwed(b, r) = {<<<<b, n>>, filter_node(w[n], r)>> : n \in counts}
      BY DEF FiltersOwed, w
    <3>2. ASSUME NEW n \in hits PROVE <<<<b, n>>, k>> \in owed
      <4>1. n \in counts /\ filter_node(w[n], r) = k
        OBVIOUS
      <4>2. <<<<b, n>>, filter_node(w[n], r)>> \in FiltersOwed(b, r)
        BY <3>1, <4>1
      <4> QED
        BY <4>1, <4>2
    <3>3. f \in [hits -> owed]
      BY <3>2
    <3>4. \A m, n \in hits : f[m] = f[n] => m = n
      OBVIOUS
    <3>5. \A x \in owed : \E n \in hits : f[n] = x
      <4> SUFFICES ASSUME NEW x \in owed PROVE \E n \in hits : f[n] = x
        OBVIOUS
      <4>1. PICK n \in counts : x = <<<<b, n>>, filter_node(w[n], r)>>
        BY <3>1
      <4>2. x[2] = k /\ filter_node(w[n], r) = k
        BY <4>1
      <4>3. n \in hits
        BY <1>5, <4>1, <4>2
      <4> QED
        BY <4>1, <4>2, <4>3
    <3> HIDE DEF f, hits, owed
    <3> QED
      BY <2>3, <3>3, <3>4, <3>5, SameSize
  <2> QED
    BY <2>1, <2>2, <2>4
<1>9. shm_add_filter_node(c, r) \in Seq(Keys)
  BY <1>2, <1>4, NodesOfFilters
<1> QED
  BY <1>8, <1>9 DEF c
-----------------------------------------------------------------------------
(* The size of two sets that have no member in common. *)
LEMMA DisjointUnion ==
  ASSUME NEW S, NEW T, IsFiniteSet(S), IsFiniteSet(T), S \cap T = {}
  PROVE  /\ IsFiniteSet(S \cup T)
         /\ Cardinality(S \cup T) = Cardinality(S) + Cardinality(T)
         /\ Cardinality(S) \in Nat /\ Cardinality(T) \in Nat
<1>1. Cardinality(S \cap T) = 0
  BY FS_EmptySet
<1>2. Cardinality(S) \in Nat /\ Cardinality(T) \in Nat
  BY FS_CardinalityType
<1>3. /\ IsFiniteSet(S \cup T)
      /\ Cardinality(S \cup T) = Cardinality(S) + Cardinality(T) - Cardinality(S \cap T)
  BY FS_Union
<1> DEFINE s == Cardinality(S)
           t == Cardinality(T)
           u == Cardinality(S \cup T)
<1>4. u = s + t - 0 /\ s \in Nat /\ t \in Nat
  BY <1>1, <1>2, <1>3
<1> HIDE DEF s, t, u
<1>5. u = s + t
  BY <1>4
<1> QED
  BY <1>2, <1>3, <1>5 DEF s, t, u

(* What is owed to the only key of a sequence, if it has one. *)
LEMMA OneCounted ==
  ASSUME NEW q, q = <<>> \/ \E h : q = <<h>>, Range(q) \subseteq Keys, NEW tag, NEW k
  PROVE  /\ q \in Seq(Keys)
         /\ IsFiniteSet(OwedTo({<<tag, h>> : h \in Range(q)}, k))
         /\ Cardinality(OwedTo({<<tag, h>> : h \in Range(q)}, k)) = Cardinality(Times(q, k))
<1> DEFINE owed == OwedTo({<<tag, h>> : h \in Range(q)}, k)
<1>1. CASE q = <<>>
  <2>1. owed = {} /\ q \in Seq(Keys)
    BY <1>1 DEF Range, OwedTo
  <2> QED
    BY <1>1, <2>1, FS_EmptySet, TimesOne
<1>2. ASSUME NEW h, q = <<h>>
      PROVE  /\ q \in Seq(Keys)
             /\ IsFiniteSet(owed) /\ Cardinality(owed) = Cardinality(Times(q, k))
  <2>1. Range(q) = {h} /\ h \in Keys
    BY <1>2 DEF Range
  <2>2. q \in Seq(Keys)
    BY <1>2, <2>1
  <2>3. owed = IF h = k THEN {<<tag, h>>} ELSE {}
    BY <2>1 DEF OwedTo
  <2>4. Cardinality(Times(q, k)) = IF h = k THEN 1 ELSE 0
    BY <1>2, TimesOne
  <2> HIDE DEF owed
  <2> QED
    BY <2>2, <2>3, <2>4, FS_EmptySet, FS_Singleton
<1> QED
  BY <1>1, <1>2

(* A request is counted in each node that it owes a count to, as often as  *)
(* it owes it.                                                             *)
LEMMA HandlerCounted ==
  ASSUME ConfInv, HashesNear, HashesApart, stage = "serve",
         NEW r \in Requests, NEW refused \in BOOLEAN, Counting(r.block)
  PROVE  /\ handler(r, refused) \in Seq(Keys)
         /\ \A k \in Keys :
              /\ IsFiniteSet(OwedTo(Owed(r, refused), k))
              /\ Cardinality(OwedTo(Owed(r, refused), k))
                   = Cardinality(Times(handler(r, refused), k))
                       + IF ServerKey(r) = k THEN 1 ELSE 0
<1> DEFINE b == r.block
           up == shm_add_upstream(r, refused)
           ca == shm_add_cache(r, refused)
           own(c) == shm_add_filter_node(conf[c]["filter_keys"], r)
           filters == IF "filter" \notin Options[b] THEN <<>> ELSE own("http") \o own(b)
           Up == {<<<<"upstream", 0>>, k>> : k \in Range(up)}
           Ca == {<<<<"cache", 0>>, k>> : k \in Range(ca)}
           Fi == IF "filter" \notin Options[b] THEN {}
                 ELSE FiltersOwed("http", r) \cup FiltersOwed(b, r)
<1>0. b \in {"server", "location"} /\ b \in Blocks /\ "http" \in Blocks
  BY RequestAssumption DEF Blocks
<1>1. /\ up = <<>> \/ \E h : up = <<h>>
      /\ Range(up) \subseteq Keys
  <2>1. up = <<>> \/ up = shm_add_upstream(r, FALSE)
    BY DEF shm_add_upstream
  <2>2. Range(shm_add_upstream(r, FALSE)) \subseteq Keys
    BY KeyAssumption
  <2>3. Range(<<>>) = {}
    BY DEF Range
  <2>4. shm_add_upstream(r, FALSE) = <<>> \/ \E h : shm_add_upstream(r, FALSE) = <<h>>
    BY DEF shm_add_upstream
  <2> HIDE DEF up
  <2> QED
    BY <2>1, <2>2, <2>3, <2>4
<1>2. /\ ca = <<>> \/ \E h : ca = <<h>>
      /\ Range(ca) \subseteq Keys
  <2>1. ca = <<>> \/ ca = shm_add_cache(r, FALSE)
    BY DEF shm_add_cache
  <2>2. Range(shm_add_cache(r, FALSE)) \subseteq Keys
    BY KeyAssumption
  <2>3. Range(<<>>) = {}
    BY DEF Range
  <2>4. shm_add_cache(r, FALSE) = <<>> \/ \E h : shm_add_cache(r, FALSE) = <<h>>
    BY DEF shm_add_cache
  <2> HIDE DEF ca
  <2> QED
    BY <2>1, <2>2, <2>3, <2>4
<1>3. handler(r, refused) = up \o filters \o ca
  BY DEF handler
<1>4. Owed(r, refused) = {<<<<"server", 0>>, ServerKey(r)>>} \cup Up \cup Ca \cup Fi
  BY DEF Owed
<1>5. /\ up \in Seq(Keys) /\ ca \in Seq(Keys)
      /\ \A k \in Keys : /\ IsFiniteSet(OwedTo(Up, k))
                         /\ Cardinality(OwedTo(Up, k)) = Cardinality(Times(up, k))
                         /\ IsFiniteSet(OwedTo(Ca, k))
                         /\ Cardinality(OwedTo(Ca, k)) = Cardinality(Times(ca, k))
  <2> HIDE DEF up, ca
  <2>1. ASSUME NEW k
        PROVE  /\ up \in Seq(Keys) /\ IsFiniteSet(OwedTo(Up, k))
               /\ Cardinality(OwedTo(Up, k)) = Cardinality(Times(up, k))
    BY <1>1, OneCounted
  <2>2. ASSUME NEW k
        PROVE  /\ ca \in Seq(Keys) /\ IsFiniteSet(OwedTo(Ca, k))
               /\ Cardinality(OwedTo(Ca, k)) = Cardinality(Times(ca, k))
    BY <1>2, OneCounted
  <2> QED
    BY <2>1, <2>2
<1>6. \A c \in Blocks :
        FiltersOwed(c, r)
          \subseteq {<<<<c, n>>, h>> : n \in Nat \ {0}, h \in Keys \cup {<<>>}}
  <2> SUFFICES ASSUME NEW c \in Blocks, NEW x \in FiltersOwed(c, r)
               PROVE  x \in {<<<<c, n>>, h>> : n \in Nat \ {0}, h \in Keys \cup {<<>>}}
    OBVIOUS
  <2> DEFINE w == Intended(c, "filter_keys")
  <2>1. PICK n \in DOMAIN w : x = <<<<c, n>>, filter_node(w[n], r)>>
    BY DEF FiltersOwed
  <2>2. "filter_keys" \in Arrays
    BY DEF Arrays
  <2>3. /\ file \in Files /\ Source(c, "filter_keys") \in Blocks
        /\ w = Given(Source(c, "filter_keys"), "filter_keys")
    BY <2>2, InForce
  <2>4. /\ n \in 1 .. Len(w) /\ Len(w) \in Nat
        /\ w[n] \in Directives(file, "filter_keys")
    BY <2>1, <2>2, <2>3, GivenIs DEF Entries
  <2> HIDE DEF w
  <2>5. n \in Nat \ {0}
    BY <2>4
  <2>6. filter_node(w[n], r) \in Keys \cup {<<>>}
    BY <2>3, <2>4, KeyAssumption
  <2> QED
    BY <2>1, <2>5, <2>6
<1>7. /\ filters \in Seq(Keys)
      /\ \A k \in Keys : /\ IsFiniteSet(OwedTo(Fi, k))
                         /\ Cardinality(OwedTo(Fi, k)) = Cardinality(Times(filters, k))
  <2>1. CASE "filter" \notin Options[b]
    <3>1. filters = <<>> /\ \A k : OwedTo(Fi, k) = {}
      BY <2>1 DEF OwedTo
    <3> HIDE DEF filters
    <3>2. filters \in Seq(Keys)
      BY <3>1
    <3> HIDE DEF filters
    <3> QED
      BY <3>1, <3>2, TimesOne, FS_EmptySet
  <2>2. CASE "filter" \in Options[b]
    <3>1. filters = own("http") \o own(b)
      BY <2>2
    <3>2. /\ own("http") \in Seq(Keys) /\ own(b) \in Seq(Keys)
          /\ \A k \in Keys :
               /\ IsFiniteSet(OwedTo(FiltersOwed("http", r), k))
               /\ Cardinality(Times(own("http"), k)) = Cardinality(OwedTo(FiltersOwed("http", r), k))
               /\ IsFiniteSet(OwedTo(FiltersOwed(b, r), k))
               /\ Cardinality(Times(own(b), k)) = Cardinality(OwedTo(FiltersOwed(b, r), k))
      <4> HIDE DEF b
      <4> QED
        BY <1>0, FiltersCounted
    <3>3. ASSUME NEW k \in Keys
          PROVE  /\ IsFiniteSet(OwedTo(Fi, k))
                 /\ Cardinality(OwedTo(Fi, k)) = Cardinality(Times(filters, k))
      <4> DEFINE A == OwedTo(FiltersOwed("http", r), k)
                 B == OwedTo(FiltersOwed(b, r), k)
      <4>1. OwedTo(Fi, k) = A \cup B
        BY <2>2 DEF OwedTo
      <4>2. A \cap B = {}
        <5> SUFFICES ASSUME NEW x, x \in FiltersOwed("http", r),
                            x \in FiltersOwed(b, r)
                     PROVE  FALSE
          BY DEF OwedTo
        <5>1. x[1][1] = "http" /\ x[1][1] = b
          <6> HIDE DEF b
          <6> QED
            BY <1>0, <1>6
        <5> QED
          BY <1>0, <5>1
      <4> HIDE DEF own, Fi, filters
      <4>3. /\ IsFiniteSet(A \cup B)
            /\ Cardinality(A \cup B) = Cardinality(A) + Cardinality(B)
        BY <3>2, <4>2, DisjointUnion
      <4>4. Cardinality(Times(own("http") \o own(b), k))
              = Cardinality(Times(own("http"), k)) + Cardinality(Times(own(b), k))
        BY <3>2, TimesConcat
      <4> QED
        BY <3>1, <3>2, <4>1, <4>3, <4>4
    <3> HIDE DEF own
    <3>4. filters \in Seq(Keys)
      BY <3>1, <3>2
    <3> QED
      BY <3>3, <3>4
  <2> QED
    BY <2>1, <2>2
<1>8. /\ \A x \in Fi : x[1] = <<x[1][1], x[1][2]>> /\ x[1][2] \in Nat \ {0}
      /\ \A x \in Up : x[1] = <<"upstream", 0>>
      /\ \A x \in Ca : x[1] = <<"cache", 0>>
  <2>1. \A x \in FiltersOwed("http", r) \cup FiltersOwed(b, r) :
          x[1] = <<x[1][1], x[1][2]>> /\ x[1][2] \in Nat \ {0}
    <3> HIDE DEF b
    <3> QED
      BY <1>0, <1>6
  <2> QED
    BY <2>1
<1> HIDE DEF up, ca, filters, Up, Ca, Fi
<1>9. handler(r, refused) \in Seq(Keys)
  BY <1>3, <1>5, <1>7
<1>10. ASSUME NEW k \in Keys
       PROVE  /\ IsFiniteSet(OwedTo(Owed(r, refused), k))
              /\ Cardinality(OwedTo(Owed(r, refused), k))
                   = Cardinality(Times(handler(r, refused), k))
                       + IF ServerKey(r) = k THEN 1 ELSE 0
  <2> DEFINE Se == IF ServerKey(r) = k THEN {<<<<"server", 0>>, ServerKey(r)>>} ELSE {}
             U == OwedTo(Up, k)
             C == OwedTo(Ca, k)
             F == OwedTo(Fi, k)
  <2>1. OwedTo(Owed(r, refused), k) = ((Se \cup U) \cup C) \cup F
    BY <1>4 DEF OwedTo
  <2>2. Se \cap U = {} /\ (Se \cup U) \cap C = {} /\ ((Se \cup U) \cup C) \cap F = {}
    <3>1. \A x \in Se : x[1] = <<"server", 0>>
      OBVIOUS
    <3>2. \A x \in U : x[1] = <<"upstream", 0>>
      BY <1>8 DEF OwedTo
    <3>3. \A x \in C : x[1] = <<"cache", 0>>
      BY <1>8 DEF OwedTo
    <3>4. \A x \in F : x[1][2] # 0
      BY <1>8 DEF OwedTo
    <3> HIDE DEF Se, U, C, F
    <3>5. \A x \in (Se \cup U) \cup C : x[1][2] = 0
      BY <3>1, <3>2, <3>3
    <3> QED
      BY <3>1, <3>2, <3>3, <3>4, <3>5
  <2>3. IsFiniteSet(Se) /\ Cardinality(Se) = IF ServerKey(r) = k THEN 1 ELSE 0
    BY FS_EmptySet, FS_Singleton
  <2>4. IsFiniteSet(U) /\ IsFiniteSet(C) /\ IsFiniteSet(F)
    BY <1>5, <1>7
  <2>a. /\ Cardinality(U) = Cardinality(Times(up, k))
        /\ Cardinality(C) = Cardinality(Times(ca, k))
        /\ Cardinality(F) = Cardinality(Times(filters, k))
    BY <1>5, <1>7
  <2> HIDE DEF Se, U, C, F
  <2>5. /\ IsFiniteSet(Se \cup U)
        /\ Cardinality(Se \cup U) = Cardinality(Se) + Cardinality(U)
        /\ Cardinality(Se) \in Nat /\ Cardinality(U) \in Nat
    BY <2>2, <2>3, <2>4, DisjointUnion
  <2>6. /\ IsFiniteSet((Se \cup U) \cup C)
        /\ Cardinality((Se \cup U) \cup C) = Cardinality(Se \cup U) + Cardinality(C)
        /\ Cardinality(C) \in Nat
    BY <2>2, <2>4, <2>5, DisjointUnion
  <2>7. /\ IsFiniteSet(((Se \cup U) \cup C) \cup F)
        /\ Cardinality(((Se \cup U) \cup C) \cup F) = Cardinality((Se \cup U) \cup C) + Cardinality(F)
        /\ Cardinality(F) \in Nat
    BY <2>2, <2>4, <2>6, DisjointUnion
  <2>8. Cardinality(Times(handler(r, refused), k))
          = Cardinality(Times(up, k)) + Cardinality(Times(filters, k)) + Cardinality(Times(ca, k))
    <3> DEFINE uf == up \o filters
    <3>1. uf \in Seq(Keys)
      BY <1>5, <1>7
    <3> HIDE DEF uf
    <3>2. Cardinality(Times(uf \o ca, k)) = Cardinality(Times(uf, k)) + Cardinality(Times(ca, k))
      BY <1>5, <3>1, TimesConcat
    <3>3. Cardinality(Times(uf, k))
            = Cardinality(Times(up, k)) + Cardinality(Times(filters, k))
      BY <1>5, <1>7, TimesConcat DEF uf
    <3>4. \A n \in {up, filters, uf, ca} : Cardinality(Times(n, k)) \in Nat
      BY <1>5, <1>7, <3>1, TimesFinite
    <3> QED
      BY <1>3, <3>2, <3>3, <3>4 DEF uf
  <2> DEFINE s == Cardinality(Se)
             u == Cardinality(U)
             c == Cardinality(C)
             f == Cardinality(F)
  <2>9. s \in Nat /\ u \in Nat /\ c \in Nat /\ f \in Nat
    BY <2>5, <2>6, <2>7
  <2>10. /\ Cardinality(OwedTo(Owed(r, refused), k)) = s + u + c + f
         /\ Cardinality(Times(handler(r, refused), k)) = u + f + c
    BY <2>1, <2>5, <2>6, <2>7, <2>8, <2>a
  <2> HIDE DEF u, c, f
  <2> QED
    BY <2>1, <2>3, <2>7, <2>9, <2>10
<1> QED
  BY <1>9, <1>10
-----------------------------------------------------------------------------
(* The members of the sets s[d], told apart by d. *)
Tagged(C, s) == UNION {{d} \X s[d] : d \in C}

(* Tagging changes nothing about the size. *)
LEMMA TaggedOne ==
  ASSUME NEW c, NEW S, IsFiniteSet(S)
  PROVE  IsFiniteSet({c} \X S) /\ Cardinality({c} \X S) = Cardinality(S)
<1> DEFINE f == [x \in S |-> <<c, x>>]
<1>1. f \in [S -> {c} \X S]
  OBVIOUS
<1>2. \A x, y \in S : f[x] = f[y] => x = y
  OBVIOUS
<1>3. \A y \in {c} \X S : \E x \in S : f[x] = y
  OBVIOUS
<1> DEFINE T == {c} \X S
<1> HIDE DEF f, T
<1> QED
  BY <1>1, <1>2, <1>3, SameSize DEF T

(* Finitely many finite sets, told apart, are finite. *)
LEMMA TaggedFinite ==
  ASSUME NEW C, IsFiniteSet(C), NEW s, \A d \in C : IsFiniteSet(s[d])
  PROVE  IsFiniteSet(Tagged(C, s))
<1> DEFINE T == {{d} \X s[d] : d \in C}
           f == [d \in C |-> {d} \X s[d]]
<1>1. f \in Surjection(C, T)
  BY DEF Surjection
<1>2. \A U \in T : IsFiniteSet(U)
  <2>1. ASSUME NEW d \in C PROVE IsFiniteSet({d} \X s[d])
    <3>1. IsFiniteSet(s[d])
      OBVIOUS
    <3> QED
      BY <3>1, TaggedOne
  <2> QED
    BY <2>1
<1> HIDE DEF f, T
<1>3. IsFiniteSet(T)
  BY <1>1, FS_Surjection
<1>4. IsFiniteSet(UNION T)
  BY <1>2, <1>3, FS_UNION
<1> QED
  BY <1>4 DEF Tagged, T

(* The size of all is that of the others and of c's. *)
Splits(C, s, c) ==
  /\ Cardinality(Tagged(C, s)) = Cardinality(Tagged(C \ {c}, s)) + Cardinality(s[c])
  /\ Cardinality(Tagged(C \ {c}, s)) \in Nat /\ Cardinality(s[c]) \in Nat

(* One of the sets and the others. *)
LEMMA TaggedSplit ==
  ASSUME NEW C, IsFiniteSet(C), NEW s, \A d \in C : IsFiniteSet(s[d]), NEW c \in C
  PROVE  Splits(C, s, c)
<1> DEFINE A == Tagged(C \ {c}, s)
           B == {c} \X s[c]
<1>1. Tagged(C, s) = A \cup B
  BY DEF Tagged
<1>2. A \cap B = {}
  BY DEF Tagged
<1>3. IsFiniteSet(C \ {c})
  BY FS_Subset
<1>4. IsFiniteSet(A)
  BY <1>3, TaggedFinite
<1>5. IsFiniteSet(B) /\ Cardinality(B) = Cardinality(s[c])
  BY TaggedOne
<1> HIDE DEF A, B
<1>6. /\ Cardinality(A \cup B) = Cardinality(A) + Cardinality(B)
      /\ Cardinality(A) \in Nat /\ Cardinality(B) \in Nat
  BY <1>2, <1>4, <1>5, DisjointUnion
<1> QED
  BY <1>1, <1>5, <1>6 DEF A, Splits

(* What a request has still to count, as Still has it. *)
Left(log, q, k) == {i \in {0} : log} \cup {i \in DOMAIN q : q[i] = k}

(* One for the server in the log phase, and the queue. *)
LEMMA LeftCounted ==
  ASSUME NEW log \in BOOLEAN, NEW q \in Seq(Keys), NEW k
  PROVE  /\ IsFiniteSet(Left(log, q, k))
         /\ Cardinality(Left(log, q, k)) = (IF log THEN 1 ELSE 0) + Cardinality(Times(q, k))
         /\ Cardinality(Left(log, q, k)) \in Nat /\ Cardinality(Times(q, k)) \in Nat
<1> DEFINE A == {i \in {0} : log}
           B == Times(q, k)
<1>1. Left(log, q, k) = A \cup B
  BY DEF Left, Times
<1>2. /\ IsFiniteSet(B) /\ Cardinality(B) \in Nat
      /\ DOMAIN q = 1 .. Len(q) /\ Len(q) \in Nat
  BY TimesFinite
<1>3. A \cap B = {}
  BY <1>2 DEF Times
<1>4. IsFiniteSet(A) /\ Cardinality(A) = IF log THEN 1 ELSE 0
  <2>1. A = IF log THEN {0} ELSE {}
    OBVIOUS
  <2> HIDE DEF A
  <2> QED
    BY <2>1, FS_EmptySet, FS_Singleton
<1> HIDE DEF A, B
<1>5. /\ IsFiniteSet(A \cup B)
      /\ Cardinality(A \cup B) = Cardinality(A) + Cardinality(B)
  BY <1>2, <1>3, <1>4, DisjointUnion
<1> QED
  BY <1>1, <1>2, <1>4, <1>5 DEF B

(* What all requests have still to count in the node of k. *)
Lefts(p, r, q, k) ==
  [d \in Conns |-> Left(p[d] = "log" /\ ServerKey(r[d]) = k, q[d], k)]

(* Still and Outstanding in terms of Left. *)
LEMMA StillIs ==
  ASSUME NEW c \in Conns, NEW k
  PROVE  /\ Still(c, k) = Left(pc[c] = "log" /\ ServerKey(req[c]) = k, todo[c], k)
         /\ Still(c, k) = Lefts(pc, req, todo, k)[c]
BY DEF Still, Left, Lefts

(* All of it is the requests' own, told apart. *)
LEMMA OutstandingIs ==
  ASSUME NEW k
  PROVE  Outstanding(k) = Cardinality(Tagged(Conns, Lefts(pc, req, todo, k)))
<1> DEFINE s == Lefts(pc, req, todo, k)
<1>1. \A c \in Conns : Still(c, k) = s[c]
  BY StillIs
<1> HIDE DEF s
<1>2. {{c} \X Still(c, k) : c \in Conns} = {{c} \X s[c] : c \in Conns}
  BY <1>1
<1> QED
  BY <1>2 DEF Outstanding, Tagged, s

(* The same after a step. *)
LEMMA StillIsNext ==
  ASSUME NEW c \in Conns, NEW k
  PROVE  /\ Still(c, k)' = Left(pc'[c] = "log" /\ ServerKey(req'[c]) = k, todo'[c], k)
         /\ Still(c, k)' = Lefts(pc', req', todo', k)[c]
BY DEF Still, Left, Lefts

(* The same after a step. *)
LEMMA OutstandingIsNext ==
  ASSUME NEW k
  PROVE  Outstanding(k)' = Cardinality(Tagged(Conns, Lefts(pc', req', todo', k)))
<1> DEFINE s == Lefts(pc', req', todo', k)
<1>1. \A c \in Conns : Still(c, k)' = s[c]
  BY StillIsNext
<1> HIDE DEF s
<1>2. {{c} \X Still(c, k) : c \in Conns}' = {{c} \X s[c] : c \in Conns}
  BY <1>1
<1> QED
  BY <1>2 DEF Outstanding, Tagged, s

(* What one request has left is finite, whoever it is. *)
LEMMA LeftsFinite ==
  ASSUME NEW p, NEW r, NEW q \in [Conns -> Seq(Keys)], NEW k
  PROVE  /\ \A d \in Conns : /\ IsFiniteSet(Lefts(p, r, q, k)[d])
                             /\ Cardinality(Lefts(p, r, q, k)[d]) \in Nat
         /\ Cardinality(Tagged(Conns, Lefts(p, r, q, k))) \in Nat
<1> DEFINE s == Lefts(p, r, q, k)
<1>1. ASSUME NEW d \in Conns PROVE IsFiniteSet(s[d]) /\ Cardinality(s[d]) \in Nat
  <2>1. s[d] = Left(p[d] = "log" /\ ServerKey(r[d]) = k, q[d], k)
    BY DEF Lefts
  <2>2. q[d] \in Seq(Keys)
    OBVIOUS
  <2> HIDE DEF s
  <2> DEFINE log == p[d] = "log" /\ ServerKey(r[d]) = k
  <2>3. log \in BOOLEAN
    OBVIOUS
  <2> HIDE DEF log
  <2>4. IsFiniteSet(Left(log, q[d], k)) /\ Cardinality(Left(log, q[d], k)) \in Nat
    BY <2>2, <2>3, LeftCounted
  <2> QED
    BY <2>1, <2>4 DEF log
<1>2. IsFiniteSet(Conns)
  BY RequestAssumption
<1> HIDE DEF s
<1>3. Cardinality(Tagged(Conns, s)) \in Nat
  BY <1>1, <1>2, TaggedFinite, FS_CardinalityType
<1> QED
  BY <1>1, <1>3 DEF s

(* All change by what one of them changes.                                 *)
Moves(C, s, t, c) ==
  Cardinality(Tagged(C, t)) + Cardinality(s[c])
    = Cardinality(Tagged(C, s)) + Cardinality(t[c])

(* The others stay as they are. *)
LEMMA TaggedChange ==
  ASSUME NEW C, IsFiniteSet(C), NEW s, NEW t, NEW c \in C,
         \A d \in C : IsFiniteSet(s[d]), \A d \in C : IsFiniteSet(t[d]),
         \A d \in C \ {c} : t[d] = s[d]
  PROVE  Moves(C, s, t, c)
<1>1. Tagged(C \ {c}, t) = Tagged(C \ {c}, s)
  <2>1. {{d} \X t[d] : d \in C \ {c}} = {{d} \X s[d] : d \in C \ {c}}
    OBVIOUS
  <2> QED
    BY <2>1 DEF Tagged
<1>2. Splits(C, s, c)
  BY TaggedSplit
<1>3. Splits(C, t, c)
  BY TaggedSplit
<1> DEFINE n == Cardinality(Tagged(C \ {c}, s))
           a == Cardinality(s[c])
           b == Cardinality(t[c])
<1>4. /\ n \in Nat /\ a \in Nat /\ b \in Nat
      /\ Cardinality(Tagged(C, s)) = n + a /\ Cardinality(Tagged(C, t)) = n + b
  BY <1>1, <1>2, <1>3 DEF Splits
<1> HIDE DEF n, a, b
<1>5. (n + b) + a = (n + a) + b
  BY <1>4
<1> QED
  BY <1>4, <1>5 DEF a, b, Moves

(* The number of times request c has still to count itself. *)
LEMMA OutstandingChange ==
  ASSUME todo \in [Conns -> Seq(Keys)], todo' \in [Conns -> Seq(Keys)],
         NEW c \in Conns, NEW k,
         \A d \in Conns \ {c} :
           pc'[d] = pc[d] /\ req'[d] = req[d] /\ todo'[d] = todo[d]
  PROVE  /\ Outstanding(k) \in Nat /\ Outstanding(k)' \in Nat
         /\ Cardinality(Still(c, k)) \in Nat /\ Cardinality(Still(c, k)') \in Nat
         /\ Outstanding(k)' + Cardinality(Still(c, k))
              = Outstanding(k) + Cardinality(Still(c, k)')
<1> DEFINE s == Lefts(pc, req, todo, k)
           t == Lefts(pc', req', todo', k)
<1>1. Outstanding(k) = Cardinality(Tagged(Conns, s)) /\ Still(c, k) = s[c]
  BY StillIs, OutstandingIs
<1>2. Outstanding(k)' = Cardinality(Tagged(Conns, t)) /\ Still(c, k)' = t[c]
  BY StillIsNext, OutstandingIsNext
<1>3. /\ Cardinality(Tagged(Conns, s)) \in Nat /\ Cardinality(s[c]) \in Nat
      /\ Cardinality(Tagged(Conns, t)) \in Nat /\ Cardinality(t[c]) \in Nat
  BY LeftsFinite
<1>4. \A d \in Conns : IsFiniteSet(s[d])
  BY LeftsFinite
<1>5. \A d \in Conns : IsFiniteSet(t[d])
  BY LeftsFinite
<1>6. \A d \in Conns \ {c} : t[d] = s[d]
  BY DEF Lefts
<1>7. IsFiniteSet(Conns)
  BY RequestAssumption
<1> HIDE DEF s, t
<1>8. Moves(Conns, s, t, c)
  BY <1>4, <1>5, <1>6, <1>7, TaggedChange
<1> QED
  BY <1>1, <1>2, <1>3, <1>8 DEF Moves

(* A request has left its server and its queue. *)
LEMMA StillCounted ==
  ASSUME todo \in [Conns -> Seq(Keys)], NEW c \in Conns, NEW k
  PROVE  /\ Cardinality(Still(c, k)) =
              (IF pc[c] = "log" /\ ServerKey(req[c]) = k THEN 1 ELSE 0)
                + Cardinality(Times(todo[c], k))
         /\ Cardinality(Times(todo[c], k)) \in Nat
<1> DEFINE log == pc[c] = "log" /\ ServerKey(req[c]) = k
<1>1. log \in BOOLEAN /\ todo[c] \in Seq(Keys)
  OBVIOUS
<1>2. Still(c, k) = Left(log, todo[c], k)
  BY StillIs
<1> HIDE DEF log
<1> QED
  BY <1>1, <1>2, LeftCounted DEF log

(* The same after a step. *)
LEMMA StillCountedNext ==
  ASSUME todo' \in [Conns -> Seq(Keys)], NEW c \in Conns, NEW k
  PROVE  /\ Cardinality(Still(c, k)') =
              (IF pc'[c] = "log" /\ ServerKey(req'[c]) = k THEN 1 ELSE 0)
                + Cardinality(Times(todo'[c], k))
         /\ Cardinality(Times(todo'[c], k)) \in Nat
<1> DEFINE log == pc'[c] = "log" /\ ServerKey(req'[c]) = k
<1>1. log \in BOOLEAN /\ todo'[c] \in Seq(Keys)
  OBVIOUS
<1>2. Still(c, k)' = Left(log, todo'[c], k)
  BY StillIsNext
<1> HIDE DEF log
<1> QED
  BY <1>1, <1>2, LeftCounted DEF log

(* A step that leaves requests alone leaves alone what is outstanding. *)
LEMMA OutstandingSame ==
  ASSUME UNCHANGED <<pc, req, todo>>, NEW k
  PROVE  Outstanding(k)' = Outstanding(k)
BY OutstandingIs, OutstandingIsNext
-----------------------------------------------------------------------------
(* A step of request c that counts what it leaves out, or owes what it     *)
(* adds, keeps the account.                                                *)
LEMMA AccountKept ==
  ASSUME CountsOwed, NEW c \in Conns,
         todo \in [Conns -> Seq(Keys)], todo' \in [Conns -> Seq(Keys)],
         \A d \in Conns \ {c} :
           pc'[d] = pc[d] /\ req'[d] = req[d] /\ todo'[d] = todo[d],
         stat_request_counter \in [Keys -> Nat], due \in [Keys -> Nat],
         stat_request_counter' \in [Keys -> Nat],
         NEW n \in [Keys -> Nat], NEW m \in [Keys -> Int],
         \A k \in Keys : stat_request_counter'[k] = stat_request_counter[k] + n[k],
         \A k \in Keys : Cardinality(Still(c, k)') + n[k]
                           = Cardinality(Still(c, k)) + m[k],
         due' = [k \in Keys |-> due[k] + m[k]]
  PROVE  CountsOwed' /\ due' \in [Keys -> Nat]
<1>1. ASSUME NEW k \in Keys
      PROVE  /\ stat_request_counter'[k] + Outstanding(k)' = due'[k]
             /\ due'[k] \in Nat
  <2> DEFINE o == Outstanding(k)
             o2 == Outstanding(k)'
             s == Cardinality(Still(c, k))
             s2 == Cardinality(Still(c, k)')
             x == stat_request_counter[k]
             x2 == stat_request_counter'[k]
             y == due[k]
             y2 == due'[k]
             p == n[k]
             q == m[k]
  <2>1. /\ o \in Nat /\ o2 \in Nat /\ s \in Nat /\ s2 \in Nat
        /\ o2 + s = o + s2
    BY OutstandingChange
  <2>2. x + o = y
    BY DEF CountsOwed
  <2>3. x \in Nat /\ x2 \in Nat /\ y \in Nat /\ p \in Nat /\ q \in Int
    OBVIOUS
  <2>4. x2 = x + p /\ s2 + p = s + q /\ y2 = y + q
    OBVIOUS
  <2> HIDE DEF o, o2, s, s2, x, x2, y, y2, p, q
  <2>5. x2 + o2 = y2 /\ y2 \in Nat
    <3>1. y2 = x2 + o2
      BY <2>1, <2>2, <2>3, <2>4
    <3> QED
      BY <2>1, <2>3, <3>1
  <2> QED
    BY <2>5 DEF o2, x2, y2
<1>2. due' \in [Keys -> Nat]
  BY <1>1
<1> QED
  BY <1>1, <1>2 DEF CountsOwed

(* A step that neither counts nor owes, and changes no queue. *)
LEMMA AccountSame ==
  ASSUME CountsOwed, NEW c \in Conns,
         todo \in [Conns -> Seq(Keys)], todo' \in [Conns -> Seq(Keys)],
         \A d \in Conns \ {c} :
           pc'[d] = pc[d] /\ req'[d] = req[d] /\ todo'[d] = todo[d],
         stat_request_counter \in [Keys -> Nat], due \in [Keys -> Nat],
         UNCHANGED <<stat_request_counter, due>>,
         pc[c] # "log", pc'[c] # "log", todo'[c] = todo[c]
  PROVE  CountsOwed'
<1> DEFINE n == [k \in Keys |-> 0]
<1>1. n \in [Keys -> Nat] /\ n \in [Keys -> Int]
  OBVIOUS
<1>2. \A k \in Keys : Cardinality(Still(c, k)') + n[k] = Cardinality(Still(c, k)) + n[k]
  <2> SUFFICES ASSUME NEW k \in Keys PROVE Cardinality(Still(c, k)') = Cardinality(Still(c, k))
    OBVIOUS
  <2>1. Still(c, k) = Left(FALSE, todo[c], k) /\ Still(c, k)' = Left(FALSE, todo'[c], k)
    <3>1. (pc[c] = "log" /\ ServerKey(req[c]) = k) = FALSE
      OBVIOUS
    <3>2. (pc'[c] = "log" /\ ServerKey(req'[c]) = k) = FALSE
      OBVIOUS
    <3> QED
      BY <3>1, <3>2, StillIs, StillIsNext
  <2> QED
    BY <2>1
<1>3. \A k \in Keys : stat_request_counter'[k] = stat_request_counter[k] + n[k]
  OBVIOUS
<1>4. due' = [k \in Keys |-> due[k] + n[k]]
  OBVIOUS
<1> HIDE DEF n
<1> QED
  BY <1>1, <1>2, <1>3, <1>4, AccountKept

(* What OwedInv and IInv say of types. *)
LEMMA OwedTypes ==
  ASSUME OwedInv, IInv
  PROVE  /\ TypeOK /\ CountsOwed /\ TodoInv /\ PathInv /\ CountInv
         /\ todo \in [Conns -> Seq(Keys)] /\ due \in [Keys -> Nat]
         /\ stat_request_counter \in [Keys -> Nat]
         /\ pc \in [Conns -> {"idle", "limit", "serve", "log", "done"}]
BY DEF OwedInv, IInv, TypeOK
-----------------------------------------------------------------------------
(* A restored node is owed its restored count. *)
LEMMA InitOwed == Init => OwedInv
<1> SUFFICES ASSUME Init PROVE OwedInv
  OBVIOUS
<1>1. TypeOK
  <2>1. live \subseteq Keys
    BY KeyAssumption DEF Init
  <2>2. stat_request_counter \in [Keys -> Nat]
    BY DEF Init
  <2>3. served \in [Blocks -> [Keys -> Nat]]
    BY DEF Init
  <2>4. todo \in [Conns -> Seq(Keys)]
    BY DEF Init
  <2>5. /\ pc \in [Conns -> {"idle", "limit", "serve", "log", "done"}]
        /\ req \in [Conns -> Requests \cup {<<>>}]
        /\ gate \in [Conns -> 0 .. 4] /\ code \in [Conns -> Nat]
        /\ stat_5xx_counter \in [Keys -> Nat]
        /\ taken \in Nat /\ commands \in Nat
    BY DEF Init
  <2> QED
    BY <2>1, <2>2, <2>3, <2>4, <2>5 DEF TypeOK, Init
<1>2. CountsOwed
  <2> SUFFICES ASSUME NEW k \in Keys
               PROVE  stat_request_counter[k] + Outstanding(k) = due[k]
    BY DEF CountsOwed
  <2>1. \A c \in Conns : Still(c, k) = {}
    BY DEF Still, Init
  <2>2. UNION {{c} \X Still(c, k) : c \in Conns} = {}
    BY <2>1
  <2>3. Outstanding(k) = 0
    BY <2>2, FS_EmptySet DEF Outstanding
  <2> QED
    BY <2>3 DEF Init
<1>3. TodoInv
  BY DEF Init, TodoInv
<1> QED
  BY <1>1, <1>2, <1>3 DEF OwedInv

(* Reading the configuration counts nothing. *)
LEMMA ConfigureOwed ==
  ASSUME OwedInv, IInv, Configure
  PROVE  OwedInv'
<1>1. UNCHANGED <<pc, req, gate, code, todo, live, stat_request_counter,
                  stat_5xx_counter, taken, commands, due, served>>
  BY DEF Configure, flight, counters
<1>2. TypeOK' /\ TodoInv'
  BY <1>1, OwedTypes DEF TypeOK, TodoInv
<1>3. CountsOwed'
  BY <1>1, OwedTypes, OutstandingSame DEF CountsOwed
<1> QED
  BY <1>2, <1>3 DEF OwedInv

(* A new request owes nothing yet. *)
LEMMA TakeOwed ==
  ASSUME OwedInv, IInv, NEW c \in Conns, NEW r \in Requests, Take(c, r)
  PROVE  OwedInv'
<1>1. /\ UNCHANGED <<gate, code, todo, live, stat_request_counter,
                     stat_5xx_counter, commands, due, served>>
      /\ pc[c] = "idle" /\ taken' = taken + 1
      /\ pc' = [pc EXCEPT ![c] = pc'[c]] /\ pc'[c] \in {"limit", "serve"}
      /\ req' = [req EXCEPT ![c] = r]
  BY OwedTypes DEF Take, counters
<1>2. TypeOK'
  <2>1. pc' \in [Conns -> {"idle", "limit", "serve", "log", "done"}]
    BY <1>1, OwedTypes
  <2>2. req' \in [Conns -> Requests \cup {<<>>}]
    BY <1>1, OwedTypes DEF TypeOK
  <2>3. taken' \in Nat
    BY <1>1, OwedTypes DEF TypeOK
  <2> QED
    BY <1>1, <2>1, <2>2, <2>3, OwedTypes DEF TypeOK
<1>3. TodoInv'
  BY <1>1, OwedTypes DEF TodoInv
<1>4. CountsOwed'
  <2>1. \A d \in Conns \ {c} : pc'[d] = pc[d] /\ req'[d] = req[d] /\ todo'[d] = todo[d]
    BY <1>1, OwedTypes DEF TypeOK
  <2>2. pc'[c] # "log"
    BY <1>1
  <2> QED
    BY <1>1, <2>1, <2>2, OwedTypes, AccountSame
<1> QED
  BY <1>2, <1>3, <1>4 DEF OwedInv

(* A refusal has the code of its limit. *)
LEMMA CodeTyped ==
  ASSUME ConfTypeOK, NEW b \in Blocks, NEW a \in Limits, NEW r
  PROVE  limit_handler_traffic(conf[b][a], r) \in Nat
<1> DEFINE limits == conf[b][a]
           over == {i \in DOMAIN limits : Exceeded(limits[i], r)}
           D == Directives(file, a)
<1>1. limits \in Seq(D) /\ file \in Files
  BY DEF ConfTypeOK, Arrays, Limits
<1>2. \A d \in D : d.code \in Nat
  BY <1>1, RequestAssumption
<1> HIDE DEF D, limits
<1>3. /\ DOMAIN limits \in SUBSET Nat
      /\ \A i \in DOMAIN limits : limits[i].code \in Nat
  BY <1>1, <1>2
<1>4. over # {} => Min(over) \in over
  BY <1>3, MinIn
<1> QED
  BY <1>3, <1>4 DEF limit_handler_traffic, limits

(* Passing or not passing a limit counts nothing. *)
LEMMA LimitHandlerOwed ==
  ASSUME OwedInv, IInv, ConfTypeOK, NEW c \in Conns, LimitHandler(c)
  PROVE  OwedInv'
<1> DEFINE rc == limit_handler_traffic(limit_handler(req[c].block)[gate[c] + 1], req[c])
<1>1. /\ UNCHANGED <<req, todo, live, stat_request_counter,
                     stat_5xx_counter, taken, commands, due, served>>
      /\ pc[c] = "limit"
      /\ pc' = [pc EXCEPT ![c] = pc'[c]] /\ pc'[c] \in {"limit", "serve"}
      /\ gate' = [gate EXCEPT ![c] = gate[c] + 1]
      /\ code' = [code EXCEPT ![c] = rc]
  BY OwedTypes DEF LimitHandler, counters
<1>2. gate[c] \in 0 .. 3 /\ req[c] \in Requests
  <2>1. gate[c] \in 0 .. 4 /\ gate[c] < 4 /\ req[c] \in Requests
    BY <1>1, OwedTypes DEF TypeOK, PathInv
  <2> QED
    BY <2>1
<1>3. rc \in Nat
  <2>1. req[c].block \in Blocks /\ "http" \in Blocks
    BY <1>2, RequestAssumption DEF Blocks
  <2>2. PICK b \in Blocks, a \in Limits : limit_handler(req[c].block)[gate[c] + 1] = conf[b][a]
    BY <1>2, <2>1 DEF limit_handler, Limits
  <2> QED
    BY <2>2, CodeTyped
<1> HIDE DEF rc
<1>4. TypeOK'
  <2>1. gate' \in [Conns -> 0 .. 4] /\ code' \in [Conns -> Nat]
    BY <1>1, <1>2, <1>3, OwedTypes DEF TypeOK
  <2>2. pc' \in [Conns -> {"idle", "limit", "serve", "log", "done"}]
    BY <1>1, OwedTypes
  <2> QED
    BY <1>1, <2>1, <2>2, OwedTypes DEF TypeOK
<1>5. TodoInv'
  BY <1>1, OwedTypes DEF TodoInv
<1>6. CountsOwed'
  <2>1. \A d \in Conns \ {c} : pc'[d] = pc[d] /\ req'[d] = req[d] /\ todo'[d] = todo[d]
    BY <1>1, OwedTypes
  <2>2. pc'[c] # "log" /\ todo'[c] = todo[c] /\ todo' \in [Conns -> Seq(Keys)]
    BY <1>1, OwedTypes
  <2> QED
    BY <1>1, <2>1, <2>2, OwedTypes, AccountSame
<1> QED
  BY <1>4, <1>5, <1>6 DEF OwedInv
-----------------------------------------------------------------------------
(* The log phase begins with what the request owes. *)
LEMMA HandlerOwed ==
  ASSUME OwedInv, IInv, ConfInv, HashesNear, HashesApart,
         NEW c \in Conns, Handler(c)
  PROVE  OwedInv'
<1> DEFINE r == req[c]
           refused == code[c] # 0
           m == [k \in Keys |-> Cardinality(OwedTo(Owed(r, refused), k))]
           zero == [k \in Keys |-> 0]
<1>1. /\ UNCHANGED <<req, gate, code, live, stat_request_counter,
                     stat_5xx_counter, taken, commands, served>>
      /\ pc[c] = "serve"
      /\ pc' = [pc EXCEPT ![c] = IF Counting(r.block) THEN "log" ELSE "done"]
      /\ todo' = [todo EXCEPT ![c] =
           IF Counting(r.block) THEN handler(r, refused) ELSE <<>>]
      /\ due' = [k \in Keys |-> due[k] + m[k]]
  BY DEF Handler, counters, OwedTo
<1>2. r \in Requests /\ stage = "serve" /\ todo[c] = <<>>
  BY <1>1, OwedTypes DEF PathInv, TodoInv
<1>3. /\ handler(r, refused) \in Seq(Keys) \/ ~Counting(r.block)
      /\ m \in [Keys -> Int]
      /\ \A k \in Keys : m[k] =
           IF Counting(r.block)
             THEN Cardinality(Times(handler(r, refused), k))
                    + IF ServerKey(r) = k THEN 1 ELSE 0
             ELSE 0
  <2>1. CASE Counting(r.block)
    <3>1. refused \in BOOLEAN
      OBVIOUS
    <3> HIDE DEF r, refused
    <3>2. /\ handler(r, refused) \in Seq(Keys)
          /\ \A k \in Keys :
               /\ IsFiniteSet(OwedTo(Owed(r, refused), k))
               /\ Cardinality(OwedTo(Owed(r, refused), k))
                    = Cardinality(Times(handler(r, refused), k))
                        + IF ServerKey(r) = k THEN 1 ELSE 0
      BY <1>2, <2>1, <3>1, HandlerCounted
    <3>3. \A k \in Keys : Cardinality(OwedTo(Owed(r, refused), k)) \in Int
      BY <3>2, FS_CardinalityType
    <3> QED
      BY <2>1, <3>2, <3>3
  <2>2. CASE ~Counting(r.block)
    <3>1. Owed(r, refused) = {}
      BY <2>2 DEF Owed
    <3>2. \A k \in Keys : m[k] = 0
      BY <3>1, FS_EmptySet DEF OwedTo
    <3> QED
      BY <2>2, <3>2
  <2> QED
    BY <2>1, <2>2
<1> HIDE DEF r, refused, m
<1>4. /\ pc'[c] = (IF Counting(r.block) THEN "log" ELSE "done")
      /\ todo'[c] = (IF Counting(r.block) THEN handler(r, refused) ELSE <<>>)
      /\ req'[c] = r
      /\ \A d \in Conns \ {c} : pc'[d] = pc[d] /\ req'[d] = req[d] /\ todo'[d] = todo[d]
  BY <1>1, OwedTypes DEF r
<1>5. todo' \in [Conns -> Seq(Keys)]
  BY <1>1, <1>3, OwedTypes
<1>6. pc' \in [Conns -> {"idle", "limit", "serve", "log", "done"}]
  BY <1>1, OwedTypes
<1>7. ASSUME NEW k \in Keys
      PROVE  Cardinality(Still(c, k)') + zero[k] = Cardinality(Still(c, k)) + m[k]
  <2> DEFINE t == Cardinality(Times(handler(r, refused), k))
             own == IF ServerKey(r) = k THEN 1 ELSE 0
  <2>1. Cardinality(Still(c, k)) = 0
    <3>1. Cardinality(Still(c, k)) =
            (IF pc[c] = "log" /\ ServerKey(req[c]) = k THEN 1 ELSE 0)
              + Cardinality(Times(todo[c], k))
      BY OwedTypes, StillCounted
    <3>2. Cardinality(Times(todo[c], k)) = 0
      BY <1>2, TimesOne
    <3> QED
      BY <1>1, <3>1, <3>2
  <2>2. CASE Counting(r.block)
    <3>1. Cardinality(Still(c, k)') = own + t
      BY <1>4, <1>5, <2>2, StillCountedNext
    <3>2. t \in Nat /\ own \in Nat
      BY <1>3, <2>2, TimesFinite
    <3>3. m[k] = t + own
      BY <1>3, <2>2
    <3> HIDE DEF t, own
    <3> QED
      BY <2>1, <3>1, <3>2, <3>3
  <2>3. CASE ~Counting(r.block)
    <3>1. Cardinality(Still(c, k)') = 0
      <4>1. Cardinality(Still(c, k)') =
              (IF pc'[c] = "log" /\ ServerKey(req'[c]) = k THEN 1 ELSE 0)
                + Cardinality(Times(todo'[c], k))
        BY <1>5, StillCountedNext
      <4>2. Cardinality(Times(todo'[c], k)) = 0
        BY <1>4, <2>3, TimesOne
      <4>3. pc'[c] # "log"
        BY <1>4, <2>3
      <4> QED
        BY <4>1, <4>2, <4>3
    <3> QED
      BY <1>3, <2>1, <2>3, <3>1
  <2> QED
    BY <2>2, <2>3
<1>8. CountsOwed' /\ due' \in [Keys -> Nat]
  <2>1. zero \in [Keys -> Nat]
    OBVIOUS
  <2>2. \A k \in Keys : stat_request_counter'[k] = stat_request_counter[k] + zero[k]
    BY <1>1, OwedTypes
  <2>3. stat_request_counter' \in [Keys -> Nat]
    BY <1>1, OwedTypes
  <2>4. /\ m \in [Keys -> Int]
        /\ due' = [k \in Keys |-> due[k] + m[k]]
        /\ \A d \in Conns \ {c} :
             pc'[d] = pc[d] /\ req'[d] = req[d] /\ todo'[d] = todo[d]
    BY <1>1, <1>3, <1>4
  <2>5. \A k \in Keys :
          Cardinality(Still(c, k)') + zero[k] = Cardinality(Still(c, k)) + m[k]
    BY <1>7
  <2> HIDE DEF zero
  <2> QED
    BY <1>5, <2>1, <2>2, <2>3, <2>4, <2>5, OwedTypes, AccountKept
<1>9. TypeOK'
  BY <1>1, <1>5, <1>6, <1>8, OwedTypes DEF TypeOK
<1>10. TodoInv'
  BY <1>1, OwedTypes DEF TodoInv
<1> QED
  BY <1>8, <1>9, <1>10 DEF OwedInv

(* Counting a node of Keys keeps the counters counts of Keys. *)
LEMMA NodeTyped ==
  ASSUME OwedInv, IInv, NEW n \in Keys, NEW e, shm_add_node(n, e)
  PROVE  live' \subseteq Keys /\ stat_5xx_counter' \in [Keys -> Nat]
<1>1. live \subseteq Keys /\ stat_5xx_counter \in [Keys -> Nat]
  BY OwedTypes DEF TypeOK
<1> DEFINE x == IF n \in live THEN stat_5xx_counter[n] ELSE 0
<1>2. x \in Nat
  BY <1>1
<1>3. stat_5xx_counter' = [stat_5xx_counter EXCEPT ![n] = IF e THEN x + 1 ELSE x]
  BY DEF shm_add_node
<1>4. (IF e THEN x + 1 ELSE x) \in Nat
  BY <1>2
<1> HIDE DEF x
<1>5. stat_5xx_counter' \in [Keys -> Nat]
  BY <1>1, <1>3, <1>4
<1> QED
  BY <1>1, <1>5 DEF shm_add_node

(* The node of the server. *)
LEMMA AddServerOwed ==
  ASSUME OwedInv, IInv, IInv', NEW c \in Conns, AddServer(c)
  PROVE  OwedInv'
<1> DEFINE s == ServerKey(req[c])
           n == [k \in Keys |-> IF k = s THEN 1 ELSE 0]
           zero == [k \in Keys |-> 0]
           e == IsError(c)
<1>1. /\ UNCHANGED <<req, gate, code, todo, taken, commands, due>>
      /\ pc[c] = "log" /\ pc' = [pc EXCEPT ![c] = "done"]
      /\ shm_add_node(s, e)
  BY DEF AddServer
<1>2. s \in Keys
  BY <1>1, OwedTypes, KeyAssumption DEF PathInv
<1> HIDE DEF s, e
<1>4. live' \subseteq Keys /\ stat_5xx_counter' \in [Keys -> Nat]
  BY <1>1, <1>2, NodeTyped
<1>5. /\ stat_request_counter' \in [Keys -> Nat]
      /\ \A k \in Keys : stat_request_counter'[k] =
           IF k = s THEN stat_request_counter[k] + 1 ELSE stat_request_counter[k]
  BY <1>1, OwedTypes, NodeCounted
<1>6. /\ pc'[c] = "done"
      /\ \A d \in Conns \ {c} : pc'[d] = pc[d] /\ req'[d] = req[d] /\ todo'[d] = todo[d]
      /\ todo' \in [Conns -> Seq(Keys)]
  BY <1>1, OwedTypes
<1>7. ASSUME NEW k \in Keys
      PROVE  Cardinality(Still(c, k)') + n[k] = Cardinality(Still(c, k)) + zero[k]
  <2> DEFINE t == Cardinality(Times(todo[c], k))
  <2>1. /\ Cardinality(Still(c, k)) = (IF s = k THEN 1 ELSE 0) + t
        /\ t \in Nat
    BY <1>1, OwedTypes, StillCounted DEF s
  <2>2. Cardinality(Still(c, k)') = 0 + Cardinality(Times(todo'[c], k))
    BY <1>6, StillCountedNext
  <2>3. todo'[c] = todo[c]
    BY <1>1
  <2>4. Cardinality(Still(c, k)') = 0 + t
    BY <2>2, <2>3
  <2>5. n[k] = (IF s = k THEN 1 ELSE 0) /\ zero[k] = 0
    OBVIOUS
  <2> HIDE DEF t, n, zero
  <2> QED
    BY <2>1, <2>4, <2>5
<1>8. CountsOwed' /\ due' \in [Keys -> Nat]
  <2>1. n \in [Keys -> Nat] /\ zero \in [Keys -> Int]
    OBVIOUS
  <2>2. \A k \in Keys : stat_request_counter'[k] = stat_request_counter[k] + n[k]
    BY <1>5, OwedTypes
  <2>3. due' = [k \in Keys |-> due[k] + zero[k]]
    BY <1>1, OwedTypes
  <2> HIDE DEF n, zero
  <2> QED
    BY <1>5, <1>6, <1>7, <2>1, <2>2, <2>3, OwedTypes, AccountKept
<1>9. TypeOK'
  <2>1. served' \in [Blocks -> [Keys -> Nat]]
    BY DEF IInv, CountInv
  <2>2. pc' \in [Conns -> {"idle", "limit", "serve", "log", "done"}]
    BY <1>1, OwedTypes
  <2> QED
    BY <1>1, <1>4, <1>5, <1>6, <1>8, <2>1, <2>2, OwedTypes DEF TypeOK
<1>10. TodoInv'
  BY <1>1, OwedTypes DEF TodoInv
<1> QED
  BY <1>8, <1>9, <1>10 DEF OwedInv

(* The next node of the queue. *)
LEMMA AddNodeOwed ==
  ASSUME OwedInv, IInv, IInv', NEW c \in Conns, AddNode(c)
  PROVE  OwedInv'
<1> DEFINE q == todo[c]
           s == Head(q)
           n == [k \in Keys |-> IF k = s THEN 1 ELSE 0]
           zero == [k \in Keys |-> 0]
           e == IsError(c)
<1>1. /\ UNCHANGED <<pc, req, gate, code, taken, commands, due, served>>
      /\ pc[c] = "done" /\ q # <<>>
      /\ todo' = [todo EXCEPT ![c] = Tail(q)]
      /\ shm_add_node(s, e)
  BY DEF AddNode
<1>2. q \in Seq(Keys) /\ Tail(q) \in Seq(Keys) /\ s \in Keys
  <2>1. q \in Seq(Keys)
    BY OwedTypes
  <2> HIDE DEF q
  <2> QED
    BY <1>1, <2>1
<1> HIDE DEF s, e
<1>4. live' \subseteq Keys /\ stat_5xx_counter' \in [Keys -> Nat]
  BY <1>1, <1>2, NodeTyped
<1>5. /\ stat_request_counter' \in [Keys -> Nat]
      /\ \A k \in Keys : stat_request_counter'[k] =
           IF k = s THEN stat_request_counter[k] + 1 ELSE stat_request_counter[k]
  BY <1>1, OwedTypes, NodeCounted
<1>6. /\ pc'[c] = "done" /\ todo'[c] = Tail(q)
      /\ \A d \in Conns \ {c} : pc'[d] = pc[d] /\ req'[d] = req[d] /\ todo'[d] = todo[d]
      /\ todo' \in [Conns -> Seq(Keys)]
  BY <1>1, <1>2, OwedTypes
<1>7. ASSUME NEW k \in Keys
      PROVE  Cardinality(Still(c, k)') + n[k] = Cardinality(Still(c, k)) + zero[k]
  <2> DEFINE t == Cardinality(Times(q, k))
             t2 == Cardinality(Times(Tail(q), k))
             one == IF s = k THEN 1 ELSE 0
  <2>1. Cardinality(Still(c, k)) = 0 + t /\ t \in Nat
    BY <1>1, OwedTypes, StillCounted
  <2>2. Cardinality(Still(c, k)') = 0 + t2 /\ t2 \in Nat
    BY <1>6, StillCountedNext
  <2>3. t = t2 + one
    <3> HIDE DEF q
    <3> QED
      BY <1>1, <1>2, TimesTail DEF s
  <2>4. n[k] = one /\ zero[k] = 0 /\ one \in Nat
    OBVIOUS
  <2> HIDE DEF t, t2, n, zero, one
  <2> QED
    BY <2>1, <2>2, <2>3, <2>4
<1>8. CountsOwed' /\ due' \in [Keys -> Nat]
  <2>1. n \in [Keys -> Nat] /\ zero \in [Keys -> Int]
    OBVIOUS
  <2>2. \A k \in Keys : stat_request_counter'[k] = stat_request_counter[k] + n[k]
    BY <1>5, OwedTypes
  <2>3. due' = [k \in Keys |-> due[k] + zero[k]]
    BY <1>1, OwedTypes
  <2> HIDE DEF n, zero
  <2> QED
    BY <1>5, <1>6, <1>7, <2>1, <2>2, <2>3, OwedTypes, AccountKept
<1>9. TypeOK'
  BY <1>1, <1>4, <1>5, <1>6, <1>8, OwedTypes DEF TypeOK
<1>10. TodoInv'
  BY <1>1, OwedTypes DEF TodoInv
<1> QED
  BY <1>8, <1>9, <1>10 DEF OwedInv
-----------------------------------------------------------------------------
(* A request that is forgotten has nothing left to count. *)
LEMMA ForgetOwed ==
  ASSUME OwedInv, IInv, NEW c \in Conns, Forget(c),
         UNCHANGED <<counters, taken, commands, served>>
  PROVE  /\ TodoInv' /\ todo' \in [Conns -> Seq(Keys)]
         /\ due' \in [Keys -> Nat] => TypeOK'
         /\ \A d \in Conns \ {c} :
              pc'[d] = pc[d] /\ req'[d] = req[d] /\ todo'[d] = todo[d]
         /\ \A k \in Keys : Cardinality(Still(c, k)') = 0
<1>1. UNCHANGED <<live, stat_request_counter, stat_5xx_counter, taken, commands, served>>
  BY DEF counters
<1>2. /\ pc' = [pc EXCEPT ![c] = "idle"] /\ req' = [req EXCEPT ![c] = <<>>]
      /\ gate' = [gate EXCEPT ![c] = 0] /\ code' = [code EXCEPT ![c] = 0]
      /\ todo' = [todo EXCEPT ![c] = <<>>]
  BY DEF Forget
<1>3. todo' \in [Conns -> Seq(Keys)] /\ todo'[c] = <<>> /\ pc'[c] = "idle"
  BY <1>2, OwedTypes
<1>4. \A d \in Conns \ {c} : pc'[d] = pc[d] /\ req'[d] = req[d] /\ todo'[d] = todo[d]
  BY <1>2, OwedTypes DEF TypeOK
<1>5. ASSUME due' \in [Keys -> Nat] PROVE TypeOK'
  <2>1. /\ pc' \in [Conns -> {"idle", "limit", "serve", "log", "done"}]
        /\ req' \in [Conns -> Requests \cup {<<>>}]
    BY <1>2, OwedTypes DEF TypeOK
  <2>2. gate' \in [Conns -> 0 .. 4] /\ code' \in [Conns -> Nat]
    BY <1>2, OwedTypes DEF TypeOK
  <2> QED
    BY <1>1, <1>3, <1>5, <2>1, <2>2, OwedTypes DEF TypeOK
<1>6. TodoInv'
  BY <1>2, <1>3, OwedTypes DEF TodoInv
<1>7. ASSUME NEW k \in Keys PROVE Cardinality(Still(c, k)') = 0
  <2>1. Cardinality(Still(c, k)') =
          (IF pc'[c] = "log" /\ ServerKey(req'[c]) = k THEN 1 ELSE 0)
            + Cardinality(Times(todo'[c], k))
    BY <1>3, StillCountedNext
  <2>2. Cardinality(Times(todo'[c], k)) = 0
    BY <1>3, TimesOne
  <2> QED
    BY <1>3, <2>1, <2>2
<1> QED
  BY <1>3, <1>4, <1>5, <1>6, <1>7

(* A request ends with nothing left. *)
LEMMA EndOwed ==
  ASSUME OwedInv, IInv, NEW c \in Conns, End(c)
  PROVE  OwedInv'
<1>1. /\ Forget(c) /\ UNCHANGED <<counters, taken, commands, served>>
      /\ pc[c] = "done" /\ todo[c] = <<>> /\ due' = due
      /\ UNCHANGED stat_request_counter
  BY DEF End, counters
<1>2. /\ TodoInv' /\ todo' \in [Conns -> Seq(Keys)]
      /\ due' \in [Keys -> Nat] => TypeOK'
      /\ \A d \in Conns \ {c} :
           pc'[d] = pc[d] /\ req'[d] = req[d] /\ todo'[d] = todo[d]
  BY <1>1, ForgetOwed
<1>3. pc'[c] = "idle" /\ todo'[c] = todo[c]
  BY <1>1, OwedTypes DEF Forget
<1>4. CountsOwed'
  BY <1>1, <1>2, <1>3, OwedTypes, AccountSame
<1> QED
  BY <1>1, <1>2, <1>4, OwedTypes DEF OwedInv

(* What a killed request had left is not owed any more. *)
LEMMA CrashOwed ==
  ASSUME OwedInv, IInv, NEW c \in Conns, Crash(c)
  PROVE  OwedInv'
<1> DEFINE m == [k \in Keys |-> 0 - Cardinality(Still(c, k))]
           zero == [k \in Keys |-> 0]
<1>1. /\ Forget(c) /\ UNCHANGED <<counters, taken, commands, served>>
      /\ due' = [k \in Keys |-> due[k] - Cardinality(Still(c, k))]
      /\ UNCHANGED stat_request_counter
  BY DEF Crash, counters
<1>2. /\ TodoInv' /\ todo' \in [Conns -> Seq(Keys)]
      /\ due' \in [Keys -> Nat] => TypeOK'
      /\ \A d \in Conns \ {c} :
           pc'[d] = pc[d] /\ req'[d] = req[d] /\ todo'[d] = todo[d]
      /\ \A k \in Keys : Cardinality(Still(c, k)') = 0
  BY <1>1, ForgetOwed
<1>3. ASSUME NEW k \in Keys
      PROVE  /\ m[k] \in Int /\ due[k] - Cardinality(Still(c, k)) = due[k] + m[k]
             /\ Cardinality(Still(c, k)') + zero[k] = Cardinality(Still(c, k)) + m[k]
  <2> DEFINE s == Cardinality(Still(c, k))
             s2 == Cardinality(Still(c, k)')
             d == due[k]
  <2>1. s \in Nat /\ s2 = 0 /\ d \in Nat
    BY <1>2, OwedTypes, OutstandingChange
  <2>2. m[k] = 0 - s /\ zero[k] = 0
    OBVIOUS
  <2> HIDE DEF m, zero, s, s2, d
  <2>3. m[k] \in Int /\ d - s = d + m[k] /\ s2 + zero[k] = s + m[k]
    BY <2>1, <2>2
  <2> QED
    BY <2>3 DEF s, s2, d
<1>4. CountsOwed' /\ due' \in [Keys -> Nat]
  <2>1. zero \in [Keys -> Nat]
    OBVIOUS
  <2>2. m \in [Keys -> Int]
    BY <1>3
  <2>3. stat_request_counter' \in [Keys -> Nat]
    BY <1>1, OwedTypes
  <2>4. \A k \in Keys : stat_request_counter'[k] = stat_request_counter[k] + zero[k]
    BY <1>1, OwedTypes
  <2>5. due' = [k \in Keys |-> due[k] + m[k]]
    BY <1>1, <1>3
  <2>6. \A k \in Keys :
          Cardinality(Still(c, k)') + zero[k] = Cardinality(Still(c, k)) + m[k]
    BY <1>3
  <2> HIDE DEF m, zero
  <2> QED
    BY <1>2, <2>1, <2>2, <2>3, <2>4, <2>5, <2>6, OwedTypes, AccountKept
<1> QED
  BY <1>2, <1>4 DEF OwedInv

(* A deleted or reset node is owed what has still to be counted. *)
LEMMA ZeroedOwed ==
  ASSUME OwedInv, IInv, IInv', NEW S, Zeroed(S), UNCHANGED <<confVars, flight>>,
         live' = live \/ live' = live \ S, taken' = taken, commands' = commands + 1
  PROVE  OwedInv'
<1>1. UNCHANGED <<pc, req, gate, code, todo, taken>>
  BY DEF flight
<1>2. /\ \A k \in Keys : stat_request_counter'[k] =
           IF k \in S THEN 0 ELSE stat_request_counter[k]
      /\ due' = [k \in Keys |-> IF k \in S THEN Outstanding(k) ELSE due[k]]
      /\ stat_5xx_counter' =
           [k \in Keys |-> IF k \in S THEN 0 ELSE stat_5xx_counter[k]]
  BY DEF Zeroed
<1>3. ASSUME NEW k \in Keys PROVE Outstanding(k) \in Nat /\ Outstanding(k)' = Outstanding(k)
  <2>1. Outstanding(k)' = Outstanding(k)
    BY <1>1, OutstandingSame
  <2>2. Outstanding(k) \in Nat
    BY OwedTypes, OutstandingIs, LeftsFinite
  <2> QED
    BY <2>1, <2>2
<1>4. due' \in [Keys -> Nat]
  BY <1>2, <1>3, OwedTypes
<1>5. CountsOwed'
  <2> SUFFICES ASSUME NEW k \in Keys
               PROVE  stat_request_counter'[k] + Outstanding(k)' = due'[k]
    BY DEF CountsOwed
  <2>1. stat_request_counter[k] + Outstanding(k) = due[k]
    BY OwedTypes DEF CountsOwed
  <2> QED
    BY <1>2, <1>3, <2>1
<1>6. TypeOK'
  <2>1. stat_request_counter' \in [Keys -> Nat] /\ served' \in [Blocks -> [Keys -> Nat]]
    BY DEF IInv, CountInv
  <2>2. live' \subseteq Keys /\ stat_5xx_counter' \in [Keys -> Nat]
    BY <1>2, OwedTypes DEF TypeOK
  <2>3. commands' \in Nat
    BY OwedTypes DEF TypeOK
  <2> QED
    BY <1>1, <1>4, <2>1, <2>2, <2>3, OwedTypes DEF TypeOK
<1>7. TodoInv'
  BY <1>1, OwedTypes DEF TodoInv
<1> QED
  BY <1>5, <1>6, <1>7 DEF OwedInv
-----------------------------------------------------------------------------
(* Every step keeps the account. *)
LEMMA NextOwed ==
  ASSUME OwedInv, IInv, IInv', ConfInv, HashesNear, HashesApart, [Next]_vars
  PROVE  OwedInv'
<1>0. ConfTypeOK
  BY ConfInvParts
<1>1. CASE Configure
  BY <1>1, ConfigureOwed
<1>2. ASSUME NEW c \in Conns, NEW r \in Requests, Take(c, r)
      PROVE  OwedInv'
  BY <1>2, TakeOwed
<1>3. ASSUME NEW c \in Conns, LimitHandler(c)
      PROVE  OwedInv'
  BY <1>0, <1>3, LimitHandlerOwed
<1>4. ASSUME NEW c \in Conns, Handler(c)
      PROVE  OwedInv'
  BY <1>4, HandlerOwed
<1>5. ASSUME NEW c \in Conns, AddServer(c)
      PROVE  OwedInv'
  BY <1>5, AddServerOwed
<1>6. ASSUME NEW c \in Conns, AddNode(c)
      PROVE  OwedInv'
  BY <1>6, AddNodeOwed
<1>7. ASSUME NEW c \in Conns, End(c)
      PROVE  OwedInv'
  BY <1>7, EndOwed
<1>8. ASSUME NEW c \in Conns, Crash(c)
      PROVE  OwedInv'
  BY <1>8, CrashOwed
<1>9. ASSUME NEW g, NEW z, node_delete(g, z) \/ node_reset(g, z)
      PROVE  OwedInv'
  BY <1>9, ZeroedOwed DEF node_delete, node_reset
<1>10. CASE UNCHANGED vars
  <2>1. UNCHANGED <<pc, req, gate, code, todo, live, stat_request_counter,
                    stat_5xx_counter, taken, commands, due, served>>
    BY <1>10 DEF vars, flight, counters
  <2>2. TypeOK' /\ TodoInv'
    BY <2>1, OwedTypes DEF TypeOK, TodoInv
  <2>3. CountsOwed'
    BY <2>1, OwedTypes, OutstandingSame DEF CountsOwed
  <2> QED
    BY <2>2, <2>3 DEF OwedInv
<1> QED
  BY <1>1, <1>2, <1>3, <1>4, <1>5, <1>6, <1>7, <1>8, <1>9, <1>10 DEF Next

(* The account holds in every state, with the invariants it needs. *)
LEMMA OwedInvariant ==
  ASSUME HashesNear, HashesApart
  PROVE  Spec => []OwedInv
<1>1. Init => IInv /\ OwedInv
  BY InitInv, InitOwed
<1>2. Spec => []ConfInv
  BY Configures, ConfInvariant, PTL
<1>3. ConfInv => ConfTypeOK
  BY ConfInvParts
<1>a. Spec => []ConfTypeOK
  BY <1>2, <1>3, PTL
<1>4. IInv /\ ConfTypeOK /\ ConfTypeOK' /\ [Next]_vars => IInv'
  BY NextInv
<1>5. OwedInv /\ IInv /\ IInv' /\ ConfInv /\ [Next]_vars => OwedInv'
  BY NextOwed
<1> QED
  BY <1>1, <1>2, <1>a, <1>4, <1>5, PTL DEF Spec

(* For any number of requests of any kind, any files whose filters hash    *)
(* apart and near, and any interleaving with kills, deletes and resets: a  *)
(* node has counted what it was owed since, less what is under way         *)
(* (handler against shm_add_node, node_delete and node_reset).             *)
THEOREM Owing ==
  ASSUME HashesNear, HashesApart
  PROVE  Spec => []CountsOwed
<1>1. OwedInv => CountsOwed
  BY DEF OwedInv
<1> QED
  BY <1>1, OwedInvariant, PTL

(* Counts of any run are naturals, of nodes of Keys. *)
THEOREM RequestTypes ==
  ASSUME HashesNear, HashesApart
  PROVE  Spec => []TypeOK
<1>1. OwedInv => TypeOK
  BY DEF OwedInv
<1> QED
  BY <1>1, OwedInvariant, PTL

-----------------------------------------------------------------------------
(* The walk of the tree that the pages are written from. *)

(* w has the members of S, each once. *)
Lists(w, S) ==
  /\ w \in Seq(S)
  /\ \A i, j \in DOMAIN w : w[i] = w[j] => i = j
  /\ \A x \in S : \E i \in DOMAIN w : w[i] = x

(* It is as long as there are members. *)
LEMMA ListsCount ==
  ASSUME NEW S, NEW w, Lists(w, S)
  PROVE  IsFiniteSet(S) /\ Cardinality(S) = Len(w)
<1>1. Len(w) \in Nat /\ DOMAIN w = 1 .. Len(w) /\ w \in [1 .. Len(w) -> S]
  BY DEF Lists
<1>2. w \in Bijection(1 .. Len(w), S)
  BY <1>1 DEF Lists, Bijection, Injection, IsInjective, Surjection
<1>3. ExistsBijection(1 .. Len(w), S)
  BY <1>2 DEF ExistsBijection
<1> QED
  BY <1>1, <1>3, FS_NatBijection, FS_CountingElements

(* index has the positions of the entries of s that S chooses.             *)
Picks(index, s, S) ==
  /\ index \in Seq(S \cap DOMAIN s)
  /\ Chosen(s, S) = [j \in DOMAIN index |-> s[index[j]]]
  /\ Len(Chosen(s, S)) = Len(index)
  /\ \A i, j \in DOMAIN index : i < j => index[i] < index[j]
  /\ \A i \in S \cap DOMAIN s : \E j \in DOMAIN index : index[j] = i

(* The entries that are chosen, in their order. *)
LEMMA ChosenIs ==
  ASSUME NEW T, NEW s \in Seq(T), NEW S
  PROVE  /\ Chosen(s, S) \in Seq(T)
         /\ \E index : Picks(index, s, S)
<1> DEFINE index == InOrder(S, Len(s))
<1>1. Len(s) \in Nat /\ DOMAIN s = 1 .. Len(s)
  OBVIOUS
<1>2. /\ index \in Seq(S \cap DOMAIN s)
      /\ \A i, j \in DOMAIN index : i < j => index[i] < index[j]
      /\ \A i \in S \cap DOMAIN s : \E j \in DOMAIN index : index[j] = i
  <2>1. /\ index \in Seq(S \cap 1 .. Len(s))
        /\ \A i, j \in DOMAIN index : i < j => index[i] < index[j]
        /\ \A i \in S \cap 1 .. Len(s) : \E j \in DOMAIN index : index[j] = i
    BY <1>1, InOrderIs
  <2> HIDE DEF index
  <2> QED
    BY <1>1, <2>1
<1>3. Chosen(s, S) = [j \in DOMAIN index |-> s[index[j]]]
  BY DEF Chosen
<1> HIDE DEF index
<1>4. /\ Len(index) \in Nat /\ DOMAIN index = 1 .. Len(index)
      /\ \A j \in DOMAIN index : s[index[j]] \in T
  BY <1>2
<1>5. Chosen(s, S) \in Seq(T) /\ Len(Chosen(s, S)) = Len(index)
  BY <1>3, <1>4
<1> QED
  BY <1>2, <1>3, <1>5 DEF Picks

(* Of a list of the members of a set, one of those that are chosen. *)
LEMMA ChosenLists ==
  ASSUME NEW R, NEW w, Lists(w, R), NEW S
  PROVE  Lists(Chosen(w, S), {w[i] : i \in S \cap DOMAIN w})
<1> DEFINE c == Chosen(w, S)
           C == {w[i] : i \in S \cap DOMAIN w}
<1>1. w \in Seq(R)
  BY DEF Lists
<1>2. PICK index : Picks(index, w, S)
  BY <1>1, ChosenIs
<1>3. /\ DOMAIN index = 1 .. Len(index) /\ Len(index) \in Nat
      /\ DOMAIN w \in SUBSET Nat
      /\ \A j \in DOMAIN index : index[j] \in S \cap DOMAIN w
      /\ c = [j \in DOMAIN index |-> w[index[j]]]
  BY <1>1, <1>2 DEF Picks
<1> HIDE DEF c
<1>4. c \in Seq(C)
  <2>1. \A j \in DOMAIN index : w[index[j]] \in C
    BY <1>3
  <2> HIDE DEF C
  <2> QED
    BY <1>3, <2>1
<1>5. ASSUME NEW i \in DOMAIN c, NEW j \in DOMAIN c, c[i] = c[j] PROVE i = j
  <2>1. i \in DOMAIN index /\ j \in DOMAIN index /\ w[index[i]] = w[index[j]]
    BY <1>3, <1>5
  <2>2. index[i] = index[j]
    BY <1>3, <2>1 DEF Lists
  <2>3. i \in Nat /\ j \in Nat /\ index[i] \in Nat /\ index[j] \in Nat
    BY <1>3, <2>1
  <2> QED
    BY <1>2, <2>1, <2>2, <2>3 DEF Picks
<1>6. ASSUME NEW x \in C PROVE \E j \in DOMAIN c : c[j] = x
  BY <1>2, <1>3 DEF Picks
<1> QED
  BY <1>4, <1>5, <1>6 DEF Lists, c

(* The nodes of some types. *)
LEMMA OfTypeLists ==
  ASSUME NEW S, NEW walk, Lists(walk, S), NEW types
  PROVE  Lists(OfType(walk, types), {k \in S : k[1] \in types})
<1> DEFINE P == {i \in DOMAIN walk : walk[i][1] \in types}
<1>1. {walk[i] : i \in P \cap DOMAIN walk} = {k \in S : k[1] \in types}
  BY DEF Lists
<1>2. OfType(walk, types) = Chosen(walk, P)
  BY DEF OfType
<1> HIDE DEF P
<1>3. Lists(Chosen(walk, P), {walk[i] : i \in P \cap DOMAIN walk})
  BY ChosenLists
<1> QED
  BY <1>1, <1>2, <1>3

(* The node that a walk takes off s, and the walk of the others. *)
AnyOf(s) == CHOOSE x \in s : TRUE
Rest(g, s) == g[s \ {AnyOf(s)}]

(* WalkOf(S) is g[S] for a g with g = WalkBody(S, g). *)
WalkBody(S, g) ==
  [s \in SUBSET S |-> IF s = {} THEN <<>>
                      ELSE Append(Rest(g, s), AnyOf(s))]

(* A walk is a function of that kind. *)
LEMMA WalkUnfolds ==
  ASSUME NEW S
  PROVE  WalkOf(S) = (CHOOSE g : g = WalkBody(S, g))[S]
  BY DEF WalkOf, FoldSet, MapThenFoldSet, WalkBody,
         AnyOf, Rest

(* What WalkBody makes of no nodes, and of some. *)
LEMMA WalkEmpty ==
  ASSUME NEW S, NEW g
  PROVE  WalkBody(S, g)[{}] = <<>>
BY DEF WalkBody

(* A step of a walk: one node more, of a set that is smaller by it. *)
LEMMA WalkNext ==
  ASSUME NEW S, IsFiniteSet(S), NEW g, NEW s \in SUBSET S, s # {}
  PROVE  /\ AnyOf(s) \in s /\ s \ {AnyOf(s)} \in SUBSET S
         /\ Cardinality(s) \in Nat
         /\ Cardinality(s \ {AnyOf(s)}) \in Nat
         /\ Cardinality(s \ {AnyOf(s)}) < Cardinality(s)
         /\ WalkBody(S, g)[s] = Append(Rest(g, s), AnyOf(s))
<1>1. WalkBody(S, g)[s] = IF s = {} THEN <<>>
                          ELSE Append(Rest(g, s), AnyOf(s))
  BY DEF WalkBody
<1>2. s # {} => AnyOf(s) \in s
  BY DEF AnyOf
<1>3. IsFiniteSet(s)
  BY FS_Subset
<1>4. ASSUME NEW x \in s
      PROVE  /\ s \ {x} \in SUBSET S
             /\ Cardinality(s) \in Nat
             /\ Cardinality(s \ {x}) \in Nat
             /\ Cardinality(s \ {x}) < Cardinality(s)
  <2>1. IsFiniteSet(s \ {x}) /\ Cardinality(s \ {x}) = Cardinality(s) - 1
    BY <1>3, FS_RemoveElement
  <2>2. Cardinality(s) \in Nat /\ Cardinality(s \ {x}) \in Nat
    BY <1>3, <2>1, FS_CardinalityType
  <2> QED
    BY <2>1, <2>2
<1> QED
  BY <1>1, <1>2, <1>4

(* There is a function of that kind on the subsets of a finite set. *)
LEMMA WalkExists ==
  ASSUME NEW S, IsFiniteSet(S)
  PROVE  \E g : g = WalkBody(S, g)
<1> DEFINE D == SUBSET S
           T == Seq(S)
           m == [s \in D |-> Cardinality(s)]
           F == [g \in [D -> T] |-> WalkBody(S, g)]
<1>1. m \in [D -> Nat]
  BY FS_Subset, FS_CardinalityType
<1>2. ASSUME NEW g \in [D -> T], NEW s \in D PROVE WalkBody(S, g)[s] \in T
  <2>1. CASE s = {}
    <3>1. WalkBody(S, g)[s] = <<>>
      BY <2>1, WalkEmpty
    <3>2. <<>> \in T
      OBVIOUS
    <3> QED
      BY <3>1, <3>2
  <2>2. CASE s # {}
    <3> DEFINE x == AnyOf(s)
    <3>1. x \in s /\ s \ {x} \in D /\ WalkBody(S, g)[s] = Append(Rest(g, s), x)
      BY <2>2, WalkNext
    <3>2. Rest(g, s) \in Seq(S) /\ x \in S
      BY <3>1 DEF Rest
    <3> HIDE DEF x
    <3> QED
      BY <3>1, <3>2
  <2> QED
    BY <2>1, <2>2
<1>3. F \in [[D -> T] -> [D -> T]]
  <2>1. \A g \in [D -> T] : WalkBody(S, g) \in [D -> T]
    <3> HIDE DEF T
    <3> QED
      BY <1>2 DEF WalkBody
  <2> QED
    BY <2>1
<1>4. ASSUME NEW g \in [D -> T], NEW h \in [D -> T], NEW s \in D,
             \A u \in D : m[u] < m[s] => g[u] = h[u]
      PROVE  F[g][s] = F[h][s]
  <2>1. F[g] = WalkBody(S, g) /\ F[h] = WalkBody(S, h)
    OBVIOUS
  <2>2. CASE s = {}
    BY <2>1, <2>2, WalkEmpty
  <2>3. CASE s # {}
    <3> DEFINE x == AnyOf(s)
    <3>1. /\ x \in s /\ s \ {x} \in D /\ Cardinality(s \ {x}) < Cardinality(s)
          /\ WalkBody(S, g)[s] = Append(Rest(g, s), x)
          /\ WalkBody(S, h)[s] = Append(Rest(h, s), x)
      BY <2>3, WalkNext
    <3>2. Rest(g, s) = Rest(h, s)
      BY <1>4, <3>1 DEF Rest
    <3> HIDE DEF x
    <3> HIDE DEF F
    <3> QED
      BY <2>1, <3>1, <3>2
  <2> QED
    BY <2>2, <2>3
<1>5. <<>> \in T /\ \A g \in [D -> T] : F[g] = WalkBody(S, g)
  OBVIOUS
<1> HIDE DEF D, F, m, T
<1>6. Descends(D, T, m, F)
  BY <1>1, <1>3, <1>4 DEF Descends
<1>7. \E g \in [D -> T] : g = F[g]
  BY <1>5, <1>6, FixedPoint
<1> QED
  BY <1>5, <1>7

(* One member more. *)
LEMMA ListsAppend ==
  ASSUME NEW S, NEW w, NEW x, x \notin S, Lists(w, S)
  PROVE  Lists(Append(w, x), S \cup {x})
<1> DEFINE v == Append(w, x)
<1>1. w \in Seq(S) /\ Len(w) \in Nat /\ DOMAIN w = 1 .. Len(w)
  BY DEF Lists
<1>2. /\ v \in Seq(S \cup {x}) /\ DOMAIN v = 1 .. Len(w) + 1
      /\ \A i \in DOMAIN w : v[i] = w[i] /\ v[i] # x
      /\ v[Len(w) + 1] = x
  <2>1. w \in Seq(S \cup {x})
    BY <1>1
  <2> QED
    BY <1>1, <2>1
<1> HIDE DEF v
<1>3. \A i, j \in DOMAIN v : v[i] = v[j] => i = j
  BY <1>1, <1>2 DEF Lists
<1>4. \A y \in S \cup {x} : \E i \in DOMAIN v : v[i] = y
  BY <1>1, <1>2 DEF Lists
<1> QED
  BY <1>2, <1>3, <1>4 DEF Lists, v

(* A walk has every node once. *)
LEMMA WalkLists ==
  ASSUME NEW S, IsFiniteSet(S)
  PROVE  Lists(WalkOf(S), S)
<1> DEFINE g == CHOOSE f : f = WalkBody(S, f)
           m == [s \in SUBSET S |-> Cardinality(s)]
           T == {s \in SUBSET S : Lists(g[s], s)}
<1>1. g = WalkBody(S, g)
  BY WalkExists
<1>2. m \in [SUBSET S -> Nat]
  BY FS_Subset, FS_CardinalityType
<1> HIDE DEF g
<1>3. ASSUME NEW s \in SUBSET S, \A u \in SUBSET S : m[u] < m[s] => u \in T
      PROVE  s \in T
  <2>1. CASE s = {}
    <3>1. g[s] = <<>>
      BY <1>1, <2>1, WalkEmpty
    <3>2. Lists(<<>>, {})
      BY DEF Lists
    <3> QED
      BY <2>1, <3>1, <3>2
  <2>2. CASE s # {}
    <3> DEFINE x == AnyOf(s)
    <3>1. /\ x \in s /\ s \ {x} \in SUBSET S /\ Cardinality(s \ {x}) < Cardinality(s)
          /\ WalkBody(S, g)[s] = Append(Rest(g, s), x)
      BY <2>2, WalkNext
    <3>a. g[s] = Append(Rest(g, s), x)
      BY <1>1, <3>1
    <3>2. Lists(Rest(g, s), s \ {x})
      BY <1>3, <3>1 DEF Rest
    <3> HIDE DEF x
    <3>3. Lists(Append(Rest(g, s), x), (s \ {x}) \cup {x})
      BY <3>2, ListsAppend
    <3>4. (s \ {x}) \cup {x} = s
      BY <3>1
    <3> QED
      BY <3>a, <3>3, <3>4
  <2> QED
    BY <2>1, <2>2
<1>4. S \in SUBSET S
  OBVIOUS
<1>5. WalkOf(S) = g[S]
  BY WalkUnfolds DEF g
<1>6. S \in T
  <2> HIDE DEF m, T
  <2> QED
    BY <1>2, <1>3, <1>4, InductionMeasure
<1> QED
  BY <1>5, <1>6

-----------------------------------------------------------------------------
(* A sequence of sequences, one after the other. *)

(* Entry p of flat is entry place[p] of seqs[piece[p]], and these are the  *)
(* entries of the first k of seqs, one after the other.                    *)
Spread(k, seqs, flat, piece, place) ==
  /\ piece \in [DOMAIN flat -> 1 .. k] /\ place \in [DOMAIN flat -> Nat]
  /\ \A p \in DOMAIN flat : /\ place[p] \in DOMAIN seqs[piece[p]]
                            /\ flat[p] = seqs[piece[p]][place[p]]
  /\ \A p, q \in DOMAIN flat :
       p < q => \/ piece[p] < piece[q]
                \/ (piece[p] = piece[q] /\ place[p] < place[q])
  /\ \A i \in 1 .. k : \A j \in DOMAIN seqs[i] :
       \E p \in DOMAIN flat : piece[p] = i /\ place[p] = j

(* One more of seqs. *)
LEMMA SpreadNext ==
  ASSUME NEW C, NEW L \in Nat, NEW seqs \in [1 .. L -> Seq(C)],
         NEW k \in 0 .. L - 1, NEW flat \in Seq(C), NEW piece, NEW place,
         Spread(k, seqs, flat, piece, place)
  PROVE  \E b, c : Spread(k + 1, seqs, flat \o seqs[k + 1], b, c)
<1> DEFINE n == Len(flat)
           s == seqs[k + 1]
           new == flat \o s
           b == [p \in DOMAIN new |-> IF p <= n THEN piece[p] ELSE k + 1]
           c == [p \in DOMAIN new |-> IF p <= n THEN place[p] ELSE p - n]
<1>1. s \in Seq(C) /\ k \in Nat /\ k + 1 \in 1 .. L
  OBVIOUS
<1>2. /\ n \in Nat /\ DOMAIN flat = 1 .. n
      /\ Len(s) \in Nat /\ DOMAIN s = 1 .. Len(s)
  BY <1>1
<1>3. /\ DOMAIN new = 1 .. n + Len(s)
      /\ \A p \in 1 .. n : new[p] = flat[p]
      /\ \A p \in n + 1 .. n + Len(s) : new[p] = s[p - n]
  BY <1>1, <1>2
<1>4. /\ piece \in [1 .. n -> 1 .. k] /\ place \in [1 .. n -> Nat]
      /\ \A p \in 1 .. n : /\ place[p] \in DOMAIN seqs[piece[p]]
                           /\ flat[p] = seqs[piece[p]][place[p]]
      /\ \A p, q \in 1 .. n :
           p < q => \/ piece[p] < piece[q]
                    \/ (piece[p] = piece[q] /\ place[p] < place[q])
      /\ \A i \in 1 .. k : \A j \in DOMAIN seqs[i] :
           \E p \in 1 .. n : piece[p] = i /\ place[p] = j
  <2>1. DOMAIN flat = 1 .. n
    BY <1>2
  <2> HIDE DEF n
  <2>2. piece \in [1 .. n -> 1 .. k] /\ place \in [1 .. n -> Nat]
    BY <2>1 DEF Spread
  <2>3. \A p \in 1 .. n : /\ place[p] \in DOMAIN seqs[piece[p]]
                         /\ flat[p] = seqs[piece[p]][place[p]]
    BY <2>1 DEF Spread
  <2>4. \A p, q \in 1 .. n :
          p < q => \/ piece[p] < piece[q]
                   \/ (piece[p] = piece[q] /\ place[p] < place[q])
    BY <2>1 DEF Spread
  <2>5. \A i \in 1 .. k : \A j \in DOMAIN seqs[i] :
          \E p \in 1 .. n : piece[p] = i /\ place[p] = j
    BY <2>1 DEF Spread
  <2> QED
    BY <2>2, <2>3, <2>4, <2>5
<1> HIDE DEF new, n
<1>5. /\ \A p \in 1 .. n : p \in DOMAIN new /\ b[p] = piece[p] /\ c[p] = place[p]
      /\ \A p \in n + 1 .. n + Len(s) : p \in DOMAIN new /\ b[p] = k + 1 /\ c[p] = p - n
      /\ DOMAIN new = 1 .. n \cup n + 1 .. n + Len(s)
  BY <1>2, <1>3
<1>6. b \in [DOMAIN new -> 1 .. k + 1] /\ c \in [DOMAIN new -> Nat]
  BY <1>1, <1>2, <1>3, <1>4
<1> HIDE DEF b, c
<1>7. \A p \in DOMAIN new : c[p] \in DOMAIN seqs[b[p]] /\ new[p] = seqs[b[p]][c[p]]
  <2>1. ASSUME NEW p \in 1 .. n
        PROVE  c[p] \in DOMAIN seqs[b[p]] /\ new[p] = seqs[b[p]][c[p]]
    BY <1>3, <1>4, <1>5
  <2>2. ASSUME NEW p \in n + 1 .. n + Len(s)
        PROVE  c[p] \in DOMAIN seqs[b[p]] /\ new[p] = seqs[b[p]][c[p]]
    <3>1. p - n \in DOMAIN s
      BY <1>2
    <3> QED
      BY <1>3, <1>5, <3>1
  <2> QED
    BY <1>5, <2>1, <2>2
<1>8. ASSUME NEW p \in DOMAIN new, NEW q \in DOMAIN new, p < q
      PROVE  b[p] < b[q] \/ (b[p] = b[q] /\ c[p] < c[q])
  <2>1. CASE p \in 1 .. n /\ q \in 1 .. n
    <3>1. b[p] = piece[p] /\ b[q] = piece[q] /\ c[p] = place[p] /\ c[q] = place[q]
      BY <1>5, <2>1
    <3>2. piece[p] < piece[q] \/ (piece[p] = piece[q] /\ place[p] < place[q])
      <4>1. \A x, y \in 1 .. n :
              x < y => \/ piece[x] < piece[y]
                       \/ (piece[x] = piece[y] /\ place[x] < place[y])
        BY <1>4
      <4> QED
        BY <1>8, <2>1, <4>1
    <3> QED
      BY <3>1, <3>2
  <2>2. CASE p \in 1 .. n /\ q \in n + 1 .. n + Len(s)
    <3>1. piece[p] \in 1 .. k
      BY <1>4, <2>2
    <3>2. b[p] = piece[p] /\ b[q] = k + 1
      BY <1>5, <2>2
    <3>3. piece[p] < k + 1
      BY <1>1, <3>1
    <3> QED
      BY <1>1, <3>1, <3>2, <3>3
  <2>3. CASE p \in n + 1 .. n + Len(s) /\ q \in n + 1 .. n + Len(s)
    BY <1>2, <1>5, <1>8, <2>3
  <2>4. ~(p \in n + 1 .. n + Len(s) /\ q \in 1 .. n)
    BY <1>2, <1>8
  <2> QED
    BY <1>5, <2>1, <2>2, <2>3, <2>4
<1>9. ASSUME NEW i \in 1 .. k + 1, NEW j \in DOMAIN seqs[i]
      PROVE  \E p \in DOMAIN new : b[p] = i /\ c[p] = j
  <2>1. CASE i \in 1 .. k
    <3>1. PICK p \in 1 .. n : piece[p] = i /\ place[p] = j
      BY <1>4, <2>1
    <3> QED
      BY <1>5, <3>1
  <2>2. CASE i = k + 1
    <3>1. j \in 1 .. Len(s)
      BY <1>2, <2>2
    <3>2. n + j \in n + 1 .. n + Len(s) /\ (n + j) - n = j
      BY <1>2, <3>1
    <3> QED
      BY <1>5, <2>2, <3>2
  <2> QED
    BY <1>1, <2>1, <2>2
<1>10. Spread(k + 1, seqs, new, b, c)
  BY <1>6, <1>7, <1>8, <1>9 DEF Spread
<1> QED
  BY <1>10 DEF new

(* The entries of a flattened sequence, and where each of them stands. *)
LEMMA FlattenSpreads ==
  ASSUME NEW C, NEW seqs \in Seq(Seq(C))
  PROVE  /\ FlattenSeq(seqs) \in Seq(C)
         /\ \E piece, place : Spread(Len(seqs), seqs, FlattenSeq(seqs), piece, place)
<1> DEFINE L == Len(seqs)
<1>1. L \in Nat /\ seqs \in [1 .. L -> Seq(C)]
  OBVIOUS
<1> HIDE DEF L
<1>2. PICK out \in [0 .. L -> Seq(C)] :
        /\ out[0] = <<>>
        /\ \A k \in 0 .. L - 1 : out[k + 1] = out[k] \o seqs[k + 1]
        /\ FlattenSeq(seqs) = out[L]
  BY <1>1, FlattenIs
<1> DEFINE T == {k \in Nat : k <= L =>
                   \E piece, place : Spread(k, seqs, out[k], piece, place)}
<1>3. 0 \in T
  <2>1. Spread(0, seqs, <<>>, <<>>, <<>>)
    BY DEF Spread
  <2> QED
    BY <1>1, <1>2, <2>1
<1>4. ASSUME NEW k \in T PROVE k + 1 \in T
  <2> SUFFICES ASSUME k + 1 <= L
               PROVE  \E piece, place : Spread(k + 1, seqs, out[k + 1], piece, place)
    OBVIOUS
  <2>1. k \in 0 .. L - 1 /\ k \in Nat
    BY <1>1
  <2>2. PICK piece, place : Spread(k, seqs, out[k], piece, place)
    BY <1>1, <2>1
  <2> HIDE DEF T
  <2>3. out[k + 1] = out[k] \o seqs[k + 1]
    BY <1>2, <2>1
  <2>4. k \in 0 .. L
    BY <1>1, <2>1
  <2>5. out[k] \in Seq(C)
    BY <1>2, <2>4
  <2>6. \E b, c : Spread(k + 1, seqs, out[k] \o seqs[k + 1], b, c)
    <3> DEFINE flat == out[k]
    <3>1. flat \in Seq(C) /\ Spread(k, seqs, flat, piece, place)
      BY <2>2, <2>5
    <3> HIDE DEF flat
    <3>2. \E b, c : Spread(k + 1, seqs, flat \o seqs[k + 1], b, c)
      BY <1>1, <2>1, <3>1, SpreadNext
    <3> QED
      BY <3>2 DEF flat
  <2> QED
    BY <2>3, <2>6
<1>5. T = Nat
  <2>1. T \in SUBSET Nat
    OBVIOUS
  <2> HIDE DEF T
  <2> QED
    BY <1>3, <1>4, <2>1, InductionNat
<1>6. L \in T /\ L \in 0 .. L
  <2> HIDE DEF T
  <2> QED
    BY <1>1, <1>5
<1>7. out[L] \in Seq(C)
  BY <1>2, <1>6
<1>8. \E piece, place : Spread(L, seqs, out[L], piece, place)
  BY <1>1, <1>6
<1>9. FlattenSeq(seqs) = out[L]
  BY <1>2
<1> HIDE DEF T
<1> QED
  BY <1>7, <1>8, <1>9 DEF L

(* How long it is. *)
LEMMA FlattenLen ==
  ASSUME NEW C, NEW seqs \in Seq(Seq(C)), NEW f, DOMAIN f = DOMAIN seqs,
         \A i \in DOMAIN seqs : f[i] \in Nat /\ Len(seqs[i]) <= f[i]
  PROVE  /\ SumFunction(f) \in Nat
         /\ Len(FlattenSeq(seqs)) <= SumFunction(f)
<1> DEFINE L == Len(seqs)
           Sum(k) == SumFunctionOnSet(f, 1 .. k)
<1>1. L \in Nat /\ seqs \in [1 .. L -> Seq(C)] /\ DOMAIN f = 1 .. L
  OBVIOUS
<1> HIDE DEF L
<1>2. PICK out \in [0 .. L -> Seq(C)] :
        /\ out[0] = <<>>
        /\ \A k \in 0 .. L - 1 : out[k + 1] = out[k] \o seqs[k + 1]
        /\ FlattenSeq(seqs) = out[L]
  BY <1>1, FlattenIs
<1>3. \A k \in 0 .. L : IsFiniteSet(1 .. k) /\ \A i \in 1 .. k : f[i] \in Nat
  <2>1. \A k \in 0 .. L : IsFiniteSet(1 .. k)
    BY <1>1, FS_Interval
  <2> QED
    BY <1>1, <2>1
<1>4. \A k \in 0 .. L : Sum(k) \in Nat
  BY <1>3, SumType
<1> DEFINE T == {k \in Nat : k <= L => Len(out[k]) <= Sum(k)}
<1>5. 0 \in T
  <2>1. 1 .. 0 = {} /\ Len(out[0]) = 0
    BY <1>2
  <2>2. Sum(0) = 0
    BY <2>1, SumEmpty
  <2> HIDE DEF Sum
  <2> QED
    BY <2>1, <2>2
<1>6. ASSUME NEW k \in T PROVE k + 1 \in T
  <2> SUFFICES ASSUME k + 1 <= L PROVE Len(out[k + 1]) <= Sum(k + 1)
    OBVIOUS
  <2>1. k \in 0 .. L - 1 /\ k \in 0 .. L /\ k + 1 \in 1 .. L /\ k \in Nat
    BY <1>1
  <2>2. Sum(k + 1) = Sum(k) + f[k + 1]
    <3>1. 1 .. k + 1 = (1 .. k) \cup {k + 1} /\ k + 1 \notin 1 .. k
      BY <2>1
    <3>2. IsFiniteSet(1 .. k) /\ \A i \in (1 .. k) \cup {k + 1} : f[i] \in Nat
      BY <1>1, <1>3, <2>1
    <3>3. SumFunctionOnSet(f, (1 .. k) \cup {k + 1}) = SumFunctionOnSet(f, 1 .. k) + f[k + 1]
      BY <3>1, <3>2, SumAdd
    <3> QED
      BY <3>1, <3>3
  <2>a. seqs[k + 1] \in Seq(C)
    BY <1>1, <2>1
  <2>b. out[k] \in Seq(C)
    BY <1>2, <2>1
  <2>3. /\ out[k] \in Seq(C) /\ seqs[k + 1] \in Seq(C)
        /\ out[k + 1] = out[k] \o seqs[k + 1]
    BY <1>2, <2>1, <2>a, <2>b
  <2>4. Len(out[k + 1]) = Len(out[k]) + Len(seqs[k + 1])
    BY <2>3
  <2>5. Len(out[k]) <= Sum(k)
    BY <1>1, <2>1
  <2>6. /\ Sum(k) \in Nat /\ f[k + 1] \in Nat
        /\ Len(seqs[k + 1]) <= f[k + 1]
        /\ Len(out[k]) \in Nat /\ Len(seqs[k + 1]) \in Nat
    <3>1. Sum(k) \in Nat
      BY <1>4, <2>1
    <3>2. f[k + 1] \in Nat /\ Len(seqs[k + 1]) <= f[k + 1]
      BY <1>1, <2>1
    <3>3. Len(out[k]) \in Nat /\ Len(seqs[k + 1]) \in Nat
      BY <2>3
    <3> QED
      BY <3>1, <3>2, <3>3
  <2> HIDE DEF Sum, T
  <2> DEFINE a == Len(out[k])
             b == Len(seqs[k + 1])
             d == Sum(k)
             e == f[k + 1]
  <2>7. a \in Nat /\ b \in Nat /\ d \in Nat /\ e \in Nat /\ a <= d /\ b <= e
    BY <2>5, <2>6
  <2>8. Len(out[k + 1]) = a + b /\ Sum(k + 1) = d + e
    BY <2>2, <2>4
  <2> HIDE DEF a, b, d, e
  <2>9. a + b <= d + e
    BY <2>7
  <2> QED
    BY <2>8, <2>9
<1>7. T = Nat
  <2>1. T \in SUBSET Nat
    OBVIOUS
  <2> HIDE DEF T
  <2> QED
    BY <1>5, <1>6, <2>1, InductionNat
<1>8. Len(out[L]) <= Sum(L) /\ Sum(L) \in Nat
  <2>1. L \in T /\ L \in 0 .. L
    <3> HIDE DEF T, Sum
    <3> QED
      BY <1>1, <1>7
  <2>2. Len(out[L]) <= Sum(L)
    BY <1>1, <2>1
  <2> HIDE DEF Sum, T
  <2> QED
    BY <1>4, <2>1, <2>2
<1>9. SumFunction(f) = Sum(L)
  BY <1>1 DEF SumFunction
<1> QED
  BY <1>2, <1>8, <1>9

-----------------------------------------------------------------------------
(* The parts of a page that show the nodes of a type. *)

(* The nodes of S of some types. *)
Of(S, types) == {k \in S : k[1] \in types}

(* What a node is shown as. *)
EntryOf(k) ==
  CASE k[1] = "NO" -> display_set_server_node(k)
    [] k[1] = "FG" -> display_set_filter_node(k)
    [] k[1] = "CC" -> display_set_cache_node(k)
    [] OTHER -> display_prometheus_set_upstream_node(k)

(* The entries of page are those of the nodes in S, each once. *)
Shows(page, S) ==
  /\ page \in Seq(Range(page))
  /\ Lists([i \in DOMAIN page |-> page[i].node], S)
  /\ \A i \in DOMAIN page : page[i] = EntryOf(page[i].node)

(* Such a page has an entry for each node. *)
LEMMA ShowsCount ==
  ASSUME NEW S, NEW page, Shows(page, S)
  PROVE  Len(page) \in Nat /\ Len(page) = Cardinality(S)
<1> DEFINE w == [i \in DOMAIN page |-> page[i].node]
<1>1. Len(page) \in Nat /\ DOMAIN page = 1 .. Len(page)
  BY DEF Shows
<1>2. Lists(w, S)
  BY DEF Shows
<1>3. Len(w) = Len(page)
  BY <1>1
<1> HIDE DEF w
<1>4. Cardinality(S) = Len(w)
  BY <1>2, ListsCount
<1> QED
  BY <1>1, <1>3, <1>4

(* The nodes of some types in a walk. *)
LEMMA OfTypeIs ==
  ASSUME NEW S, NEW walk, Lists(walk, S), NEW types
  PROVE  /\ Lists(OfType(walk, types), Of(S, types))
         /\ \A i \in DOMAIN OfType(walk, types) : OfType(walk, types)[i][1] \in types
<1> DEFINE nodes == OfType(walk, types)
<1>1. Lists(nodes, Of(S, types))
  BY OfTypeLists DEF Of
<1> HIDE DEF nodes
<1>2. \A i \in DOMAIN nodes : nodes[i] \in Of(S, types)
  BY <1>1 DEF Lists
<1>3. \A i \in DOMAIN nodes : nodes[i][1] \in types
  BY <1>2 DEF Of
<1> QED
  BY <1>1, <1>3 DEF nodes

(* What a walk shows of some types. *)
LEMMA ShownShows ==
  ASSUME NEW S, NEW walk, Lists(walk, S), NEW types, NEW page, NEW E,
         page \in [DOMAIN OfType(walk, types) -> E],
         \A i \in DOMAIN page :
           page[i].node = OfType(walk, types)[i] /\ page[i] = EntryOf(OfType(walk, types)[i])
  PROVE  Shows(page, Of(S, types))
<1> DEFINE nodes == OfType(walk, types)
<1>1. Lists(nodes, Of(S, types))
  BY OfTypeIs
<1> HIDE DEF nodes
<1>2. /\ Len(nodes) \in Nat /\ DOMAIN nodes = 1 .. Len(nodes)
      /\ nodes \in [1 .. Len(nodes) -> Range(nodes)]
  BY <1>1 DEF Lists, Range
<1>3. [i \in DOMAIN page |-> page[i].node] = nodes
  BY <1>2 DEF nodes
<1>4. page \in [1 .. Len(nodes) -> Range(page)]
  BY <1>2 DEF nodes, Range
<1>5. page \in Seq(Range(page))
  BY <1>2, <1>4
<1>6. \A i \in DOMAIN page : page[i] = EntryOf(page[i].node)
  OBVIOUS
<1> QED
  BY <1>1, <1>3, <1>5, <1>6 DEF Shows

(* The server zones of the JSON page. *)
LEMMA ServerShows ==
  ASSUME NEW S, NEW walk, Lists(walk, S)
  PROVE  Shows(display_set_server(walk), Of(S, {"NO"}))
<1> DEFINE page == display_set_server(walk)
           nodes == OfType(walk, {"NO"})
           E == {page[i] : i \in DOMAIN nodes}
<1>1. /\ page \in [DOMAIN nodes -> E]
      /\ \A i \in DOMAIN page : page[i].node = nodes[i]
  BY DEF display_set_server, Shown, display_set_server_node, Entry
<1>2. \A i \in DOMAIN page : page[i] = EntryOf(nodes[i])
  BY OfTypeIs DEF display_set_server, Shown, display_set_server_node, EntryOf
<1> HIDE DEF page, nodes, E
<1> QED
  BY <1>1, <1>2, ShownShows DEF page, nodes

(* Its caches. *)
LEMMA CacheShows ==
  ASSUME NEW S, NEW walk, Lists(walk, S)
  PROVE  Shows(display_set_cache(walk), Of(S, {"CC"}))
<1> DEFINE page == display_set_cache(walk)
           nodes == OfType(walk, {"CC"})
           E == {page[i] : i \in DOMAIN nodes}
<1>1. /\ page \in [DOMAIN nodes -> E]
      /\ \A i \in DOMAIN page : page[i].node = nodes[i]
  BY DEF display_set_cache, Shown, display_set_cache_node, Entry
<1>2. \A i \in DOMAIN page : page[i] = EntryOf(nodes[i])
  BY OfTypeIs DEF display_set_cache, Shown, display_set_cache_node, EntryOf
<1> HIDE DEF page, nodes, E
<1> QED
  BY <1>1, <1>2, ShownShows DEF page, nodes

(* Its upstreams that no group has. *)
LEMMA AloneShows ==
  ASSUME NEW S, NEW walk, Lists(walk, S)
  PROVE  Shows(display_set_upstream_alone(walk), Of(S, {"UA"}))
<1> DEFINE page == display_set_upstream_alone(walk)
           nodes == OfType(walk, {"UA"})
           E == {page[i] : i \in DOMAIN nodes}
<1>1. /\ page \in [DOMAIN nodes -> E]
      /\ \A i \in DOMAIN page : page[i].node = nodes[i]
  BY DEF display_set_upstream_alone, Shown, Entry
<1>2. \A i \in DOMAIN page : page[i] = EntryOf(nodes[i])
  BY OfTypeIs DEF display_set_upstream_alone, Shown, EntryOf,
     display_prometheus_set_upstream_node
<1> HIDE DEF page, nodes, E
<1> QED
  BY <1>1, <1>2, ShownShows DEF page, nodes

(* The server zones of the Prometheus page. *)
LEMMA PrometheusServer ==
  ASSUME NEW S, NEW walk, Lists(walk, S)
  PROVE  Shows(display_prometheus_set_server(walk), Of(S, {"NO"}))
<1> DEFINE page == display_prometheus_set_server(walk)
           nodes == OfType(walk, {"NO"})
           E == {page[i] : i \in DOMAIN nodes}
<1>1. /\ page \in [DOMAIN nodes -> E]
      /\ \A i \in DOMAIN page : page[i].node = nodes[i]
  BY DEF display_prometheus_set_server, Shown, display_set_server_node, Entry
<1>2. \A i \in DOMAIN page : page[i] = EntryOf(nodes[i])
  BY OfTypeIs DEF display_prometheus_set_server, Shown, display_set_server_node, EntryOf
<1> HIDE DEF page, nodes, E
<1> QED
  BY <1>1, <1>2, ShownShows DEF page, nodes

(* Its filters. *)
LEMMA PrometheusFilter ==
  ASSUME NEW S, NEW walk, Lists(walk, S)
  PROVE  Shows(display_prometheus_set_filter(walk), Of(S, {"FG"}))
<1> DEFINE page == display_prometheus_set_filter(walk)
           nodes == OfType(walk, {"FG"})
           E == {page[i] : i \in DOMAIN nodes}
<1>1. /\ page \in [DOMAIN nodes -> E]
      /\ \A i \in DOMAIN page : page[i].node = nodes[i]
  BY DEF display_prometheus_set_filter, Shown, display_set_filter_node, Entry
<1>2. \A i \in DOMAIN page : page[i] = EntryOf(nodes[i])
  BY OfTypeIs DEF display_prometheus_set_filter, Shown, display_set_filter_node, EntryOf
<1> HIDE DEF page, nodes, E
<1> QED
  BY <1>1, <1>2, ShownShows DEF page, nodes

(* Its upstreams, of a group or of none. *)
LEMMA PrometheusUpstream ==
  ASSUME NEW S, NEW walk, Lists(walk, S)
  PROVE  Shows(display_prometheus_set_upstream(walk), Of(S, {"UG", "UA"}))
<1> DEFINE page == display_prometheus_set_upstream(walk)
           nodes == OfType(walk, {"UG", "UA"})
           E == {page[i] : i \in DOMAIN nodes}
<1>1. /\ page \in [DOMAIN nodes -> E]
      /\ \A i \in DOMAIN page : page[i].node = nodes[i]
  BY DEF display_prometheus_set_upstream, Shown,
     display_prometheus_set_upstream_node, Entry
<1>2. \A i \in DOMAIN page : page[i] = EntryOf(nodes[i])
  BY OfTypeIs DEF display_prometheus_set_upstream, Shown,
     display_prometheus_set_upstream_node, EntryOf
<1> HIDE DEF page, nodes, E
<1> QED
  BY <1>1, <1>2, ShownShows DEF page, nodes

(* Its caches. *)
LEMMA PrometheusCache ==
  ASSUME NEW S, NEW walk, Lists(walk, S)
  PROVE  Shows(display_prometheus_set_cache(walk), Of(S, {"CC"}))
<1> DEFINE page == display_prometheus_set_cache(walk)
           nodes == OfType(walk, {"CC"})
           E == {page[i] : i \in DOMAIN nodes}
<1>1. /\ page \in [DOMAIN nodes -> E]
      /\ \A i \in DOMAIN page : page[i].node = nodes[i]
  BY DEF display_prometheus_set_cache, Shown, display_set_cache_node, Entry
<1>2. \A i \in DOMAIN page : page[i] = EntryOf(nodes[i])
  BY OfTypeIs DEF display_prometheus_set_cache, Shown, display_set_cache_node, EntryOf
<1> HIDE DEF page, nodes, E
<1> QED
  BY <1>1, <1>2, ShownShows DEF page, nodes

(* The members of a finite set in some order. *)
LEMMA SetToSeqLists ==
  ASSUME NEW S, IsFiniteSet(S)
  PROVE  /\ Lists(SetToSeq(S), S)
         /\ \A w \in SetToSeqs(S) : Lists(w, S)
<1> DEFINE n == Cardinality(S)
<1>1. n \in Nat /\ ExistsBijection(1 .. n, S)
  BY FS_CardinalityType
<1>2. IsFiniteSet(1 .. n) /\ Cardinality(1 .. n) = n
  BY <1>1, FS_Interval
<1> HIDE DEF n
<1>3. ASSUME NEW w \in [1 .. n -> S], IsInjective(w) PROVE Lists(w, S)
  <2>1. w \in Injection(1 .. n, S)
    BY <1>3 DEF Injection
  <2>2. w \in Surjection(1 .. n, S)
    BY <1>2, <2>1, FS_Injection DEF n
  <2>3. w \in Seq(S) /\ DOMAIN w = 1 .. n
    BY <1>1
  <2> QED
    BY <1>3, <2>2, <2>3 DEF Lists, Surjection, IsInjective
<1>4. \E f \in [1 .. n -> S] : IsInjective(f)
  BY <1>1 DEF ExistsBijection, Bijection, Injection
<1>5. SetToSeq(S) \in [1 .. n -> S] /\ IsInjective(SetToSeq(S))
  BY <1>4 DEF SetToSeq, n
<1>6. \A w \in SetToSeqs(S) : w \in [1 .. n -> S] /\ IsInjective(w)
  BY DEF SetToSeqs, IsInjective, n
<1> QED
  BY <1>3, <1>5, <1>6

-----------------------------------------------------------------------------
(* The filters, group by group. *)

(* Equal entries stand next to each other. *)
Grouped(keys) ==
  \A i, j \in DOMAIN keys : i < j /\ keys[i] = keys[j] => keys[j - 1] = keys[j]

(* The positions in names of one of them. *)
Same(names, n) == {i \in DOMAIN names : names[i] = n}

(* The names of the filters that the nodes of a walk have. *)
Names(walk) ==
  LET nodes == OfType(walk, {"FG"})
  IN  [i \in DOMAIN nodes |-> node_position_key(nodes[i], 1)]

(* The names of the filters: all, and equal ones together. *)
LEMMA KeysGrouped ==
  ASSUME NEW S, NEW walk, Lists(walk, S)
  PROVE  /\ filter_get_keys(walk) \in Seq(Range(Names(walk)))
         /\ \A n \in Range(Names(walk)) :
              \E p \in DOMAIN filter_get_keys(walk) : filter_get_keys(walk)[p] = n
         /\ Grouped(filter_get_keys(walk))
<1> DEFINE nodes == OfType(walk, {"FG"})
           names == [i \in DOMAIN nodes |-> node_position_key(nodes[i], 1)]
           C == Range(names)
           order == SetToSeq(C)
           blocks == [i \in DOMAIN order |-> Chosen(names, Same(names, order[i]))]
           keys == FlattenSeq(blocks)
<1>1. keys = filter_get_keys(walk) /\ names = Names(walk)
  BY DEF filter_get_keys, Names, Same
<1>2. Len(nodes) \in Nat /\ DOMAIN nodes = 1 .. Len(nodes)
  <2>1. Lists(nodes, {k \in S : k[1] \in {"FG"}})
    BY OfTypeLists
  <2> HIDE DEF nodes
  <2> QED
    BY <2>1 DEF Lists
<1>3. names \in Seq(C) /\ DOMAIN names = 1 .. Len(nodes)
  <2> HIDE DEF nodes
  <2>1. names \in [1 .. Len(nodes) -> C]
    BY <1>2 DEF Range
  <2> QED
    BY <1>2, <2>1
<1> HIDE DEF nodes, names
<1>4. IsFiniteSet(C)
  <2>1. names \in Surjection(1 .. Len(nodes), C)
    BY <1>3 DEF Surjection, Range
  <2>2. IsFiniteSet(1 .. Len(nodes))
    BY <1>2, FS_Interval
  <2> HIDE DEF C
  <2> QED
    BY <2>1, <2>2, FS_Surjection
<1>5. Lists(order, C)
  <2> HIDE DEF C
  <2> QED
    BY <1>4, SetToSeqLists
<1>6. Len(order) \in Nat /\ DOMAIN order = 1 .. Len(order) /\ order \in Seq(C)
  BY <1>5 DEF Lists
<1> HIDE DEF order
<1>7. ASSUME NEW i \in DOMAIN order
      PROVE  /\ blocks[i] \in Seq(C)
             /\ DOMAIN blocks[i] # {}
             /\ \A j \in DOMAIN blocks[i] : blocks[i][j] = order[i]
  <2> DEFINE P == Same(names, order[i])
  <2>1. order[i] \in C
    BY <1>6
  <2>2. \E m \in DOMAIN names : m \in P
    BY <2>1 DEF Range, Same
  <2>3. \A m \in P : m \in DOMAIN names /\ names[m] = order[i]
    BY DEF Same
  <2>4. blocks[i] = Chosen(names, P)
    OBVIOUS
  <2> HIDE DEF P, blocks, C
  <2>5. /\ Chosen(names, P) \in Seq(C)
        /\ \E index : Picks(index, names, P)
    BY <1>3, ChosenIs
  <2>6. PICK index : Picks(index, names, P)
    BY <2>5
  <2>7. /\ Chosen(names, P) = [j \in DOMAIN index |-> names[index[j]]]
        /\ index \in Seq(P \cap DOMAIN names)
        /\ \A m \in P \cap DOMAIN names : \E j \in DOMAIN index : index[j] = m
    BY <2>6 DEF Picks
  <2>8. DOMAIN index # {}
    BY <2>2, <2>7
  <2>9. \A j \in DOMAIN index : index[j] \in P
    BY <2>7
  <2> QED
    BY <2>3, <2>4, <2>5, <2>7, <2>8, <2>9
<1>8. blocks \in Seq(Seq(C)) /\ Len(blocks) = Len(order)
  <2>1. DOMAIN blocks = 1 .. Len(order)
    BY <1>6
  <2>2. blocks \in [1 .. Len(order) -> Seq(C)]
    BY <1>6, <1>7
  <2> HIDE DEF blocks, C
  <2> QED
    BY <1>6, <2>1, <2>2
<1> HIDE DEF blocks, C
<1>9. keys \in Seq(C) /\ \E piece, place : Spread(Len(order), blocks, keys, piece, place)
  BY <1>8, FlattenSpreads
<1>10. PICK piece, place : Spread(Len(order), blocks, keys, piece, place)
  BY <1>9
<1> HIDE DEF keys
<1>11. /\ DOMAIN keys \in SUBSET Nat
       /\ \A j \in DOMAIN keys : \A i \in 1 .. j : i \in DOMAIN keys
  BY <1>9
<1>12. \A p \in DOMAIN keys : piece[p] \in DOMAIN order /\ keys[p] = order[piece[p]]
  <2>1. ASSUME NEW p \in DOMAIN keys
        PROVE  piece[p] \in DOMAIN order /\ keys[p] = order[piece[p]]
    <3>1. piece[p] \in DOMAIN order
      BY <1>6, <1>10 DEF Spread
    <3>2. place[p] \in DOMAIN blocks[piece[p]] /\ keys[p] = blocks[piece[p]][place[p]]
      BY <1>10 DEF Spread
    <3> QED
      BY <1>7, <3>1, <3>2
  <2> QED
    BY <2>1
<1>13. \A p, q \in DOMAIN keys : p < q => piece[p] <= piece[q]
  <2>1. ASSUME NEW p \in DOMAIN keys, NEW q \in DOMAIN keys, p < q
        PROVE  piece[p] <= piece[q]
    <3>1. piece[p] < piece[q] \/ piece[p] = piece[q]
      BY <1>10, <2>1 DEF Spread
    <3>2. piece[p] \in Nat /\ piece[q] \in Nat
      BY <1>6, <1>12
    <3> QED
      BY <3>1, <3>2
  <2> QED
    BY <2>1
<1>14. Grouped(keys)
  <2> SUFFICES ASSUME NEW i \in DOMAIN keys, NEW j \in DOMAIN keys,
                      i < j, keys[i] = keys[j]
               PROVE  keys[j - 1] = keys[j]
    BY DEF Grouped
  <2>1. piece[i] = piece[j]
    BY <1>5, <1>12 DEF Lists
  <2>2. CASE i = j - 1
    BY <2>2
  <2>3. CASE i # j - 1
    <3>1. i \in Nat /\ j \in Nat /\ i >= 1
      BY <1>9
    <3>2. j - 1 \in 1 .. j /\ i < j - 1 /\ j - 1 < j
      BY <2>3, <3>1
    <3>3. j - 1 \in DOMAIN keys
      BY <1>11, <3>2
    <3>4. piece[i] <= piece[j - 1] /\ piece[j - 1] <= piece[j]
      BY <1>13, <3>2, <3>3
    <3>5. piece[i] \in Nat /\ piece[j] \in Nat /\ piece[j - 1] \in Nat
      BY <1>6, <1>12, <3>3
    <3>6. piece[j - 1] = piece[j]
      BY <2>1, <3>4, <3>5
    <3> QED
      BY <1>12, <3>3, <3>6
  <2> QED
    BY <2>2, <2>3
<1>15. ASSUME NEW n \in C PROVE \E p \in DOMAIN keys : keys[p] = n
  <2>1. PICK i \in DOMAIN order : order[i] = n
    BY <1>5 DEF Lists
  <2>2. PICK j \in DOMAIN blocks[i] : TRUE
    BY <1>7
  <2>3. PICK p \in DOMAIN keys : piece[p] = i
    BY <1>6, <1>10, <2>2 DEF Spread
  <2> QED
    BY <1>12, <2>1, <2>3
<1>16. keys \in Seq(C)
  BY <1>9
<1> QED
  BY <1>1, <1>14, <1>15, <1>16 DEF C

(* The nodes of the filters of one name. *)
LEMMA FilterNodes ==
  ASSUME NEW S, NEW walk, Lists(walk, S), NEW name
  PROVE  Lists(filter_get_nodes(walk, name),
               {k \in Of(S, {"FG"}) : node_position_key(k, 1) = name})
<1> DEFINE nodes == OfType(walk, {"FG"})
           P == {i \in DOMAIN nodes : node_position_key(nodes[i], 1) = name}
           F == {k \in Of(S, {"FG"}) : node_position_key(k, 1) = name}
<1>1. Lists(nodes, Of(S, {"FG"}))
  BY OfTypeLists DEF Of
<1>2. filter_get_nodes(walk, name) = Chosen(nodes, P)
  BY DEF filter_get_nodes
<1> HIDE DEF nodes
<1>3. {nodes[i] : i \in P \cap DOMAIN nodes} = F
  <2>1. ASSUME NEW i \in P PROVE nodes[i] \in F
    BY <1>1 DEF Lists
  <2>2. ASSUME NEW k \in F PROVE \E i \in P : nodes[i] = k
    BY <1>1 DEF Lists
  <2>3. P \cap DOMAIN nodes = P
    OBVIOUS
  <2> HIDE DEF P, F
  <2> QED
    BY <2>1, <2>2, <2>3
<1> HIDE DEF P, F
<1>4. Lists(Chosen(nodes, P), {nodes[i] : i \in P \cap DOMAIN nodes})
  BY <1>1, ChosenLists
<1> QED
  BY <1>2, <1>3, <1>4 DEF F

(* The filters of a page: every node once, as display_set_filter_node.     *)
LEMMA FilterShows ==
  ASSUME NEW S, NEW walk, Lists(walk, S)
  PROVE  Shows(display_set_filter(walk), Of(S, {"FG"}))
<1> DEFINE F == Of(S, {"FG"})
           E == {display_set_filter_node(k) : k \in F}
           keys == filter_get_keys(walk)
           opened(i) == ~(i > 1 /\ keys[i] = keys[i - 1])
           nodes(n) == filter_get_nodes(walk, n)
           shown(n) == [j \in DOMAIN nodes(n) |-> display_set_filter_node(nodes(n)[j])]
           object(i) == IF i > 1 /\ keys[i] = keys[i - 1] THEN <<>> ELSE shown(keys[i])
           objects == [i \in DOMAIN keys |-> object(i)]
           page == FlattenSeq(objects)
           w == [p \in DOMAIN page |-> page[p].node]
           name(k) == node_position_key(k, 1)
<1>1. display_set_filter(walk) = page
  BY DEF display_set_filter
<1>2. /\ Len(keys) \in Nat /\ DOMAIN keys = 1 .. Len(keys)
      /\ \A n \in Range(Names(walk)) : \E p \in DOMAIN keys : keys[p] = n
      /\ Grouped(keys)
  <2> DEFINE C == Range(Names(walk))
  <2>1. /\ keys \in Seq(C)
        /\ \A n \in C : \E p \in DOMAIN keys : keys[p] = n
        /\ Grouped(keys)
    BY KeysGrouped
  <2> HIDE DEF C, keys
  <2>2. Len(keys) \in Nat /\ DOMAIN keys = 1 .. Len(keys)
    BY <2>1
  <2> QED
    BY <2>1, <2>2 DEF C
<1>3. ASSUME NEW k \in F PROVE \E p \in DOMAIN keys : keys[p] = name(k)
  <2>1. Lists(OfType(walk, {"FG"}), F)
    BY OfTypeLists DEF Of
  <2>2. PICK i \in DOMAIN OfType(walk, {"FG"}) : OfType(walk, {"FG"})[i] = k
    BY <2>1 DEF Lists
  <2>3. name(k) \in Range(Names(walk))
    BY <2>2 DEF Names, Range
  <2> QED
    BY <1>2, <2>3
<1>4. ASSUME NEW n
      PROVE  Lists(nodes(n), {k \in F : name(k) = n})
  BY FilterNodes
<1> HIDE DEF keys, nodes
<1>5. ASSUME NEW n
      PROVE  /\ shown(n) \in Seq(E)
             /\ \A j \in DOMAIN shown(n) :
                  /\ shown(n)[j].node = nodes(n)[j] /\ name(nodes(n)[j]) = n
                  /\ nodes(n)[j] \in F
                  /\ shown(n)[j] = display_set_filter_node(nodes(n)[j])
             /\ DOMAIN shown(n) = DOMAIN nodes(n)
  <2> DEFINE v == nodes(n)
  <2>1. /\ Len(v) \in Nat /\ DOMAIN v = 1 .. Len(v)
        /\ \A j \in DOMAIN v : v[j] \in F /\ name(v[j]) = n
    <3>1. Lists(v, {k \in F : name(k) = n})
      BY <1>4
    <3> HIDE DEF v, F, name
    <3>2. v \in Seq({k \in F : name(k) = n})
      BY <3>1 DEF Lists
    <3> QED
      BY <3>2
  <2>2. shown(n) = [j \in DOMAIN v |-> display_set_filter_node(v[j])]
    OBVIOUS
  <2> HIDE DEF v, F, name, shown
  <2>3. shown(n) \in Seq(E)
    BY <2>1, <2>2
  <2>4. \A k : display_set_filter_node(k).node = k
    BY DEF display_set_filter_node, Entry
  <2> QED
    BY <2>1, <2>2, <2>3, <2>4 DEF v
<1>6. objects \in Seq(Seq(E)) /\ Len(objects) = Len(keys)
  <2>1. ASSUME NEW i \in DOMAIN keys PROVE object(i) \in Seq(E)
    <3> HIDE DEF shown, E
    <3> QED
      BY <1>5
  <2> HIDE DEF object, E
  <2> QED
    BY <1>2, <2>1
<1>7. /\ page \in Seq(E)
      /\ \E piece, place : Spread(Len(keys), objects, page, piece, place)
  <2> HIDE DEF objects, E
  <2> QED
    BY <1>6, FlattenSpreads
<1>8. PICK piece, place : Spread(Len(keys), objects, page, piece, place)
  BY <1>7
<1> HIDE DEF page, shown, F
(* Where an entry comes from. *)
<1>9. ASSUME NEW p \in DOMAIN page
      PROVE  /\ piece[p] \in DOMAIN keys /\ opened(piece[p])
             /\ place[p] \in DOMAIN nodes(keys[piece[p]])
             /\ page[p].node = nodes(keys[piece[p]])[place[p]]
             /\ page[p] = display_set_filter_node(page[p].node)
             /\ page[p].node \in F /\ name(page[p].node) = keys[piece[p]]
  <2>1. piece[p] \in DOMAIN keys
    BY <1>2, <1>8 DEF Spread
  <2>2. place[p] \in DOMAIN objects[piece[p]] /\ page[p] = objects[piece[p]][place[p]]
    BY <1>8 DEF Spread
  <2>3. objects[piece[p]] = object(piece[p])
    BY <2>1
  <2>4. opened(piece[p]) /\ object(piece[p]) = shown(keys[piece[p]])
    BY <2>2, <2>3
  <2>5. place[p] \in DOMAIN shown(keys[piece[p]]) /\ page[p] = shown(keys[piece[p]])[place[p]]
    BY <2>2, <2>3, <2>4
  <2> DEFINE n == keys[piece[p]]
             j == place[p]
             e == page[p]
             m == nodes(n)[j]
  <2>6. j \in DOMAIN shown(n) /\ e = shown(n)[j] /\ opened(piece[p])
    BY <2>4, <2>5
  <2> HIDE DEF objects, object, opened, name, n, j, e
  <2>7. DOMAIN shown(n) = DOMAIN nodes(n)
    BY <1>5
  <2>8. /\ shown(n)[j].node = m /\ name(m) = n /\ m \in F
        /\ shown(n)[j] = display_set_filter_node(m)
    BY <1>5, <2>6
  <2>9. /\ j \in DOMAIN nodes(n) /\ e.node = m /\ e = display_set_filter_node(e.node)
        /\ e.node \in F /\ name(e.node) = n
    BY <2>6, <2>7, <2>8
  <2> QED
    BY <2>1, <2>6, <2>9 DEF n, j, e
(* No two objects have the same name. *)
<1>10. ASSUME NEW i \in DOMAIN keys, NEW j \in DOMAIN keys, opened(i), opened(j),
              keys[i] = keys[j]
       PROVE  i = j
  <2>1. i \in Nat /\ j \in Nat /\ i >= 1 /\ j >= 1
    BY <1>2
  <2>2. CASE i < j
    <3>1. keys[j - 1] = keys[j]
      BY <1>2, <1>10, <2>2 DEF Grouped
    <3> QED
      BY <1>10, <2>1, <2>2, <3>1
  <2>3. CASE j < i
    <3>1. keys[i - 1] = keys[i]
      BY <1>2, <1>10, <2>3 DEF Grouped
    <3> QED
      BY <1>10, <2>1, <2>3, <3>1
  <2> QED
    BY <2>1, <2>2, <2>3
<1>11. ASSUME NEW p \in DOMAIN page, NEW q \in DOMAIN page, page[p].node = page[q].node
       PROVE  p = q
  <2>1. piece[p] = piece[q]
    <3>1. /\ piece[p] \in DOMAIN keys /\ opened(piece[p])
          /\ piece[q] \in DOMAIN keys /\ opened(piece[q])
          /\ keys[piece[p]] = keys[piece[q]]
      BY <1>9, <1>11
    <3> HIDE DEF opened
    <3> QED
      BY <1>10, <3>1
  <2>2. place[p] = place[q]
    <3> DEFINE v == nodes(keys[piece[p]])
    <3>1. \A i, j \in DOMAIN v : v[i] = v[j] => i = j
      BY <1>4 DEF Lists
    <3>2. /\ place[p] \in DOMAIN v /\ place[q] \in DOMAIN v
          /\ v[place[p]] = v[place[q]]
      BY <1>9, <1>11, <2>1
    <3> HIDE DEF v
    <3> QED
      BY <3>1, <3>2
  <2>3. p \in Nat /\ q \in Nat
    BY <1>7
  <2>4. ~(p < q) /\ ~(q < p)
    <3>1. place[p] \in Nat /\ piece[p] \in Nat
      BY <1>8 DEF Spread
    <3>2. ASSUME p < q PROVE FALSE
      <4>1. piece[p] < piece[q] \/ (piece[p] = piece[q] /\ place[p] < place[q])
        BY <1>8, <3>2 DEF Spread
      <4> QED
        BY <2>1, <2>2, <3>1, <4>1
    <3>3. ASSUME q < p PROVE FALSE
      <4>1. piece[q] < piece[p] \/ (piece[q] = piece[p] /\ place[q] < place[p])
        BY <1>8, <3>3 DEF Spread
      <4> QED
        BY <2>1, <2>2, <3>1, <4>1
    <3> QED
      BY <3>2, <3>3
  <2> QED
    BY <2>3, <2>4
(* Every node is in the object that its name opens. *)
<1>12. ASSUME NEW k \in F PROVE \E p \in DOMAIN page : page[p].node = k
  <2> DEFINE A == {i \in DOMAIN keys : keys[i] = name(k)}
  <2>1. A \in SUBSET Nat /\ A # {}
    BY <1>2, <1>3
  <2>2. PICK i \in A : \A j \in A : i <= j
    <3> HIDE DEF A
    <3> QED
      BY <2>1, LeastNat
  <2>3. i \in DOMAIN keys /\ keys[i] = name(k) /\ i \in Nat /\ i >= 1
    BY <1>2
  <2>4. opened(i)
    <3> SUFFICES ASSUME i > 1, keys[i] = keys[i - 1] PROVE FALSE
      OBVIOUS
    <3>1. i - 1 \in DOMAIN keys
      BY <1>2, <2>3
    <3>2. i - 1 \in A
      BY <2>3, <3>1
    <3>3. i <= i - 1
      BY <2>2, <3>2
    <3> QED
      BY <2>3, <3>3
  <2>5. objects[i] = shown(keys[i])
    BY <2>3, <2>4
  <2>6. PICK j \in DOMAIN nodes(keys[i]) : nodes(keys[i])[j] = k
    <3>1. Lists(nodes(keys[i]), {f \in F : name(f) = keys[i]})
      BY <1>4
    <3> QED
      BY <2>3, <3>1 DEF Lists
  <2>7. j \in DOMAIN objects[i]
    <3> HIDE DEF objects
    <3> QED
      BY <1>5, <2>5, <2>6
  <2>8. PICK p \in DOMAIN page : piece[p] = i /\ place[p] = j
    <3> HIDE DEF objects
    <3> QED
      BY <1>2, <1>8, <2>3, <2>7 DEF Spread
  <2> QED
    BY <1>9, <2>6, <2>8
<1>13. Shows(page, F)
  <2>1. Len(page) \in Nat /\ DOMAIN page = 1 .. Len(page) /\ page \in [1 .. Len(page) -> Range(page)]
    <3> HIDE DEF E
    <3>1. page \in Seq(E)
      BY <1>7
    <3> QED
      BY <3>1 DEF Range
  <2>2. page \in Seq(Range(page))
    BY <2>1
  <2>3. w \in Seq(F)
    BY <1>9, <2>1
  <2>4. \A p, q \in DOMAIN w : w[p] = w[q] => p = q
    BY <1>11
  <2>5. \A k \in F : \E p \in DOMAIN w : w[p] = k
    BY <1>12
  <2>6. \A p \in DOMAIN page : page[p] = EntryOf(page[p].node)
    <3> SUFFICES ASSUME NEW p \in DOMAIN page PROVE page[p] = EntryOf(page[p].node)
      OBVIOUS
    <3>1. page[p] = display_set_filter_node(page[p].node) /\ page[p].node \in F
      BY <1>9
    <3>2. page[p].node[1] = "FG"
      BY <3>1 DEF F, Of
    <3> QED
      BY <3>1, <3>2 DEF EntryOf
  <2> HIDE DEF w
  <2>7. Lists(w, F)
    BY <2>3, <2>4, <2>5 DEF Lists
  <2> QED
    BY <2>2, <2>6, <2>7 DEF Shows, w
<1> QED
  BY <1>1, <1>13 DEF F

-----------------------------------------------------------------------------
(* The room that is measured for a page. *)

(* Upstreams, as they are typed. *)
Servers == [addrs : Seq(Seq(Chars)), backup : BOOLEAN]
Groups == [host : Seq(Chars), port : BOOLEAN, zone : BOOLEAN,
           peers : Seq(Seq(Chars)), servers : Seq(Servers)]

(* The addresses of an upstream that are shown besides the peers of its    *)
(* zone, its addresses counted, the entries that                           *)
(* display_get_upstream_nelts makes room for, and those that               *)
(* display_set_upstream_group writes.                                      *)
Backups(u) ==
  [i \in DOMAIN u.servers |->
     IF u.zone /\ ~u.servers[i].backup THEN <<>> ELSE u.servers[i].addrs]
Addrs(u) == [j \in DOMAIN u.servers |-> Len(u.servers[j].addrs)]
Nelts(u) ==
  IF u.port \/ u.servers = <<>> THEN 0
  ELSE (IF u.zone THEN Len(u.peers) ELSE 0) + SumFunction(Addrs(u))
GroupShown(u) ==
  IF u.port \/ u.servers = <<>> THEN <<>>
  ELSE [i \in DOMAIN PeersShown(u) |-> display_set_upstream_node(u.host, PeersShown(u)[i])]
GroupsShown == [i \in DOMAIN Upstreams |-> GroupShown(Upstreams[i])]

(* The upstreams are typed. *)
LEMMA UpstreamTypes ==
  /\ Upstreams \in Seq(Groups)
  /\ Len(Upstreams) \in Nat /\ DOMAIN Upstreams = 1 .. Len(Upstreams)
  /\ \A i \in DOMAIN Upstreams : Upstreams[i] \in Groups
<1>1. Upstreams \in Seq(Groups)
  BY UpstreamAssumption DEF Groups, Servers
<1> QED
  BY <1>1

(* No more of a server's addresses are shown than are counted. *)
LEMMA BackupTypes ==
  ASSUME NEW u \in Groups
  PROVE  /\ Backups(u) \in Seq(Seq(Seq(Chars)))
         /\ DOMAIN Backups(u) = DOMAIN u.servers
         /\ DOMAIN Addrs(u) = DOMAIN u.servers
         /\ \A i \in DOMAIN u.servers :
              /\ Addrs(u)[i] \in Nat /\ Len(Backups(u)[i]) <= Addrs(u)[i]
<1> DEFINE v == u.servers
<1>1. v \in Seq(Servers)
  BY DEF Groups
<1> HIDE DEF v
<1>2. /\ Len(v) \in Nat /\ DOMAIN v = 1 .. Len(v)
      /\ \A i \in DOMAIN v : v[i].addrs \in Seq(Seq(Chars))
  <2> DEFINE C == Seq(Chars)
  <2>1. \A x \in Servers : x.addrs \in Seq(C)
    BY DEF Servers
  <2>2. Len(v) \in Nat /\ DOMAIN v = 1 .. Len(v) /\ \A i \in DOMAIN v : v[i] \in Servers
    BY <1>1
  <2> HIDE DEF C
  <2> QED
    BY <2>1, <2>2 DEF C
<1>3. \A i \in DOMAIN v : Len(v[i].addrs) \in Nat
  BY <1>2
<1>4. \A i \in DOMAIN v : Addrs(u)[i] = Len(v[i].addrs)
  BY DEF Addrs, v
<1>5. \A i \in DOMAIN v : Backups(u)[i] = <<>> \/ Backups(u)[i] = v[i].addrs
  BY DEF Backups, v
<1>6. \A i \in DOMAIN v : Backups(u)[i] \in Seq(Seq(Chars)) /\ Len(Backups(u)[i]) <= Addrs(u)[i]
  <2> SUFFICES ASSUME NEW i \in DOMAIN v
               PROVE  Backups(u)[i] \in Seq(Seq(Chars)) /\ Len(Backups(u)[i]) <= Addrs(u)[i]
    OBVIOUS
  <2>1. CASE Backups(u)[i] = <<>>
    <3>1. Len(<<>>) = 0 /\ <<>> \in Seq(Seq(Chars))
      OBVIOUS
    <3>2. Addrs(u)[i] \in Nat
      BY <1>3, <1>4
    <3> QED
      BY <2>1, <3>1, <3>2
  <2>2. CASE Backups(u)[i] = v[i].addrs
    <3>1. v[i].addrs \in Seq(Seq(Chars)) /\ Len(v[i].addrs) \in Nat /\ Addrs(u)[i] = Len(v[i].addrs)
      BY <1>2, <1>3, <1>4
    <3> QED
      BY <2>2, <3>1
  <2> QED
    BY <1>5, <2>1, <2>2
<1>7. /\ DOMAIN Backups(u) = DOMAIN v /\ DOMAIN Addrs(u) = DOMAIN v
      /\ Backups(u) = [i \in DOMAIN v |-> Backups(u)[i]]
  BY DEF Backups, Addrs, v
<1>8. Backups(u) \in Seq(Seq(Seq(Chars)))
  BY <1>2, <1>6, <1>7
<1> QED
  BY <1>3, <1>4, <1>6, <1>7, <1>8 DEF v

(* No more peers than are counted. *)
LEMMA PeersCounted ==
  ASSUME NEW u \in Groups
  PROVE  /\ PeersShown(u) \in Seq(Seq(Chars))
         /\ SumFunction(Addrs(u)) \in Nat
         /\ Len(PeersShown(u)) <= (IF u.zone THEN Len(u.peers) ELSE 0) + SumFunction(Addrs(u))
<1> DEFINE a == IF u.zone THEN u.peers ELSE <<>>
           b == FlattenSeq(Backups(u))
           sum == SumFunction(Addrs(u))
<1>1. PeersShown(u) = a \o b
  BY DEF PeersShown, Backups
<1>2. a \in Seq(Seq(Chars)) /\ Len(a) = IF u.zone THEN Len(u.peers) ELSE 0
  BY DEF Groups
<1>3. b \in Seq(Seq(Chars))
  BY BackupTypes, FlattenSpreads
<1>4. sum \in Nat /\ Len(b) <= sum
  <2> DEFINE f == Addrs(u)
             s == Backups(u)
  <2>1. /\ s \in Seq(Seq(Seq(Chars))) /\ DOMAIN f = DOMAIN s
        /\ \A i \in DOMAIN s : f[i] \in Nat /\ Len(s[i]) <= f[i]
    BY BackupTypes
  <2> HIDE DEF f, s
  <2>2. SumFunction(f) \in Nat /\ Len(FlattenSeq(s)) <= SumFunction(f)
    BY <2>1, FlattenLen
  <2> QED
    BY <2>2 DEF f, s
<1> HIDE DEF a, b, sum
<1>5. a \o b \in Seq(Seq(Chars)) /\ Len(a \o b) = Len(a) + Len(b)
  <2> DEFINE C == Seq(Chars)
  <2>1. a \in Seq(C) /\ b \in Seq(C)
    BY <1>2, <1>3
  <2> HIDE DEF C
  <2>2. a \o b \in Seq(C) /\ Len(a \o b) = Len(a) + Len(b)
    BY <2>1
  <2> QED
    BY <2>2 DEF C
<1>6. Len(a) \in Nat /\ Len(b) \in Nat
  BY <1>2, <1>3
<1> QED
  BY <1>1, <1>2, <1>4, <1>5, <1>6 DEF sum

(* The entries of the peers of an upstream. *)
PeerEntries ==
  {display_set_upstream_node(host, name) : host \in Seq(Chars), name \in Seq(Chars)}

(* No more entries of an upstream than are counted. *)
LEMMA GroupCounted ==
  ASSUME NEW u \in Groups
  PROVE  /\ GroupShown(u) \in Seq(PeerEntries)
         /\ Nelts(u) \in Nat /\ Len(GroupShown(u)) <= Nelts(u)
<1>1. CASE u.port \/ u.servers = <<>>
  <2>1. GroupShown(u) = <<>> /\ Nelts(u) = 0
    BY <1>1 DEF GroupShown, Nelts
  <2> QED
    BY <2>1
<1>2. CASE ~(u.port \/ u.servers = <<>>)
  <2> DEFINE names == PeersShown(u)
             n == Len(names)
  <2>1. names \in Seq(Seq(Chars)) /\ u.host \in Seq(Chars)
    BY PeersCounted DEF Groups
  <2>2. n \in Nat /\ DOMAIN names = 1 .. n /\ \A i \in 1 .. n : names[i] \in Seq(Chars)
    BY <2>1
  <2>3. GroupShown(u) = [i \in 1 .. n |-> display_set_upstream_node(u.host, names[i])]
    BY <1>2, <2>2 DEF GroupShown
  <2>4. Nelts(u) = (IF u.zone THEN Len(u.peers) ELSE 0) + SumFunction(Addrs(u))
    BY <1>2 DEF Nelts
  <2>5. SumFunction(Addrs(u)) \in Nat /\ n <= Nelts(u)
    BY <2>4, PeersCounted
  <2>6. (IF u.zone THEN Len(u.peers) ELSE 0) \in Nat
    BY DEF Groups
  <2>7. \A i \in 1 .. n : display_set_upstream_node(u.host, names[i]) \in PeerEntries
    BY <2>1, <2>2 DEF PeerEntries
  <2> HIDE DEF names, n
  <2>8. GroupShown(u) \in Seq(PeerEntries) /\ Len(GroupShown(u)) = n
    BY <2>2, <2>3, <2>7
  <2> QED
    BY <2>4, <2>5, <2>6, <2>8
<1> QED
  BY <1>1, <1>2

(* No more entries of peers than are counted. *)
LEMMA GroupsCounted ==
  /\ GroupsShown \in Seq(Seq(PeerEntries))
  /\ FlattenSeq(GroupsShown) \in Seq(PeerEntries)
  /\ Len(FlattenSeq(GroupsShown)) \in Nat /\ display_get_upstream_nelts \in Nat
  /\ Len(FlattenSeq(GroupsShown)) <= display_get_upstream_nelts
<1> DEFINE f == [i \in DOMAIN Upstreams |-> Nelts(Upstreams[i])]
<1>1. display_get_upstream_nelts = SumFunction(f)
  BY DEF display_get_upstream_nelts, Nelts, Addrs
<1>2. \A i \in DOMAIN Upstreams :
        /\ GroupsShown[i] \in Seq(PeerEntries)
        /\ f[i] \in Nat /\ Len(GroupsShown[i]) <= f[i]
  BY UpstreamTypes, GroupCounted DEF GroupsShown
<1>3. DOMAIN GroupsShown = DOMAIN Upstreams /\ DOMAIN f = DOMAIN Upstreams
      /\ GroupsShown = [i \in DOMAIN Upstreams |-> GroupsShown[i]]
  BY DEF GroupsShown
<1> HIDE DEF f
<1>4. GroupsShown \in Seq(Seq(PeerEntries))
  BY <1>2, <1>3, UpstreamTypes
<1>5. /\ SumFunction(f) \in Nat
      /\ Len(FlattenSeq(GroupsShown)) <= SumFunction(f)
  BY <1>2, <1>3, <1>4, FlattenLen
<1>6. FlattenSeq(GroupsShown) \in Seq(PeerEntries)
  BY <1>4, FlattenSpreads
<1>7. Len(FlattenSeq(GroupsShown)) \in Nat
  BY <1>6
<1> QED
  BY <1>1, <1>4, <1>5, <1>6, <1>7

(* Nodes of different types. *)
LEMMA OfDisjoint ==
  ASSUME NEW S, IsFiniteSet(S), NEW A, NEW B, A \cap B = {}
  PROVE  /\ Cardinality(Of(S, A)) \in Nat /\ Cardinality(Of(S, B)) \in Nat
         /\ Cardinality(Of(S, A \cup B)) = Cardinality(Of(S, A)) + Cardinality(Of(S, B))
         /\ Cardinality(Of(S, A \cup B)) <= Cardinality(S)
<1>1. /\ Of(S, A) \in SUBSET S /\ Of(S, B) \in SUBSET S /\ Of(S, A \cup B) \in SUBSET S
      /\ Of(S, A \cup B) = Of(S, A) \cup Of(S, B)
      /\ Of(S, A) \cap Of(S, B) = {}
  BY DEF Of
<1>2. /\ IsFiniteSet(Of(S, A)) /\ IsFiniteSet(Of(S, B))
      /\ Cardinality(Of(S, A \cup B)) <= Cardinality(S)
  BY <1>1, FS_Subset
<1>3. /\ Cardinality(Of(S, A) \cup Of(S, B)) = Cardinality(Of(S, A)) + Cardinality(Of(S, B))
      /\ Cardinality(Of(S, A)) \in Nat /\ Cardinality(Of(S, B)) \in Nat
  BY <1>1, <1>2, DisjointUnion
<1> QED
  BY <1>1, <1>2, <1>3

(* The length of two sequences, one after the other. *)
LEMMA LenConcat ==
  ASSUME NEW A, NEW a \in Seq(A), NEW B, NEW b \in Seq(B)
  PROVE  /\ a \o b \in Seq(A \cup B)
         /\ Len(a \o b) = Len(a) + Len(b)
         /\ Len(a) \in Nat /\ Len(b) \in Nat
<1>1. a \in Seq(A \cup B) /\ b \in Seq(A \cup B)
  OBVIOUS
<1> QED
  BY <1>1

(* Arithmetic of RoomNow. *)
LEMMA SumsFit ==
  ASSUME NEW a \in Nat, NEW b \in Nat, NEW p \in Nat, NEW c \in Nat, NEW d \in Nat,
         NEW m \in Nat, NEW l \in Nat, a + b + c + d <= l, p <= m
  PROVE  (a + b) + (p + c) + d <= l + m
  OBVIOUS

(* Enough is measured for either page. *)
LEMMA RoomNow ==
  ASSUME IsFiniteSet(live) PROVE RoomForPage
<1> DEFINE walk == WalkOf(live)
           n(types) == Cardinality(Of(live, types))
           peers == FlattenSeq(GroupsShown)
<1>1. Lists(walk, live)
  BY WalkLists
<1>2. /\ n({"NO"}) \in Nat /\ n({"FG"}) \in Nat /\ n({"UA"}) \in Nat /\ n({"CC"}) \in Nat
      /\ n({"UG", "UA"}) \in Nat /\ Cardinality(live) \in Nat
      /\ n({"NO"}) + n({"FG"}) + n({"UA"}) + n({"CC"}) <= Cardinality(live)
      /\ n({"NO"}) + n({"FG"}) + n({"UG", "UA"}) + n({"CC"}) <= Cardinality(live)
  <2>1. /\ n({"NO"}) \in Nat /\ n({"FG"}) \in Nat
        /\ n({"NO"} \cup {"FG"}) = n({"NO"}) + n({"FG"})
    BY OfDisjoint
  <2>2. /\ n({"NO"} \cup {"FG"}) \in Nat /\ n({"UA"}) \in Nat
        /\ n(({"NO"} \cup {"FG"}) \cup {"UA"}) = n({"NO"} \cup {"FG"}) + n({"UA"})
    BY OfDisjoint
  <2>3. LET A == ({"NO"} \cup {"FG"}) \cup {"UA"} IN
        /\ n(A) \in Nat /\ n({"CC"}) \in Nat
        /\ n(A \cup {"CC"}) = n(A) + n({"CC"}) /\ n(A \cup {"CC"}) <= Cardinality(live)
    BY OfDisjoint
  <2>4. /\ n({"UG", "UA"}) \in Nat
        /\ n(({"NO"} \cup {"FG"}) \cup {"UG", "UA"}) = n({"NO"} \cup {"FG"}) + n({"UG", "UA"})
    BY OfDisjoint
  <2>5. LET A == ({"NO"} \cup {"FG"}) \cup {"UG", "UA"} IN
        /\ n(A) \in Nat /\ n({"CC"}) \in Nat
        /\ n(A \cup {"CC"}) = n(A) + n({"CC"}) /\ n(A \cup {"CC"}) <= Cardinality(live)
    BY OfDisjoint
  <2>6. Cardinality(live) \in Nat
    BY FS_CardinalityType
  <2> HIDE DEF n
  <2> QED
    BY <2>1, <2>2, <2>3, <2>4, <2>5, <2>6
<1> DEFINE server == display_set_server(walk)
           filter == display_set_filter(walk)
           alone == display_set_upstream_alone(walk)
           cache == display_set_cache(walk)
           p1 == display_prometheus_set_server(walk)
           p2 == display_prometheus_set_filter(walk)
           p3 == display_prometheus_set_upstream(walk)
           p4 == display_prometheus_set_cache(walk)
<1>3. /\ display_set(walk) = server \o filter \o (peers \o alone) \o cache
      /\ display_prometheus_set(walk) = p1 \o p2 \o p3 \o p4
  BY DEF display_set, display_set_upstream_group, GroupsShown, GroupShown,
         display_prometheus_set
<1>4. /\ Shows(server, Of(live, {"NO"})) /\ Shows(filter, Of(live, {"FG"}))
      /\ Shows(alone, Of(live, {"UA"})) /\ Shows(cache, Of(live, {"CC"}))
  BY <1>1, ServerShows, FilterShows, AloneShows, CacheShows
<1>5. /\ Shows(p1, Of(live, {"NO"})) /\ Shows(p2, Of(live, {"FG"}))
      /\ Shows(p3, Of(live, {"UG", "UA"})) /\ Shows(p4, Of(live, {"CC"}))
  BY <1>1, PrometheusServer, PrometheusFilter, PrometheusUpstream, PrometheusCache
<1>6. /\ peers \in Seq(PeerEntries) /\ display_get_upstream_nelts \in Nat
      /\ Len(peers) <= display_get_upstream_nelts
  BY GroupsCounted
<1> HIDE DEF walk, server, filter, alone, cache, peers, p1, p2, p3, p4
<1>7. /\ Len(server) = n({"NO"}) /\ Len(filter) = n({"FG"})
      /\ Len(alone) = n({"UA"}) /\ Len(cache) = n({"CC"})
      /\ Len(p1) = n({"NO"}) /\ Len(p2) = n({"FG"})
      /\ Len(p3) = n({"UG", "UA"}) /\ Len(p4) = n({"CC"})
  BY <1>4, <1>5, ShowsCount
<1> HIDE DEF n
<1>8. Len(display_set(walk)) <= display_get_size
  <2>1. /\ Len(server \o filter) = Len(server) + Len(filter)
        /\ Len(peers \o alone) = Len(peers) + Len(alone)
        /\ server \o filter \in Seq(Range(server) \cup Range(filter))
        /\ peers \o alone \in Seq(PeerEntries \cup Range(alone))
    BY <1>4, <1>6, LenConcat DEF Shows
  <2>2. Len(display_set(walk)) = Len(server \o filter) + Len(peers \o alone) + Len(cache)
    <3> DEFINE a == server \o filter
               b == peers \o alone
    <3> HIDE DEF a, b
    <3>1. Len((a \o b) \o cache) = Len(a \o b) + Len(cache)
          /\ Len(a \o b) = Len(a) + Len(b)
      <4>1. a \o b \in Seq((Range(server) \cup Range(filter)) \cup (PeerEntries \cup Range(alone)))
            /\ Len(a \o b) = Len(a) + Len(b)
        BY <2>1, LenConcat DEF a, b
      <4> QED
        BY <1>4, <4>1, LenConcat DEF Shows
    <3> QED
      BY <1>3, <3>1 DEF a, b
  <2>3. Len(peers) \in Nat
    BY <1>6
  <2>4. Len(display_set(walk))
          = (n({"NO"}) + n({"FG"})) + (Len(peers) + n({"UA"})) + n({"CC"})
    BY <1>7, <2>1, <2>2
  <2> QED
    BY <1>2, <1>6, <2>3, <2>4, SumsFit DEF display_get_size
<1>9. Len(display_prometheus_set(walk)) <= display_get_size
  <2>1. /\ Len(p1 \o p2) = Len(p1) + Len(p2)
        /\ p1 \o p2 \in Seq(Range(p1) \cup Range(p2))
    BY <1>5, LenConcat DEF Shows
  <2>2. /\ Len(p1 \o p2 \o p3) = Len(p1 \o p2) + Len(p3)
        /\ p1 \o p2 \o p3 \in Seq((Range(p1) \cup Range(p2)) \cup Range(p3))
    BY <1>5, <2>1, LenConcat DEF Shows
  <2>3. Len(p1 \o p2 \o p3 \o p4) = Len(p1 \o p2 \o p3) + Len(p4)
    BY <1>5, <2>2, LenConcat DEF Shows
  <2>4. Len(display_prometheus_set(walk))
          = (n({"NO"}) + n({"FG"})) + (0 + n({"UG", "UA"})) + n({"CC"})
    BY <1>2, <1>3, <1>7, <2>1, <2>2, <2>3
  <2>5. 0 \in Nat /\ 0 <= display_get_upstream_nelts
    BY <1>6
  <2> QED
    BY <1>2, <1>6, <2>4, <2>5, SumsFit DEF display_get_size
<1> QED
  BY <1>8, <1>9 DEF RoomForPage, walk

-----------------------------------------------------------------------------
(* The nodes are finitely many. *)

(* What handler counts a request in are keys of Keys. *)
LEMMA HandlerTyped ==
  ASSUME ConfTypeOK, NEW r \in Requests, NEW refused \in BOOLEAN
  PROVE  handler(r, refused) \in Seq(Keys)
<1> DEFINE b == r.block
           up == shm_add_upstream(r, refused)
           ca == shm_add_cache(r, refused)
           own(c) == shm_add_filter_node(conf[c]["filter_keys"], r)
           filters == IF "filter" \notin Options[b] THEN <<>> ELSE own("http") \o own(b)
<1>1. b \in Blocks /\ "http" \in Blocks /\ "filter_keys" \in Arrays
  BY RequestAssumption DEF Blocks, Arrays
<1>2. up \in Seq(Keys)
  <2>1. up = <<>> \/ up = shm_add_upstream(r, FALSE)
    BY DEF shm_add_upstream
  <2>2. Range(shm_add_upstream(r, FALSE)) \subseteq Keys
    BY KeyAssumption
  <2>3. shm_add_upstream(r, FALSE) = <<>> \/ \E h : shm_add_upstream(r, FALSE) = <<h>>
    BY DEF shm_add_upstream
  <2>4. ASSUME NEW h, Range(<<h>>) \subseteq Keys PROVE <<h>> \in Seq(Keys)
    <3>1. h \in Range(<<h>>)
      BY DEF Range
    <3> QED
      BY <2>4, <3>1
  <2>5. <<>> \in Seq(Keys)
    OBVIOUS
  <2> HIDE DEF up
  <2>6. shm_add_upstream(r, FALSE) \in Seq(Keys)
    BY <2>2, <2>3, <2>4, <2>5
  <2> QED
    BY <2>1, <2>5, <2>6
<1>3. ca \in Seq(Keys)
  <2>1. ca = <<>> \/ ca = shm_add_cache(r, FALSE)
    BY DEF shm_add_cache
  <2>2. Range(shm_add_cache(r, FALSE)) \subseteq Keys
    BY KeyAssumption
  <2>3. shm_add_cache(r, FALSE) = <<>> \/ \E h : shm_add_cache(r, FALSE) = <<h>>
    BY DEF shm_add_cache
  <2>4. ASSUME NEW h, Range(<<h>>) \subseteq Keys PROVE <<h>> \in Seq(Keys)
    <3>1. h \in Range(<<h>>)
      BY DEF Range
    <3> QED
      BY <2>4, <3>1
  <2>5. <<>> \in Seq(Keys)
    OBVIOUS
  <2> HIDE DEF ca
  <2>6. shm_add_cache(r, FALSE) \in Seq(Keys)
    BY <2>2, <2>3, <2>4, <2>5
  <2> QED
    BY <2>1, <2>5, <2>6
<1>4. ASSUME NEW c \in Blocks PROVE own(c) \in Seq(Keys)
  <2> DEFINE w == conf[c]["filter_keys"]
             D == Directives(file, "filter_keys")
  <2>1. w \in Seq(D) /\ file \in Files
    BY <1>1 DEF ConfTypeOK
  <2>2. \A d \in D : filter_node(d, r) \in Keys \cup {<<>>}
    BY <2>1, KeyAssumption
  <2> HIDE DEF w, D
  <2>3. \A i \in DOMAIN w : filter_node(w[i], r) \in Keys \cup {<<>>}
    BY <2>1, <2>2
  <2>4. shm_add_filter_node(w, r) \in Seq(Keys)
    BY <2>1, <2>3, NodesOfFilters
  <2> QED
    BY <2>4 DEF w
<1>5. filters \in Seq(Keys)
  <2>1. own("http") \in Seq(Keys) /\ own(b) \in Seq(Keys)
    BY <1>1, <1>4
  <2> HIDE DEF own
  <2> QED
    BY <2>1
<1>6. handler(r, refused) = up \o filters \o ca
  BY DEF handler
<1> HIDE DEF up, filters, ca
<1> QED
  BY <1>2, <1>3, <1>5, <1>6

(* The nodes are finitely many, under keys of Keys, and so are those that  *)
(* the requests in flight will add.                                        *)
NodesInv ==
  /\ IsFiniteSet(live) /\ live \subseteq Keys
  /\ todo \in [Conns -> Seq(Keys)]

(* A step keeps them so. *)
LEMMA NodesNext ==
  ASSUME NodesInv, PathInv, ConfTypeOK, [Next]_vars
  PROVE  NodesInv'
<1>1. ASSUME NEW k \in Keys, live' = live \cup {k}, todo' \in [Conns -> Seq(Keys)]
      PROVE  NodesInv'
  <2>1. IsFiniteSet(live \cup {k})
    BY FS_AddElement DEF NodesInv
  <2> QED
    BY <1>1, <2>1 DEF NodesInv
<1>2. ASSUME NEW S, live' = live \ S, todo' = todo PROVE NodesInv'
  <2>1. IsFiniteSet(live \ S)
    BY FS_Difference DEF NodesInv
  <2> QED
    BY <1>2, <2>1 DEF NodesInv
<1>3. ASSUME live' = live, todo' \in [Conns -> Seq(Keys)] PROVE NodesInv'
  BY <1>3 DEF NodesInv
<1>4. todo \in [Conns -> Seq(Keys)]
  BY DEF NodesInv
<1>5. CASE Configure
  BY <1>3, <1>4, <1>5 DEF Configure, counters, flight
<1>6. ASSUME NEW c \in Conns, (\E r \in Requests : Take(c, r)) \/ LimitHandler(c)
      PROVE  NodesInv'
  BY <1>3, <1>4, <1>6 DEF Take, LimitHandler, counters
<1>7. ASSUME NEW c \in Conns, Handler(c) PROVE NodesInv'
  <2> DEFINE r == req[c]
             refused == code[c] # 0
  <2>1. r \in Requests
    BY <1>7 DEF Handler, PathInv
  <2>2. handler(r, refused) \in Seq(Keys)
    <3>1. refused \in BOOLEAN
      OBVIOUS
    <3> HIDE DEF r, refused
    <3> QED
      BY <2>1, <3>1, HandlerTyped
  <2>3. todo' \in [Conns -> Seq(Keys)]
    BY <1>4, <1>7, <2>2 DEF Handler
  <2> QED
    BY <1>3, <1>7, <2>3 DEF Handler, counters
<1>8. ASSUME NEW c \in Conns, AddServer(c) PROVE NodesInv'
  <2>1. ServerKey(req[c]) \in Keys
    BY <1>8, KeyAssumption DEF AddServer, PathInv
  <2> QED
    BY <1>1, <1>4, <1>8, <2>1 DEF AddServer, shm_add_node
<1>9. ASSUME NEW c \in Conns, AddNode(c) PROVE NodesInv'
  <2> DEFINE q == todo[c]
  <2>1. q \in Seq(Keys) /\ q # <<>>
    BY <1>4, <1>9 DEF AddNode
  <2> HIDE DEF q
  <2>2. Head(q) \in Keys /\ Tail(q) \in Seq(Keys)
    BY <2>1
  <2>3. todo' = [todo EXCEPT ![c] = Tail(q)] /\ live' = live \cup {Head(q)}
    BY <1>9 DEF AddNode, shm_add_node, q
  <2>4. todo' \in [Conns -> Seq(Keys)]
    BY <1>4, <2>2, <2>3
  <2> QED
    BY <1>1, <2>2, <2>3, <2>4
<1>10. ASSUME NEW c \in Conns, End(c) \/ Crash(c) PROVE NodesInv'
  <2>1. todo' \in [Conns -> Seq(Keys)]
    <3>1. todo' = [todo EXCEPT ![c] = <<>>]
      BY <1>10 DEF End, Crash, Forget
    <3>2. <<>> \in Seq(Keys)
      OBVIOUS
    <3> QED
      BY <1>4, <3>1, <3>2
  <2> QED
    BY <1>3, <1>10, <2>1 DEF End, Crash, counters
<1>11. ASSUME NEW g, NEW z, node_delete(g, z) PROVE NodesInv'
  BY <1>2, <1>11 DEF node_delete, flight
<1>12. ASSUME NEW g, NEW z, node_reset(g, z) PROVE NodesInv'
  BY <1>3, <1>4, <1>12 DEF node_reset, flight
<1>13. CASE UNCHANGED vars
  BY <1>3, <1>4, <1>13 DEF vars, counters, flight
<1> QED
  BY <1>5, <1>6, <1>7, <1>8, <1>9, <1>10, <1>11, <1>12, <1>13 DEF Next

(* They always are. *)
LEMMA NodesInvariant == Spec => []NodesInv
<1>1. Init => IInv /\ NodesInv
  BY InitInv, KeyAssumption DEF Init, NodesInv
<1>2. Spec => []ConfInv
  BY Configures, ConfInvariant, PTL
<1>3. ConfInv => ConfTypeOK
  BY ConfInvParts
<1>4. Spec => []ConfTypeOK
  BY <1>2, <1>3, PTL
<1>5. IInv /\ ConfTypeOK /\ ConfTypeOK' /\ [Next]_vars => IInv'
  BY NextInv
<1>6. NodesInv /\ IInv /\ ConfTypeOK /\ [Next]_vars => NodesInv'
  BY NodesNext DEF IInv
<1> QED
  BY <1>1, <1>4, <1>5, <1>6, PTL DEF Spec

(* A page is written into a buffer that display_get_size and               *)
(* display_get_upstream_nelts measured for it: whatever keys the requests, *)
(* the commands and the dump left in the tree, and whatever the upstreams, *)
(* neither page has more entries than were measured.                       *)
THEOREM Roomy == Spec => []RoomForPage
<1>1. NodesInv => RoomForPage
  BY RoomNow DEF NodesInv
<1> QED
  BY <1>1, NodesInvariant, PTL

-----------------------------------------------------------------------------
(* The parts of a key. *)

(* The entries between two positions. *)
Between(s, lo, hi) == [j \in 1 .. hi - lo - 1 |-> s[lo + j]]

(* What is chosen is between two positions.  index meets them one by one:  *)
(* the least that it has not met is the next.                              *)
LEMMA ChosenBetween ==
  ASSUME NEW T, NEW s \in Seq(T), NEW lo \in 0 .. Len(s), NEW hi \in lo + 1 .. Len(s) + 1,
         NEW S, \A i \in DOMAIN s : i \in S <=> lo < i /\ i < hi
  PROVE  Chosen(s, S) = Between(s, lo, hi)
<1> DEFINE n == hi - lo - 1
<1>1. /\ Len(s) \in Nat /\ DOMAIN s = 1 .. Len(s)
      /\ lo \in Nat /\ hi \in Nat /\ lo + 1 <= hi /\ hi <= Len(s) + 1
  OBVIOUS
<1>2. n \in Nat /\ hi = lo + n + 1 /\ lo + n <= Len(s)
  BY <1>1
<1> HIDE DEF n
<1>3. \A i : i \in S \cap DOMAIN s <=> i \in lo + 1 .. lo + n
  BY <1>1, <1>2
<1>4. PICK index : Picks(index, s, S)
  BY ChosenIs
<1>5. /\ index \in Seq(lo + 1 .. lo + n)
      /\ Chosen(s, S) = [j \in DOMAIN index |-> s[index[j]]]
      /\ \A i, j \in DOMAIN index : i < j => index[i] < index[j]
      /\ \A i \in lo + 1 .. lo + n : \E j \in DOMAIN index : index[j] = i
  <2>1. S \cap DOMAIN s = lo + 1 .. lo + n
    BY <1>3
  <2> QED
    BY <1>4, <2>1 DEF Picks
<1> DEFINE L == Len(index)
<1>6. /\ L \in Nat /\ DOMAIN index = 1 .. L
      /\ \A j \in 1 .. L : index[j] \in lo + 1 .. lo + n
  <2> DEFINE I == lo + 1 .. lo + n
  <2>1. index \in Seq(I)
    BY <1>5
  <2> HIDE DEF I
  <2>2. L \in Nat /\ DOMAIN index = 1 .. L /\ \A j \in 1 .. L : index[j] \in I
    BY <2>1
  <2> QED
    BY <2>2 DEF I
<1> HIDE DEF L
<1> DEFINE Q == {k \in Nat : \A j \in 1 .. k : (j <= L <=> j <= n) /\ (j <= L => index[j] = lo + j)}
<1>7. 0 \in Q
  OBVIOUS
<1>8. ASSUME NEW k \in Q PROVE k + 1 \in Q
  <2>1. k \in Nat /\ \A j \in 1 .. k : (j <= L <=> j <= n) /\ (j <= L => index[j] = lo + j)
    OBVIOUS
  <2>2. ASSUME k + 1 <= n PROVE k + 1 <= L /\ index[k + 1] = lo + (k + 1)
    <3>1. lo + (k + 1) \in lo + 1 .. lo + n
      BY <1>1, <1>2, <2>1, <2>2
    <3>2. PICK i \in 1 .. L : index[i] = lo + (k + 1)
      BY <1>5, <1>6, <3>1
    <3>3. i > k
      <4> SUFFICES ASSUME i <= k PROVE FALSE
        BY <1>6, <2>1
      <4>1. index[i] = lo + i
        BY <1>6, <2>1
      <4> QED
        BY <1>1, <1>6, <2>1, <3>2, <4>1
    <3>4. k + 1 \in 1 .. L
      BY <1>6, <2>1, <3>3
    <3>5. CASE i = k + 1
      BY <1>6, <2>1, <3>2, <3>4, <3>5
    <3>6. CASE i > k + 1
      <4>a. index[k + 1] \in lo + 1 .. lo + n
        BY <1>6, <3>4
      <4>b. index[k + 1] < index[i]
        BY <1>5, <1>6, <3>4, <3>6
      <4>1. index[k + 1] < lo + (k + 1) /\ index[k + 1] \in lo + 1 .. lo + n
        BY <3>2, <4>a, <4>b
      <4> DEFINE m == index[k + 1] - lo
      <4>2. m \in 1 .. k /\ index[k + 1] = lo + m
        BY <1>1, <1>2, <2>1, <4>1
      <4> HIDE DEF m
      <4>3. m \in 1 .. L /\ m < k + 1
        BY <1>6, <2>1, <3>4, <4>2
      <4>4. index[m] = lo + m
        BY <2>1, <4>2, <4>3
      <4>5. index[m] < index[k + 1]
        BY <1>5, <1>6, <3>4, <4>3
      <4> QED
        BY <1>1, <4>2, <4>4, <4>5
    <3> QED
      BY <1>6, <2>1, <3>3, <3>5, <3>6
  <2>3. ASSUME k + 1 <= L, k + 1 > n PROVE FALSE
    <3>1. k + 1 \in 1 .. L
      BY <1>6, <2>1, <2>3
    <3>2. index[k + 1] \in lo + 1 .. lo + n
      BY <1>6, <3>1
    <3> DEFINE m == index[k + 1] - lo
    <3>3. m \in 1 .. k /\ index[k + 1] = lo + m /\ m < k + 1
      BY <1>1, <1>2, <2>1, <2>3, <3>2
    <3> HIDE DEF m
    <3>4. m \in 1 .. L
      BY <1>6, <2>1, <3>1, <3>3
    <3>5. index[m] = lo + m
      BY <2>1, <3>3, <3>4
    <3>6. index[m] < index[k + 1]
      BY <1>5, <1>6, <3>1, <3>3, <3>4
    <3> QED
      BY <1>1, <3>3, <3>5, <3>6
  <2>4. (k + 1 <= L <=> k + 1 <= n) /\ (k + 1 <= L => index[k + 1] = lo + (k + 1))
    BY <1>2, <1>6, <2>1, <2>2, <2>3
  <2>5. \A j \in 1 .. k + 1 : j \in 1 .. k \/ j = k + 1
    BY <2>1
  <2> QED
    BY <2>1, <2>4, <2>5
<1>9. Q = Nat
  <2>1. Q \in SUBSET Nat
    OBVIOUS
  <2> HIDE DEF Q
  <2> QED
    BY <1>7, <1>8, <2>1, InductionNat
<1>10. \A j \in Nat \ {0} : (j <= L <=> j <= n) /\ (j <= L => index[j] = lo + j)
  <2> SUFFICES ASSUME NEW j \in Nat \ {0}
               PROVE  (j <= L <=> j <= n) /\ (j <= L => index[j] = lo + j)
    OBVIOUS
  <2>1. j \in 1 .. j
    OBVIOUS
  <2>2. j \in Q
    <3> HIDE DEF Q
    <3> QED
      BY <1>9
  <2> QED
    BY <2>1, <2>2
<1>11. L = n
  <2>1. L > 0 => L <= n
    BY <1>6, <1>10
  <2>2. n > 0 => n <= L
    BY <1>2, <1>10
  <2> QED
    BY <1>2, <1>6, <2>1, <2>2
<1>12. \A j \in 1 .. n : index[j] = lo + j
  BY <1>2, <1>10, <1>11
<1> QED
  BY <1>5, <1>6, <1>11, <1>12 DEF Between, n

(* The separators up to a position. *)
Seps(key, lo) == {j \in 1 .. lo : key[j] = "US"}

(* A part of a key, counted by the separators before it. *)
LEMMA PartIs ==
  ASSUME NEW T, NEW key \in Seq(T), NEW lo \in 0 .. Len(key),
         NEW hi \in lo + 1 .. Len(key) + 1,
         lo # 0 => key[lo] = "US", hi # Len(key) + 1 => key[hi] = "US",
         \A i \in lo + 1 .. hi - 1 : key[i] # "US"
  PROVE  node_position_key(key, Cardinality(Seps(key, lo))) = Between(key, lo, hi)
<1> DEFINE n == Len(key)
           seps == {i \in DOMAIN key : key[i] = "US"}
           cut(i) == {j \in seps : j < i}
           before(i) == Cardinality(cut(i))
           pos == Cardinality(Seps(key, lo))
           S == {i \in DOMAIN key \ seps : before(i) = pos}
<1>1. /\ n \in Nat /\ DOMAIN key = 1 .. n
      /\ lo \in 0 .. n /\ hi \in lo + 1 .. n + 1
  OBVIOUS
<1>2. node_position_key(key, pos) = Chosen(key, S)
  BY DEF node_position_key
<1> HIDE DEF n
<1>3. \A i \in 0 .. n : IsFiniteSet(Seps(key, i))
  <2> SUFFICES ASSUME NEW i \in 0 .. n PROVE IsFiniteSet(Seps(key, i))
    OBVIOUS
  <2>1. IsFiniteSet(1 .. i) /\ Seps(key, i) \in SUBSET (1 .. i)
    BY FS_Interval DEF Seps
  <2> QED
    BY <2>1, FS_Subset
<1>4. \A i \in 1 .. n : cut(i) = Seps(key, i - 1)
  BY <1>1 DEF Seps
<1> HIDE DEF seps, cut, S
<1>5. ASSUME NEW i \in 1 .. n, lo < i, i < hi PROVE i \in S
  <2>1. i \in lo + 1 .. hi - 1 /\ i - 1 \in 0 .. n
    BY <1>1, <1>5
  <2>2. Seps(key, i - 1) = Seps(key, lo)
    <3>1. \A j \in 1 .. i - 1 : key[j] = "US" => j \in 1 .. lo
      BY <1>1, <1>5
    <3>2. \A j \in 1 .. lo : j \in 1 .. i - 1
      BY <1>1, <1>5
    <3> QED
      BY <3>1, <3>2 DEF Seps
  <2>3. i \notin seps /\ i \in DOMAIN key
    BY <1>1, <2>1 DEF seps
  <2> QED
    BY <1>4, <2>2, <2>3 DEF S
<1>6. ASSUME NEW i \in 1 .. n, i < lo PROVE i \notin S
  <2>1. lo \in Seps(key, lo) /\ lo \notin Seps(key, i - 1)
    BY <1>1, <1>6 DEF Seps
  <2>2. Seps(key, i - 1) \in SUBSET Seps(key, lo)
    BY <1>1, <1>6 DEF Seps
  <2>3. Cardinality(Seps(key, lo)) # Cardinality(Seps(key, i - 1))
    BY <1>1, <1>3, <2>1, <2>2, FS_Subset
  <2> QED
    BY <1>4, <2>3 DEF S
<1>7. ASSUME NEW i \in 1 .. n, hi < i PROVE i \notin S
  <2>1. hi \in Seps(key, i - 1) /\ hi \notin Seps(key, lo)
    BY <1>1, <1>7 DEF Seps, n
  <2>2. Seps(key, lo) \in SUBSET Seps(key, i - 1)
    BY <1>1, <1>7 DEF Seps
  <2>3. i - 1 \in 0 .. n
    BY <1>1
  <2>4. Cardinality(Seps(key, lo)) # Cardinality(Seps(key, i - 1))
    BY <1>3, <2>1, <2>2, <2>3, FS_Subset
  <2> QED
    BY <1>4, <2>4 DEF S
<1>8. lo \notin S /\ (hi \in DOMAIN key => hi \notin S)
  <2>1. lo # 0 => lo \in seps
    BY <1>1 DEF seps
  <2>2. lo = 0 => lo \notin DOMAIN key
    BY <1>1
  <2>3. hi \in DOMAIN key => hi \in seps
    BY <1>1 DEF seps, n
  <2> QED
    BY <2>1, <2>2, <2>3 DEF S
<1>9. \A i \in DOMAIN key : i \in S <=> lo < i /\ i < hi
  <2> SUFFICES ASSUME NEW i \in 1 .. n PROVE i \in S <=> lo < i /\ i < hi
    BY <1>1
  <2>1. i \in Nat /\ lo \in Nat /\ hi \in Nat /\ i \in DOMAIN key
    BY <1>1
  <2>2. i < lo \/ i = lo \/ i = hi \/ hi < i \/ (lo < i /\ i < hi)
    BY <2>1
  <2>3. lo < hi
    BY <1>1
  <2> QED
    BY <1>5, <1>6, <1>7, <1>8, <2>1, <2>2, <2>3
<1>10. Chosen(key, S) = Between(key, lo, hi)
  BY <1>9, ChosenBetween
<1> QED
  BY <1>2, <1>10

-----------------------------------------------------------------------------
(* Keys with equal parts. *)

(* What keys are made of. *)
Symbols == Chars \cup Types

(* The separators of a key. *)
LEMMA SepsOfKey ==
  ASSUME KeysParted, NEW k \in Keys
  PROVE  LET n == Len(k) IN
         /\ k \in Seq(Symbols) /\ n \in Nat /\ n >= 2 /\ DOMAIN k = 1 .. n
         /\ k[1] \in Types /\ k[1] # "US" /\ k[2] = "US"
         /\ IsFiniteSet(Seps(k, n))
         /\ Cardinality(Seps(k, n)) = IF k[1] \in {"FG", "UG"} THEN 2 ELSE 1
<1> DEFINE n == Len(k)
<1>1. k \in Seq(Symbols) /\ Len(k) >= 2 /\ k[1] \in Types /\ k[2] = "US"
  BY DEF KeysParted, Symbols
<1>2. n \in Nat /\ DOMAIN k = 1 .. n
  BY <1>1
<1>3. Seps(k, n) = {i \in DOMAIN k : k[i] = "US"}
  BY <1>2 DEF Seps
<1>4. IsFiniteSet(1 .. n) /\ Seps(k, n) \in SUBSET (1 .. n)
  BY <1>2, FS_Interval DEF Seps
<1>5. IsFiniteSet(Seps(k, n))
  BY <1>4, FS_Subset
<1>6. k[1] # "US"
  BY <1>1 DEF Types
<1> QED
  BY <1>1, <1>2, <1>3, <1>5, <1>6 DEF KeysParted

(* A key of one part. *)
LEMMA OnePart ==
  ASSUME KeysParted, NEW k \in Keys, k[1] \notin {"FG", "UG"}
  PROVE  node_position_key(k, 1) = Between(k, 2, Len(k) + 1)
<1> DEFINE n == Len(k)
           A == Seps(k, n)
<1>1. /\ k \in Seq(Symbols) /\ n \in Nat /\ n >= 2 /\ DOMAIN k = 1 .. n
      /\ k[1] # "US" /\ k[2] = "US"
      /\ IsFiniteSet(A) /\ Cardinality(A) = 1
  BY SepsOfKey
<1>2. \E x : A = {x}
  <2> HIDE DEF A
  <2> QED
    BY <1>1, FS_Singleton
<1>3. 2 \in A
  BY <1>1 DEF Seps
<1>4. A = {2}
  BY <1>2, <1>3
<1>5. \A i \in 3 .. n : k[i] # "US"
  BY <1>1, <1>4 DEF Seps
<1>6. Seps(k, 2) = {2}
  BY <1>1, <1>4 DEF Seps
<1>7. Cardinality(Seps(k, 2)) = 1
  BY <1>6, FS_Singleton
<1>8. node_position_key(k, Cardinality(Seps(k, 2))) = Between(k, 2, n + 1)
  <2>1. 2 \in 0 .. n /\ n + 1 \in 2 + 1 .. n + 1
    BY <1>1
  <2>2. \A i \in 2 + 1 .. (n + 1) - 1 : k[i] # "US"
    BY <1>1, <1>5
  <2>3. (2 # 0 => k[2] = "US") /\ (n + 1 # n + 1 => k[n + 1] = "US")
    BY <1>1
  <2> QED
    BY <1>1, <2>1, <2>2, <2>3, PartIs
<1> QED
  BY <1>7, <1>8

(* A key of two parts, with the second separator at m. *)
Cut(k, m) ==
  /\ m \in 3 .. Len(k) /\ k[m] = "US"
  /\ \A i \in 3 .. Len(k) : k[i] = "US" => i = m
  /\ node_position_key(k, 1) = Between(k, 2, m)
  /\ node_position_key(k, 2) = Between(k, m, Len(k) + 1)

(* That is how a key with one separator after the second is cut. *)
LEMMA CutIs ==
  ASSUME NEW k \in Seq(Symbols), NEW m \in 3 .. Len(k), k[1] # "US", k[2] = "US", k[m] = "US",
         \A i \in 3 .. Len(k) : k[i] = "US" => i = m
  PROVE  Cut(k, m)
<1> DEFINE n == Len(k)
<1>1. n \in Nat /\ DOMAIN k = 1 .. n /\ m \in Nat /\ 3 <= m /\ m <= n
  OBVIOUS
<1>2. Seps(k, 2) = {2}
  BY DEF Seps
<1>3. Seps(k, m) = {2, m}
  <2>1. ASSUME NEW i \in Seps(k, m) PROVE i = 2 \/ i = m
    <3>1. i \in 1 .. m /\ k[i] = "US"
      BY DEF Seps
    <3>2. i = 1 \/ i = 2 \/ i \in 3 .. n
      BY <1>1, <3>1
    <3> QED
      BY <3>1, <3>2
  <2>2. 2 \in Seps(k, m) /\ m \in Seps(k, m)
    BY <1>1 DEF Seps
  <2> QED
    BY <2>1, <2>2
<1>4. Cardinality(Seps(k, 2)) = 1
  BY <1>2, FS_Singleton
<1>5. Cardinality(Seps(k, m)) = 2
  <2>1. {2, m} = {2} \cup {m} /\ m \notin {2}
    BY <1>1
  <2>2. IsFiniteSet({2}) /\ Cardinality({2}) = 1
    BY FS_Singleton
  <2>3. Cardinality({2} \cup {m}) = 1 + 1
    BY <2>1, <2>2, FS_AddElement
  <2> QED
    BY <1>3, <2>1, <2>3
<1>6. node_position_key(k, Cardinality(Seps(k, 2))) = Between(k, 2, m)
  <2>1. 2 \in 0 .. n /\ m \in 2 + 1 .. n + 1 /\ (2 # 0 => k[2] = "US") /\ (m # n + 1 => k[m] = "US")
    BY <1>1
  <2>2. \A i \in 2 + 1 .. m - 1 : k[i] # "US"
    <3> SUFFICES ASSUME NEW i \in 2 + 1 .. m - 1, k[i] = "US" PROVE FALSE
      OBVIOUS
    <3>1. i \in 3 .. n /\ i # m
      BY <1>1
    <3> QED
      BY <3>1
  <2> QED
    BY <2>1, <2>2, PartIs
<1>7. node_position_key(k, Cardinality(Seps(k, m))) = Between(k, m, n + 1)
  <2>1. m \in 0 .. n /\ n + 1 \in m + 1 .. n + 1 /\ (m # 0 => k[m] = "US") /\ (n + 1 # n + 1 => k[n + 1] = "US")
    BY <1>1
  <2>2. \A i \in m + 1 .. (n + 1) - 1 : k[i] # "US"
    <3> SUFFICES ASSUME NEW i \in m + 1 .. (n + 1) - 1, k[i] = "US" PROVE FALSE
      OBVIOUS
    <3>1. i \in 3 .. n /\ i # m
      BY <1>1
    <3> QED
      BY <3>1
  <2> QED
    BY <2>1, <2>2, PartIs
<1> QED
  BY <1>4, <1>5, <1>6, <1>7 DEF Cut

(* The keys of filters and of peers in a group are cut so. *)
LEMMA TwoParts ==
  ASSUME KeysParted, NEW k \in Keys, k[1] \in {"FG", "UG"}
  PROVE  \E m : Cut(k, m)
<1> DEFINE n == Len(k)
           A == Seps(k, n)
<1>1. /\ k \in Seq(Symbols) /\ n \in Nat /\ n >= 2 /\ DOMAIN k = 1 .. n
      /\ k[1] # "US" /\ k[2] = "US"
      /\ IsFiniteSet(A) /\ Cardinality(A) = 2
  BY SepsOfKey
<1>2. 2 \in A
  BY <1>1 DEF Seps
<1>3. PICK m : A \ {2} = {m}
  <2> HIDE DEF A
  <2>1. IsFiniteSet(A \ {2}) /\ Cardinality(A \ {2}) = 1
    <3>1. IsFiniteSet(A \ {2}) /\ Cardinality(A \ {2}) = Cardinality(A) - 1
      BY <1>1, <1>2, FS_RemoveElement
    <3> QED
      BY <1>1, <3>1
  <2> QED
    BY <2>1, FS_Singleton
<1>4. m \in 3 .. n /\ k[m] = "US"
  <2>1. m \in 1 .. n /\ k[m] = "US" /\ m # 2
    BY <1>3 DEF Seps
  <2>2. m # 1
    BY <1>1, <2>1
  <2> QED
    BY <1>1, <2>1, <2>2
<1>5. \A i \in 3 .. n : k[i] = "US" => i = m
  <2> SUFFICES ASSUME NEW i \in 3 .. n, k[i] = "US" PROVE i = m
    OBVIOUS
  <2>1. i \in A /\ i # 2
    BY <1>1 DEF Seps
  <2> QED
    BY <1>3, <2>1
<1>6. Cut(k, m)
  BY <1>1, <1>4, <1>5, CutIs
<1> QED
  BY <1>6

(* Equal parts are of equal keys. *)
LEMMA BetweenSame ==
  ASSUME NEW T, NEW s \in Seq(T), NEW t \in Seq(T),
         NEW a \in Nat, NEW b \in Nat, NEW c \in Nat, NEW d \in Nat,
         a < b, c < d, a = c, Between(s, a, b) = Between(t, c, d)
  PROVE  b = d /\ \A i \in a + 1 .. b - 1 : s[i] = t[i]
<1>1. DOMAIN Between(s, a, b) = 1 .. b - a - 1 /\ DOMAIN Between(t, c, d) = 1 .. d - c - 1
  BY DEF Between
<1>2. b = d
  <2>1. 1 .. b - a - 1 = 1 .. d - c - 1
    BY <1>1
  <2> DEFINE x == b - a - 1
             y == d - c - 1
  <2>2. x \in Nat /\ y \in Nat
    OBVIOUS
  <2> HIDE DEF x, y
  <2>3. 1 .. x = 1 .. y
    BY <2>1 DEF x, y
  <2>4. x = y
    BY <2>2, <2>3
  <2> QED
    BY <2>4 DEF x, y
<1>3. ASSUME NEW i \in a + 1 .. b - 1 PROVE s[i] = t[i]
  <2>1. i - a \in 1 .. b - a - 1 /\ a + (i - a) = i
    OBVIOUS
  <2>2. Between(s, a, b)[i - a] = s[i] /\ Between(t, c, d)[i - a] = t[i]
    BY <1>2, <2>1 DEF Between
  <2> QED
    BY <2>2
<1> QED
  BY <1>2, <1>3

(* Keys of one type and of one part are the same if the part is. *)
LEMMA OnePartSame ==
  ASSUME KeysParted, NEW k \in Keys, NEW l \in Keys,
         k[1] \notin {"FG", "UG"}, k[1] = l[1],
         node_position_key(k, 1) = node_position_key(l, 1)
  PROVE  k = l
<1>1. /\ k \in Seq(Symbols) /\ Len(k) \in Nat /\ Len(k) >= 2 /\ DOMAIN k = 1 .. Len(k) /\ k[2] = "US"
      /\ l \in Seq(Symbols) /\ Len(l) \in Nat /\ Len(l) >= 2 /\ DOMAIN l = 1 .. Len(l) /\ l[2] = "US"
  BY SepsOfKey
<1>2. Between(k, 2, Len(k) + 1) = Between(l, 2, Len(l) + 1)
  BY OnePart
<1>3. /\ Len(k) + 1 = Len(l) + 1
      /\ \A i \in 2 + 1 .. (Len(k) + 1) - 1 : k[i] = l[i]
  <2> DEFINE b == Len(k) + 1
             d == Len(l) + 1
  <2>1. b \in Nat /\ d \in Nat /\ 2 < b /\ 2 < d
    BY <1>1
  <2> HIDE DEF b, d
  <2>2. Between(k, 2, b) = Between(l, 2, d)
    BY <1>2 DEF b, d
  <2>3. b = d /\ \A i \in 2 + 1 .. b - 1 : k[i] = l[i]
    BY <1>1, <2>1, <2>2, BetweenSame
  <2> QED
    BY <2>3 DEF b, d
<1>4. Len(k) = Len(l)
  <2>1. Len(k) + 1 = Len(l) + 1
    BY <1>3
  <2>2. Len(k) \in Nat /\ Len(l) \in Nat
    BY <1>1
  <2> QED
    BY <2>1, <2>2
<1>5. \A i \in 1 .. Len(k) : k[i] = l[i]
  <2> SUFFICES ASSUME NEW i \in 1 .. Len(k) PROVE k[i] = l[i]
    OBVIOUS
  <2>1. i = 1 \/ i = 2 \/ i \in 2 + 1 .. (Len(k) + 1) - 1
    BY <1>1
  <2> QED
    BY <1>1, <1>3, <2>1
<1> QED
  BY <1>1, <1>4, <1>5

(* Keys of one type and of two parts are the same if both parts are. *)
LEMMA TwoPartsSame ==
  ASSUME NEW k \in Seq(Symbols), NEW l \in Seq(Symbols), NEW m, NEW o, Cut(k, m), Cut(l, o),
         k[1] = l[1], k[2] = "US", l[2] = "US",
         node_position_key(k, 1) = node_position_key(l, 1),
         node_position_key(k, 2) = node_position_key(l, 2)
  PROVE  k = l
<1>1. /\ Len(k) \in Nat /\ DOMAIN k = 1 .. Len(k) /\ k \in [1 .. Len(k) -> Symbols]
      /\ Len(l) \in Nat /\ DOMAIN l = 1 .. Len(l) /\ l \in [1 .. Len(l) -> Symbols]
      /\ m \in 3 .. Len(k) /\ k[m] = "US" /\ o \in 3 .. Len(l) /\ l[o] = "US"
  BY DEF Cut
<1>2. m = o /\ \A i \in 2 + 1 .. m - 1 : k[i] = l[i]
  <2>1. m \in Nat /\ o \in Nat /\ 2 < m /\ 2 < o
    BY <1>1
  <2>2. Between(k, 2, m) = Between(l, 2, o)
    BY DEF Cut
  <2> QED
    BY <2>1, <2>2, BetweenSame
<1>3. Len(k) = Len(l) /\ \A i \in m + 1 .. Len(k) : k[i] = l[i]
  <2> DEFINE b == Len(k) + 1
             d == Len(l) + 1
  <2>1. b \in Nat /\ d \in Nat /\ m \in Nat /\ o \in Nat /\ m < b /\ o < d
    BY <1>1
  <2> HIDE DEF b, d
  <2>2. Between(k, m, b) = Between(l, o, d)
    BY DEF Cut, b, d
  <2>3. b = d /\ \A i \in m + 1 .. b - 1 : k[i] = l[i]
    BY <1>2, <2>1, <2>2, BetweenSame
  <2>4. Len(k) + 1 = Len(l) + 1 /\ \A i \in m + 1 .. (Len(k) + 1) - 1 : k[i] = l[i]
    BY <2>3 DEF b, d
  <2> DEFINE x == Len(k)
             y == Len(l)
  <2>5. x \in Nat /\ y \in Nat /\ x + 1 = y + 1 /\ m \in Nat
    BY <1>1, <2>4
  <2>6. \A i \in m + 1 .. (x + 1) - 1 : k[i] = l[i]
    BY <2>4
  <2> HIDE DEF x, y
  <2>7. x = y /\ (x + 1) - 1 = x
    BY <2>5
  <2>8. \A i \in m + 1 .. x : k[i] = l[i]
    BY <2>6, <2>7
  <2> QED
    BY <2>7, <2>8 DEF x, y
<1>4. \A i \in 1 .. Len(k) : k[i] = l[i]
  <2> SUFFICES ASSUME NEW i \in 1 .. Len(k) PROVE k[i] = l[i]
    OBVIOUS
  <2>1. i = 1 \/ i = 2 \/ i \in 2 + 1 .. m - 1 \/ i = m \/ i \in m + 1 .. Len(k)
    BY <1>1
  <2> QED
    BY <1>1, <1>2, <1>3, <2>1
<1> QED
  BY <1>1, <1>3, <1>4

(* c has the entries of a and then those of b. *)
Concat(a, b, c) ==
  /\ \A i \in 1 .. Len(a) : c[i] = a[i]
  /\ \A i \in 1 .. Len(b) : c[Len(a) + i] = b[i]

(* Two sequences, one after the other. *)
LEMMA ConcatIs ==
  ASSUME NEW A, NEW a \in Seq(A), NEW b \in Seq(A)
  PROVE  /\ a \o b \in Seq(A) /\ Len(a \o b) = Len(a) + Len(b)
         /\ Concat(a, b, a \o b)
BY DEF Concat

(* The key of a peer in a group. *)
LEMMA PeerKeyIs ==
  ASSUME NEW host \in Seq(Chars), NEW name \in Seq(Chars),
         "US" \notin Range(host), "US" \notin Range(name)
  PROVE  LET k == node_generate_key("UG", host \o <<"US">> \o name) IN
         /\ k \in Seq(Symbols) /\ k[1] = "UG" /\ k[2] = "US"
         /\ Cut(k, 3 + Len(host))
         /\ node_position_key(k, 1) = host /\ node_position_key(k, 2) = name
<1> DEFINE k == node_generate_key("UG", host \o <<"US">> \o name)
           h == Len(host)
           n == Len(name)
           m == 3 + h
<1>1. /\ h \in Nat /\ DOMAIN host = 1 .. h /\ n \in Nat /\ DOMAIN name = 1 .. n
      /\ \A i \in 1 .. h : host[i] # "US"
      /\ \A i \in 1 .. n : name[i] # "US"
      /\ "US" \in Symbols /\ "UG" \in Symbols
      /\ host \in Seq(Symbols) /\ name \in Seq(Symbols)
  BY CharAssumption DEF Range, Symbols, Types
<1>2. /\ k \in Seq(Symbols) /\ Len(k) = 3 + h + n
      /\ k[1] = "UG" /\ k[2] = "US" /\ k[3 + h] = "US"
      /\ \A i \in 1 .. h : k[2 + i] = host[i]
      /\ \A i \in 1 .. n : k[3 + h + i] = name[i]
  <2> DEFINE t == <<"UG", "US">>
             u == <<"US">>
             s == host \o u \o name
  <2>1. t \in Seq(Symbols) /\ u \in Seq(Symbols) /\ Len(t) = 2 /\ Len(u) = 1
    BY <1>1
  <2>2. host \o u \in Seq(Symbols) /\ Len(host \o u) = h + 1
    BY <1>1, <2>1
  <2>3. s \in Seq(Symbols) /\ Len(s) = h + 1 + n
    BY <1>1, <2>1, <2>2
  <2>4. k = t \o s
    BY DEF node_generate_key
  <2>5. (\A i \in 1 .. h : s[i] = host[i]) /\ s[h + 1] = "US" /\ \A i \in 1 .. n : s[h + 1 + i] = name[i]
    BY <1>1, <2>1, <2>2
  <2>6. t[1] = "UG" /\ t[2] = "US"
    OBVIOUS
  <2>0. h \in Nat /\ n \in Nat
    BY <1>1
  <2> HIDE DEF t, u, s, k, h, n
  <2>a. t \o s \in Seq(Symbols) /\ Len(t \o s) = Len(t) + Len(s)
    BY <2>1, <2>3, ConcatIs
  <2>7. k \in Seq(Symbols) /\ Len(k) = 3 + h + n
    BY <2>0, <2>1, <2>3, <2>4, <2>a
  <2>d. /\ \A i \in 1 .. Len(t) : (t \o s)[i] = t[i]
        /\ \A i \in 1 .. Len(s) : (t \o s)[Len(t) + i] = s[i]
    <3>1. Concat(t, s, t \o s)
      BY <2>1, <2>3, ConcatIs
    <3> QED
      BY <3>1 DEF Concat
  <2>b. \A i \in 1 .. Len(t) : (t \o s)[i] = t[i]
    BY <2>d
  <2>8. k[1] = "UG" /\ k[2] = "US"
    <3>1. 1 \in 1 .. Len(t) /\ 2 \in 1 .. Len(t)
      BY <2>1
    <3>2. (t \o s)[1] = t[1] /\ (t \o s)[2] = t[2]
      BY <2>b, <3>1
    <3> QED
      BY <2>4, <2>6, <3>2
  <2>c. \A i \in 1 .. Len(s) : (t \o s)[Len(t) + i] = s[i]
    BY <2>d
  <2>9. \A i \in 1 .. h + 1 + n : k[2 + i] = s[i]
    BY <2>1, <2>3, <2>4, <2>c
  <2>10. k[3 + h] = "US"
    <3>1. h + 1 \in 1 .. h + 1 + n /\ 2 + (h + 1) = 3 + h
      BY <1>1
    <3> QED
      BY <2>5, <2>9, <3>1
  <2>11. \A i \in 1 .. h : k[2 + i] = host[i]
    <3> SUFFICES ASSUME NEW i \in 1 .. h PROVE k[2 + i] = host[i]
      OBVIOUS
    <3>1. i \in 1 .. h + 1 + n
      BY <2>0
    <3> QED
      BY <2>5, <2>9, <3>1
  <2>12. \A i \in 1 .. n : k[3 + h + i] = name[i]
    <3> SUFFICES ASSUME NEW i \in 1 .. n PROVE k[3 + h + i] = name[i]
      OBVIOUS
    <3>1. h + 1 + i \in 1 .. h + 1 + n /\ 2 + (h + 1 + i) = 3 + h + i
      BY <1>1
    <3> QED
      BY <2>5, <2>9, <3>1
  <2> QED
    BY <2>7, <2>8, <2>10, <2>11, <2>12
<1> HIDE DEF k, h, n
<1>3. m \in 3 .. Len(k)
  BY <1>1, <1>2
<1>4. \A i \in 3 .. Len(k) : k[i] = "US" => i = m
  <2> SUFFICES ASSUME NEW i \in 3 .. Len(k), k[i] = "US", i # m PROVE FALSE
    OBVIOUS
  <2>1. CASE i < m
    <3> DEFINE j == i - 2
    <3>1. j \in 1 .. h /\ 2 + j = i
      BY <1>1, <2>1
    <3> HIDE DEF j
    <3>2. k[2 + j] = host[j] /\ host[j] # "US"
      BY <1>1, <1>2, <3>1
    <3> QED
      BY <3>1, <3>2
  <2>2. CASE i > m
    <3> DEFINE j == i - m
    <3>1. j \in 1 .. n /\ 3 + h + j = i
      BY <1>1, <1>2, <2>2
    <3> HIDE DEF j
    <3>2. k[3 + h + j] = name[j] /\ name[j] # "US"
      BY <1>1, <1>2, <3>1
    <3> QED
      BY <3>1, <3>2
  <2> QED
    BY <1>1, <2>1, <2>2
<1>5. Cut(k, m)
  BY <1>2, <1>3, <1>4, CutIs
<1>6. Between(k, 2, m) = host
  <2>1. DOMAIN Between(k, 2, m) = 1 .. h
    BY <1>1 DEF Between
  <2>2. \A i \in 1 .. h : Between(k, 2, m)[i] = host[i]
    BY <1>1, <1>2, <2>1 DEF Between
  <2>3. Between(k, 2, m) = [i \in 1 .. h |-> Between(k, 2, m)[i]]
    BY <2>1 DEF Between
  <2> QED
    BY <1>1, <2>2, <2>3
<1>7. Between(k, m, Len(k) + 1) = name
  <2>1. DOMAIN Between(k, m, Len(k) + 1) = 1 .. n
    BY <1>1, <1>2 DEF Between
  <2>2. \A i \in 1 .. n : Between(k, m, Len(k) + 1)[i] = name[i]
    BY <1>1, <1>2, <2>1 DEF Between
  <2>3. Between(k, m, Len(k) + 1) = [i \in 1 .. n |-> Between(k, m, Len(k) + 1)[i]]
    BY <2>1 DEF Between
  <2> QED
    BY <1>1, <2>2, <2>3
<1> QED
  BY <1>2, <1>5, <1>6, <1>7 DEF Cut, k, h

-----------------------------------------------------------------------------
(* The peers of the configured upstreams. *)

(* The entry of a node has the node. *)
LEMMA EntryNode == \A k : EntryOf(k).node = k
BY DEF EntryOf, display_set_server_node, display_set_filter_node, display_set_cache_node,
       display_prometheus_set_upstream_node, Entry

(* The entries of a page of nodes. *)
LEMMA ShowsRange ==
  ASSUME NEW S, NEW page, Shows(page, S)
  PROVE  Range(page) = {EntryOf(k) : k \in S}
<1> DEFINE w == [i \in DOMAIN page |-> page[i].node]
<1>1. ASSUME NEW i \in DOMAIN page PROVE page[i] \in {EntryOf(k) : k \in S}
  <2>1. Lists(w, S) /\ page[i] = EntryOf(w[i])
    BY DEF Shows
  <2>2. w[i] \in S
    BY <2>1 DEF Lists
  <2> QED
    BY <2>1, <2>2
<1>2. ASSUME NEW k \in S PROVE \E i \in DOMAIN page : page[i] = EntryOf(k)
  <2>1. Lists(w, S)
    BY DEF Shows
  <2>2. PICK i \in DOMAIN w : w[i] = k
    BY <2>1 DEF Lists
  <2> QED
    BY <2>2 DEF Shows
<1> QED
  BY <1>1, <1>2 DEF Range

(* The entries of two pages, one after the other. *)
LEMMA RangeConcat ==
  ASSUME NEW A, NEW a \in Seq(A), NEW B, NEW b \in Seq(B)
  PROVE  Range(a \o b) = Range(a) \cup Range(b)
<1>1. a \in Seq(A \cup B) /\ b \in Seq(A \cup B)
  OBVIOUS
<1> DEFINE c == a \o b
<1>2. c \in Seq(A \cup B) /\ Len(c) = Len(a) + Len(b) /\ Concat(a, b, c)
  BY <1>1, ConcatIs
<1> HIDE DEF c
<1>3. /\ Len(a) \in Nat /\ DOMAIN a = 1 .. Len(a) /\ Len(b) \in Nat /\ DOMAIN b = 1 .. Len(b)
      /\ DOMAIN c = 1 .. Len(a) + Len(b)
  BY <1>1, <1>2
<1>4. ASSUME NEW i \in DOMAIN c PROVE c[i] \in Range(a) \cup Range(b)
  <2>1. CASE i <= Len(a)
    <3>1. i \in DOMAIN a /\ c[i] = a[i]
      BY <1>2, <1>3, <2>1 DEF Concat
    <3> QED
      BY <3>1 DEF Range
  <2>2. CASE i > Len(a)
    <3> DEFINE j == i - Len(a)
    <3>1. j \in 1 .. Len(b) /\ Len(a) + j = i
      BY <1>3, <2>2
    <3> HIDE DEF j
    <3>2. c[i] = b[j]
      BY <1>2, <3>1 DEF Concat
    <3> QED
      BY <1>3, <3>1, <3>2 DEF Range
  <2> QED
    BY <1>3, <2>1, <2>2
<1>5. ASSUME NEW i \in DOMAIN a PROVE a[i] \in Range(c)
  <2>1. i \in DOMAIN c /\ c[i] = a[i]
    BY <1>2, <1>3 DEF Concat
  <2> QED
    BY <2>1 DEF Range
<1>6. ASSUME NEW j \in DOMAIN b PROVE b[j] \in Range(c)
  <2> DEFINE i == Len(a) + j
  <2>1. i \in DOMAIN c
    BY <1>3
  <2>2. c[i] = b[j]
    BY <1>2, <1>3 DEF Concat
  <2> HIDE DEF i
  <2> QED
    BY <2>1, <2>2 DEF Range
<1> QED
  BY <1>4, <1>5, <1>6 DEF Range, c

(* The peers of an upstream that are shown. *)
PeerOf(u, x) ==
  \/ \E n \in DOMAIN u.peers : u.zone /\ u.peers[n] = x
  \/ \E j \in DOMAIN u.servers :
       /\ u.servers[j].backup \/ ~u.zone
       /\ \E n \in DOMAIN u.servers[j].addrs : u.servers[j].addrs[n] = x

(* A name is shown for an upstream if it is of a peer in its zone, or of a *)
(* backup server's or zone-less server's address.                          *)
LEMMA PeersAre ==
  ASSUME NEW u \in Groups, NEW x
  PROVE  (\E p \in DOMAIN PeersShown(u) : PeersShown(u)[p] = x) <=> PeerOf(u, x)
<1> DEFINE a == IF u.zone THEN u.peers ELSE <<>>
           b == Backups(u)
           f == FlattenSeq(b)
           C == Seq(Chars)
<1>1. PeersShown(u) = a \o f
  BY DEF PeersShown, Backups
<1>2. a \in Seq(C)
  BY DEF Groups
<1>3. b \in Seq(Seq(C)) /\ DOMAIN b = DOMAIN u.servers
  BY BackupTypes
<1>4. \A j \in DOMAIN u.servers :
        b[j] = IF u.zone /\ ~u.servers[j].backup THEN <<>> ELSE u.servers[j].addrs
  BY DEF Backups
<1>5. u.zone \in BOOLEAN /\ \A j \in DOMAIN u.servers : u.servers[j].backup \in BOOLEAN
  <2>1. u.servers \in Seq(Servers) /\ u.zone \in BOOLEAN
    BY DEF Groups
  <2>2. \A v \in Seq(Servers) : \A j \in DOMAIN v : v[j] \in Servers
    OBVIOUS
  <2>3. \A v \in Servers : v.backup \in BOOLEAN
    BY DEF Servers
  <2> QED
    BY <2>1, <2>2, <2>3
<1> HIDE DEF b, C
<1>6. f \in Seq(C) /\ \E piece, place : Spread(Len(b), b, f, piece, place)
  BY <1>3, FlattenSpreads
<1>7. PICK piece, place : Spread(Len(b), b, f, piece, place)
  BY <1>6
<1> HIDE DEF f
<1>8. Len(b) \in Nat /\ DOMAIN b = 1 .. Len(b)
  BY <1>3
<1>9. x \in Range(f) <=> \E j \in DOMAIN b : \E n \in DOMAIN b[j] : b[j][n] = x
  <2>1. ASSUME NEW p \in DOMAIN f
        PROVE  \E j \in DOMAIN b : \E n \in DOMAIN b[j] : b[j][n] = f[p]
    <3>1. piece[p] \in DOMAIN b /\ place[p] \in DOMAIN b[piece[p]] /\ f[p] = b[piece[p]][place[p]]
      BY <1>7, <1>8 DEF Spread
    <3> QED
      BY <3>1
  <2>2. ASSUME NEW j \in DOMAIN b, NEW n \in DOMAIN b[j] PROVE b[j][n] \in Range(f)
    <3>1. PICK p \in DOMAIN f : piece[p] = j /\ place[p] = n
      BY <1>7, <1>8 DEF Spread
    <3>2. f[p] = b[j][n]
      BY <1>7, <3>1 DEF Spread
    <3> QED
      BY <3>2 DEF Range
  <2> QED
    BY <2>1, <2>2 DEF Range
<1>10. x \in Range(a) <=> \E n \in DOMAIN u.peers : u.zone /\ u.peers[n] = x
  BY <1>5 DEF Range
<1>11. (\E j \in DOMAIN b : \E n \in DOMAIN b[j] : b[j][n] = x)
         <=> \E j \in DOMAIN u.servers :
               /\ u.servers[j].backup \/ ~u.zone
               /\ \E n \in DOMAIN u.servers[j].addrs : u.servers[j].addrs[n] = x
  <2>1. ASSUME NEW j \in DOMAIN u.servers
        PROVE  (\E n \in DOMAIN b[j] : b[j][n] = x)
                 <=> /\ u.servers[j].backup \/ ~u.zone
                     /\ \E n \in DOMAIN u.servers[j].addrs : u.servers[j].addrs[n] = x
    <3>1. CASE u.zone /\ ~u.servers[j].backup
      <4>1. DOMAIN b[j] = {}
        BY <1>4, <3>1
      <4> QED
        BY <3>1, <4>1
    <3>2. CASE ~(u.zone /\ ~u.servers[j].backup)
      BY <1>4, <3>2
    <3> QED
      BY <3>1, <3>2
  <2> QED
    BY <1>3, <2>1
<1>12. Range(a \o f) = Range(a) \cup Range(f)
  BY <1>2, <1>6, RangeConcat
<1>13. (\E p \in DOMAIN PeersShown(u) : PeersShown(u)[p] = x) <=> x \in Range(PeersShown(u))
  BY DEF Range
<1> HIDE DEF a
<1> QED
  BY <1>1, <1>9, <1>10, <1>11, <1>12, <1>13 DEF PeerOf

(* A peer of a group that is shown. *)
PeerShown(i, p) ==
  /\ i \in DOMAIN Upstreams /\ ~Upstreams[i].port /\ Upstreams[i].servers # <<>>
  /\ p \in DOMAIN PeersShown(Upstreams[i])

(* Its entry. *)
PeerEntry(i, p) ==
  display_set_upstream_node(Upstreams[i].host, PeersShown(Upstreams[i])[p])

(* The key of its node. *)
PeerKey(i, p) ==
  node_generate_key("UG", Upstreams[i].host \o <<"US">> \o PeersShown(Upstreams[i])[p])

(* Entry q of page is that of peer place[q] of upstream piece[q]. *)
PeersIn(page, piece, place) ==
  /\ \A q \in DOMAIN page :
       PeerShown(piece[q], place[q]) /\ page[q] = PeerEntry(piece[q], place[q])
  /\ \A q, r \in DOMAIN page : piece[q] = piece[r] /\ place[q] = place[r] => q = r
  /\ \A i, p : PeerShown(i, p) => \E q \in DOMAIN page : piece[q] = i /\ place[q] = p

(* Where the entries of the peers come from. *)
LEMMA PeersPlaced ==
  \E piece, place : PeersIn(FlattenSeq(GroupsShown), piece, place)
<1> DEFINE page == FlattenSeq(GroupsShown)
           L == Len(GroupsShown)
<1>1. GroupsShown \in Seq(Seq(PeerEntries)) /\ page \in Seq(PeerEntries)
  BY GroupsCounted
<1>2. L \in Nat /\ DOMAIN GroupsShown = 1 .. L /\ DOMAIN GroupsShown = DOMAIN Upstreams
  BY <1>1 DEF GroupsShown
<1>3. PICK piece, place : Spread(L, GroupsShown, page, piece, place)
  BY <1>1, FlattenSpreads
<1>4. \A i \in DOMAIN Upstreams : GroupsShown[i] = GroupShown(Upstreams[i])
  BY DEF GroupsShown
<1>5. ASSUME NEW i \in DOMAIN Upstreams
      PROVE  /\ \A p : p \in DOMAIN GroupsShown[i] <=> PeerShown(i, p)
             /\ \A p \in DOMAIN GroupsShown[i] : GroupsShown[i][p] = PeerEntry(i, p)
  <2> DEFINE u == Upstreams[i]
  <2>1. CASE u.port \/ u.servers = <<>>
    <3>1. GroupsShown[i] = <<>>
      BY <1>4, <2>1 DEF GroupShown
    <3>2. DOMAIN GroupsShown[i] = {}
      BY <3>1
    <3> QED
      BY <2>1, <3>2 DEF PeerShown
  <2>2. CASE ~(u.port \/ u.servers = <<>>)
    <3>1. GroupsShown[i] = [p \in DOMAIN PeersShown(u) |->
                              display_set_upstream_node(u.host, PeersShown(u)[p])]
      BY <1>4, <2>2 DEF GroupShown
    <3> QED
      BY <2>2, <3>1 DEF PeerShown, PeerEntry
  <2> QED
    BY <2>1, <2>2
<1> HIDE DEF page, L
<1>6. ASSUME NEW q \in DOMAIN page
      PROVE  PeerShown(piece[q], place[q]) /\ page[q] = PeerEntry(piece[q], place[q])
  <2>1. /\ piece[q] \in DOMAIN Upstreams /\ place[q] \in DOMAIN GroupsShown[piece[q]]
        /\ page[q] = GroupsShown[piece[q]][place[q]]
    BY <1>2, <1>3 DEF Spread
  <2> QED
    BY <1>5, <2>1
<1>7. ASSUME NEW q \in DOMAIN page, NEW r \in DOMAIN page,
             piece[q] = piece[r], place[q] = place[r]
      PROVE  q = r
  <2>1. q \in Nat /\ r \in Nat
    BY <1>1
  <2>2. piece[q] \in Nat /\ place[q] \in Nat
    BY <1>2, <1>3 DEF Spread
  <2>3. ASSUME NEW x \in DOMAIN page, NEW y \in DOMAIN page, x < y,
               piece[x] = piece[y], place[x] = place[y], piece[x] \in Nat, place[x] \in Nat
        PROVE  FALSE
    <3>1. piece[x] < piece[y] \/ (piece[x] = piece[y] /\ place[x] < place[y])
      BY <1>3, <2>3 DEF Spread
    <3> QED
      BY <2>3, <3>1
  <2>4. ~(q < r) /\ ~(r < q)
    BY <1>7, <2>2, <2>3
  <2> QED
    BY <2>1, <2>4
<1>8. ASSUME NEW i, NEW p, PeerShown(i, p)
      PROVE  \E q \in DOMAIN page : piece[q] = i /\ place[q] = p
  <2>1. i \in DOMAIN Upstreams
    BY <1>8 DEF PeerShown
  <2>2. i \in 1 .. L /\ p \in DOMAIN GroupsShown[i]
    BY <1>2, <1>5, <1>8, <2>1
  <2> QED
    BY <1>3, <2>2 DEF Spread
<1>9. PeersIn(page, piece, place)
  BY <1>6, <1>7, <1>8 DEF PeersIn
<1> QED
  BY <1>9 DEF page

(* The names of an upstream and of a peer that is shown. *)
LEMMA PeerTypes ==
  ASSUME PeersParted, NEW i, NEW p, PeerShown(i, p)
  PROVE  LET host == Upstreams[i].host
             name == PeersShown(Upstreams[i])[p] IN
         /\ host \in Seq(Chars) /\ "US" \notin Range(host) /\ host # <<"::nogroups">>
         /\ name \in Seq(Chars) /\ "US" \notin Range(name)
<1> DEFINE u == Upstreams[i]
           names == PeersShown(u)
<1>1. i \in DOMAIN Upstreams /\ p \in DOMAIN names
  BY DEF PeerShown
<1>2. u \in Groups
  BY <1>1, UpstreamTypes
<1>3. names \in Seq(Seq(Chars)) /\ u.host \in Seq(Chars)
  BY <1>2, PeersCounted DEF Groups
<1>4. names[p] \in Seq(Chars)
  <2> DEFINE C == Seq(Chars)
  <2>1. names \in Seq(C)
    BY <1>3
  <2> HIDE DEF C, names
  <2>2. names[p] \in C
    BY <1>1, <2>1
  <2> QED
    BY <2>2 DEF C
<1>5. "US" \notin Range(u.host) /\ u.host # <<"::nogroups">> /\ "US" \notin Range(names[p])
  BY <1>1 DEF PeersParted
<1> QED
  BY <1>3, <1>4, <1>5

(* A node of a peer belongs to a peer that is shown if it is configured.   *)
LEMMA ConfiguredIs ==
  ASSUME KeysParted, PeersParted, NEW k \in Keys, k[1] = "UG"
  PROVE  Configured(k) <=> \E i, p : PeerShown(i, p) /\ k = PeerKey(i, p)
<1> DEFINE a == node_position_key(k, 1)
           b == node_position_key(k, 2)
<1>1. ASSUME NEW i, NEW p, PeerShown(i, p), k = PeerKey(i, p)
      PROVE  /\ a = Upstreams[i].host /\ b = PeersShown(Upstreams[i])[p]
  BY <1>1, PeerTypes, PeerKeyIs DEF PeerKey
<1>2. ASSUME NEW i, NEW p, PeerShown(i, p), a = Upstreams[i].host,
             b = PeersShown(Upstreams[i])[p]
      PROVE  k = PeerKey(i, p)
  <2> DEFINE l == PeerKey(i, p)
             m == 3 + Len(Upstreams[i].host)
  <2>1. /\ l \in Seq(Symbols) /\ l[1] = "UG" /\ l[2] = "US" /\ Cut(l, m)
        /\ node_position_key(l, 1) = a /\ node_position_key(l, 2) = b
    <3> DEFINE host == Upstreams[i].host
               name == PeersShown(Upstreams[i])[p]
    <3>1. /\ host \in Seq(Chars) /\ "US" \notin Range(host)
          /\ name \in Seq(Chars) /\ "US" \notin Range(name)
      BY <1>2, PeerTypes
    <3>2. l = node_generate_key("UG", host \o <<"US">> \o name) /\ a = host /\ b = name
      BY <1>2 DEF PeerKey
    <3> HIDE DEF l, host, name, a, b
    <3>3. /\ l \in Seq(Symbols) /\ l[1] = "UG" /\ l[2] = "US" /\ Cut(l, 3 + Len(host))
          /\ node_position_key(l, 1) = host /\ node_position_key(l, 2) = name
      BY <3>1, <3>2, PeerKeyIs
    <3> QED
      BY <3>2, <3>3 DEF host
  <2>2. k \in Seq(Symbols) /\ k[2] = "US"
    BY SepsOfKey
  <2>3. PICK o : Cut(k, o)
    BY TwoParts
  <2> HIDE DEF l, m
  <2>4. k = l
    BY <2>1, <2>2, <2>3, TwoPartsSame
  <2> QED
    BY <2>4 DEF l
<1>3. ASSUME NEW i \in DOMAIN Upstreams
      PROVE  (\E p : PeerShown(i, p) /\ b = PeersShown(Upstreams[i])[p])
               <=> ~Upstreams[i].port /\ PeerOf(Upstreams[i], b)
  <2> DEFINE u == Upstreams[i]
  <2>1. u \in Groups
    BY UpstreamTypes
  <2>2. (\E p \in DOMAIN PeersShown(u) : PeersShown(u)[p] = b) <=> PeerOf(u, b)
    BY <2>1, PeersAre
  <2>3. PeerOf(u, b) => u.servers # <<>>
    BY UpstreamAssumption DEF PeerOf
  <2> QED
    BY <2>2, <2>3 DEF PeerShown
<1>4. Configured(k) <=>
        \E i \in DOMAIN Upstreams :
          ~Upstreams[i].port /\ Upstreams[i].host = a /\ PeerOf(Upstreams[i], b)
  BY DEF Configured, PeerOf
<1>5. \A i, p : PeerShown(i, p) => i \in DOMAIN Upstreams
  BY DEF PeerShown
<1> HIDE DEF a, b
<1> QED
  BY <1>1, <1>2, <1>3, <1>4, <1>5

(* Entries of peers that have a node. *)
LEMMA PeersRange ==
  ASSUME KeysParted, PeersParted, live \subseteq Keys
  PROVE  {e \in Range(FlattenSeq(GroupsShown)) : e.node # <<>>}
           = {EntryOf(k) : k \in {l \in live : l[1] = "UG" /\ Configured(l)}}
<1> DEFINE page == FlattenSeq(GroupsShown)
           K == {l \in live : l[1] = "UG" /\ Configured(l)}
<1>1. PICK piece, place : PeersIn(page, piece, place)
  BY PeersPlaced
<1>2. ASSUME NEW i, NEW p, PeerShown(i, p)
      PROVE  /\ PeerKey(i, p)[1] = "UG"
             /\ PeerEntry(i, p).node = IF PeerKey(i, p) \in live THEN PeerKey(i, p) ELSE <<>>
             /\ PeerKey(i, p) \in live => PeerEntry(i, p) = EntryOf(PeerKey(i, p))
  <2> DEFINE k == PeerKey(i, p)
             host == Upstreams[i].host
             name == PeersShown(Upstreams[i])[p]
  <2>1. k[1] = "UG" /\ node_position_key(k, 1) = host /\ node_position_key(k, 2) = name
    BY <1>2, PeerTypes, PeerKeyIs DEF PeerKey
  <2>2. PeerEntry(i, p) = Entry("upstream", host, name, IF k \in live THEN k ELSE <<>>)
    BY DEF PeerEntry, PeerKey, display_set_upstream_node
  <2> HIDE DEF k
  <2>3. EntryOf(k) = Entry("upstream", host, name, k)
    BY <2>1 DEF EntryOf, display_prometheus_set_upstream_node
  <2> QED
    BY <2>1, <2>2, <2>3 DEF Entry, k
<1>3. <<>> \notin live
  BY KeyAssumption
<1> HIDE DEF page
<1>4. ASSUME NEW e \in Range(page), e.node # <<>>
      PROVE  \E k \in K : e = EntryOf(k)
  <2>1. PICK q \in DOMAIN page : page[q] = e
    BY DEF Range
  <2>2. PeerShown(piece[q], place[q]) /\ e = PeerEntry(piece[q], place[q])
    BY <1>1, <2>1 DEF PeersIn
  <2> DEFINE k == PeerKey(piece[q], place[q])
  <2>3. k \in live /\ k[1] = "UG" /\ e = EntryOf(k)
    BY <1>2, <1>4, <2>2
  <2>4. Configured(k)
    BY <2>2, <2>3, ConfiguredIs
  <2> QED
    BY <2>3, <2>4
<1>5. ASSUME NEW k \in K
      PROVE  EntryOf(k) \in Range(page) /\ EntryOf(k).node # <<>>
  <2>1. PICK i, p : PeerShown(i, p) /\ k = PeerKey(i, p)
    BY ConfiguredIs
  <2>2. PICK q \in DOMAIN page : piece[q] = i /\ place[q] = p
    BY <1>1, <2>1 DEF PeersIn
  <2>3. page[q] = EntryOf(k)
    <3>1. page[q] = PeerEntry(i, p)
      BY <1>1, <2>2 DEF PeersIn
    <3> QED
      BY <1>2, <2>1, <3>1
  <2>4. EntryOf(k).node = k
    BY EntryNode
  <2> QED
    BY <1>3, <2>3, <2>4 DEF Range
<1> QED
  BY <1>4, <1>5 DEF page

-----------------------------------------------------------------------------
(* Every entry has a place of its own. *)

(* Where an entry is in a page. *)
Place(e) == <<e.zone, e.group, e.name>>

(* No two entries have the same place. *)
Placed(page) ==
  \A p, q \in DOMAIN page : Place(page[p]) = Place(page[q]) => p = q

(* Two pages that share no place, one after the other. *)
LEMMA PlacedConcat ==
  ASSUME NEW A, NEW a \in Seq(A), NEW B, NEW b \in Seq(B), Placed(a), Placed(b),
         \A x \in Range(a), y \in Range(b) : Place(x) # Place(y)
  PROVE  Placed(a \o b)
<1>1. a \in Seq(A \cup B) /\ b \in Seq(A \cup B)
  OBVIOUS
<1> DEFINE c == a \o b
<1>2. c \in Seq(A \cup B) /\ Len(c) = Len(a) + Len(b) /\ Concat(a, b, c)
  BY <1>1, ConcatIs
<1> HIDE DEF c
<1>3. /\ Len(a) \in Nat /\ DOMAIN a = 1 .. Len(a) /\ Len(b) \in Nat /\ DOMAIN b = 1 .. Len(b)
      /\ DOMAIN c = 1 .. Len(a) + Len(b)
  BY <1>1, <1>2
<1>4. ASSUME NEW i \in DOMAIN c, i > Len(a)
      PROVE  \E j \in DOMAIN b : i = Len(a) + j /\ c[i] = b[j]
  <2> DEFINE j == i - Len(a)
  <2>1. j \in 1 .. Len(b) /\ Len(a) + j = i
    BY <1>3, <1>4
  <2> HIDE DEF j
  <2>2. c[i] = b[j]
    BY <1>2, <2>1 DEF Concat
  <2> QED
    BY <1>3, <2>1, <2>2
<1>5. ASSUME NEW i \in DOMAIN c, i <= Len(a)
      PROVE  i \in DOMAIN a /\ c[i] = a[i]
  BY <1>2, <1>3, <1>5 DEF Concat
<1>6. ASSUME NEW p \in DOMAIN c, NEW q \in DOMAIN c, Place(c[p]) = Place(c[q])
      PROVE  p = q
  <2>1. CASE p <= Len(a) /\ q <= Len(a)
    BY <1>5, <1>6, <2>1 DEF Placed
  <2>2. CASE p > Len(a) /\ q > Len(a)
    <3>1. PICK i \in DOMAIN b : p = Len(a) + i /\ c[p] = b[i]
      BY <1>4, <2>2
    <3>2. PICK j \in DOMAIN b : q = Len(a) + j /\ c[q] = b[j]
      BY <1>4, <2>2
    <3>3. i = j
      BY <1>6, <3>1, <3>2 DEF Placed
    <3> QED
      BY <3>1, <3>2, <3>3
  <2>3. ASSUME NEW x \in DOMAIN c, NEW y \in DOMAIN c, x <= Len(a), y > Len(a)
        PROVE  Place(c[x]) # Place(c[y])
    <3>1. c[x] \in Range(a)
      BY <1>5, <2>3 DEF Range
    <3>2. c[y] \in Range(b)
      BY <1>4, <2>3 DEF Range
    <3> QED
      BY <3>1, <3>2
  <2>4. p \in Nat /\ q \in Nat
    BY <1>3
  <2> QED
    BY <1>3, <1>6, <2>1, <2>2, <2>3, <2>4
<1> QED
  BY <1>6 DEF Placed, c

(* Different nodes of one type have different places. *)
LEMMA ShowsPlaced ==
  ASSUME KeysParted, NEW S, S \subseteq Keys, NEW t \in {"NO", "FG", "CC", "UA"},
         NEW page, Shows(page, Of(S, {t}))
  PROVE  Placed(page)
<1> DEFINE w == [i \in DOMAIN page |-> page[i].node]
<1>1. ASSUME NEW i \in DOMAIN page
      PROVE  w[i] \in Keys /\ w[i][1] = t /\ page[i] = EntryOf(w[i])
  <2>1. Lists(w, Of(S, {t})) /\ page[i] = EntryOf(w[i])
    BY DEF Shows
  <2>2. w[i] \in Of(S, {t})
    BY <2>1 DEF Lists
  <2> HIDE DEF w
  <2> QED
    BY <2>1, <2>2 DEF Of
<1>2. \A i, j \in DOMAIN page : w[i] = w[j] => i = j
  <2>1. Lists(w, Of(S, {t})) /\ DOMAIN w = DOMAIN page
    BY DEF Shows
  <2> HIDE DEF w
  <2> QED
    BY <2>1 DEF Lists
<1>3. ASSUME NEW k \in Keys, NEW l \in Keys, k[1] = t, l[1] = t,
             Place(EntryOf(k)) = Place(EntryOf(l))
      PROVE  k = l
  <2>1. node_position_key(k, 1) = node_position_key(l, 1)
    <3>1. CASE t = "FG"
      BY <1>3, <3>1 DEF EntryOf, Place, display_set_filter_node, Entry
    <3>2. CASE t # "FG"
      BY <1>3, <3>2 DEF EntryOf, Place, display_set_server_node, display_set_cache_node,
         display_prometheus_set_upstream_node, Entry
    <3> QED
      BY <3>1, <3>2
  <2>2. CASE t = "FG"
    <3>1. node_position_key(k, 2) = node_position_key(l, 2)
      BY <1>3, <2>2 DEF EntryOf, Place, display_set_filter_node, Entry
    <3>2. PICK m, o : Cut(k, m) /\ Cut(l, o)
      BY <1>3, <2>2, TwoParts
    <3>3. k \in Seq(Symbols) /\ k[2] = "US" /\ l \in Seq(Symbols) /\ l[2] = "US"
      BY SepsOfKey
    <3> QED
      BY <1>3, <2>1, <3>1, <3>2, <3>3, TwoPartsSame
  <2>3. CASE t # "FG"
    BY <1>3, <2>1, <2>3, OnePartSame
  <2> QED
    BY <2>2, <2>3
<1> HIDE DEF w
<1> QED
  BY <1>1, <1>2, <1>3 DEF Placed

(* What the entries of a part of the page are called. *)
LEMMA ShowsZone ==
  ASSUME NEW S, NEW t \in {"NO", "FG", "CC", "UA"}, NEW page, Shows(page, Of(S, {t})),
         NEW e \in Range(page)
  PROVE  /\ e.zone = CASE t = "NO" -> "server" [] t = "FG" -> "filter"
                       [] t = "CC" -> "cache" [] t = "UA" -> "upstream"
         /\ t = "UA" => e.group = <<"::nogroups">>
<1>1. PICK k \in Of(S, {t}) : e = EntryOf(k)
  BY ShowsRange
<1>2. k[1] = t
  BY <1>1 DEF Of
<1> QED
  BY <1>1, <1>2 DEF EntryOf, display_set_server_node, display_set_filter_node,
     display_set_cache_node, display_prometheus_set_upstream_node, Entry

(* The peers of the groups have a place each. *)
LEMMA PeersZone ==
  ASSUME PeersParted
  PROVE  /\ Placed(FlattenSeq(GroupsShown))
         /\ \A e \in Range(FlattenSeq(GroupsShown)) :
              e.zone = "upstream" /\ e.group # <<"::nogroups">>
<1> DEFINE page == FlattenSeq(GroupsShown)
<1>1. PICK piece, place : PeersIn(page, piece, place)
  BY PeersPlaced
<1> HIDE DEF page
<1>2. ASSUME NEW q \in DOMAIN page
      PROVE  /\ piece[q] \in DOMAIN Upstreams
             /\ place[q] \in DOMAIN PeersShown(Upstreams[piece[q]])
             /\ page[q].zone = "upstream" /\ page[q].group = Upstreams[piece[q]].host
             /\ page[q].name = PeersShown(Upstreams[piece[q]])[place[q]]
             /\ page[q].group # <<"::nogroups">>
  <2>1. PeerShown(piece[q], place[q]) /\ page[q] = PeerEntry(piece[q], place[q])
    BY <1>1 DEF PeersIn
  <2>2. Upstreams[piece[q]].host # <<"::nogroups">>
    BY <2>1, PeerTypes
  <2> QED
    BY <2>1, <2>2 DEF PeerShown, PeerEntry, display_set_upstream_node, Entry
<1>3. ASSUME NEW q \in DOMAIN page, NEW r \in DOMAIN page, Place(page[q]) = Place(page[r])
      PROVE  q = r
  <2>1. page[q].group = page[r].group /\ page[q].name = page[r].name
    BY <1>3 DEF Place
  <2>2. piece[q] = piece[r]
    <3>1. /\ piece[q] \in DOMAIN Upstreams /\ piece[r] \in DOMAIN Upstreams
          /\ Upstreams[piece[q]].host = Upstreams[piece[r]].host
      BY <1>2, <2>1
    <3>2. \A i, j \in DOMAIN Upstreams : Upstreams[i].host = Upstreams[j].host => i = j
      BY UpstreamAssumption
    <3> QED
      BY <3>1, <3>2
  <2>3. place[q] = place[r]
    <3> DEFINE names == PeersShown(Upstreams[piece[q]])
    <3>1. \A m, n \in DOMAIN names : names[m] = names[n] => m = n
      BY <1>2 DEF PeersParted
    <3>2. /\ place[q] \in DOMAIN names /\ place[r] \in DOMAIN names
          /\ names[place[q]] = names[place[r]]
      BY <1>2, <2>1, <2>2
    <3> HIDE DEF names
    <3> QED
      BY <3>1, <3>2
  <2> QED
    BY <1>1, <2>2, <2>3 DEF PeersIn
<1>4. ASSUME NEW e \in Range(page) PROVE e.zone = "upstream" /\ e.group # <<"::nogroups">>
  BY <1>2 DEF Range
<1> QED
  BY <1>3, <1>4 DEF Placed, page

(* As many places as entries. *)
LEMMA PlacesCount ==
  ASSUME NEW T, NEW page \in Seq(T), Placed(page)
  PROVE  Cardinality({Place(e) : e \in Range(page)}) = Len(page)
<1> DEFINE w == [p \in DOMAIN page |-> Place(page[p])]
           S == {Place(e) : e \in Range(page)}
<1>1. Len(page) \in Nat /\ DOMAIN page = 1 .. Len(page)
  OBVIOUS
<1>2. \A p \in DOMAIN page : w[p] \in S
  BY DEF Range
<1>3. \A x \in S : \E p \in DOMAIN w : w[p] = x
  BY DEF Range
<1>4. \A p, q \in DOMAIN w : w[p] = w[q] => p = q
  BY DEF Placed
<1>5. DOMAIN w = 1 .. Len(page)
  BY <1>1
<1>6. w = [p \in 1 .. Len(page) |-> w[p]]
  BY <1>1
<1> HIDE DEF w, S
<1>7. w \in Seq(S) /\ Len(w) = Len(page)
  BY <1>1, <1>2, <1>5, <1>6
<1>8. Lists(w, S)
  BY <1>3, <1>4, <1>7 DEF Lists
<1> QED
  BY <1>7, <1>8, ListsCount DEF S

(* The parts of the pages, and what they show. *)
LEMMA PageParts ==
  ASSUME NEW walk, Lists(walk, live)
  PROVE  \E server, filter, peers, alone, cache :
           /\ display_set(walk) = server \o filter \o (peers \o alone) \o cache
           /\ peers = FlattenSeq(GroupsShown)
           /\ Shows(server, Of(live, {"NO"})) /\ Shows(filter, Of(live, {"FG"}))
           /\ Shows(alone, Of(live, {"UA"})) /\ Shows(cache, Of(live, {"CC"}))
<1> DEFINE server == display_set_server(walk)
           filter == display_set_filter(walk)
           peers == FlattenSeq(GroupsShown)
           alone == display_set_upstream_alone(walk)
           cache == display_set_cache(walk)
<1>1. display_set(walk) = server \o filter \o (peers \o alone) \o cache
  BY DEF display_set, display_set_upstream_group, GroupsShown, GroupShown
<1>2. /\ Shows(server, Of(live, {"NO"})) /\ Shows(filter, Of(live, {"FG"}))
      /\ Shows(alone, Of(live, {"UA"})) /\ Shows(cache, Of(live, {"CC"}))
  BY ServerShows, FilterShows, AloneShows, CacheShows
<1> HIDE DEF server, filter, peers, alone, cache
<1> QED
  BY <1>1, <1>2 DEF peers

(* The nodes that the JSON page shows. *)
OnPage == {k \in live : k[1] = "UG" => Configured(k)}

(* A place for each entry of the JSON page, and a node's entry is there    *)
(* for each of those nodes.                                                *)
LEMMA PageIs ==
  ASSUME KeysParted, PeersParted, live \subseteq Keys, NEW walk, Lists(walk, live)
  PROVE  /\ \E T : display_set(walk) \in Seq(T)
         /\ Placed(display_set(walk))
         /\ {e \in Range(display_set(walk)) : e.node # <<>>} = {EntryOf(k) : k \in OnPage}
<1>1. PICK server, filter, peers, alone, cache :
           /\ display_set(walk) = server \o filter \o (peers \o alone) \o cache
           /\ peers = FlattenSeq(GroupsShown)
           /\ Shows(server, Of(live, {"NO"})) /\ Shows(filter, Of(live, {"FG"}))
           /\ Shows(alone, Of(live, {"UA"})) /\ Shows(cache, Of(live, {"CC"}))
  BY PageParts
<1> DEFINE a == server \o filter
           b == peers \o alone
           c == a \o b
           page == c \o cache
<1>2. /\ server \in Seq(Range(server)) /\ filter \in Seq(Range(filter))
      /\ peers \in Seq(PeerEntries) /\ alone \in Seq(Range(alone))
      /\ cache \in Seq(Range(cache))
  BY <1>1, GroupsCounted DEF Shows
<1>3. /\ Placed(server) /\ Placed(filter) /\ Placed(peers) /\ Placed(alone) /\ Placed(cache)
  BY <1>1, ShowsPlaced, PeersZone
<1>4. /\ \A e \in Range(server) : e.zone = "server"
      /\ \A e \in Range(filter) : e.zone = "filter"
      /\ \A e \in Range(peers) : e.zone = "upstream" /\ e.group # <<"::nogroups">>
      /\ \A e \in Range(alone) : e.zone = "upstream" /\ e.group = <<"::nogroups">>
      /\ \A e \in Range(cache) : e.zone = "cache"
  BY <1>1, ShowsZone, PeersZone
<1>5. \A x, y : Place(x) = Place(y) => x.zone = y.zone /\ x.group = y.group
  BY DEF Place
<1>6. /\ Range(a) = Range(server) \cup Range(filter) /\ Placed(a)
      /\ a \in Seq(Range(server) \cup Range(filter))
  <2>1. \A x \in Range(server), y \in Range(filter) : Place(x) # Place(y)
    BY <1>4, <1>5
  <2> QED
    BY <1>2, <1>3, <2>1, RangeConcat, PlacedConcat, LenConcat
<1>7. /\ Range(b) = Range(peers) \cup Range(alone) /\ Placed(b)
      /\ b \in Seq(PeerEntries \cup Range(alone))
  <2>1. \A x \in Range(peers), y \in Range(alone) : Place(x) # Place(y)
    BY <1>4, <1>5
  <2> QED
    BY <1>2, <1>3, <2>1, RangeConcat, PlacedConcat, LenConcat
<1>8. page = display_set(walk)
  BY <1>1
<1> DEFINE A == Range(server) \cup Range(filter)
           B == PeerEntries \cup Range(alone)
<1> HIDE DEF a, b, A, B
<1>9. /\ Range(c) = Range(a) \cup Range(b) /\ Placed(c) /\ c \in Seq(A \cup B)
  <2>1. \A x \in Range(a), y \in Range(b) : Place(x) # Place(y)
    BY <1>4, <1>5, <1>6, <1>7
  <2>2. a \in Seq(A) /\ b \in Seq(B)
    BY <1>6, <1>7 DEF A, B
  <2> QED
    BY <1>6, <1>7, <2>1, <2>2, RangeConcat, PlacedConcat, LenConcat
<1> DEFINE C == A \cup B
<1> HIDE DEF c
<1>10. /\ Range(page) = Range(c) \cup Range(cache) /\ Placed(page)
       /\ page \in Seq(C \cup Range(cache))
  <2>1. \A x \in Range(c), y \in Range(cache) : Place(x) # Place(y)
    BY <1>4, <1>5, <1>6, <1>7, <1>9
  <2>2. c \in Seq(C)
    BY <1>9
  <2> HIDE DEF C
  <2> QED
    BY <1>2, <1>3, <1>9, <2>1, <2>2, RangeConcat, PlacedConcat, LenConcat
<1>11. Range(page) = Range(server) \cup Range(filter) \cup Range(peers) \cup Range(alone) \cup Range(cache)
  BY <1>6, <1>7, <1>9, <1>10
<1>12. /\ Range(server) = {EntryOf(k) : k \in Of(live, {"NO"})}
       /\ Range(filter) = {EntryOf(k) : k \in Of(live, {"FG"})}
       /\ Range(alone) = {EntryOf(k) : k \in Of(live, {"UA"})}
       /\ Range(cache) = {EntryOf(k) : k \in Of(live, {"CC"})}
  BY <1>1, ShowsRange
<1>13. {e \in Range(peers) : e.node # <<>>}
         = {EntryOf(k) : k \in {l \in live : l[1] = "UG" /\ Configured(l)}}
  BY <1>1, PeersRange
<1>14. \A k \in live : k[1] \in Types /\ k # <<>>
  BY KeyAssumption, SepsOfKey
<1> HIDE DEF page
<1>15. ASSUME NEW e \in Range(page), e.node # <<>> PROVE \E k \in OnPage : e = EntryOf(k)
  <2>1. CASE e \in Range(peers)
    BY <1>13, <1>15, <2>1 DEF OnPage
  <2>2. CASE e \notin Range(peers)
    <3>1. PICK k \in Of(live, {"NO", "FG", "UA", "CC"}) : e = EntryOf(k)
      BY <1>11, <1>12, <1>15, <2>2 DEF Of
    <3> QED
      BY <3>1 DEF OnPage, Of
  <2> QED
    BY <2>1, <2>2
<1>16. ASSUME NEW k \in OnPage PROVE EntryOf(k) \in Range(page) /\ EntryOf(k).node # <<>>
  <2>1. k \in live /\ k[1] \in Types /\ EntryOf(k).node = k /\ k # <<>>
    BY <1>14, EntryNode DEF OnPage
  <2>2. CASE k[1] = "UG"
    BY <1>11, <1>13, <2>1, <2>2 DEF OnPage
  <2>3. CASE k[1] # "UG"
    BY <1>11, <1>12, <2>1, <2>3 DEF Of, Types
  <2> QED
    BY <2>1, <2>2, <2>3
<1> QED
  BY <1>8, <1>10, <1>15, <1>16

(* The nodes that the Prometheus page shows: all. *)
LEMMA PrometheusIs ==
  ASSUME KeysParted, live \subseteq Keys, NEW walk, Lists(walk, live)
  PROVE  Range(display_prometheus_set(walk)) = {EntryOf(k) : k \in live}
<1> DEFINE p1 == display_prometheus_set_server(walk)
           p2 == display_prometheus_set_filter(walk)
           p3 == display_prometheus_set_upstream(walk)
           p4 == display_prometheus_set_cache(walk)
<1>1. display_prometheus_set(walk) = p1 \o p2 \o p3 \o p4
  BY DEF display_prometheus_set
<1>2. /\ Shows(p1, Of(live, {"NO"})) /\ Shows(p2, Of(live, {"FG"}))
      /\ Shows(p3, Of(live, {"UG", "UA"})) /\ Shows(p4, Of(live, {"CC"}))
  BY PrometheusServer, PrometheusFilter, PrometheusUpstream, PrometheusCache
<1> HIDE DEF p1, p2, p3, p4
<1>3. /\ p1 \in Seq(Range(p1)) /\ p2 \in Seq(Range(p2))
      /\ p3 \in Seq(Range(p3)) /\ p4 \in Seq(Range(p4))
  BY <1>2 DEF Shows
<1>4. /\ p1 \o p2 \in Seq(Range(p1) \cup Range(p2))
      /\ Range(p1 \o p2) = Range(p1) \cup Range(p2)
  BY <1>3, LenConcat, RangeConcat
<1>5. /\ p1 \o p2 \o p3 \in Seq((Range(p1) \cup Range(p2)) \cup Range(p3))
      /\ Range(p1 \o p2 \o p3) = (Range(p1) \cup Range(p2)) \cup Range(p3)
  BY <1>3, <1>4, LenConcat, RangeConcat
<1>6. Range(p1 \o p2 \o p3 \o p4) = ((Range(p1) \cup Range(p2)) \cup Range(p3)) \cup Range(p4)
  BY <1>3, <1>5, RangeConcat
<1>7. /\ Range(p1) = {EntryOf(k) : k \in Of(live, {"NO"})}
      /\ Range(p2) = {EntryOf(k) : k \in Of(live, {"FG"})}
      /\ Range(p3) = {EntryOf(k) : k \in Of(live, {"UG", "UA"})}
      /\ Range(p4) = {EntryOf(k) : k \in Of(live, {"CC"})}
  BY <1>2, ShowsRange
<1>8. live = Of(live, {"NO"}) \cup Of(live, {"FG"}) \cup Of(live, {"UG", "UA"}) \cup Of(live, {"CC"})
  <2>1. \A k \in live : k[1] \in Types
    BY SepsOfKey
  <2> QED
    BY <2>1 DEF Of, Types
<1> QED
  BY <1>1, <1>6, <1>7, <1>8

(* The format that the path of a page asks for. *)
LEMMA PageOf ==
  ASSUME NEW walk
  PROVE  /\ display_handler_default(walk, <<"status", "format", "json">>, "html")
              = display_set(walk)
         /\ display_handler_default(walk, <<"status">>, "prometheus")
              = display_prometheus_set(walk)
<1>1. display_format(<<"status", "format", "json">>, "html") = "json"
  <2> DEFINE path == <<"status", "format", "json">>
             at == {i \in 1 .. Len(path) - 1 : path[i] = "format" /\ path[i + 1] \in Formats}
  <2>1. Len(path) = 3 /\ path[1] = "status" /\ path[2] = "format" /\ path[3] = "json"
    OBVIOUS
  <2>2. 1 .. Len(path) - 1 = {1, 2}
    BY <2>1
  <2>3. at = {2}
    BY <2>1, <2>2 DEF Formats
  <2>4. Min(at) = 2
    BY <2>3, MinIn
  <2> QED
    BY <2>1, <2>3, <2>4 DEF display_format
<1>2. display_format(<<"status">>, "prometheus") = "prometheus"
  <2> DEFINE path == <<"status">>
             at == {i \in 1 .. Len(path) - 1 : path[i] = "format" /\ path[i + 1] \in Formats}
  <2>1. 1 .. Len(path) - 1 = {}
    OBVIOUS
  <2>2. at = {}
    BY <2>1
  <2> QED
    BY <2>2 DEF display_format
<1> QED
  BY <1>1, <1>2 DEF display_handler_default

(* A walk that has the filters in any order has every node once. *)
LEMMA WalksList ==
  ASSUME IsFiniteSet(live), NEW walk \in Walks
  PROVE  Lists(walk, live)
<1> DEFINE F == {k \in live : k[1] = "FG"}
           R == {k \in live : k[1] # "FG"}
<1>1. PICK w \in SetToSeqs(F) : walk = w \o WalkOf(R)
  BY DEF Walks
<1>2. IsFiniteSet(F) /\ IsFiniteSet(R)
  BY FS_Subset
<1> DEFINE v == WalkOf(R)
<1> HIDE DEF F, R
<1>3. Lists(w, F) /\ Lists(v, R)
  BY <1>1, <1>2, SetToSeqLists, WalkLists
<1> HIDE DEF v
<1>4. w \in Seq(F) /\ v \in Seq(R)
  BY <1>3 DEF Lists
<1> DEFINE c == w \o v
<1>5. /\ c \in Seq(F \cup R) /\ Len(c) = Len(w) + Len(v) /\ Concat(w, v, c)
      /\ Range(c) = Range(w) \cup Range(v)
  <2>1. w \in Seq(F \cup R) /\ v \in Seq(F \cup R)
    BY <1>4
  <2> QED
    BY <1>4, <2>1, ConcatIs, RangeConcat
<1> HIDE DEF c
<1>6. /\ Len(w) \in Nat /\ DOMAIN w = 1 .. Len(w) /\ Len(v) \in Nat /\ DOMAIN v = 1 .. Len(v)
      /\ DOMAIN c = 1 .. Len(w) + Len(v)
  BY <1>4, <1>5
<1>7. F \cup R = live /\ F \cap R = {}
  BY DEF F, R
<1>8. ASSUME NEW i \in DOMAIN c
      PROVE  \/ i \in DOMAIN w /\ c[i] = w[i] /\ c[i] \in F
             \/ \E j \in DOMAIN v : i = Len(w) + j /\ c[i] = v[j] /\ c[i] \in R
  <2>1. CASE i <= Len(w)
    BY <1>4, <1>5, <1>6, <2>1 DEF Concat
  <2>2. CASE i > Len(w)
    <3> DEFINE j == i - Len(w)
    <3>1. j \in 1 .. Len(v) /\ Len(w) + j = i
      BY <1>6, <2>2
    <3> HIDE DEF j
    <3>2. c[i] = v[j] /\ v[j] \in R
      BY <1>4, <1>5, <1>6, <3>1 DEF Concat
    <3> QED
      BY <1>6, <3>1, <3>2
  <2> QED
    BY <1>6, <2>1, <2>2
<1>9. ASSUME NEW i \in DOMAIN c, NEW j \in DOMAIN c, c[i] = c[j] PROVE i = j
  <2>1. CASE c[i] \in F
    BY <1>3, <1>7, <1>8, <1>9, <2>1 DEF Lists
  <2>2. CASE c[i] \in R
    <3>1. PICK a \in DOMAIN v : i = Len(w) + a /\ c[i] = v[a]
      BY <1>7, <1>8, <2>2
    <3>2. PICK b \in DOMAIN v : j = Len(w) + b /\ c[j] = v[b]
      BY <1>7, <1>8, <1>9, <2>2
    <3>3. a = b
      BY <1>3, <1>9, <3>1, <3>2 DEF Lists
    <3> QED
      BY <3>1, <3>2, <3>3
  <2> QED
    BY <1>8, <2>1, <2>2
<1>10. ASSUME NEW x \in live PROVE \E i \in DOMAIN c : c[i] = x
  <2>1. CASE x \in F
    <3>1. PICK i \in DOMAIN w : w[i] = x
      BY <1>3, <2>1 DEF Lists
    <3> QED
      BY <1>4, <1>5, <1>6, <3>1 DEF Concat
  <2>2. CASE x \in R
    <3>1. PICK j \in DOMAIN v : v[j] = x
      BY <1>3, <2>2 DEF Lists
    <3> QED
      BY <1>4, <1>5, <1>6, <3>1 DEF Concat
  <2> QED
    BY <1>7, <2>1, <2>2
<1> QED
  BY <1>1, <1>5, <1>7, <1>9, <1>10 DEF Lists, c, v

(* Every node once, on both pages alike. *)
LEMMA OnceNow ==
  ASSUME KeysParted, PeersParted, NodesInv
  PROVE  ShownOnce
<1> SUFFICES ASSUME NEW walk \in Walks
             PROVE  LET page == display_set(walk)
                        prometheus == display_prometheus_set(walk) IN
                    /\ Cardinality({<<e.zone, e.group, e.name>> : e \in Range(page)}) = Len(page)
                    /\ {e \in Range(page) : e.node # <<>>} =
                         {e \in Range(prometheus) :
                            e.node[1] = "UG" => Configured(e.node)}
  BY PageOf DEF ShownOnce
<1> DEFINE page == display_set(walk)
           prometheus == display_prometheus_set(walk)
<1>1. Lists(walk, live) /\ live \subseteq Keys
  BY WalksList DEF NodesInv
<1>2. /\ \E T : page \in Seq(T)
      /\ Placed(page)
      /\ {e \in Range(page) : e.node # <<>>} = {EntryOf(k) : k \in OnPage}
  BY <1>1, PageIs
<1>3. Range(prometheus) = {EntryOf(k) : k \in live}
  BY <1>1, PrometheusIs
<1> HIDE DEF page, prometheus
<1>4. Cardinality({<<e.zone, e.group, e.name>> : e \in Range(page)}) = Len(page)
  <2>1. Cardinality({Place(e) : e \in Range(page)}) = Len(page)
    BY <1>2, PlacesCount
  <2> QED
    BY <2>1 DEF Place
<1>5. {e \in Range(prometheus) : e.node[1] = "UG" => Configured(e.node)}
        = {EntryOf(k) : k \in OnPage}
  <2>1. ASSUME NEW k \in live
        PROVE  k \in OnPage <=> (EntryOf(k).node[1] = "UG" => Configured(EntryOf(k).node))
    BY EntryNode DEF OnPage
  <2>2. OnPage \subseteq live
    BY DEF OnPage
  <2> QED
    BY <1>3, <2>1, <2>2
<1> QED
  BY <1>2, <1>4, <1>5 DEF page, prometheus

(* Readers of the status page tell nodes apart by zone, group and name:    *)
(* however the filters are ordered, the JSON page has no two entries of    *)
(* the same place, and it has the same nodes, with the same labels, as the *)
(* Prometheus page but for the peers that no upstream is configured with   *)
(* any more.                                                               *)
THEOREM Once ==
  ASSUME KeysParted, PeersParted
  PROVE  Spec => []ShownOnce
<1>1. NodesInv => ShownOnce
  BY OnceNow
<1> QED
  BY <1>1, NodesInvariant, PTL
=============================================================================
