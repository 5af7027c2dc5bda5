------------------------------ MODULE VtsNode ------------------------------
(***************************************************************************)
(* What one node of the zone counts: counters of machine width with their  *)
(* overflow counts, the ring of the latest request times, the histogram,   *)
(* and the sums the JSON display makes of all server zones.                *)
(*                                                                         *)
(* Every operation runs under shpool->mutex (VtsShm), so each is one step. *)
(***************************************************************************)
EXTENDS Naturals, Sequences, FiniteSetsExt, SequencesExt

CONSTANTS
  Zones,            (* server and filter zones, and zones of upstreams      *)
  Upstreams,        (* those that also count response times                 *)
  QUEUE_LEN,        (* NGX_HTTP_VHOST_TRAFFIC_STATUS_DEFAULT_QUEUE_LEN      *)
  W,                (* counters count modulo W (2^32 or 2^64 in the code)   *)
  Msecs,            (* durations of requests                                *)
  Buckets,          (* bounds of the histogram, in milliseconds             *)
  average_method, average_period,
  MaxReqs, MaxTime  (* bounds: requests of the whole run, clock             *)

ASSUME NodeAssumption ==
  /\ IsFiniteSet(Zones) /\ Upstreams \subseteq Zones
  /\ QUEUE_LEN \in Nat /\ QUEUE_LEN > 1
  /\ W \in Nat /\ W > 1 /\ Msecs \subseteq 0..(W - 1)
  /\ Buckets \in Seq(Nat)
  /\ average_method \in {"AMM", "WMA"}
  /\ {average_period, MaxReqs, MaxTime} \subseteq Nat

VARIABLES
  node,   (* node[z]: counters of z, Nil if it has no node                  *)
  stats,  (* the sums of the display under way, Nil otherwise               *)
  now,
  log,    (* history: samples of z since its node was created               *)
  since   (* history: what was counted since creation or reset              *)

vars == <<node, stats, now, log, since>>

(* No node: a record that no node equals. *)
Nil == [none |-> TRUE]

Series(z) == {"request"} \cup (IF z \in Upstreams THEN {"response"} ELSE {})
Servers == {z \in Zones \ Upstreams : node[z] # Nil}
-----------------------------------------------------------------------------
(* Counters and histogram *)

(* Mutant: the old value is copied after the update. *)
Count_CopyLate(c, k) == [n |-> (c.n + k) % W, oc |-> c.oc]

(* An addition and ngx_http_vhost_traffic_status_add_oc: it has wrapped if *)
(* the counter went down.                                                  *)
Count(c, k) ==
  LET n == (c.n + k) % W
  IN [n |-> n, oc |-> IF c.n > n THEN c.oc + 1 ELSE c.oc]

Zero == [n |-> 0, oc |-> 0]

histogram_bucket_init == [i \in 1..Len(Buckets) |-> 0]

(* Mutant: a bucket is bounded from above only. *)
histogram_observe_Below(b, ms) ==
  [i \in 1..Len(Buckets) |->
     IF ms < Buckets[i] THEN (b[i] + 1) % W ELSE b[i]]

histogram_observe(b, ms) ==
  [i \in 1..Len(Buckets) |->
     IF ms <= Buckets[i] THEN (b[i] + 1) % W ELSE b[i]]
-----------------------------------------------------------------------------
(* The ring of samples *)

Pos == 0..(QUEUE_LEN - 1)

(* Mutant: the ring does not close. *)
NextPos_Open(i) == i + 1
NextPos(i) == (i + 1) % QUEUE_LEN
PrevPos(i) == (i + QUEUE_LEN - 1) % QUEUE_LEN

NoSample == [time |-> 0, msec |-> 0]
Sample(ms) == [time |-> now, msec |-> ms]

(* The ring starts full of samples of time 0. *)
time_queue_init ==
  [times |-> [i \in Pos |-> NoSample], front |-> 0, rear |-> QUEUE_LEN - 1]

Empty(q) == q.front = q.rear
Full(q) == NextPos(q.rear) = q.front

time_queue_pop(q) == [q EXCEPT !.front = NextPos(@)]
time_queue_push(q, s) ==
  [q EXCEPT !.times = [@ EXCEPT ![q.rear] = s], !.rear = NextPos(@)]

(* Mutant: the other order of the two operands of |, which C allows too. *)
time_queue_insert_PushFirst(q, s) ==
  IF Full(q) \/ Empty(time_queue_push(q, s))
    THEN time_queue_init
    ELSE time_queue_pop(time_queue_push(q, s))

(* pop | push, evaluated from the left; if either fails the ring is reset. *)
time_queue_insert(q, s) ==
  IF Empty(q) \/ Full(time_queue_pop(q))
    THEN time_queue_init
    ELSE time_queue_push(time_queue_pop(q), s)

Length(q) == (q.rear + QUEUE_LEN - q.front) % QUEUE_LEN

Entries(q) ==
  [i \in 1..Length(q) |-> q.times[(q.front + i - 1) % QUEUE_LEN]]

Horizon == IF average_period = 0 THEN 0 ELSE now - average_period

(* One pass over the ring: how many samples lie within the horizon, and    *)
(* their durations added up, plainly and each times its rank among them.   *)
Pass(q) ==
  LET pass[i \in 0..Length(q)] ==
        IF i = 0
          THEN [c |-> 0, sum |-> 0, ranked |-> 0]
          ELSE LET p == pass[i - 1]
                   e == Entries(q)[i]
               IN IF Horizon < e.time
                    THEN [c |-> p.c + 1, sum |-> p.sum + e.msec,
                          ranked |-> p.ranked + (p.c + 1) * e.msec]
                    ELSE p
  IN pass[Length(q)]

triangle(n) == (n * (n + 1)) \div 2

time_queue_amm(q) ==
  LET p == Pass(q) IN IF p.c = 0 THEN 0 ELSE p.sum \div p.c

(* Mutant: the weights fall from the oldest sample to the newest. *)
time_queue_wma_OldFirst(q) ==
  LET p == Pass(q)
  IN IF p.c = 0 THEN 0
     ELSE ((p.c + 1) * p.sum - p.ranked) \div triangle(p.c)

time_queue_wma(q) ==
  LET p == Pass(q) IN IF p.c = 0 THEN 0 ELSE p.ranked \div triangle(p.c)

time_queue_average(q) ==
  IF average_method = "AMM" THEN time_queue_amm(q) ELSE time_queue_wma(q)

(* Both averages reset a ring that is not full. *)
averaged(q) == IF Length(q) + 1 # QUEUE_LEN THEN time_queue_init ELSE q

(* Mutant: the newest sample is looked for at the rear, not before it.    *)
Before_AtRear(q, i) == q.times[i]
Before(q, i) == q.times[PrevPos(i)]

(* Backwards from both rears, the newer sample first, up to the horizon. *)
time_queue_merge(a, b) ==
  LET turn[n \in 0..(QUEUE_LEN - 1)] ==
        IF n = 0
          THEN [i |-> a.rear, j |-> b.rear, k |-> time_queue_init.rear,
                times |-> time_queue_init.times, more |-> TRUE]
          ELSE LET t == turn[n - 1]
                   sa == Before(a, t.i)
                   sb == Before(b, t.j)
                   s == IF sa.time > sb.time THEN sa ELSE sb
               IN IF ~t.more \/ Horizon >= s.time
                    THEN [t EXCEPT !.more = FALSE]
                    ELSE [t EXCEPT
                            !.i = IF sa.time > sb.time THEN PrevPos(@) ELSE @,
                            !.j = IF sa.time > sb.time THEN @ ELSE PrevPos(@),
                            !.k = PrevPos(@),
                            !.times = [@ EXCEPT ![PrevPos(t.k)] = s]]
  IN [time_queue_init EXCEPT !.times = turn[QUEUE_LEN - 1].times]
-----------------------------------------------------------------------------
(* Nodes *)

(* A series of durations: total, last average, ring and histogram. *)
FirstTime(ms) ==
  [total |-> Count(Zero, ms),
   time |-> ms,
   times |-> time_queue_insert(time_queue_init, Sample(ms)),
   buckets |-> histogram_observe(histogram_bucket_init, ms)]

NextTime(t, ms) ==
  LET q == time_queue_insert(t.times, Sample(ms))
  IN [total |-> Count(t.total, ms),
      time |-> time_queue_average(q),
      times |-> averaged(q),
      buckets |-> histogram_observe(t.buckets, ms)]

node_init(z, m) ==
  [requests |-> Count(Zero, 1), s |-> [s \in Series(z) |-> FirstTime(m[s])]]

node_set(z, m) ==
  [requests |-> Count(node[z].requests, 1),
   s |-> [s \in Series(z) |-> NextTime(node[z].s[s], m[s])]]

node_zero(n) ==
  [requests |-> Zero,
   s |-> [s \in DOMAIN n.s |-> [n.s[s] EXCEPT !.total = Zero, !.time = 0]]]

Logged == SumFunction([z \in Zones |-> Len(log[z]["request"])])

NothingSince(z) == [requests |-> 0, msec |-> [s \in Series(z) |-> 0]]

Init ==
  /\ node = [z \in Zones |-> Nil]
  /\ stats = Nil
  /\ now = average_period + 1
  /\ log = [z \in Zones |-> [s \in Series(z) |-> <<>>]]
  /\ since = [z \in Zones |-> NothingSince(z)]

(* shm_add_node for one request, m its durations. *)
AddNode(z) ==
  /\ Logged < MaxReqs
  /\ \E m \in [Series(z) -> Msecs] :
       /\ node' = [node EXCEPT ![z] = IF @ = Nil THEN node_init(z, m)
                                                 ELSE node_set(z, m)]
       /\ log' = [log EXCEPT ![z] =
                    [s \in Series(z) |-> Append(@[s], Sample(m[s]))]]
       /\ since' = [since EXCEPT ![z] =
                      [requests |-> @.requests + 1,
                       msec |-> [s \in Series(z) |-> @.msec[s] + m[s]]]]
  /\ stats' = Nil
  /\ UNCHANGED now

(* cmd=reset: node_zero. *)
Reset(z) ==
  /\ node[z] # Nil
  /\ node' = [node EXCEPT ![z] = node_zero(@)]
  /\ since' = [since EXCEPT ![z] = NothingSince(z)]
  /\ stats' = Nil
  /\ UNCHANGED <<now, log>>

(* cmd=delete, or an eviction. *)
Delete(z) ==
  /\ node[z] # Nil
  /\ node' = [node EXCEPT ![z] = Nil]
  /\ log' = [log EXCEPT ![z] = [s \in Series(z) |-> <<>>]]
  /\ since' = [since EXCEPT ![z] = NothingSince(z)]
  /\ stats' = Nil
  /\ UNCHANGED now

(* Mutant: the overflows of the zones are not added. *)
AddStats_OwnCarry(st, n) ==
  [requests |-> Count(st.requests, n.requests.n),
   total |-> Count(st.total, n.s["request"].total.n),
   times |-> time_queue_merge(st.times, n.s["request"].times)]

(* display_set_server adds a server zone to the sums. *)
AddStats(st, n) ==
  [requests |-> LET c == Count(st.requests, n.requests.n)
                IN [c EXCEPT !.oc = @ + n.requests.oc],
   total |-> LET c == Count(st.total, n.s["request"].total.n)
             IN [c EXCEPT !.oc = @ + n.s["request"].total.oc],
   times |-> time_queue_merge(st.times, n.s["request"].times)]

NoStats == [requests |-> Zero, total |-> Zero, times |-> time_queue_init]

(* A node whose averages have been printed. *)
displayed(n) ==
  [requests |-> n.requests,
   s |-> [s \in DOMAIN n.s |-> [n.s[s] EXCEPT !.times = averaged(@)]]]

(* A JSON display: server zones in the order of the tree, any order of     *)
(* hashes; it averages every ring it shows.                                *)
Display ==
  /\ \E order \in SetToSeqs(Servers) :
       stats' = FoldLeft(AddStats, NoStats,
                         [i \in DOMAIN order |-> node[order[i]]])
  /\ node' = [z \in Zones |-> IF node[z] = Nil THEN Nil ELSE displayed(node[z])]
  /\ UNCHANGED <<now, log, since>>

Tick ==
  /\ now < average_period + 1 + MaxTime
  /\ now' = now + 1
  /\ stats' = Nil
  /\ UNCHANGED <<node, log, since>>

(* gettimeofday is not monotonic: somebody sets the clock back. *)
SetBack ==
  /\ now > average_period + 1
  /\ now' = now - 1
  /\ stats' = Nil
  /\ UNCHANGED <<node, log, since>>

Next ==
  \/ \E z \in Zones : AddNode(z) \/ Reset(z) \/ Delete(z)
  \/ Display \/ Tick \/ SetBack

Spec == Init /\ [][Next]_vars
-----------------------------------------------------------------------------
(* Properties *)

Counters == [n : 0..(W - 1), oc : Nat]
Samples == [time : Nat, msec : Nat]
Rings == [times : [Pos -> Samples], front : Pos, rear : Pos]
Times == [total : Counters, time : Nat, times : Rings,
          buckets : [1..Len(Buckets) -> 0..(W - 1)]]

NodeTypeOK ==
  /\ now \in Nat
  /\ \A z \in Zones :
       node[z] # Nil =>
         node[z] \in [requests : Counters, s : [Series(z) -> Times]]

(* Nodes, sums and the history they are compared with. *)
TypeOK ==
  /\ NodeTypeOK
  /\ stats \in {Nil} \cup [requests : Counters, total : Counters, times : Rings]

NewestOf(l) ==
  [i \in 1..(QUEUE_LEN - 1) |->
     IF Len(l) + i < QUEUE_LEN THEN NoSample
                               ELSE l[Len(l) + i - (QUEUE_LEN - 1)]]

(* However many samples have been inserted, averaged, reset and displayed, *)
(* the ring holds the latest QUEUE_LEN - 1 of its zone, oldest first: the  *)
(* paths of node.c that reset a ring on an error never lose any.           *)
QueueKeepsNewest ==
  \A z \in Zones : node[z] # Nil =>
    \A s \in Series(z) : Entries(node[z].s[s].times) = NewestOf(log[z][s])

(* The samples that are in the ring and within the period. *)
InPeriod(l) ==
  {i \in DOMAIN l : /\ i + QUEUE_LEN > Len(l) + 1
                    /\ average_period > 0 => l[i].time + average_period > now}

Rank(R, i) == Cardinality({j \in R : j <= i})

(* avg is the mean of the durations of R, i counting weight[i] times.      *)
IsMean(avg, l, R, weight) ==
  LET sum == SumFunction([i \in R |-> weight[i] * l[i].msec])
      weights == SumFunction(weight)
  IN IF R = {} THEN avg = 0
               ELSE avg * weights <= sum /\ sum < (avg + 1) * weights

(* Both averages are those of the samples of the last average_period among *)
(* these, weighted by their order for WMA (node.c amm, wma).               *)
AverageOfRecent ==
  \A z \in Zones : node[z] # Nil =>
    \A s \in Series(z) :
      LET l == log[z][s]
          q == node[z].s[s].times
          R == InPeriod(l)
      IN /\ IsMean(time_queue_amm(q), l, R, [i \in R |-> 1])
         /\ IsMean(time_queue_wma(q), l, R, [i \in R |-> Rank(R, i)])

(* A counter and its overflow count never lose a request or a millisecond. *)
CountersExact ==
  \A z \in Zones : node[z] # Nil =>
    /\ node[z].requests.n + W * node[z].requests.oc = since[z].requests
    /\ \A s \in Series(z) :
         node[z].s[s].total.n + W * node[z].s[s].total.oc = since[z].msec[s]

(* Bucket i counts the samples of at most Buckets[i] milliseconds, in any  *)
(* order of the bounds.                                                    *)
HistogramCumulative ==
  \A z \in Zones : node[z] # Nil =>
    \A s \in Series(z), i \in DOMAIN Buckets :
      node[z].s[s].buckets[i] =
        Cardinality({j \in DOMAIN log[z][s] :
                       log[z][s][j].msec <= Buckets[i]}) % W

(* The sums of the display lose nothing either, whatever wraps on the way. *)
SumExact ==
  stats # Nil =>
    /\ stats.requests.n + W * stats.requests.oc =
         SumFunction([z \in Servers |-> since[z].requests])
    /\ stats.total.n + W * stats.total.oc =
         SumFunction([z \in Servers |-> since[z].msec["request"]])

(* The ring of the sums holds the newest samples of all server zones       *)
(* together, in order, whatever the order of the tree: as many of each     *)
(* instant as there are, save the oldest that no longer fit.  While a ring *)
(* holds samples from before the clock was set back next to later ones,    *)
(* some may be missing, but none is there twice or made up.                *)
SumIsNewest ==
  stats # Nil =>
    LET ring == Entries(stats.times)
        kept == {i \in DOMAIN ring : ring[i].time > Horizon}
        held(l) == {i \in DOMAIN l : i + QUEUE_LEN > Len(l) + 1}
        samples == UNION {{<<z, i>> : i \in held(log[z]["request"])} :
                            z \in Servers}
        at(p) == log[p[1]]["request"][p[2]]
        young == {p \in samples : at(p).time > Horizon}
        later(t) == Cardinality({p \in young : at(p).time > t})
        least(S) == IF Cardinality(S) < QUEUE_LEN THEN Cardinality(S)
                                                  ELSE QUEUE_LEN - 1
        inOrder(s) == \A i \in 1..(Len(s) - 1) : s[i].time <= s[i + 1].time
    IN /\ \A i \in kept :
            Cardinality({j \in kept : ring[j] = ring[i]}) <=
              Cardinality({p \in young : at(p) = ring[i]})
       /\ (\A z \in Servers : inOrder(NewestOf(log[z]["request"]))) =>
            /\ Cardinality(kept) = least(young)
            /\ \A i, j \in kept : i < j => ring[i].time <= ring[j].time
            /\ \A i \in kept : later(ring[i].time) < QUEUE_LEN - 1

(* A zone that was reset and not requested since shows nothing but zeros.  *)
ResetIsInit ==
  \A z \in Zones : node[z] # Nil /\ since[z].requests = 0 =>
    \A s \in Series(z) :
      /\ time_queue_average(node[z].s[s].times) = 0
      /\ \A i \in DOMAIN Buckets : node[z].s[s].buckets[i] = 0
=============================================================================
