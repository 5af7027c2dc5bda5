------------------------------- MODULE VtsConf -------------------------------
(***************************************************************************)
(* How nginx-module-vts turns the filter and limit directives of nginx.conf*)
(* into the arrays its handlers walk: directives are appended to the array *)
(* of the block they stand in, duplicates are dropped block by block, and  *)
(* a block without directives of its own takes the array of the enclosing  *)
(* one.  There is one server with one location.  The arrays of the http    *)
(* block live in ctx and stay in force everywhere, next to those of the    *)
(* server or location.                                                     *)
(*                                                                         *)
(* A complex value (a key, a name, a variable) is the sequence of its      *)
(* constants and variables, constants character by character where that    *)
(* matters (VtsName).                                                      *)
(***************************************************************************)
EXTENDS VtsName, FiniteSets

CONSTANTS
  Files,            (* configuration files: sequences of lines              *)
  Hash,             (* Hash[t] is ngx_crc32_short(t)                        *)
  W                 (* 2^32, the range of uint32_t                          *)

Blocks == {"http", "server", "location"}

(* The arrays, and the flag that has their duplicates dropped. *)
Arrays == {"filter_keys", "limit_traffics", "limit_filter_traffics"}
Flags  == {"filter_check_duplicate", "limit_check_duplicate"}

FlagOf(a) == IF a = "filter_keys" THEN "filter_check_duplicate"
                                  ELSE "limit_check_duplicate"

(* A line of the file is a flag [block, flag, value] or a directive: a     *)
(* filter [block, array, key, name], a limit [block, array, key, variable, *)
(* size, code], with an empty key in limit_traffics.                       *)
IsFlag(line) == "flag" \in DOMAIN line

(* What the duplicate check hashes: no separator between the two parts.    *)
Text(d) == IF d.array = "filter_keys" THEN d.key \o d.name
                                      ELSE d.key \o d.variable

(* What limit_traffic_by_set_key makes of its line. *)
Resolved(d) ==
  IF d.array = "limit_filter_traffics" THEN [d EXCEPT !.key = control_zone(@)]
                                       ELSE d

(* What the parser and ngx_conf_set_flag_slot let through: known blocks,   *)
(* arrays and flags; a flag is set once in a block.                        *)
ASSUME ConfAssumption ==
  /\ W \in Nat \ {0}
  /\ \A f \in Files :
       /\ f \in Seq(Range(f))
       /\ \A i \in DOMAIN f :
            /\ f[i].block \in Blocks
            /\ IF IsFlag(f[i])
                 THEN f[i].flag \in Flags /\ f[i].value \in {"on", "off"}
                 ELSE /\ f[i].array \in Arrays /\ f[i].key \in Seq(Chars)
                      /\ f[i].array = "filter_keys" => f[i].name \in Seq(Chars)
                      /\ Hash[Text(Resolved(f[i]))] \in 0 .. W - 1
       /\ \A i, j \in DOMAIN f :
            IsFlag(f[i]) /\ IsFlag(f[j]) /\ f[i].block = f[j].block
              /\ f[i].flag = f[j].flag => i = j

VARIABLES
  file,             (* the configuration file                               *)
  read,             (* lines of it that have been read                      *)
  stage,            (* "parse", "main", "server", "location", "serve"; or   *)
                    (* "fault"                                              *)
  conf,             (* conf[b][a]: array a of block b, <<>> for NULL        *)
  flags             (* flags[b][f]: -1 (NGX_CONF_UNSET) as "unset"          *)

confVars == <<file, read, stage, conf, flags>>

(* The directives of array a in a file, as they are pushed. *)
Directives(f, a) ==
  {Resolved(d) : d \in {e \in Range(f) : ~IsFlag(e) /\ e.array = a}}

(* Arrays hold what their directives push, flags their values. *)
ConfTypeOK ==
  /\ file \in Files
  /\ read \in 0 .. Len(file)
  /\ stage \in {"parse", "main", "server", "location", "serve", "fault"}
  /\ DOMAIN conf = Blocks
  /\ \A b \in Blocks :
       /\ DOMAIN conf[b] = Arrays
       /\ \A a \in Arrays : conf[b][a] \in Seq(Directives(file, a))
  /\ flags \in [Blocks -> [Flags -> {"unset", "on", "off"}]]

(* create_main_conf, create_loc_conf *)
ConfInit ==
  /\ file \in Files
  /\ read = 0 /\ stage = "parse"
  /\ conf = [b \in Blocks |-> [a \in Arrays |-> <<>>]]
  /\ flags = [b \in Blocks |-> [f \in Flags |-> "unset"]]
-----------------------------------------------------------------------------
(* filter_unique and limit_traffic_unique *)

(* Mutant: equal hashes compare as greater. *)
cmp_hashs_Greater(x, y) ==
  LET diff == (x + W - y) % W
  IN  diff >= W \div 2

(* Whether cmp_hashs answers at most 0: the difference of two uint32_t,    *)
(* returned as an int.                                                     *)
cmp_hashs(x, y) ==
  LET diff == (x + W - y) % W
  IN  diff = 0 \/ diff >= W \div 2

(* filter_uniq_t: what is sorted.  The index counts from 1. *)
Uniq == [hash : Nat, index : Nat]

uniqs(s) == [i \in DOMAIN s |-> [hash |-> Hash[Text(s[i])], index |-> i]]

(* ngx_qsort is qsort of the C library: a merge sort. *)
merge[p \in Seq(Uniq) \X Seq(Uniq)] ==
  LET x == p[1]
      y == p[2]
  IN  IF x = <<>> \/ y = <<>> THEN x \o y
      ELSE IF cmp_hashs(Head(x).hash, Head(y).hash)
        THEN <<Head(x)>> \o merge[<<Tail(x), y>>]
        ELSE <<Head(y)>> \o merge[<<x, Tail(y)>>]

sorted[x \in Seq(Uniq)] ==
  LET half == Len(x) \div 2 IN
  IF Len(x) <= 1 THEN x
  ELSE merge[<<sorted[SubSeq(x, 1, half)], sorted[SubSeq(x, half + 1, Len(x))]>>]

(* Mutant: the entries are not sorted. *)
qsort_None(u) == u

qsort(u) == sorted[u]

(* The numbers of S that are at most n, in order. *)
InOrder(S, n) ==
  LET upTo[i \in Nat] ==
        IF i = 0 THEN <<>>
        ELSE IF i \in S THEN Append(upTo[i - 1], i) ELSE upTo[i - 1]
  IN  upTo[n]

(* Where the hash differs from the one before, 0 before the first. *)
Changes(u) ==
  {n \in DOMAIN u : u[n].hash # IF n = 1 THEN 0 ELSE u[n - 1].hash}

(* Mutant: the loop starts at the second entry. *)
Kept_FromSecond(s) ==
  LET u == qsort(uniqs(s))
      index == InOrder(Changes(u) \ {1}, Len(u))
  IN  [j \in DOMAIN index |-> s[u[index[j]].index]]

(* The entries that are pushed onto the new array. *)
Kept(s) ==
  LET u == qsort(uniqs(s))
      index == InOrder(Changes(u), Len(u))
  IN  [j \in DOMAIN index |-> s[u[index[j]].index]]

(* Mutant: the sorted array always replaces the one of the file. *)
unique_Sorted(s) == Kept(s)

(* The sorted array replaces the one of the file only if it is shorter.    *)
unique(s) == IF Len(Kept(s)) = Len(s) THEN s ELSE Kept(s)

(* When nothing is kept, filter_keys is still NULL and its nelts is read.  *)
Faults(s) == s # <<>> /\ Kept(s) = <<>>
-----------------------------------------------------------------------------
(* Reading the file *)

Push(line, array) ==
  /\ line.array = array
  /\ conf' = [conf EXCEPT ![line.block][array] = Append(@, line)]
  /\ UNCHANGED flags

filter_by_set_key(line)        == Push(line, "filter_keys")
limit_traffic(line)            == Push(line, "limit_traffics")
limit_traffic_by_set_key(line) == Push(Resolved(line), "limit_filter_traffics")

(* ngx_conf_set_flag_slot *)
SetFlag(line) ==
  /\ flags' = [flags EXCEPT ![line.block][line.flag] = line.value]
  /\ UNCHANGED conf

ReadLine ==
  LET line == file[read + 1] IN
  /\ stage = "parse" /\ read < Len(file)
  /\ read' = read + 1
  /\ IF IsFlag(line)
       THEN SetFlag(line)
       ELSE filter_by_set_key(line) \/ limit_traffic(line)
              \/ limit_traffic_by_set_key(line)
  /\ UNCHANGED <<file, stage>>

EndOfFile ==
  /\ stage = "parse" /\ read = Len(file)
  /\ stage' = "main"
  /\ UNCHANGED <<file, read, conf, flags>>

(* What unique makes of the arrays of a block: all that are not NULL and   *)
(* whose flag is not off.                                                  *)
Checked(arrays, flag) ==
  {a \in Arrays : arrays[a] # <<>> /\ flag[FlagOf(a)] # "off"}

(* Mutant: the arrays that are not checked are dropped. *)
InitMainConf_Drops ==
  LET checked == Checked(conf["http"], flags["http"]) IN
  /\ stage = "main"
  /\ stage' = "server"
  /\ conf' = [conf EXCEPT !["http"] = [a \in checked |-> unique(@[a])]]
  /\ UNCHANGED <<file, read, flags>>

InitMainConf ==
  LET checked == Checked(conf["http"], flags["http"]) IN
  /\ stage = "main"
  /\ stage' = IF \E a \in checked : Faults(conf["http"][a])
                THEN "fault" ELSE "server"
  /\ conf' = [conf EXCEPT !["http"] =
       [a \in Arrays |-> IF a \in checked THEN unique(@[a]) ELSE @[a]]]
  /\ UNCHANGED <<file, read, flags>>

(* A block with directives of its own does not see the enclosing block's.  *)
Inherited(own, enclosing) == IF own = <<>> THEN enclosing ELSE own

(* The arrays of the http block stay in ctx, so the server inherits none.  *)
(* A block with directives takes a flag it does not set from the http      *)
(* block, not from the enclosing one.  The flag that is merged afterwards  *)
(* is read by nobody.                                                      *)
MergeLocConf(child, parent, next) ==
  LET flag == [f \in Flags |->
                 IF flags[child][f] = "unset" THEN flags["http"][f]
                                              ELSE flags[child][f]]
      checked == Checked(conf[child], flag)
      own(a) == IF a \in checked THEN unique(conf[child][a])
                                 ELSE conf[child][a]
      prev(a) == IF parent = "http" THEN <<>> ELSE conf[parent][a]
  IN
  /\ stage = child
  /\ stage' = IF \E a \in checked : Faults(conf[child][a])
                THEN "fault" ELSE next
  /\ conf' = [conf EXCEPT ![child] =
                [a \in Arrays |-> Inherited(own(a), prev(a))]]
  /\ UNCHANGED <<file, read, flags>>

ConfNext ==
  \/ ReadLine \/ EndOfFile \/ InitMainConf
  \/ MergeLocConf("server", "http", "location")
  \/ MergeLocConf("location", "server", "serve")

ConfSpec == ConfInit /\ [][ConfNext]_confVars
-----------------------------------------------------------------------------
(* Properties *)

(* What directive d means. *)
AsMeant(d) ==
  IF d.array = "limit_filter_traffics" THEN [d EXCEPT !.key = Meant(@)] ELSE d

(* The lines of the file with directives of array a in block b. *)
Lines(b, a) ==
  {n \in DOMAIN file : ~IsFlag(file[n]) /\ file[n].block = b /\ file[n].array = a}

(* The directives of the file that stand in block b, as they are meant. *)
Written(b, a) ==
  LET lines == InOrder(Lines(b, a), Len(file))
  IN  [i \in DOMAIN lines |-> AsMeant(file[lines[i]])]

(* Whose directives are in force in block b. *)
Source(b, a) == IF b = "location" /\ Written(b, a) = <<>> THEN "server" ELSE b

FlagLines(b, f) ==
  {i \in DOMAIN file : IsFlag(file[i]) /\ file[i].block = b /\ file[i].flag = f}

Enabled(b, f) ==
  IF FlagLines(b, f) # {}
    THEN \E i \in FlagLines(b, f) : file[i].value = "on"
    ELSE \A i \in FlagLines("http", f) : file[i].value = "on"

(* Once the configuration is complete: the directives whose array is in    *)
(* force in block b, and whether their duplicates are to be dropped.       *)
Intended(b, a) == Written(Source(b, a), a)
Dropping(b, a) == Enabled(Source(b, a), FlagOf(a))

(* Of equal directives in one block only one is processed, whatever the    *)
(* number and the order of the others (filter_unique, limit_traffic_unique *)
(* and their calls by init_main_conf and merge_loc_conf).                  *)
DuplicatesDropped ==
  stage = "serve" => \A b \in Blocks, a \in Arrays :
    Dropping(b, a) =>
      \A i, j \in DOMAIN conf[b][a] :
        Text(conf[b][a][i]) = Text(conf[b][a][j]) => i = j

(* The one that is kept is the one written first, with its size and code:  *)
(* the sort must be stable and the loop must keep the first of a run.      *)
FirstOneWins ==
  stage = "serve" => \A b \in Blocks, a \in Arrays :
    Dropping(b, a) =>
      \A i \in DOMAIN conf[b][a] : \E n \in DOMAIN Intended(b, a) :
        /\ conf[b][a][i] = Intended(b, a)[n]
        /\ \A k \in 1 .. n - 1 : Text(Intended(b, a)[k]) # Text(conf[b][a][i])

(* Dropping duplicates loses no directive that differs from the others,    *)
(* and no block loses those of the block it inherits from.                 *)
NoneLost ==
  stage = "serve" => \A b \in Blocks, a \in Arrays :
    \A n \in DOMAIN Intended(b, a) :
      Text(Intended(b, a)[n]) # <<>> =>
        \E i \in DOMAIN conf[b][a] : Text(conf[b][a][i]) = Text(Intended(b, a)[n])

(* Limits are tried and filters counted in the order of the file, with the *)
(* zones their texts mean, unless a duplicate made the array shorter; it   *)
(* is then in the order of hashes.                                         *)
OrderOfFile ==
  stage = "serve" => \A b \in Blocks, a \in Arrays :
    Len(conf[b][a]) = Len(Intended(b, a)) => conf[b][a] = Intended(b, a)

(* The zone of a limit is the one its text means, escapes and all, however *)
(* many and however near each other they are (limit_traffic_by_set_key).   *)
ZonesResolved ==
  stage = "serve" => \A b \in Blocks, a \in Arrays :
    {conf[b][a][i].key : i \in DOMAIN conf[b][a]}
      = {Intended(b, a)[i].key : i \in DOMAIN Intended(b, a)}

(* The name of every filter in force is shown so that it is read back from *)
(* both pages (display_set_filter, display_prometheus_set_filter).         *)
NamesReadBack ==
  stage = "serve" => \A b \in Blocks :
    \A i \in DOMAIN conf[b]["filter_keys"] :
      ReadBack(conf[b]["filter_keys"][i].name)
-----------------------------------------------------------------------------
(* The inductive invariant behind them *)

(* What the first n lines push onto array a of block b. *)
Pushed(b, a, n) ==
  LET lines == InOrder(Lines(b, a), n)
  IN  [i \in DOMAIN lines |-> Resolved(file[lines[i]])]

Given(b, a) == Pushed(b, a, Len(file))

(* What unique leaves of it. *)
Own(b, a) == IF Given(b, a) # <<>> /\ Enabled(b, FlagOf(a))
               THEN unique(Given(b, a)) ELSE Given(b, a)

(* The blocks that init_main_conf and merge_loc_conf have been through. *)
Through ==
  CASE stage = "server" -> {"http"}
    [] stage = "location" -> {"http", "server"}
    [] stage = "serve" -> Blocks
    [] OTHER -> {}

(* A flag is unset until its line has been read.                           *)
FlagInv ==
  \A b \in Blocks, f \in Flags :
    /\ flags[b][f] = "unset" => \A i \in FlagLines(b, f) : i > read
    /\ flags[b][f] # "unset" =>
         \E i \in FlagLines(b, f) : i <= read /\ flags[b][f] = file[i].value

(* Every array is what the lines read so far have pushed, until its block  *)
(* is merged; it is then what unique leaves of it, or the server's.        *)
ArrayInv ==
  stage # "fault" => \A b \in Blocks, a \in Arrays :
    IF b \in Through
      THEN /\ Given(b, a) # <<>> => Own(b, a) # <<>>
           /\ conf[b][a] = IF b = "location" /\ Given(b, a) = <<>>
                             THEN Own("server", a) ELSE Own(b, a)
      ELSE conf[b][a] = Pushed(b, a, read)

ConfInv ==
  ConfTypeOK /\ FlagInv /\ ArrayInv /\ (stage # "parse" => read = Len(file))
-----------------------------------------------------------------------------
(* What is asked of the hashes of a file, where it is asked *)

(* Those of an array lie within half of the range of uint32_t, so that the *)
(* int that cmp_hashs returns has the sign of their difference.            *)
HashesNear ==
  \A f \in Files, a \in Arrays : \A d, e \in Directives(f, a) :
    Hash[Text(d)] - Hash[Text(e)] < W \div 2

(* No two texts of an array have the same hash, none has that of no text.  *)
HashesApart ==
  \A f \in Files, a \in Arrays : \A d, e \in Directives(f, a) :
    /\ Hash[Text(d)] = Hash[Text(e)] => Text(d) = Text(e)
    /\ Text(d) # <<>> => Hash[Text(d)] # 0

(* Directives with the same hash have the same key; one with hash 0 has    *)
(* that of all in its array, as in limit_traffics.                         *)
KeysApart ==
  \A f \in Files, a \in Arrays : \A d, e \in Directives(f, a) :
    Hash[Text(d)] \in {Hash[Text(e)], 0} => d.key = e.key
=============================================================================
