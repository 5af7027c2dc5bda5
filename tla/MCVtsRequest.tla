----------------------------- MODULE MCVtsRequest -----------------------------
(* Instances of VtsRequest and VtsDisplay for TLC. *)
EXTENDS VtsDisplay, TLC

Filter(b, key, name) ==
  [block |-> b, array |-> "filter_keys", key |-> key, name |-> name]

Limit(b, size, rc) ==
  [block |-> b, array |-> "limit_traffics", key |-> <<>>,
   variable |-> <<"request">>, size |-> size, code |-> rc]

KeyLimit(b, key, member, size) ==
  [block |-> b, array |-> "limit_filter_traffics", key |-> key,
   variable |-> <<member>>, size |-> size, code |-> 503]

(* A limit and duplicate filters, on the server and for everybody; and a   *)
(* location with filters and a limit on errors of its own.                 *)
MCFiles ==
  {<<Filter("server", <<"$cc">>, <<"cc">>), Limit("server", 0, 402),
     Filter("server", <<"$cc">>, <<"cc">>), Filter("http", <<"$cc">>, <<"cc">>),
     Limit("server", 1, 503)>>,
   <<Filter("http", <<"$cc">>, <<>>), Filter("location", <<"$cc">>, <<"cc">>),
     Filter("location", <<"$uri">>, <<"uri">>), Limit("http", 0, 402),
     KeyLimit("location", <<"FG", "@", "cc", "@", "$cc">>, "5xx", 0)>>}

(* The model's characters are strings. *)
MCChars == STRING

MCHash ==
  [t \in Seq(STRING) |->
     CASE t = <<"$cc", "cc">> -> 5
       [] t = <<"$cc">> -> 3
       [] t = <<"request">> -> 2
       [] t = <<"$uri", "uri">> -> 6
       [] OTHER -> 4]

Vars(cc) == [x \in {"$cc", "$uri"} |-> IF x = "$cc" THEN <<cc>> ELSE <<"/", "@">>]

MCRequests ==
  {[block |-> "server", host |-> <<>>, vars |-> Vars("us"),
    upstream |-> <<<<>>, <<"/", "s">>>>, cache |-> <<"c">>, status |-> 200],
   [block |-> "location", host |-> <<"h">>, vars |-> Vars("us"),
    upstream |-> <<<<"up">>, <<"p">>>>, cache |-> <<>>, status |-> 502]}

(* The other filters and peers, one of which has left the zone of its      *)
(* upstream since; a command may delete them all before the first request. *)
MCRestored ==
  {{<<"FG", "US", "cc", "US", "f", "@">>, <<"UG", "US", "up", "US", "q">>,
    <<"UG", "US", "dyn", "US", "old">>, <<"UG", "US", "dyn", "US", "b">>}}

MCUpstreams ==
  <<[host |-> <<"up">>, port |-> FALSE, zone |-> FALSE, peers |-> <<>>,
     servers |-> <<[addrs |-> <<<<"p">>, <<"q">>>>, backup |-> FALSE]>>],
    [host |-> <<"dyn">>, port |-> FALSE, zone |-> TRUE, peers |-> <<<<"d">>>>,
     servers |-> <<[addrs |-> <<<<"d">>>>, backup |-> FALSE],
                   [addrs |-> <<<<"b">>>>, backup |-> TRUE]>>]>>

MCKeys ==
  {<<"NO", "US", n>> : n \in {"_", "h", "us"}}
    \cup {<<"FG", "US", "cc", "US", "us">>, <<"FG", "US", "cc", "US", "f", "@">>,
          <<"FG", "US", "uri", "US", "/", "@">>, <<"UA", "US", "/", "s">>,
          <<"CC", "US", "c">>}
    \cup {<<"UG", "US", "up", "US", n>> : n \in {"p", "q"}}
    \cup {<<"UG", "US", "dyn", "US", n>> : n \in {"old", "b"}}

MCName == <<>>

MCRanges ==
  {<<"*", <<>>>>, <<"NO", <<"*">>>>, <<"FG", <<"cc", "@", "us">>>>, <<"UG", <<>>>>}

MCOptions ==
  [b \in Blocks |-> {"enable", "filter", "limit"}
                      \cup IF b = "location" THEN {"filter_host"} ELSE {}]

(* Texts hash near and apart, as Owing needs. *)
ASSUME HashesAssumption == HashesNear /\ HashesApart

(* Keys and names have the separators of their parts only, as Once needs.  *)
ASSUME PartsAssumption == KeysParted /\ PeersParted

ConnSymmetry == Permutations(Conns)
=============================================================================
