------------------------------ MODULE MCVtsConf ------------------------------
(* Instances of VtsConf for TLC: files of filters and limits over the      *)
(* three blocks, and one server with five filters.                         *)
EXTENDS VtsConf, TLC

CONSTANTS MaxLines, MaxPieces, MaxName

Filter(b, key, name) ==
  [block |-> b, array |-> "filter_keys", key |-> key, name |-> name]

Limit(b, variable, size) ==
  [block |-> b, array |-> "limit_traffics", key |-> <<>>,
   variable |-> variable, size |-> size, code |-> 503]

Off(b, f) == [block |-> b, flag |-> f, value |-> "off"]
On(b, f) == [block |-> b, flag |-> f, value |-> "on"]

(* Texts of zones, of pieces of escapes; names of filters.                 *)
Zones == {FlattenSeq(t) : t \in
            UNION {[1 .. n -> {alpha, <<"[">>, <<"a">>, <<"]">>, <<"[", "a">>, <<"@">>}]
                     : n \in 1 .. MaxPieces}}
Names == UNION {[1 .. n -> {"x", "\\", "\"", "nl", "C2", "80", "FF"}] : n \in 1 .. MaxName}

KeyLimit(b, key) ==
  [block |-> b, array |-> "limit_filter_traffics", key |-> key,
   variable |-> <<"in">>, size |-> 1, code |-> 503]

Named == {<<KeyLimit("server", z)>> : z \in Zones}
           \cup {<<Filter("server", <<"$uri">>, n)>> : n \in Names}

(* A limit without a variable, two sizes of one limit, two filters.        *)
LinesFor(b) ==
  {Limit(b, v, 1) : v \in {<<>>, <<"in">>, <<"request">>}}
    \cup {Limit(b, <<"in">>, 2)}
    \cup {Filter(b, <<"$uri">>, <<n>>) : n \in {"host", "path"}}

Settings == {Off("server", "limit_check_duplicate"),
             Off("http", "limit_check_duplicate"),
             On("location", "limit_check_duplicate")}

(* Up to MaxLines directives in two blocks, at most one flag; and four     *)
(* limits in one block, for the merge of two sorted halves.                *)
MCFiles ==
  LET lines(B) == UNION {LinesFor(b) : b \in B}
      pairs == {{"http", "server"}, {"server", "location"}}
      upTo(S) == UNION {[1 .. n -> S] : n \in 1 .. MaxLines}
  IN  UNION {upTo(lines(B)) : B \in pairs}
        \cup {<<s>> \o f : s \in Settings,
              f \in UNION {[1 .. 2 -> lines(B)] : B \in pairs}}
        \cup [1 .. 4 -> {Limit("server", v, 1) : v \in {<<"in">>, <<"request">>}}
                           \cup {Limit("server", <<"in">>, 2)}]
        \cup Named

(* The model's characters are strings. *)
MCChars == STRING

(* Hashes within half of the range. *)
MCHash ==
  [t \in Seq(STRING) |->
     CASE t = <<>> -> 0
       [] t = <<"in">> -> 5
       [] t = <<"request">> -> 3
       [] t = <<"$uri", "host">> -> 7
       [] t = <<"$uri", "path">> -> 2
       [] OTHER -> 1]

(* The theorems about duplicates ask this of the hashes. *)
ASSUME HashesAssumption ==
  Files = MCFiles => HashesNear /\ HashesApart /\ KeysApart

(* Five filters, two of them equal, with hashes all over the range.        *)
SpreadFiles ==
  {[i \in 1 .. 5 |-> Filter("server", <<"$uri">>,
                            <<CASE i \in {1, 5} -> "a" [] i = 2 -> "b"
                                [] i = 3 -> "c" [] i = 4 -> "d">>)]}

SpreadHash == <<"$uri", "a">> :> 206 @@ <<"$uri", "b">> :> 21
              @@ <<"$uri", "c">> :> 57 @@ <<"$uri", "d">> :> 116
=============================================================================
