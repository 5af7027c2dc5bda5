------------------------------- MODULE VtsName -------------------------------
(***************************************************************************)
(* How nginx-module-vts reads the name of a zone (in an argument of a      *)
(* control command, in limit_traffic_by_set_key, in set_by_filter) and how *)
(* it writes one on the JSON and the Prometheus page: string.c.            *)
(*                                                                         *)
(* A text is a sequence of characters.  "US" is the separator in the key   *)
(* of a node (0x1f), which people write as @; a real @ is written          *)
(* [:alpha:] and, in set_by_filter, a / is written [:slash:].  Of these    *)
(* two escapes the model keeps three characters.                           *)
(***************************************************************************)
EXTENDS Naturals, Sequences, SequencesExt, FiniteSetsExt

CONSTANT Chars      (* the characters of texts *)

ASSUME CharAssumption ==
  {"US", "NUL", "@", "/", "[", "a", "s", "]"} \subseteq Chars

alpha == <<"[", "a", "]">>
slash == <<"[", "s", "]">>
-----------------------------------------------------------------------------
(* Reading *)

(* A string is its memory, up to a NUL, and its length. *)
copy_str(text) == [data |-> Append(text, "NUL"), len |-> Len(text)]

TextOf(buf) == SubSeq(buf.data, 1, buf.len)

replace_chrc(buf, in, to) ==
  [buf EXCEPT !.data = [i \in DOMAIN @ |->
     IF i <= buf.len /\ @[i] = in THEN to ELSE @[i]]]

(* ngx_strstrn: where dst stands at or behind p, before the NUL. *)
Occurrences(data, p, dst) ==
  {i \in p .. Len(data) - Len(dst) : SubSeq(data, i, i + Len(dst) - 1) = dst}

(* Mutant: the search goes on dst->len behind the replaced character. *)
replace_strc_Skips(buf, dst, c) ==
  LET d == Len(dst)
      loop[s \in [data : [DOMAIN buf.data -> Chars], p : DOMAIN buf.data, n : Nat]] ==
        IF Occurrences(s.data, s.p, dst) = {} THEN s
        ELSE LET i == Min(Occurrences(s.data, s.p, dst))
                 moved == buf.len - (i - 1) - (s.n + 1) * d + s.n
             IN  loop[[data |-> [j \in DOMAIN s.data |->
                                   IF j = i THEN c
                                   ELSE IF j \in i + 1 .. i + moved
                                     THEN s.data[j + d - 1] ELSE s.data[j]],
                       p |-> i + d, n |-> s.n + 1]]
      end == loop[[data |-> buf.data, p |-> 1, n |-> 0]]
  IN  IF buf.data[buf.len + 1] # "NUL" THEN buf
      ELSE [data |-> end.data, len |-> buf.len - end.n * d + end.n]

(* Every dst becomes the character c, in place.  The NUL is not moved, so  *)
(* the memory keeps a tail of what was moved, in which ngx_strstrn looks   *)
(* too, and a string that was shortened is refused the next time.          *)
replace_strc(buf, dst, c) ==
  LET d == Len(dst)
      loop[s \in [data : [DOMAIN buf.data -> Chars], p : DOMAIN buf.data, n : Nat]] ==
        IF Occurrences(s.data, s.p, dst) = {} THEN s
        ELSE LET i == Min(Occurrences(s.data, s.p, dst))
                 moved == buf.len - (i - 1) - (s.n + 1) * d + s.n
             IN  loop[[data |-> [j \in DOMAIN s.data |->
                                   IF j = i THEN c
                                   ELSE IF j \in i + 1 .. i + moved
                                     THEN s.data[j + d - 1] ELSE s.data[j]],
                       p |-> i + 1, n |-> s.n + 1]]
      end == loop[[data |-> buf.data, p |-> 1, n |-> 0]]
  IN  IF buf.data[buf.len + 1] # "NUL" THEN buf
      ELSE [data |-> end.data, len |-> buf.len - end.n * d + end.n]

(* The zone of a control command or of limit_traffic_by_set_key. *)
control_zone(text) ==
  TextOf(replace_strc(replace_chrc(copy_str(text), "@", "US"), alpha, "@"))

(* group/zone/name in set_by_filter: <<group, zone, name>>, or <<>>. *)
set_by_filter_init(uri) ==
  LET slashes == {i \in DOMAIN uri : uri[i] = "/"} IN
  IF Cardinality(slashes) < 2 THEN <<>>
  ELSE LET i == Min(slashes)
           j == Min(slashes \ {i})
           zone == replace_chrc(copy_str(SubSeq(uri, i + 1, j - 1)), "@", "US")
       IN  <<SubSeq(uri, 1, i - 1),
             TextOf(replace_strc(replace_strc(zone, alpha, "@"), slash, "/")),
             SubSeq(uri, j + 1, Len(uri))>>
-----------------------------------------------------------------------------
(* Writing.  "nl" is a newline, for all control characters; "C2" a byte    *)
(* that begins a UTF-8 sequence of two, "80" one that ends it, "FF" one    *)
(* that occurs in none.                                                    *)

escape_json(text) ==
  FlattenSeq([i \in DOMAIN text |->
    CASE text[i] \in {"\\", "\""} -> <<"\\", text[i]>>
      [] text[i] = "nl" -> <<"\\", "u", "0", "0", "0", "A">>
      [] OTHER -> <<text[i]>>])

(* Six bytes per character, zeroed, and the length is where a zero is: if  *)
(* all characters took six, it is whatever follows the memory.             *)
escape_json_pool(text) ==
  LET dst == escape_json(text)
  IN  IF Len(dst) < 6 * Len(text) THEN {dst} ELSE {dst, Append(dst, "?")}

Ascii(b) == b \notin {"C2", "80", "FF"}

(* ngx_utf8_decode: the length of the sequence at i, 0 if there is none. *)
utf8_decode(text, i) ==
  IF text[i] = "C2" /\ i < Len(text) /\ text[i + 1] = "80" THEN 2 ELSE 0

(* What is written for what stands at i, and how far it goes. *)
Escaped(text, i) ==
  LET same(n) == [out |-> SubSeq(text, i, i + n - 1), next |-> i + n] IN
  CASE text[i] \in {"\\", "\""} -> [out |-> <<"\\", text[i]>>, next |-> i + 1]
    [] text[i] = "nl" -> [out |-> <<"\\", "n">>, next |-> i + 1]
    [] Ascii(text[i]) /\ text[i] \notin {"\\", "\"", "nl"} -> same(1)
    [] ~Ascii(text[i]) /\ utf8_decode(text, i) # 0 -> same(utf8_decode(text, i))
    [] OTHER -> [out |-> <<"\\", "\\", "x", text[i]>>, next |-> i + 1]

(* Mutant: what follows the first escape is copied as it is. *)
escape_prometheus_Once(text) ==
  LET clean[i \in Nat] ==
        IF /\ i <= Len(text)
           /\ Escaped(text, i).out = SubSeq(text, i, Escaped(text, i).next - 1)
          THEN clean[Escaped(text, i).next] ELSE i
      pa == clean[1]
  IN  IF pa > Len(text) THEN text
      ELSE SubSeq(text, 1, pa - 1) \o Escaped(text, pa).out
             \o SubSeq(text, Escaped(text, pa).next, Len(text))

(* What needs no escape is copied at once, the rest piece by piece. *)
escape_prometheus(text) ==
  LET clean[i \in Nat] ==
        IF /\ i <= Len(text)
           /\ Escaped(text, i).out = SubSeq(text, i, Escaped(text, i).next - 1)
          THEN clean[Escaped(text, i).next] ELSE i
      rest[i \in Nat] ==
        IF i > Len(text) THEN <<>>
        ELSE Escaped(text, i).out \o rest[Escaped(text, i).next]
  IN  SubSeq(text, 1, clean[1] - 1) \o rest[clean[1]]
-----------------------------------------------------------------------------
(* What the readers of a name are promised *)

(* text with every dst replaced by c; dst does not overlap itself. *)
Replaced(text, dst, c) ==
  LET starts == Occurrences(Append(text, "NUL"), 1, dst)
      inside(i) == \E j \in starts : i \in j + 1 .. j + Len(dst) - 1
  IN  FlattenSeq([i \in DOMAIN text |->
        IF i \in starts THEN <<c>> ELSE IF inside(i) THEN <<>> ELSE <<text[i]>>])

(* The zone that a control command or a limit means by a text. *)
Meant(text) ==
  Replaced([i \in DOMAIN text |-> IF text[i] = "@" THEN "US" ELSE text[i]],
           alpha, "@")

(* How a zone is written in set_by_filter. *)
Spelled(zone) ==
  FlattenSeq([i \in DOMAIN zone |->
    CASE zone[i] = "US" -> <<"@">> [] zone[i] = "@" -> alpha
      [] zone[i] = "/" -> slash [] OTHER -> <<zone[i]>>])

(* A quoted string with backslashes, read back; ends at a bare quote. *)
Unquoted(text) ==
  LET read[i \in Nat] ==
        CASE i > Len(text) -> <<>>
          [] i <= Len(text) /\ text[i] \in {"\"", "nl"} -> <<"end">>
          [] i < Len(text) /\ text[i] = "\\" /\ text[i + 1] = "u" ->
               <<"nl">> \o read[i + 6]
          [] i < Len(text) /\ text[i] = "\\" /\ text[i + 1] = "n" ->
               <<"nl">> \o read[i + 2]
          [] i < Len(text) /\ text[i] = "\\" /\ text[i + 1] \notin {"u", "n"} ->
               <<text[i + 1]>> \o read[i + 2]
          [] OTHER -> <<text[i]>> \o read[i + 1]
  IN  read[1]

(* text with the bytes that belong to no UTF-8 sequence written in hex. *)
Utf8(text) ==
  FlattenSeq([i \in DOMAIN text |->
    IF \/ text[i] = "FF"
       \/ text[i] = "C2" /\ ~(i < Len(text) /\ text[i + 1] = "80")
       \/ text[i] = "80" /\ ~(i > 1 /\ text[i - 1] = "C2")
      THEN <<"\\", "x", text[i]>> ELSE <<text[i]>>])

(* Whether both pages show a name so that it is read back: the JSON page   *)
(* unless the name consists of control characters, the Prometheus page as  *)
(* UTF-8 whatever the name (escape_json_pool, escape_prometheus).          *)
ReadBack(name) ==
  /\ (\E i \in DOMAIN name : name[i] # "nl") =>
       \A out \in escape_json_pool(name) : Unquoted(out) = name
  /\ Unquoted(escape_prometheus(name)) = Utf8(name)
=============================================================================
