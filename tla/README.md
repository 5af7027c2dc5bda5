# Verification of dendy_ops_init_C7

The repository initialises CentOS 7 hosts (`init.sh` and the scripts under
`dendyops/components`) and carries the source of one real program, the nginx
module *nginx-module-vts* (`dendyops/components/nginx/nginx-module-vts`, called
VTS below; `components/nginx/old` holds an identical copy). This directory
models the parts whose correctness depends on interleavings, crashes and long
histories, checks the models with TLC and proves their main invariants with
TLAPS.

## The system

| Component | State | Operations | Talks to |
|---|---|---|---|
| VTS shared zone (`shm.c`, `node.c`) | slab pages, red-black tree of statistics nodes, `shpool->mutex`; in every worker, per location, `node_caches[type]` | `shm_add_node`, `find_node`, `find_lru`, `shm_info` | log handler, control, variables, limits, dump |
| VTS configuration (`module.c`, `filter.c`, `limit.c`) | per block, the arrays of filters and limits; in `ctx`, those of the http block | one function per directive, `filter_unique`, `limit_traffic_unique`, `init_main_conf`, `merge_loc_conf` | read by every handler |
| VTS limits (`limit.c`) | none of its own | refuse a request whose zone used more than its limit | shared zone, in the preaccess phase, before the request is counted |
| VTS log handler (`module.c`, `shm.c`) | none of its own | `shm_add_server`, `shm_add_upstream`, `shm_add_filter`, `shm_add_cache` | shared zone, one critical section each |
| VTS control (`control.c`, `display.c`) | none of its own | delete and reset of everything, a group, a zone; status | shared zone, under the mutex |
| VTS variables, set_by_filter (`variables.c`, `set.c`) | values of the request | read one member of a node | shared zone, with and without the mutex |
| VTS names (`string.c`) | none | the escapes of zones in arguments and directives, the escapes of JSON and Prometheus | configuration, control, display |
| VTS dump (`dump.c`, `module.c`) | dump file, a one second timer per worker | `dump_handler`, `dump_execute`, `dump_restore` at worker start, save at worker exit | shared zone, file system, other workers |
| VTS arithmetic (`node.c`) | 64-slot time queues, histogram buckets, overflow flags | push, pop, average, merge, observe | nodes |
| VTS display (`display*.c`, `filter.c`) | response buffer | JSON, JSONP, HTML, Prometheus | shared zone, upstream configuration |
| `init.sh` | `/var/lock/auto_install/auto_install.lock`, marker files, configuration files, `/opt/dendyops` | `main`, `out`, `update_ops`, `ssh_FP`, single steps | package managers, systemd |
| other scripts | files of the host | installers | package managers |

What is hard here: every worker process of nginx reaches the same pages and
holds pointers into them across requests; nodes are freed and their pages
reused while such pointers exist; a worker can be killed at any point of its
critical section; the dump file is read and rewritten by all workers; the
restore runs once per worker start and not once per zone; one request is counted
in several critical sections, and compared with its limit in yet another;
the pages look nodes up by the tree and peers by the configuration, which
disagree once a peer has left; `init.sh` can be started twice, interrupted and
started again.

For each component, correct means:

* shared zone: one node per key; a request is counted in the node of its own
  key; the number of filter nodes obeys `filter_max_node` and the least recently
  used one goes; pages are not lost; every critical section ends; readers see
  plain counters;
* dump: a graceful stop loses nothing, a restore brings back exactly what was
  saved and never sets a live counter back, a stop always ends;
* configuration: of equal directives in a block one is processed, the first, and
  nothing else is lost by sorting or inheritance;
* counting: each request once for its server, peer and cache and once for each
  filter in force;
* limits: a limit is passed by no more than the requests that were in flight;
* display: every page shows each node once, in the same place, and there is room
  for it; status commands and variables agree with the pages; names are read back
  as they were written;
* arithmetic: the queue keeps the latest samples in order, averages and
  histogram buckets are those of the samples, overflow is counted;
* `init.sh`: one run at a time, an interrupted run can be repeated, a finished
  run has configured everything.

## Modules

| Module | Models | Proofs |
|---|---|---|
| `VtsStats` | what the shared zone promises: a count and a last use per zone, LRU eviction | |
| `VtsShm` | the zone as the workers reach it; a refinement of `VtsStats` | `VtsShm_proofs` |
| `VtsDump` | dump, restore, start and stop of the workers around the zone | `VtsDump_proofs` |
| `VtsNode` | what one node counts and what the display sums | `VtsNode_proofs` |
| `VtsName` | how names are read and escaped; operators only | `VtsName_proofs` |
| `VtsConf` | from the lines of nginx.conf to the arrays in force; extends `VtsName` | `VtsConf_proofs` |
| `VtsRequest` | a request from its limits to its counters; extends `VtsConf` | `VtsRequest_proofs` |
| `VtsDisplay` | the pages, status commands and variables over the nodes of `VtsRequest` | `VtsRequest_proofs` |
| `HostInit` | `init.sh` with its lock and interruptions | `HostInit_proofs` |
| `Recursion` | nothing of the program: induction, recursive functions and sums, for the proofs | itself |

The `MC*` modules only name the values TLC uses. `VtsDump` takes the zone as
`VtsStats` shows it (a count per key), because the dump never looks at pages or
cached pointers, and so does `VtsRequest`; `VtsNode` takes the operations of
`VtsShm` as single steps, because all of them run under the mutex. `VtsName`,
`VtsConf`, `VtsRequest` and `VtsDisplay` form one model, from the lines of the
configuration to the entries of a page.

## VtsShm: the shared zone

`VtsShm` has one action per place where `shm_add_node` changes shared state:
`AddNode` (lock), `Find`, `Evict`, `Alloc` or `AllocFails`, `Insert` or `Set`,
`Cache` (remember the node, unlock). The mutex makes the section atomic for the
other workers, but a worker can be killed between any two of these steps:
`Crash` then does what nginx does, force the mutex open and start a worker with
empty `node_caches`. `NodeVariable` and `LimitTraffic` are the readers that move
cached pointers; `Control`, `ControlDelete`, `ControlReset`, `ControlDone` are
the control commands, node by node.

A page is a member of `Slots`. `rbtree` is the set of linked pages; the shape of
the tree is left out, because lookups compare whole keys once the hash matches.
`key[s]` is the memory word `node->key`, which survives the node: nginx's
`ngx_rbtree_delete` sets it to 0, and that (not any code of VTS) is why a stale
cached pointer does not pass the test of `find_node`. The 64-sample time queue is
abstracted to the time of its last sample, the counters to one.

Assumptions: all nodes take page runs of the same size (a node with its key is
larger than half a page and smaller than a page for keys up to a few hundred
bytes); inserting and deleting in nginx's tree is one step; `Hash` is any
function, and the claims about cached pointers need `HashesDistinct`: two keys
with one CRC32 are counted in one node, because `find_node` compares the hash of
the cached node only. `filter_max_node` evicts for any key that has no node yet,
also for one the limit does not count (`shm.c:119`); `VtsStats` promises no more.

The fairness of `FairSpec` is that a worker goes on with its own code: nothing
in the critical section blocks. It is not assumed that a worker gets the mutex.

## VtsDump: dump and restore

A worker is in one of seven phases: `down`, `forked`, `restore` (the loop of
`dump_restore`, one record per step), `up` (serving), `due` (told by the timer
or by `exit_worker` to dump), `open` (the file is truncated, the lock not yet
held) and `walk` (writing nodes, one per step). The file is the time in its
header, its records and the holder of its lock; a writer that goes on at its own
offset after somebody else has truncated the file leaves a `Hole`, where a
restore ends. `dump_node_write` walks the tree without `shpool->mutex`: `moved`
records that the tree changed under a walk, which may then miss nodes, and
`dangling` that a node on its path was freed, after which it may fault
(`WalkFaults`). Keys longer than the read buffer (`LongKeys`) make the restore
lose its place. `Start`, `Stop`, `Respawn`, `Kill` are what the nginx master and
the kernel do to workers and their locks.

`StopSavesAll` is the central property: although every exiting worker truncates
before it locks, the last one to write has seen all of the zone and everybody
else's truncation is behind it. `RestoreComplete` and `LiveCountersKept` say
that a worker that serves while others still restore neither misses zones nor
has them overwritten. `StopEnds` needs weak fairness of each worker's own
progress only (`FairSpec`): a worker runs its code to the end unless it is
killed, and a killed one is `down`. The
property is about a master that has been told to stop.

What the code does and no property of a passing run states: after SIGKILL only
the last timer dump is left (README.md:1245 of the module says the opposite); a
worker that is still restoring brings back a zone deleted meanwhile, and evicted
ones past `filter_max_node` (`dump.c:283` consults nothing newer than the
file); the records behind one with a key over 1024 bytes are lost
(`dump.c:389`).

## VtsNode: counters, rings, histograms, sums

A node has a request counter and, per series of durations (request time, and
response time for upstreams), a total, the last average, the ring of samples
and the histogram. A counter is its value modulo `W` and its overflow count,
kept by comparing with the value before (`add_oc`). The ring is the array with
`front` and `rear` of the code; the two error paths that reset it are part of
`time_queue_insert` and `averaged`, so that `QueueKeepsNewest` shows they are
never taken by a ring that holds samples. `pop | push` is evaluated from the
left, as compilers do; the mutant of `QueueKeepsNewest` is the other order. The
display merges the rings of all server zones backwards in the order of the tree,
which is that of hashes: any order (`SetToSeqs`).

Histories `log` (samples since the node was created) and `since` (counted since
creation or reset) say what the properties compare with. The ring of
`QUEUE_LEN` holds `QUEUE_LEN - 1` samples, 63 of 64, where README.md:388 of the
module speaks of the last 64 values.

`gettimeofday` can be set back (`SetBack`). `SumIsNewest` promises the newest
samples of all zones, each as often as it occurs, while the samples of every zone
are in order of time; after the clock was set back the merge may miss samples,
and what is still promised is that none is shown twice or made up. The averages
are those of the samples within the period at any clock.

## VtsName: reading and writing names

Texts are sequences of characters, one for each case the code tells apart; the
escapes `[:alpha:]` and `[:slash:]` keep three characters. `replace_strc` is
translated with its memory: it moves text in place but not the NUL behind it, so
the text left behind is searched again, and a second call on a string that was
shortened does nothing. `control_zone` (control commands and
`limit_traffic_by_set_key`) and `set_by_filter_init` are the two readers; the
latter calls twice, so in set_by_filter a zone with both `@` and `/` keeps its
second escape (`string.c:155`, `set.c:300`) and cannot be named.
`escape_json_pool` and `escape_prometheus` are the writers; `Meant`, `Unquoted`
and `Utf8` say what their readers expect.

## VtsConf: filters and limits

One server with one location, as directives nest no deeper. A line of `Files` is
a filter, a limit or a flag; `ReadLine` appends it to the array of its block,
`InitMainConf` and the two `MergeLocConf` drop duplicates and inherit, in the
order nginx calls them. `unique` sorts by hash (`qsort`: a stable merge sort, as
that of the C library) and keeps what differs from the entry before; the array
of the file stays if nothing was dropped. `cmp_hashs` is the difference of two
`uint32_t` returned as an `int`, an order only for hashes within half of the
range: `conf` gives such hashes, `conf_dup` others. If every entry hashes to 0
the length of a NULL array is read: stage `fault`.

The properties compare the arrays with the file: `Written` are the lines of a
block, `Source` the block they are inherited from, `Intended` the lines of that
block, `Enabled` the flag as the code reads it (of the block, else of http: the
flag of the server is not passed on to a location with directives of its own).

## VtsRequest: limited, served, counted

`Conns` are requests in flight, each perhaps in a worker of its own. `Take`
enters the preaccess phase; `LimitHandler` compares one array of limits per
critical section; `Handler` begins the log phase, served or refused; `AddServer`
and `AddNode` count, one node per critical section; `Crash` kills the worker
between any two. `node_delete` and `node_reset` are whole commands, since each
holds the mutex from beginning to end. An eviction is a delete by somebody else.

`due` is what the file, by itself, owes each node; `CountsOwed` compares it with
the counters, through sorting, inheritance, complex values and keys. `served`
counts the requests that were let through, for `LimitOvershoot`: the limit, the
one request that reaches it, and those in flight.

Assumed: the slab is not full; a request is logged in the location whose limits
it passed (no internal redirect between the two); members of a node are the
request and the 5xx counter, which are those that differ in when they advance.

## VtsDisplay: pages, status, variables

A page is a sequence of entries (zone, group, name, node). `display_set` (JSON)
walks the tree for servers, filters and caches and the upstreams of the
configuration for their peers; `display_prometheus_set` walks the tree for all;
`node_status` is cmd=status; `set_by_filter_variables` the variables of a
location. `Walks` are the orders in which the tree can be walked: those of the
filters, whose grouping depends on it, in every order. The properties are
evaluated when no request is in flight (`Quiet`), as a page depends on the nodes
alone. What an entry says about its node is `VtsNode`.

`ShownOnce`, `StatusAgrees` and `RoomForPage` state their exceptions, which are
what the code does: the JSON page does not show the node of a peer that has left
its upstream and Prometheus does; cmd=status and the variables find a peer only
at the first address of its server (`control.c:102`), unless an earlier variable
of the location has found a peer (the count is never set back); memory for a
page is measured under one hold of the mutex and used under another.

## HostInit: init.sh

One step is one command that changes the host or one test another run can
invalidate; a file is the version it holds. `main`, `out` (guarded by the lock
file), `ssh_FP` and `update_ops` (not guarded) start from the repository or from
elsewhere, which matters where the script copies relative paths. Ctrl+C ends a
run at any command and leaves the lock, as does an unsupported host
(`check_sys`); a second run then is refused until the file is removed by hand,
which is what its message says. The properties about files hold for runs one
after the other, interrupted or not (`~raced`); `SshdComesBack` holds however
runs overlap.

What curl fetches is a member of `Pages`, any at each download: `curl -o` without
`-f` (`init.sh:428`) takes an error page for the file as well as what the mirror
has today. `same_repo` is the comparison with what is installed; `fetched` is the
history of what downloads that succeeded have brought. A download that fails may
leave a part of a file; so may Ctrl+C in it, which the model leaves out, as only
a run that overlaps would read it.

The copies of sysctl.conf and of the repository file are named by the day, and
`mv` overwrites. All runs are of one day; the next day begins copies of its own.
`OriginalsKept` names the two cases in which the script loses what the
administrator had: sysctl.conf is moved without comparing, so a second run moves
the script's own over the copy; and a run that fetches something else than an
earlier one moves the file of the earlier one over the copy of the repository
file. The copies of sshd_config are named by the second and kept. `RerunConfigures`
promises a repository file that was fetched, not one that is the mirror's.

Not modelled: SELinux, firewall, time zone and default target (one idempotent
command each), ssh_config, the client's, which is moved and copied beside
sshd_config, an empty answer of the mirror, and `yum install`, which goes on in
the background.

## What is checked

| Run | Shows | Bounds, and why they are enough |
|---|---|---|
| `shm_safety` | one node per key, right node counted and cached, limit, leaks, with kills | two workers, keys of both kinds, as many pages as make the slab run out |
| `shm_refines` | readers see the counters of `VtsStats`, the LRU zone is evicted; every hold of the mutex ends | same, distinct times of last use, a `find_lru` that may get no memory, so that the slab runs out on the way |
| `dump_stop` | a stop saves all, a restart restores all, live counters are kept | three workers (one writing, one truncating, one restoring), three zones of which two fit under `filter_max_node`, two starts |
| `dump_live` | a stopping nginx stops, with a full disk, a kill and a long key | two workers, one kill: the holder of the lock and one who waits |
| `dump_truncate` | kills lose a completed dump (violation) | two workers, two kills |
| `node_counts` | rings, averages, counters, histograms and sums | rings of 3 that are full from the start and turn fully, counters modulo 3 that wrap in each request or two, unsorted bounds, two servers and one upstream, a clock that goes both ways |
| `node_reset` | averages and histogram survive cmd=reset (violation) | same |
| `conf` | duplicates, order, inheritance, zones and names of directives | every file of up to three directives in two adjacent blocks, with a flag up to two; four equal or unequal limits, so that two sorted halves are merged; every text of up to four pieces of escapes and every name of up to four characters, which puts each escape next to each |
| `conf_dup` | duplicates survive when hashes lie more than half the range apart (violation) | five filters, two of them equal |
| `requests` | counters are what the file owes, limits are passed by at most the requests in flight, pages and variables agree | two files that exercise duplicates, inheritance and all four arrays; three requests, two in flight, which pass a limit of 0 or 1; one command, one kill per request; two filters of one name around another's |
| `host_init` | repeated and interrupted runs converge, and lose an original only in the two cases that are named | three invocations, two at a time, two interruptions: the second interrupts the repair of the first; two contents of a download, of which each run fetches either |
| `host_race` | two runs inside the lock (violation) | no interruptions |

Deadlock is not checked where the bounds stop the model (`CHECK_DEADLOCK FALSE`):
there every counter has run out or every run has ended.

The violations are disagreements between the code and its documents: a completed
dump is lost to a kill; reset leaves averages and histograms; equal directives
are both processed; the lock of `init.sh` is tested and set in two commands.
`PROJECT.json` quotes the lines. They use runs of their own, with no other
property.

## What is proved

For all values of the constants, under the assumptions the modules name
(`ConfAssumption` and its like). Each `Invariant == Spec => []IInv` is the
inductive invariant its module needs; the other theorems follow from it.

`VtsShm_proofs`: `TypeCorrect`, `OneNodePerKey`, `LimitRespected`,
`CacheCoherent`, `OwnNodeCounted`, `LeaksBounded`. That two nodes never get one
key needs that the worker between `Find` and `Insert` holds the mutex and that
what it found is still true (`MutexInv`, `LocalsInv`); that the limit holds
needs that room was made before the insertion (`RoomInv`); `PagesInv` says
whose a page is. The two claims about cached pointers take `HashesDistinct` as
a hypothesis. For the leaks the pages that are neither linked nor free
(`Adrift`) are counted against the kills and the one worker that may be at
`insert` (`Inserting`).

Its second half proves `Refines`, that the zone implements `VtsStats`. What is
shown of a key is what its only node holds (`ShownNodes`), a command is in
progress exactly while its worker holds the mutex (`CommandOf`), and as many
limited keys are shown as there are filter nodes (`LimitedKeys`, a bijection);
then each step is the step of `VtsStats` its name suggests, a kill ends the
command or shows nothing, and the rest are stutters. Hypotheses:
`HashesDistinct`, and `~PoolMayFail`, since a `find_lru` that gets no memory
evicts nothing and a filter node is created past the limit. In `shm_refines` the
pool may fail, but there the slab runs out before the limit is passed.

`VtsDump_proofs`: `TypeCorrect`, `LiveKept`, `StopSaves`, `Restores`. One worker
at a time writes (`WorkersInv`). Every worker that exits opens the file once
more (`Pending`), so when nobody has still to open it, either a walk that
started behind the last truncation is under way or to come (`CleanWalk`) or the
file is complete (`Complete`): that is `SavedInv`. `StopSaves` takes `LongKeys =
{}`: a record with a key over the restore's buffer hides those behind it.
`Restores`, that a worker which serves has every zone of the file, rests on
`RestoreInv` (`VtsDump`): until the zones are all back nobody has served, so the
file is still that of the start, and every worker has brought back what it has
read of it. It takes `Cardinality(Keys) <= Pages`, a zone with a page for every
key: `dump_restore_add_node` ends the restore when the slab is full, and the
zones behind it stay out.

`VtsNode_proofs`: `RingsKeepNewest`, `NothingUncounted`, `HistogramsCount`,
`AveragesMean`, `SumsExact`, `SumsNewest`, `TypeCorrect`.
`IInv` adds to the first two that every ring is full (`front` follows `rear`).
Then popping and pushing moves the ring on by one: every entry but one stays
where it is (`RingTurn`), so no error path is taken (`InsertTurns`), the entries
are those before without the oldest (`InsertKeepsNewest`), and averaging does not
reset (`AverageKeepsRing`). `CountExact` is the arithmetic of one addition.
A bucket advances exactly when a sample within its bound joins the history
(`ObserveCounts`), modulo its width (`CountsModulo`). For the averages the pass
over the ring is followed entry by entry (`PassInv`): after n entries it has
counted the samples of the period among them (`Seen`), each of the rank it has in
the period, and the weights add up to the triangle it divides by. That a slot
without a sample is never taken for one needs that the clock stays past the
period (`ClockInv`), as that of a host does. For the sums, `AddCarry` adds two
counters with their overflows, and `SumsOf` says that after any number of zones,
in any order, the sums are those of the zones so far (`FoldSums`).
`SumsNewest` follows a merge turn by turn: after each, some x samples of one ring
and y of the other have been taken, the newest first (`AtTurn`, `Partial`), and
whatever set of samples one asks for, as many of it lie in the result as among
those taken (`Counts`). A merge that ends has filled its ring or come to the
horizon (`MergeMeans`), so of the samples after any time at or past the horizon
it holds as many as both rings together, or as many as fit (`MergeHits`); fitting
in twice is fitting in once (`FitTwice`), so the order of the zones does not
matter. `Merged` says this of the zones so far. Like `SumIsNewest` it asks for
the samples of each zone to be in order for all but one of its claims: that none
is shown twice or made up needs nothing.

`VtsConf_proofs`: `ConfTypesHold`, `Dropped`, `FirstKept`, `DirectivesKept`,
`ZonesMeant`, `FileOrder`, `NamesShown`, for every set of files. The inductive invariant
`ConfInv` says of each array that it is what its lines have pushed until its
block is merged, and from then on what `unique` makes of that, or the array of
the block above. What `unique` does is by induction: the merge sort returns its
argument in another order, equal hashes stay as they were written, and if the
comparison orders the hashes the result is ascending; the loop behind it keeps
the first of every run of equal hashes. `cmp_hashs` orders hashes only within
half of the range of `uint32_t`, so `Dropped` and `FirstKept` take `HashesNear`;
a directive is lost if it shares its hash with another, so `DirectivesKept`
takes `HashesApart`, and `ZonesMeant` takes `KeysApart`. These are about the
texts of one array. They are hypotheses of the theorems and not of the model:
`conf_dup` runs without `HashesNear` and shows the duplicate. `FileOrder` takes
none: an array that lost no directive is put back. `VtsName_proofs` gives
`ZoneRead`: `replace_strc`, in place and with the text it leaves behind, reads
every text as it is meant, however many escapes it holds. It also gives
`NameReadBack`, on which `NamesShown` rests without any condition: a quoted
string reads the same whatever stands before it (`ReadShift`), so what is read of
a page is read piece by piece, each as the character it was written for
(`JsonPieceRead`, `PieceRead`). `escape_prometheus` copies up to the first escape
at once, which is the same text as its pieces (`CleanWrites`); its pieces of two
bytes keep in step with UTF-8 since none begins at a second byte (`Start`).

`VtsRequest_proofs`: `Overshoot`, `Owing`, `RequestTypes`. `PathInv` says how far
in the gates a request is, `CountInv` that no more are served than counted, and
`RoomInv` that what has been served and what has passed a gate and may still be
served stay together within the limit and the number of connections: a request
that passes a gate found the counter below the limit, and all that were let
through before it are counted or in flight. The arrays it looks through are
typed by `ConfTypesHold` (`Configures`: to `VtsConf`, every step of a request is
a stutter). `Owing`, that every node counts what the file owes it, takes
`OwedInv` with the two invariants above: a request in its log phase still has to
be counted in exactly what the file owes it less what it has been counted in
(`todo`), and before its log phase in nothing. The nodes that the filters in
force name must be those the file names, once each, which is `Dropped`,
`FirstKept` and `DirectivesKept`; hence the hypotheses `HashesNear` and
`HashesApart`. The runs `conf` and `requests` assert the hypotheses for their
files.

The second half of `VtsRequest_proofs` is about the pages: `Roomy` and `Once`.
Both need of the steps only that the nodes are finitely many and under keys of
`Keys` (`NodesInv`); `KeyAssumption` says so of a restored dump. The rest is
about the pages as sequences. A walk of the tree lists the nodes, each once
(`Lists`, `WalkLists`), and so does the part of a page for one type, in entries
instead of nodes (`Shows`). For the filters that takes the sorting of their
names: equal names are together (`KeysGrouped`), so a name opens one object and
the nodes of each name are shown once (`FilterShows`). The peers of the upstreams
are followed through the concatenation of the groups by where each entry comes
from (`Spread`, `FlattenSpreads`). `Roomy` has no hypotheses: the nodes of the
types are disjoint (`OfDisjoint`), and a group has no more entries than
`display_get_upstream_nelts` counts (`GroupsCounted`). `Once` takes `KeysParted`
and `PeersParted`: a key has the separators of its type's parts and no other, so
that it can be read back from its parts (`OnePartSame`, `TwoPartsSame`); no
upstream has a peer twice or is called `::nogroups`. The code does not ensure
that: a filter whose value holds the byte 0x1f has its name cut there, and an
address given twice in an upstream is shown twice. `MCVtsRequest` asserts both of its
keys and upstreams.

`HostInit_proofs`: `TypeCorrect`, `LockHeld`, `OriginalsSafe`, `LinesAddedOnce`,
`Reruns`, `SshdUp`, `LockOwned`. While runs take turns (`TurnsInv`) the originals
are in place or in the copy but for the two cases (`FilesInv`; for the repository
file `RepoKept`, with what has been fetched), and a run at a command knows what its
last test or command has left (`Midway`), what it has already achieved
(`Achieved`) and, if no run was interrupted, that nobody has left a copy or the
chrony lines half done (`Settled`). A run that is about to move the repository
file has fetched something else (`Midway`), so what it moves is the original or an
earlier, different download. So each command keeps what is promised, adds a line
once and ends with everything configured, however the runs before it ended. If
nobody was interrupted and the host is a supported one, also a lock has an owner
(`OwnerInv`). `SshdUp` needs no turns: whoever has taken sshd_config away or sshd
down is about to bring it back (`SshdReturns`), unless it is interrupted.

`Recursion` is what these proofs share: the prover cannot instantiate the
library's induction theorems, whose parameter is an operator, so a property is
given as the set of the numbers that have it (`InductionNat`,
`InductionMeasure`, `InductionUpTo`) and the body of a recursive definition as a
function on functions, of which `FixedPoint` makes the function that it defines.
`SumAdd` and `SumRemove` say of the sums of the community modules that the order
in which they take their members does not matter.

Only model-checked:

* `StopEnds` and `CriticalSectionEnds`: liveness, out of the prover's reach;
* `StatusAgrees`: it compares three readers of the nodes. It needs that names
  can be told at all and that the shown peers are those that are looked up: no
  bracket in a name, none called `*` or nothing, peers in the zone of an upstream
  that are the addresses of its servers, no address of one upstream second in
  another. The instance keeps to this; of the readers themselves only
  `control_zone` is proved (`ZoneRead`), and the page that they are compared with
  (`Once`).

## Not modelled

* The text of the entries of the pages, headers of responses and the HTML page:
  `module_html.h` is `share/status.template.html`, written out byte by byte by
  `util/tplToDefine.sh`. Its script is a reader of the JSON page and keeps only
  what it shows; it adds `maxIntegerSize` for each overflow where the counter
  lost `maxIntegerSize + 1` (`share/status.template.html:632`).
* The directives that store one value (zone size, dump file and period, average
  method and period, bounds of the histogram, plain flags) and their merging.
* `filter_max_node_match` other than as the set `Limited`: it compares prefixes.
* That set_by_filter reads nodes without the mutex (`set.c:334`): outcomes of the
  race are those of a freed page read as a node; the hazard is listed.
* The byte and status-class counters other than 5xx and the cache sizes: they are
  advanced in the same critical section as the counters that are modelled.
* nginx itself (slab, tree, timers, master), other than as the modules use it.
* Paths of modelled functions that no property asks about: a dump file that
  cannot be opened (`dump.c:198`; the model takes it to be writable, though the
  disk may be full), directives that end the configuration with an error (an empty
  key, `filter.c:319`; an unknown group, `set.c:279`), the zone `::main`, which is
  no node (`control.c:255`), an upstream with neither servers nor port
  (`control.c:92`), the `enable` and method tests of the page (`display.c:293`),
  its format in capitals or as the beginning of a segment (`display.c:317`), and
  the entry `*` of the server zones, whose sums are in `VtsNode`.
* Pages of several sizes: with one size, an eviction leaves room for the node it
  was made for, so `AllocFails` never follows it (`shm.c:130`).
* In `init.sh`, what the section on `HostInit` leaves out.
* The installers, one straight script each around a package manager, the older
  initialisation scripts, which repeat `init.sh`, configuration files, notes.
* The copy of the module under `components/nginx/old`: it is the same text.

Of the repository's program lines somewhat more than a fifth are mapped. A third
are the two copies of `module_html.h`, a data array; another third is the second
copy of the module; what is left are headers, declarations, printing and the
scripts above.

## Plan

The modules of the plan are written: `VtsStats`, `VtsShm`, `VtsDump`, `VtsNode`,
`HostInit`, `VtsName`, `VtsConf`, `VtsRequest`, `VtsDisplay`, with proofs of
all that is not in the list above. What would come next, in order:

1. `StatusAgrees`, of which `Once` has the pages;
2. the unlocked reads of set_by_filter as steps of `VtsShm`, once it is decided
   what of a freed page is worth promising;
3. the byte counters and cache sizes, if they ever leave the critical section
   of the request counter.

