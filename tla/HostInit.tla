------------------------------ MODULE HostInit ------------------------------
(***************************************************************************)
(* init.sh on one host: several invocations, one after the other or at the *)
(* same time, any of which may be interrupted by Ctrl+C.  main and out are *)
(* guarded by a lock file; ssh_FP and update_ops are not.                  *)
(*                                                                         *)
(* A file is abstracted to the version it holds; a step is one command     *)
(* that changes it, or one test that another run can invalidate.           *)
(***************************************************************************)
EXTENDS Naturals, FiniteSets

CONSTANTS
  Runs,             (* invocations of init.sh, all of one day               *)
  Pages,            (* contents a download of the repository file may have: *)
                    (* the mirror's file, a later one, an error page        *)
  MaxAtOnce,        (* bound: invocations at the same time                  *)
  MaxInterrupts     (* bound: Ctrl+C                                        *)

ASSUME HostAssumption ==
  MaxAtOnce \in Nat /\ MaxInterrupts \in Nat /\ "none" \notin Pages

VARIABLES
  pc,               (* pc[r]: next command of run r                         *)
  cmd,              (* its argument                                         *)
  cwd,              (* its working directory                                *)
  host,             (* the files of the host                                *)
  raced,            (* history: two runs were at work at the same time      *)
  interrupts

vars == <<pc, cmd, cwd, host, raced, interrupts>>

Hosts ==
  [supported : BOOLEAN,                (* passes check_sys                  *)
   lock : BOOLEAN,                     (* LOCK_DIR/LOCK_FILE exists         *)
   ping : BOOLEAN,                     (* /etc/selinux/_test_ping exists    *)
   ops : {"none", "partial", "complete"},     (* /opt/dendyops              *)
   profile : BOOLEAN,                  (* dendyops_alias.sh exists          *)
   sshd : {"none", "original", "safe"},       (* sshd_config                *)
   sshd_bak : SUBSET {"original", "safe"},    (* its copies, by the second  *)
   daemon : {"none", "original", "safe"},     (* what the running sshd read *)
   limits : Nat,                       (* nofile lines of limits.conf       *)
   sysctl : {"none", "original", "ours"},     (* sysctl.conf                *)
   sysctl_bak : {"none", "original", "ours"}, (* its copy, by the day       *)
   crontab : Nat,                      (* our lines of /etc/crontab         *)
   chrony : Nat,                       (* our lines of /etc/chrony.conf     *)
   tmp : {"none"} \cup Pages,          (* the downloaded repository file    *)
   repo : {"none", "original"} \cup Pages,      (* CentOS-Base.repo         *)
   repo_bak : {"none", "original"} \cup Pages,  (* its copy, by the day     *)
   fetched : SUBSET Pages]             (* history: contents curl has fetched*)

(* A fresh CentOS 7 whose administrator has a sysctl.conf of his own.      *)
Fresh(supported) ==
  [supported |-> supported, lock |-> FALSE, ping |-> FALSE, ops |-> "none", profile |-> FALSE,
   sshd |-> "original", sshd_bak |-> {}, daemon |-> "original",
   limits |-> 0, sysctl |-> "original", sysctl_bak |-> "none", crontab |-> 0, chrony |-> 0,
   tmp |-> "none", repo |-> "original", repo_bak |-> "none", fetched |-> {}]

Init ==
  /\ pc = [r \in Runs |-> "idle"]
  /\ cmd = [r \in Runs |-> "main"]
  /\ cwd = [r \in Runs |-> "repository"]
  /\ host \in {Fresh(b) : b \in BOOLEAN}
  /\ raced = FALSE /\ interrupts = 0

Stopped == {"idle", "end", "failed"}

PCs ==
  Stopped \cup
  {"check_lock", "shell_lock", "test_ping", "check_sys", "install_ops",
   "cp_ops", "cp_ops_end", "cp_profile", "rm_ops", "update_cp",
   "update_cp_end", "rm_profile", "update_profile", "again_ops", "again_cp", "again_cp_end",
   "again_profile", "Safesshd", "mv_sshd", "cp_sshd", "restart_sshd",
   "Openfile", "sed_limits", "mv_sysctl", "cp_sysctl", "grep_crontab",
   "echo_crontab", "scan_restart", "grep_chrony", "echo_chrony1",
   "echo_chrony2", "echo_chrony3", "echo_chrony4", "curl", "cmp_repo",
   "mv_repo", "mv_tmp", "shell_unlock"}

Running(r) == pc[r] \notin Stopped
Working(r) == Running(r) /\ pc[r] # "check_lock"

(* Between shell_lock and shell_unlock. *)
Inside(r) ==
  Working(r) /\ cmd[r] \in {"main", "out"} /\ pc[r] # "shell_lock"

(* Run r executes the command from, turns the host into h and goes to to.  *)
Do(r, from, to, h) ==
  /\ pc[r] = from
  /\ pc' = [pc EXCEPT ![r] = to]
  /\ host' = h
  /\ UNCHANGED interrupts
-----------------------------------------------------------------------------
(* Lock, network and system *)

Start(r) ==
  /\ Cardinality({s \in Runs : Running(s)}) < MaxAtOnce
  /\ \E c \in {"main", "out", "ssh_FP", "update_ops"} :
       /\ cmd' = [cmd EXCEPT ![r] = c]
       /\ Do(r, "idle", CASE c \in {"main", "out"} -> "check_lock"
                          [] c = "ssh_FP" -> "grep_crontab"
                          [] c = "update_ops" -> "rm_ops", host)
  /\ \E d \in {"repository", "elsewhere"} : cwd' = [cwd EXCEPT ![r] = d]

(* Mutant: a refused run removes the lock on its way out. *)
check_lock_Unlocks(r) ==
  Do(r, "check_lock", IF host.lock THEN "failed" ELSE "shell_lock",
     [host EXCEPT !.lock = FALSE])

check_lock(r) ==
  Do(r, "check_lock", IF host.lock THEN "failed" ELSE "shell_lock", host)

shell_lock(r) ==
  Do(r, "shell_lock", "test_ping", [host EXCEPT !.lock = TRUE])

(* Mutant: without network the script exits and leaves the lock. *)
test_ping_KeepsLock(r) ==
  \/ Do(r, "test_ping", "check_sys", [host EXCEPT !.ping = TRUE])
  \/ ~host.ping /\ Do(r, "test_ping", "failed", host)

test_ping(r) ==
  \/ Do(r, "test_ping", "check_sys", [host EXCEPT !.ping = TRUE])
  \/ ~host.ping /\ Do(r, "test_ping", "failed", [host EXCEPT !.lock = FALSE])

check_sys(r) ==
  Do(r, "check_sys", IF host.supported THEN "install_ops" ELSE "failed", host)

shell_unlock(r) ==
  Do(r, "shell_unlock", "end", [host EXCEPT !.lock = FALSE])
-----------------------------------------------------------------------------
(* The tools under /opt *)

Copying(r, from, next, end) ==
  \/ Do(r, from, IF cwd[r] = "repository" \/ from = "cp_ops" THEN next ELSE end,
        IF cwd[r] = "repository" \/ from = "cp_ops"
          THEN [host EXCEPT !.ops = "partial"] ELSE host)
  \/ Do(r, next, end, [host EXCEPT !.ops = "complete"])

(* $DIR is the directory of init.sh, wherever it is called from. *)
install_ops(r) ==
  \/ Do(r, "install_ops", IF host.ops = "none" THEN "cp_ops" ELSE "cp_profile",
        host)
  \/ Copying(r, "cp_ops", "cp_ops_end", "cp_profile")
  \/ Do(r, "cp_profile", "Safesshd", [host EXCEPT !.profile = TRUE])

(* The copies are of relative paths. *)
update_ops(r) ==
  \/ Do(r, "rm_ops", IF host.ops = "none" THEN "rm_profile" ELSE "update_cp",
        [host EXCEPT !.ops = "none"])
  \/ Copying(r, "update_cp", "update_cp_end", "rm_profile")
  \/ Do(r, "rm_profile", IF host.profile THEN "update_profile" ELSE "again_ops",
        [host EXCEPT !.profile = FALSE])
  \/ Do(r, "update_profile", "again_ops",
        [host EXCEPT !.profile = @ \/ cwd[r] = "repository"])
  \/ Do(r, "again_ops", IF host.ops = "none" THEN "again_cp" ELSE "again_profile",
        host)
  \/ Copying(r, "again_cp", "again_cp_end", "again_profile")
  \/ Do(r, "again_profile", "end",
        [host EXCEPT !.profile = @ \/ cwd[r] = "repository"])
-----------------------------------------------------------------------------
(* Configuration files *)

(* ssh_config, that of the client, is moved and copied beside sshd_config; *)
(* nothing depends on it and it is left out.                               *)

(* Mutant: a copy is made of a file that is not there. *)
mv_sshd_Always(h) ==
  [h EXCEPT !.sshd = "none", !.sshd_bak = @ \cup {h.sshd}]

mv_sshd(h) ==
  [h EXCEPT !.sshd = "none", !.sshd_bak = @ \cup ({h.sshd} \ {"none"})]

(* Mutant: the new configuration is copied from a relative path. *)
cp_sshd_Relative(h, dir) ==
  [h EXCEPT !.sshd = IF dir = "repository" THEN "safe" ELSE @]

cp_sshd(h, dir) == [h EXCEPT !.sshd = "safe"]

(* grep "52112", mv, cp, restart. *)
Safesshd(r) ==
  \/ Do(r, "Safesshd", IF host.sshd = "safe" THEN "Openfile" ELSE "mv_sshd",
        host)
  \/ Do(r, "mv_sshd", "cp_sshd", mv_sshd(host))
  \/ Do(r, "cp_sshd", "restart_sshd", cp_sshd(host, cwd[r]))
  \/ Do(r, "restart_sshd", "Openfile", [host EXCEPT !.daemon = host.sshd])

(* Mutant: the line is inserted without looking for it. *)
Openfile_Always(r) ==
  \/ Do(r, "Openfile", "sed_limits", host)
  \/ Do(r, "sed_limits", "mv_sysctl", [host EXCEPT !.limits = @ + 1])

Openfile(r) ==
  \/ Do(r, "Openfile", IF host.limits < 1 THEN "sed_limits" ELSE "mv_sysctl",
        host)
  \/ Do(r, "sed_limits", "mv_sysctl", [host EXCEPT !.limits = @ + 1])

(* Nothing is compared: the next run of the day overwrites the copy.       *)
mv_sysctl(h) ==
  IF h.sysctl = "none" THEN h
                       ELSE [h EXCEPT !.sysctl = "none", !.sysctl_bak = h.sysctl]

(* The new file is copied from a relative path. *)
sysctl(r) ==
  \/ Do(r, "mv_sysctl", "cp_sysctl", mv_sysctl(host))
  \/ Do(r, "cp_sysctl", "grep_crontab",
        [host EXCEPT !.sysctl = IF cwd[r] = "repository" THEN "ours" ELSE @])

add_scan_sshd(r) ==
  \/ Do(r, "grep_crontab",
        IF host.crontab > 0 THEN "scan_restart" ELSE "echo_crontab", host)
  \/ Do(r, "echo_crontab", "scan_restart", [host EXCEPT !.crontab = @ + 1])
  \/ Do(r, "scan_restart", IF cmd[r] = "ssh_FP" THEN "end" ELSE "grep_chrony",
        [host EXCEPT !.daemon = host.sshd])

(* Mutant: the branches are exchanged. *)
AfterChrony_Swapped(r) == IF cmd[r] = "out" THEN "curl" ELSE "shell_unlock"

AfterChrony(r) == IF cmd[r] = "out" THEN "shell_unlock" ELSE "curl"

(* Four lines, if the first is not there. *)
time_ntp(r) ==
  \/ Do(r, "grep_chrony",
        IF host.chrony < 1 THEN "echo_chrony1" ELSE AfterChrony(r), host)
  \/ \E n \in 1..4 :
       Do(r, <<"echo_chrony1", "echo_chrony2", "echo_chrony3", "echo_chrony4",
               AfterChrony(r)>>[n],
          <<"echo_chrony1", "echo_chrony2", "echo_chrony3", "echo_chrony4",
            AfterChrony(r)>>[n + 1],
          [host EXCEPT !.chrony = @ + 1])

(* Mutant: the files are not compared. *)
same_repo_Never(h) == FALSE

(* A file is installed, and md5sum_check finds in it what was downloaded.  *)
same_repo(h) == h.repo # "none" /\ h.repo = h.tmp

(* curl -o without -f: what the server answers is the file, whatever it is.*)
fetch(h, page) == [h EXCEPT !.tmp = page, !.fetched = @ \cup {page}]

(* Download, compare, mv the old file to the name of the day, mv the new.  *)
(* A curl that fails may leave the old file or any part of a new one.      *)
config_yum(r) ==
  \/ \E page \in Pages : Do(r, "curl", "cmp_repo", fetch(host, page))
  \/ \E part \in {host.tmp} \cup Pages :
       Do(r, "curl", "failed", [host EXCEPT !.lock = FALSE, !.tmp = part])
  \/ Do(r, "cmp_repo", IF same_repo(host) THEN "shell_unlock" ELSE "mv_repo", host)
  \/ Do(r, "mv_repo", "mv_tmp",
        IF host.repo = "none" THEN host
        ELSE [host EXCEPT !.repo = "none", !.repo_bak = host.repo])
  \/ Do(r, "mv_tmp", "shell_unlock",
        IF host.tmp = "none" THEN host
        ELSE [host EXCEPT !.repo = host.tmp, !.tmp = "none"])
-----------------------------------------------------------------------------
Steps(r) ==
  \/ check_lock(r) \/ shell_lock(r) \/ test_ping(r) \/ check_sys(r)
  \/ install_ops(r) \/ update_ops(r) \/ Safesshd(r) \/ Openfile(r)
  \/ sysctl(r) \/ add_scan_sshd(r) \/ time_ntp(r) \/ config_yum(r)
  \/ shell_unlock(r)

(* Ctrl+C. *)
Interrupt(r) ==
  /\ Running(r) /\ interrupts < MaxInterrupts
  /\ pc' = [pc EXCEPT ![r] = "failed"]
  /\ interrupts' = interrupts + 1
  /\ UNCHANGED host

Next ==
  /\ \E r \in Runs :
       \/ Start(r)
       \/ (Steps(r) \/ Interrupt(r)) /\ UNCHANGED <<cmd, cwd>>
  /\ raced' = (raced \/ \E r, s \in Runs : r # s /\ Working(r)' /\ Working(s)')

Spec == Init /\ [][Next]_vars
-----------------------------------------------------------------------------
(* Properties *)

(* The host, and where every run is in which command. *)
TypeOK ==
  /\ pc \in [Runs -> PCs]
  /\ cmd \in [Runs -> {"main", "out", "ssh_FP", "update_ops"}]
  /\ cwd \in [Runs -> {"repository", "elsewhere"}]
  /\ host \in Hosts
  /\ raced \in BOOLEAN /\ interrupts \in Nat

(* Whatever fails on the way, the lock file is there exactly while a run   *)
(* is between shell_lock and shell_unlock, if the runs did not overlap,    *)
(* none was interrupted and the host is a supported one.                   *)
LockIffInside ==
  ~raced /\ interrupts = 0 /\ host.supported => (host.lock <=> \E r \in Runs : Inside(r))

(* Even after interruptions a refused run never opens the lock of another. *)
LockHeldInside ==
  ~raced => \A r \in Runs : Inside(r) => host.lock

(* Of what interrupted and repeated runs, one after the other, leave of    *)
(* the administrator's files, in place or in a copy: sshd_config always;   *)
(* the repository file until a run that has fetched something else moves   *)
(* what an earlier run has fetched over the copy of the day (config_yum    *)
(* only compares what is installed with what it has just fetched);         *)
(* sysctl.conf until a run moves the script's own over the copy.           *)
OriginalsKept ==
  ~raced =>
    /\ "original" \in {host.sshd} \cup host.sshd_bak
    /\ \/ "original" \in {host.repo, host.repo_bak}
       \/ /\ host.repo_bak \in host.fetched
          /\ \E p, q \in host.fetched : p # q
    /\ "original" \in {host.sysctl, host.sysctl_bak} \/ host.sysctl_bak = "ours"

(* Repeated runs add each line once.                                       *)
LinesOnce ==
  ~raced => host.limits <= 1 /\ host.crontab <= 1 /\ host.chrony <= 4

(* A run that reaches its end has configured the host, also when it takes  *)
(* over what an interrupted one has left; only what is copied file by file *)
(* or line by line is not repaired.  The repository file is then one that  *)
(* curl has fetched, which need not be the mirror's.                       *)
RerunConfigures ==
  [][\A r \in Runs :
       (pc[r] = "shell_unlock" /\ pc'[r] = "end" /\ ~raced) =>
         /\ host.sshd = "safe" /\ host.daemon = "safe"
         /\ host.limits = 1 /\ host.crontab = 1 /\ host.profile
         /\ cwd[r] = "repository" => host.sysctl = "ours"
         /\ cmd[r] = "main" => host.repo \in host.fetched
         /\ interrupts = 0 => host.ops = "complete" /\ host.chrony = 4]_vars

(* However runs overlap, while sshd_config is moved away and restarts of   *)
(* sshd by others fail, sshd is up again when all are done.                *)
SshdComesBack ==
  (\A r \in Runs : ~Running(r)) /\ interrupts = 0 => host.daemon # "none"

(* The lock keeps a second run out.                                        *)
AtMostOneInside ==
  \A r, s \in Runs : Inside(r) /\ Inside(s) => r = s
-----------------------------------------------------------------------------
(* The inductive invariant behind the properties of runs one by one *)

(* The commands of main and out that follow a step of theirs. *)
AfterChronyConf == {"curl", "cmp_repo", "mv_repo", "mv_tmp", "shell_unlock"}
AfterScan == {"grep_chrony", "echo_chrony1", "echo_chrony2", "echo_chrony3",
              "echo_chrony4"} \cup AfterChronyConf
AfterCrontab == {"scan_restart"} \cup AfterScan
AfterSysctl == {"grep_crontab", "echo_crontab"} \cup AfterCrontab
AfterLimits == {"mv_sysctl", "cp_sysctl"} \cup AfterSysctl
AfterSafesshd == {"Openfile", "sed_limits"} \cup AfterLimits
AfterTools == {"Safesshd", "mv_sshd", "cp_sshd", "restart_sshd"}
                \cup AfterSafesshd

(* Which command line a run that is at command p has. *)
OfCommand(p, c) ==
  /\ p \in {"check_lock", "shell_lock", "test_ping", "check_sys", "install_ops",
            "cp_ops", "cp_ops_end", "cp_profile"} \cup (AfterTools \ AfterSysctl)
          \cup AfterScan => c \in {"main", "out"}
  /\ p \in AfterSysctl => c # "update_ops"

(* What a run that is at command p, and works alone, knows of the host.    *)
Midway(p, h) ==
  /\ p = "cp_sshd" => h.sshd = "none"
  /\ p = "sed_limits" => h.limits = 0
  /\ p = "echo_crontab" => h.crontab = 0
  /\ p = "echo_chrony1" => h.chrony = 0
  /\ p = "echo_chrony2" => h.chrony = 1
  /\ p = "echo_chrony3" => h.chrony = 2
  /\ p = "echo_chrony4" => h.chrony = 3
  /\ p = "cp_sysctl" => h.sysctl = "none" /\ h.sysctl_bak # "none"
  /\ p \in {"cmp_repo", "mv_repo", "mv_tmp"} => h.tmp \in h.fetched
  /\ p = "mv_repo" => h.repo # h.tmp
  /\ p = "mv_tmp" => h.repo = "none"

(* What it has achieved so far. *)
Achieved(r, p, h) ==
  cmd[r] \in {"main", "out"} =>
    /\ p \in AfterTools => h.profile
    /\ p \in {"restart_sshd"} \cup AfterSafesshd => h.sshd = "safe"
    /\ p \in AfterLimits => h.limits = 1
    /\ p \in AfterSysctl /\ cwd[r] = "repository" => h.sysctl = "ours"
    /\ p \in AfterCrontab => h.crontab = 1
    /\ p \in AfterScan => h.daemon = "safe"
    /\ p = "shell_unlock" /\ cmd[r] = "main" => h.repo \in h.fetched
    /\ interrupts = 0 =>
         /\ p \in {"cp_profile"} \cup AfterTools => h.ops = "complete"
         /\ p \in AfterChronyConf => h.chrony = 4

(* Without interruptions, only a run that is at it leaves a copy or the    *)
(* lines of chrony.conf unfinished.                                        *)
Settled(p, h) ==
  interrupts = 0 =>
    /\ h.ops = "partial" => p \in {"cp_ops_end", "update_cp_end", "again_cp_end"}
    /\ h.chrony \in 1 .. 3 => p \in {"echo_chrony2", "echo_chrony3", "echo_chrony4"}

Knows(r, p, h) == Midway(p, h) /\ Achieved(r, p, h) /\ Settled(p, h)

(* The repository file is the original or was fetched, and the original is *)
(* kept as long as all that was fetched is the same.                       *)
RepoKept(repo, bak, fetched) ==
  /\ repo \in {"none", "original"} \cup fetched
  /\ \/ "original" \in {repo, bak}
     \/ bak \in fetched /\ \E p, q \in fetched : p # q

(* The files as any number of runs, one by one, leave them.                *)
FilesInv(h) ==
  /\ "original" \in {h.sshd} \cup h.sshd_bak
  /\ RepoKept(h.repo, h.repo_bak, h.fetched)
  /\ "original" \in {h.sysctl, h.sysctl_bak} \/ h.sysctl_bak = "ours"
  /\ h.limits <= 1 /\ h.crontab <= 1 /\ h.chrony <= 4

(* Runs that have not raced take turns. *)
TurnsInv ==
  ~raced =>
    /\ FilesInv(host)
    /\ \A r, s \in Runs : Working(r) /\ Working(s) => r = s
    /\ (\A r \in Runs : ~Working(r)) => Settled("idle", host)
    /\ \A r \in Runs :
         /\ Working(r) => Knows(r, pc[r], host)
         /\ Inside(r) => host.lock

IInv == TypeOK /\ (\A r \in Runs : OfCommand(pc[r], cmd[r])) /\ TurnsInv
=============================================================================
