---------------------------- MODULE HostInit_proofs ----------------------------
(***************************************************************************)
(* For any number of invocations of init.sh and of interruptions: as long  *)
(* as no two are at work at the same time, the lock file is there while    *)
(* one is inside, an original file is lost only as OriginalsKept says and  *)
(* no line is added twice; and however they overlap, sshd is up again when *)
(* all are done.                                                           *)
(***************************************************************************)
EXTENDS HostInit, TLAPS

(* The history of overlaps after a step. *)
RacedNext == raced' = (raced \/ \E r, s \in Runs : r # s /\ Working(r)' /\ Working(s)')

(* A host that was never initialised, nobody inside. *)
LEMMA InitInv == Init => IInv
<1> SUFFICES ASSUME Init PROVE IInv
  OBVIOUS
<1>1. PICK b \in BOOLEAN : host = Fresh(b)
  BY DEF Init
<1>2. host \in Hosts
  BY <1>1 DEF Fresh, Hosts
<1>3. FilesInv(host)
  BY <1>1 DEF FilesInv, RepoKept, Fresh
<1>4. \A r \in Runs : ~Working(r) /\ ~Inside(r)
  BY DEF Init, Working, Running, Stopped, Inside
<1>7. \A r \in Runs : OfCommand(pc[r], cmd[r])
  BY DEF Init, OfCommand, AfterTools, AfterSafesshd, AfterLimits, AfterSysctl,
         AfterCrontab, AfterScan, AfterChronyConf
<1>8. Settled("idle", host)
  BY <1>1 DEF Settled, Fresh
<1>5. TypeOK
  <2>1. /\ pc = [r \in Runs |-> "idle"] /\ cmd = [r \in Runs |-> "main"]
        /\ cwd = [r \in Runs |-> "repository"]
        /\ raced = FALSE /\ interrupts = 0
    BY DEF Init
  <2>2. pc \in [Runs -> PCs]
    BY <2>1 DEF PCs, Stopped
  <2>6. cmd \in [Runs -> {"main", "out", "ssh_FP", "update_ops"}]
    BY <2>1
  <2>3. cwd \in [Runs -> {"repository", "elsewhere"}]
    BY <2>1
  <2>4. raced \in BOOLEAN
    BY <2>1, Zenon
  <2>5. interrupts \in Nat
    BY <2>1
  <2> QED
    BY <1>2, <2>2, <2>3, <2>4, <2>5, <2>6 DEF TypeOK
<1>6. TurnsInv
  BY <1>3, <1>4, <1>8 DEF TurnsInv
<1> QED
  BY <1>5, <1>6, <1>7 DEF IInv

(* What every step of the script has in common. *)
StepOf(r) ==
  /\ IInv /\ RacedNext /\ UNCHANGED <<cmd, cwd>> /\ r \in Runs

(* A command that a run which works alone can execute. *)
Sound(r, from, to, h) ==
  /\ h \in Hosts
  /\ from \notin Stopped /\ to # "check_lock"
  /\ from = "check_lock" => h = host
  /\ OfCommand(from, cmd[r]) => OfCommand(to, cmd[r])
  /\ OfCommand(from, cmd[r]) /\ FilesInv(host) /\ Knows(r, from, host)
       => FilesInv(h) /\ Knows(r, to, h)
  /\ \/ to \in {"shell_lock", "end", "failed"}
     \/ cmd[r] \notin {"main", "out"}
     \/ h.lock
     \/ h.lock = host.lock /\ from \notin {"check_lock", "shell_lock"}

(* A command of a running script that is sound for it keeps the invariant. *)
LEMMA CommandInv ==
  ASSUME NEW r, StepOf(r), NEW from, NEW to \in PCs, NEW h,
         Do(r, from, to, h), Sound(r, from, to, h)
  PROVE  IInv'
<1>1. /\ pc[r] = from /\ pc' = [pc EXCEPT ![r] = to] /\ host' = h
      /\ interrupts' = interrupts /\ cmd' = cmd /\ cwd' = cwd
      /\ r \in Runs
  BY DEF Do, StepOf
<1>2. pc'[r] = to /\ \A s \in Runs \ {r} : pc'[s] = pc[s]
  BY <1>1 DEF StepOf, IInv, TypeOK
<1>3. TypeOK'
  BY <1>1 DEF StepOf, Sound, IInv, TypeOK, RacedNext
<1>4. ASSUME NEW s \in Runs
      PROVE  OfCommand(pc[s], cmd[s])'
  <2>1. OfCommand(pc[s], cmd[s]) /\ (OfCommand(from, cmd[r]) => OfCommand(to, cmd[r]))
    BY DEF StepOf, IInv, Sound
  <2>2. OfCommand(pc'[s], cmd[s])
    BY <1>1, <1>2, <2>1, Zenon
  <2> QED
    BY <1>1, <2>2 DEF OfCommand
<1>5. ASSUME NEW s \in Runs \ {r}
      PROVE  /\ Working(s)' <=> Working(s)
             /\ Inside(s)' <=> Inside(s)
  <2>1. Working(s)' <=> Working(s)
    BY <1>2 DEF Working, Running
  <2> QED
    BY <1>1, <1>2, <2>1 DEF Inside
<1>6. ASSUME NEW s \in Runs, NEW p, NEW k
      PROVE  (Achieved(s, p, k)' <=> Achieved(s, p, k)) /\ (Settled(p, k)' <=> Settled(p, k))
  BY <1>1 DEF Achieved, Settled
<1>7. from # "check_lock" => Working(r)
  BY <1>1 DEF Working, Running, Sound
<1>8. from \notin Stopped /\ to # "check_lock" /\ (from = "check_lock" => h = host)
  BY DEF Sound
<1>9. ASSUME ~raced'
      PROVE  /\ FilesInv(h)
             /\ \A s, t \in Runs : Working(s)' /\ Working(t)' => s = t
             /\ (\A s \in Runs : ~Working(s)') => Settled("idle", h)
             /\ \A s \in Runs : /\ Working(s)' => Knows(s, pc'[s], h)
                                /\ Inside(s)' => h.lock
  <2>1. ~raced /\ \A s, t \in Runs : Working(s)' /\ Working(t)' => s = t
    BY <1>9 DEF StepOf, RacedNext
  <2>2. /\ FilesInv(host)
        /\ \A s, t \in Runs : Working(s) /\ Working(t) => s = t
        /\ (\A s \in Runs : ~Working(s)) => Settled("idle", host)
        /\ \A s \in Runs : /\ Working(s) => Knows(s, pc[s], host)
                           /\ Inside(s) => host.lock
    BY <2>1 DEF StepOf, IInv, TurnsInv
  <2>3. \A s \in Runs : Inside(s) => Working(s)
    BY DEF Inside
  <2>4. CASE \E s \in Runs \ {r} : Working(s)
    <3>1. PICK s \in Runs \ {r} : Working(s)
      BY <2>4
    <3>2. from = "check_lock" /\ h = host
      BY <1>1, <1>7, <1>8, <2>2, <3>1
    <3>3. Working(s)' /\ ~Working(r)'
      BY <1>1, <1>5, <2>1, <3>1
    <3>4. ~Inside(r)'
      BY <3>3 DEF Inside
    <3> QED
      BY <1>1, <1>2, <1>5, <2>1, <2>2, <3>2, <3>3, <3>4
  <2>5. CASE \A s \in Runs \ {r} : ~Working(s)
    <3>1. OfCommand(from, cmd[r])
      BY <1>1 DEF StepOf, IInv
    <3>2. Knows(r, from, host)
      <4>1. CASE from = "check_lock"
        <5>1. ~Working(r)
          BY <1>1, <4>1 DEF Working
        <5>2. Settled("idle", host)
          BY <2>2, <2>5, <5>1
        <5> QED
          BY <4>1, <5>2
          DEF Knows, Midway, Achieved, Settled, AfterTools, AfterSafesshd, AfterLimits,
              AfterSysctl, AfterCrontab, AfterScan, AfterChronyConf
      <4> QED
        BY <1>1, <1>7, <2>2, <4>1
    <3>3. FilesInv(h) /\ Knows(r, to, h)
      BY <2>2, <3>1, <3>2 DEF Sound
    <3>4. ~Working(r)' => Settled("idle", h)
      BY <1>1, <1>2, <1>8, <3>3 DEF Knows, Settled, Working, Running, Stopped
    <3>5. ASSUME Inside(r)' PROVE h.lock
      <4>1. cmd[r] \in {"main", "out"} /\ to \notin {"shell_lock", "end", "failed"}
        BY <1>1, <1>2, <3>5 DEF Inside, Working, Running, Stopped
      <4>2. CASE h.lock = host.lock /\ from \notin {"check_lock", "shell_lock"}
        BY <1>1, <1>7, <2>2, <4>1, <4>2 DEF Inside
      <4> QED
        BY <4>1, <4>2 DEF Sound
    <3> QED
      BY <1>1, <1>2, <1>5, <2>1, <2>3, <2>5, <3>3, <3>4, <3>5
  <2> QED
    BY <2>4, <2>5
<1>10. ASSUME ~raced'
       PROVE  /\ FilesInv(host)'
              /\ ((\A s \in Runs : ~Working(s)) => Settled("idle", host))'
              /\ \A s \in Runs : (Working(s)' => Knows(s, pc[s], host)')
  <2>1. ASSUME NEW s \in Runs, Knows(s, pc'[s], h)
        PROVE  Knows(s, pc[s], host)'
    BY <1>1, <1>6, <2>1 DEF Knows, Midway
  <2> QED
    BY <1>1, <1>6, <1>9, <1>10, <2>1 DEF FilesInv, Settled
<1> QED
  BY <1>1, <1>3, <1>4, <1>9, <1>10 DEF IInv, TurnsInv
-----------------------------------------------------------------------------
(* The commands, one step of each script function *)

(* Taking and giving back the lock, and the refusals.                      *)
LEMMA LockInv ==
  ASSUME NEW r, StepOf(r), check_lock(r) \/ shell_lock(r) \/ test_ping(r)
                        \/ check_sys(r) \/ shell_unlock(r)
  PROVE  IInv'
<1>1. host \in Hosts /\ cmd[r] \in {"main", "out", "ssh_FP", "update_ops"}
  BY DEF StepOf, IInv, TypeOK
<1>2. CASE Do(r, "check_lock", "failed", host)
  <2>1. Sound(r, "check_lock", "failed", host)
    BY <1>1
    DEF Sound, Knows, Midway, Achieved, Settled, OfCommand, AfterTools,
        AfterSafesshd, AfterLimits, AfterSysctl, AfterCrontab, AfterScan,
        AfterChronyConf, FilesInv, Hosts, Stopped
  <2> QED
    BY <1>2, <2>1, CommandInv DEF PCs, Stopped
<1>3. CASE Do(r, "check_lock", "shell_lock", host)
  <2>1. Sound(r, "check_lock", "shell_lock", host)
    BY <1>1
    DEF Sound, Knows, Midway, Achieved, Settled, OfCommand, AfterTools,
        AfterSafesshd, AfterLimits, AfterSysctl, AfterCrontab, AfterScan,
        AfterChronyConf, FilesInv, Hosts, Stopped
  <2> QED
    BY <1>3, <2>1, CommandInv DEF PCs, Stopped
<1>4. CASE Do(r, "shell_lock", "test_ping", [host EXCEPT !.lock = TRUE])
  <2>1. Sound(r, "shell_lock", "test_ping", [host EXCEPT !.lock = TRUE])
    <3>1. [host EXCEPT !.lock = TRUE] \in Hosts
      BY <1>1 DEF Hosts
    <3> QED
      BY <1>1, <3>1
      DEF Sound, Knows, Midway, Achieved, Settled, OfCommand, AfterTools,
          AfterSafesshd, AfterLimits, AfterSysctl, AfterCrontab, AfterScan,
          AfterChronyConf, FilesInv, Hosts, Stopped
  <2> QED
    BY <1>4, <2>1, CommandInv DEF PCs, Stopped
<1>5. CASE Do(r, "test_ping", "check_sys", [host EXCEPT !.ping = TRUE])
  <2>1. Sound(r, "test_ping", "check_sys", [host EXCEPT !.ping = TRUE])
    <3>1. [host EXCEPT !.ping = TRUE] \in Hosts
      BY <1>1 DEF Hosts
    <3> QED
      BY <1>1, <3>1
      DEF Sound, Knows, Midway, Achieved, Settled, OfCommand, AfterTools,
          AfterSafesshd, AfterLimits, AfterSysctl, AfterCrontab, AfterScan,
          AfterChronyConf, FilesInv, Hosts, Stopped
  <2> QED
    BY <1>5, <2>1, CommandInv DEF PCs, Stopped
<1>6. CASE Do(r, "test_ping", "failed", [host EXCEPT !.lock = FALSE])
  <2>1. Sound(r, "test_ping", "failed", [host EXCEPT !.lock = FALSE])
    <3>1. [host EXCEPT !.lock = FALSE] \in Hosts
      BY <1>1 DEF Hosts
    <3> QED
      BY <1>1, <3>1
      DEF Sound, Knows, Midway, Achieved, Settled, OfCommand, AfterTools,
          AfterSafesshd, AfterLimits, AfterSysctl, AfterCrontab, AfterScan,
          AfterChronyConf, FilesInv, Hosts, Stopped
  <2> QED
    BY <1>6, <2>1, CommandInv DEF PCs, Stopped
<1>7. CASE Do(r, "check_sys", "install_ops", host)
  <2>1. Sound(r, "check_sys", "install_ops", host)
    BY <1>1
    DEF Sound, Knows, Midway, Achieved, Settled, OfCommand, AfterTools,
        AfterSafesshd, AfterLimits, AfterSysctl, AfterCrontab, AfterScan,
        AfterChronyConf, FilesInv, Hosts, Stopped
  <2> QED
    BY <1>7, <2>1, CommandInv DEF PCs, Stopped
<1>8. CASE Do(r, "check_sys", "failed", host)
  <2>1. Sound(r, "check_sys", "failed", host)
    BY <1>1
    DEF Sound, Knows, Midway, Achieved, Settled, OfCommand, AfterTools,
        AfterSafesshd, AfterLimits, AfterSysctl, AfterCrontab, AfterScan,
        AfterChronyConf, FilesInv, Hosts, Stopped
  <2> QED
    BY <1>8, <2>1, CommandInv DEF PCs, Stopped
<1>9. CASE Do(r, "shell_unlock", "end", [host EXCEPT !.lock = FALSE])
  <2>1. Sound(r, "shell_unlock", "end", [host EXCEPT !.lock = FALSE])
    BY <1>1
    DEF Sound, Knows, Midway, Achieved, Settled, OfCommand, AfterTools,
        AfterSafesshd, AfterLimits, AfterSysctl, AfterCrontab, AfterScan,
        AfterChronyConf, FilesInv, Hosts, Stopped
  <2> QED
    BY <1>9, <2>1, CommandInv DEF PCs, Stopped
<1> QED
  BY <1>2, <1>3, <1>4, <1>5, <1>6, <1>7, <1>8, <1>9
  DEF check_lock, shell_lock, test_ping, check_sys, shell_unlock

(* The tools under /opt.                                                   *)
LEMMA ToolsInv ==
  ASSUME NEW r, StepOf(r), install_ops(r) \/ update_ops(r)
  PROVE  IInv'
<1>1. host \in Hosts /\ cmd[r] \in {"main", "out", "ssh_FP", "update_ops"}
  BY DEF StepOf, IInv, TypeOK
<1>2. CASE Do(r, "install_ops", "cp_ops", host)
  <2>1. Sound(r, "install_ops", "cp_ops", host)
    BY <1>1
    DEF Sound, Knows, Midway, Achieved, Settled, OfCommand, AfterTools,
        AfterSafesshd, AfterLimits, AfterSysctl, AfterCrontab, AfterScan,
        AfterChronyConf, FilesInv, Hosts, Stopped
  <2> QED
    BY <1>2, <2>1, CommandInv DEF PCs, Stopped
<1>3. CASE /\ host.ops # "none"
           /\ Do(r, "install_ops", "cp_profile", host)
  <2>1. Sound(r, "install_ops", "cp_profile", host)
    BY <1>1, <1>3
    DEF Sound, Knows, Midway, Achieved, Settled, OfCommand, AfterTools,
        AfterSafesshd, AfterLimits, AfterSysctl, AfterCrontab, AfterScan,
        AfterChronyConf, FilesInv, Hosts, Stopped
  <2> QED
    BY <1>3, <2>1, CommandInv DEF PCs, Stopped
<1>4. CASE Do(r, "cp_ops", "cp_ops_end", [host EXCEPT !.ops = "partial"])
  <2>1. Sound(r, "cp_ops", "cp_ops_end", [host EXCEPT !.ops = "partial"])
    BY <1>1
    DEF Sound, Knows, Midway, Achieved, Settled, OfCommand, AfterTools,
        AfterSafesshd, AfterLimits, AfterSysctl, AfterCrontab, AfterScan,
        AfterChronyConf, FilesInv, Hosts, Stopped
  <2> QED
    BY <1>4, <2>1, CommandInv DEF PCs, Stopped
<1>5. CASE Do(r, "cp_ops_end", "cp_profile", [host EXCEPT !.ops = "complete"])
  <2>1. Sound(r, "cp_ops_end", "cp_profile", [host EXCEPT !.ops = "complete"])
    BY <1>1
    DEF Sound, Knows, Midway, Achieved, Settled, OfCommand, AfterTools,
        AfterSafesshd, AfterLimits, AfterSysctl, AfterCrontab, AfterScan,
        AfterChronyConf, FilesInv, Hosts, Stopped
  <2> QED
    BY <1>5, <2>1, CommandInv DEF PCs, Stopped
<1>6. CASE Do(r, "cp_profile", "Safesshd", [host EXCEPT !.profile = TRUE])
  <2>1. Sound(r, "cp_profile", "Safesshd", [host EXCEPT !.profile = TRUE])
    <3>1. [host EXCEPT !.profile = TRUE] \in Hosts
      BY <1>1 DEF Hosts
    <3> QED
      BY <1>1, <3>1
      DEF Sound, Knows, Midway, Achieved, Settled, OfCommand, AfterTools,
          AfterSafesshd, AfterLimits, AfterSysctl, AfterCrontab, AfterScan,
          AfterChronyConf, FilesInv, Hosts, Stopped
  <2> QED
    BY <1>6, <2>1, CommandInv DEF PCs, Stopped
<1>7. CASE Do(r, "rm_ops", "rm_profile", [host EXCEPT !.ops = "none"])
  <2>1. Sound(r, "rm_ops", "rm_profile", [host EXCEPT !.ops = "none"])
    BY <1>1
    DEF Sound, Knows, Midway, Achieved, Settled, OfCommand, AfterTools,
        AfterSafesshd, AfterLimits, AfterSysctl, AfterCrontab, AfterScan,
        AfterChronyConf, FilesInv, Hosts, Stopped
  <2> QED
    BY <1>7, <2>1, CommandInv DEF PCs, Stopped
<1>8. CASE Do(r, "rm_ops", "update_cp", [host EXCEPT !.ops = "none"])
  <2>1. Sound(r, "rm_ops", "update_cp", [host EXCEPT !.ops = "none"])
    BY <1>1
    DEF Sound, Knows, Midway, Achieved, Settled, OfCommand, AfterTools,
        AfterSafesshd, AfterLimits, AfterSysctl, AfterCrontab, AfterScan,
        AfterChronyConf, FilesInv, Hosts, Stopped
  <2> QED
    BY <1>8, <2>1, CommandInv DEF PCs, Stopped
<1>9. CASE Do(r, "update_cp", "update_cp_end", [host EXCEPT !.ops = "partial"])
  <2>1. Sound(r, "update_cp", "update_cp_end", [host EXCEPT !.ops = "partial"])
    BY <1>1
    DEF Sound, Knows, Midway, Achieved, Settled, OfCommand, AfterTools,
        AfterSafesshd, AfterLimits, AfterSysctl, AfterCrontab, AfterScan,
        AfterChronyConf, FilesInv, Hosts, Stopped
  <2> QED
    BY <1>9, <2>1, CommandInv DEF PCs, Stopped
<1>10. CASE Do(r, "update_cp", "rm_profile", host)
  <2>1. Sound(r, "update_cp", "rm_profile", host)
    BY <1>1
    DEF Sound, Knows, Midway, Achieved, Settled, OfCommand, AfterTools,
        AfterSafesshd, AfterLimits, AfterSysctl, AfterCrontab, AfterScan,
        AfterChronyConf, FilesInv, Hosts, Stopped
  <2> QED
    BY <1>10, <2>1, CommandInv DEF PCs, Stopped
<1>11. CASE Do(r, "update_cp_end", "rm_profile",
             [host EXCEPT !.ops = "complete"])
  <2>1. Sound(r, "update_cp_end", "rm_profile", [host EXCEPT !.ops = "complete"])
    BY <1>1
    DEF Sound, Knows, Midway, Achieved, Settled, OfCommand, AfterTools,
        AfterSafesshd, AfterLimits, AfterSysctl, AfterCrontab, AfterScan,
        AfterChronyConf, FilesInv, Hosts, Stopped
  <2> QED
    BY <1>11, <2>1, CommandInv DEF PCs, Stopped
<1>12. CASE Do(r, "rm_profile", "again_ops", [host EXCEPT !.profile = FALSE])
  <2>1. Sound(r, "rm_profile", "again_ops", [host EXCEPT !.profile = FALSE])
    <3>1. [host EXCEPT !.profile = FALSE] \in Hosts
      BY <1>1 DEF Hosts
    <3> QED
      BY <1>1, <3>1
      DEF Sound, Knows, Midway, Achieved, Settled, OfCommand, AfterTools,
          AfterSafesshd, AfterLimits, AfterSysctl, AfterCrontab, AfterScan,
          AfterChronyConf, FilesInv, Hosts, Stopped
  <2> QED
    BY <1>12, <2>1, CommandInv DEF PCs, Stopped
<1>13. CASE Do(r, "again_ops", "again_cp", host)
  <2>1. Sound(r, "again_ops", "again_cp", host)
    BY <1>1
    DEF Sound, Knows, Midway, Achieved, Settled, OfCommand, AfterTools,
        AfterSafesshd, AfterLimits, AfterSysctl, AfterCrontab, AfterScan,
        AfterChronyConf, FilesInv, Hosts, Stopped
  <2> QED
    BY <1>13, <2>1, CommandInv DEF PCs, Stopped
<1>14. CASE Do(r, "again_ops", "again_profile", host)
  <2>1. Sound(r, "again_ops", "again_profile", host)
    BY <1>1
    DEF Sound, Knows, Midway, Achieved, Settled, OfCommand, AfterTools,
        AfterSafesshd, AfterLimits, AfterSysctl, AfterCrontab, AfterScan,
        AfterChronyConf, FilesInv, Hosts, Stopped
  <2> QED
    BY <1>14, <2>1, CommandInv DEF PCs, Stopped
<1>15. CASE Do(r, "again_cp", "again_cp_end", [host EXCEPT !.ops = "partial"])
  <2>1. Sound(r, "again_cp", "again_cp_end", [host EXCEPT !.ops = "partial"])
    BY <1>1
    DEF Sound, Knows, Midway, Achieved, Settled, OfCommand, AfterTools,
        AfterSafesshd, AfterLimits, AfterSysctl, AfterCrontab, AfterScan,
        AfterChronyConf, FilesInv, Hosts, Stopped
  <2> QED
    BY <1>15, <2>1, CommandInv DEF PCs, Stopped
<1>16. CASE Do(r, "again_cp", "again_profile", host)
  <2>1. Sound(r, "again_cp", "again_profile", host)
    BY <1>1
    DEF Sound, Knows, Midway, Achieved, Settled, OfCommand, AfterTools,
        AfterSafesshd, AfterLimits, AfterSysctl, AfterCrontab, AfterScan,
        AfterChronyConf, FilesInv, Hosts, Stopped
  <2> QED
    BY <1>16, <2>1, CommandInv DEF PCs, Stopped
<1>17. CASE Do(r, "again_cp_end", "again_profile",
             [host EXCEPT !.ops = "complete"])
  <2>1. Sound(r, "again_cp_end", "again_profile", [host EXCEPT !.ops = "complete"])
    BY <1>1
    DEF Sound, Knows, Midway, Achieved, Settled, OfCommand, AfterTools,
        AfterSafesshd, AfterLimits, AfterSysctl, AfterCrontab, AfterScan,
        AfterChronyConf, FilesInv, Hosts, Stopped
  <2> QED
    BY <1>17, <2>1, CommandInv DEF PCs, Stopped
<1>18. CASE Do(r, "again_profile", "end",
             [host EXCEPT !.profile = @ \/ cwd[r] = "repository"])
  <2>1. Sound(r, "again_profile", "end", [host EXCEPT !.profile = @ \/ cwd[r] = "repository"])
    <3>1. [host EXCEPT !.profile = @ \/ cwd[r] = "repository"] \in Hosts
      BY <1>1 DEF Hosts
    <3> QED
      BY <1>1, <3>1
      DEF Sound, Knows, Midway, Achieved, Settled, OfCommand, AfterTools,
          AfterSafesshd, AfterLimits, AfterSysctl, AfterCrontab, AfterScan,
          AfterChronyConf, FilesInv, Hosts, Stopped
  <2> QED
    BY <1>18, <2>1, CommandInv DEF PCs, Stopped
<1>19. CASE Do(r, "rm_profile", "update_profile", [host EXCEPT !.profile = FALSE])
  <2>1. Sound(r, "rm_profile", "update_profile", [host EXCEPT !.profile = FALSE])
    <3>1. [host EXCEPT !.profile = FALSE] \in Hosts
      BY <1>1 DEF Hosts
    <3> QED
      BY <1>1, <3>1
      DEF Sound, Knows, Midway, Achieved, Settled, OfCommand, AfterTools,
          AfterSafesshd, AfterLimits, AfterSysctl, AfterCrontab, AfterScan,
          AfterChronyConf, FilesInv, Hosts, Stopped
  <2> QED
    BY <1>19, <2>1, CommandInv DEF PCs, Stopped
<1>20. CASE Do(r, "update_profile", "again_ops", [host EXCEPT !.profile = @ \/ cwd[r] = "repository"])
  <2>1. Sound(r, "update_profile", "again_ops", [host EXCEPT !.profile = @ \/ cwd[r] = "repository"])
    <3>1. [host EXCEPT !.profile = @ \/ cwd[r] = "repository"] \in Hosts
      BY <1>1 DEF Hosts
    <3> QED
      BY <1>1, <3>1
      DEF Sound, Knows, Midway, Achieved, Settled, OfCommand, AfterTools,
          AfterSafesshd, AfterLimits, AfterSysctl, AfterCrontab, AfterScan,
          AfterChronyConf, FilesInv, Hosts, Stopped
  <2> QED
    BY <1>20, <2>1, CommandInv DEF PCs, Stopped
<1> QED
  BY <1>2, <1>3, <1>4, <1>5, <1>6, <1>7, <1>8, <1>9, <1>10, <1>11, <1>12,
     <1>13, <1>14, <1>15, <1>16, <1>17, <1>18, <1>19, <1>20
  DEF install_ops, update_ops, Copying

(* sshd_config: the original is moved before the new one is copied.        *)
LEMMA SshdInv ==
  ASSUME NEW r, StepOf(r), Safesshd(r) \/ add_scan_sshd(r)
  PROVE  IInv'
<1>1. host \in Hosts /\ cmd[r] \in {"main", "out", "ssh_FP", "update_ops"}
  BY DEF StepOf, IInv, TypeOK
<1>2. CASE /\ host.sshd = "safe"
           /\ Do(r, "Safesshd", "Openfile", host)
  <2>1. Sound(r, "Safesshd", "Openfile", host)
    BY <1>1, <1>2
    DEF Sound, Knows, Midway, Achieved, Settled, OfCommand, AfterTools,
        AfterSafesshd, AfterLimits, AfterSysctl, AfterCrontab, AfterScan,
        AfterChronyConf, FilesInv, Hosts, Stopped
  <2> QED
    BY <1>2, <2>1, CommandInv DEF PCs, Stopped
<1>3. CASE Do(r, "Safesshd", "mv_sshd", host)
  <2>1. Sound(r, "Safesshd", "mv_sshd", host)
    BY <1>1
    DEF Sound, Knows, Midway, Achieved, Settled, OfCommand, AfterTools,
        AfterSafesshd, AfterLimits, AfterSysctl, AfterCrontab, AfterScan,
        AfterChronyConf, FilesInv, Hosts, Stopped
  <2> QED
    BY <1>3, <2>1, CommandInv DEF PCs, Stopped
<1>4. CASE Do(r, "mv_sshd", "cp_sshd",
             [host EXCEPT !.sshd = "none",
                            !.sshd_bak = @ \cup ({host.sshd} \ {"none"})])
  <2>1. Sound(r, "mv_sshd", "cp_sshd", [host EXCEPT !.sshd = "none",
                            !.sshd_bak = @ \cup ({host.sshd} \ {"none"})])
    <3>1. [host EXCEPT !.sshd = "none", !.sshd_bak = @ \cup ({host.sshd} \ {"none"})] \in Hosts
      BY <1>1 DEF Hosts
    <3> QED
      BY <1>1, <3>1
      DEF Sound, Knows, Midway, Achieved, Settled, OfCommand, AfterTools,
          AfterSafesshd, AfterLimits, AfterSysctl, AfterCrontab, AfterScan,
          AfterChronyConf, FilesInv, Hosts, Stopped
  <2> QED
    BY <1>4, <2>1, CommandInv DEF PCs, Stopped
<1>5. CASE Do(r, "cp_sshd", "restart_sshd", [host EXCEPT !.sshd = "safe"])
  <2>1. Sound(r, "cp_sshd", "restart_sshd", [host EXCEPT !.sshd = "safe"])
    BY <1>1
    DEF Sound, Knows, Midway, Achieved, Settled, OfCommand, AfterTools,
        AfterSafesshd, AfterLimits, AfterSysctl, AfterCrontab, AfterScan,
        AfterChronyConf, FilesInv, Hosts, Stopped
  <2> QED
    BY <1>5, <2>1, CommandInv DEF PCs, Stopped
<1>6. CASE Do(r, "restart_sshd", "Openfile",
             [host EXCEPT !.daemon = host.sshd])
  <2>1. Sound(r, "restart_sshd", "Openfile", [host EXCEPT !.daemon = host.sshd])
    BY <1>1
    DEF Sound, Knows, Midway, Achieved, Settled, OfCommand, AfterTools,
        AfterSafesshd, AfterLimits, AfterSysctl, AfterCrontab, AfterScan,
        AfterChronyConf, FilesInv, Hosts, Stopped
  <2> QED
    BY <1>6, <2>1, CommandInv DEF PCs, Stopped
<1>7. CASE /\ host.crontab > 0
           /\ Do(r, "grep_crontab", "scan_restart", host)
  <2>1. Sound(r, "grep_crontab", "scan_restart", host)
    BY <1>1, <1>7
    DEF Sound, Knows, Midway, Achieved, Settled, OfCommand, AfterTools,
        AfterSafesshd, AfterLimits, AfterSysctl, AfterCrontab, AfterScan,
        AfterChronyConf, FilesInv, Hosts, Stopped
  <2> QED
    BY <1>7, <2>1, CommandInv DEF PCs, Stopped
<1>8. CASE /\ host.crontab = 0
           /\ Do(r, "grep_crontab", "echo_crontab", host)
  <2>1. Sound(r, "grep_crontab", "echo_crontab", host)
    BY <1>1, <1>8
    DEF Sound, Knows, Midway, Achieved, Settled, OfCommand, AfterTools,
        AfterSafesshd, AfterLimits, AfterSysctl, AfterCrontab, AfterScan,
        AfterChronyConf, FilesInv, Hosts, Stopped
  <2> QED
    BY <1>8, <2>1, CommandInv DEF PCs, Stopped
<1>9. CASE Do(r, "echo_crontab", "scan_restart",
             [host EXCEPT !.crontab = @ + 1])
  <2>1. Sound(r, "echo_crontab", "scan_restart", [host EXCEPT !.crontab = @ + 1])
    BY <1>1
    DEF Sound, Knows, Midway, Achieved, Settled, OfCommand, AfterTools,
        AfterSafesshd, AfterLimits, AfterSysctl, AfterCrontab, AfterScan,
        AfterChronyConf, FilesInv, Hosts, Stopped
  <2> QED
    BY <1>9, <2>1, CommandInv DEF PCs, Stopped
<1>10. CASE /\ cmd[r] = "ssh_FP"
           /\ Do(r, "scan_restart", "end", [host EXCEPT !.daemon = host.sshd])
  <2>1. Sound(r, "scan_restart", "end", [host EXCEPT !.daemon = host.sshd])
    BY <1>1, <1>10
    DEF Sound, Knows, Midway, Achieved, Settled, OfCommand, AfterTools,
        AfterSafesshd, AfterLimits, AfterSysctl, AfterCrontab, AfterScan,
        AfterChronyConf, FilesInv, Hosts, Stopped
  <2> QED
    BY <1>10, <2>1, CommandInv DEF PCs, Stopped
<1>11. CASE /\ cmd[r] # "ssh_FP"
           /\ Do(r, "scan_restart", "grep_chrony", [host EXCEPT !.daemon = host.sshd])
  <2>1. Sound(r, "scan_restart", "grep_chrony", [host EXCEPT !.daemon = host.sshd])
    BY <1>1, <1>11
    DEF Sound, Knows, Midway, Achieved, Settled, OfCommand, AfterTools,
        AfterSafesshd, AfterLimits, AfterSysctl, AfterCrontab, AfterScan,
        AfterChronyConf, FilesInv, Hosts, Stopped
  <2> QED
    BY <1>11, <2>1, CommandInv DEF PCs, Stopped
<1>12. host.crontab \in Nat
  BY <1>1 DEF Hosts
<1> QED
  BY <1>2, <1>3, <1>4, <1>5, <1>6, <1>7, <1>8, <1>9, <1>10, <1>11, <1>12
  DEF Safesshd, add_scan_sshd, mv_sshd, cp_sshd

(* limits.conf and sysctl.conf.                                            *)
LEMMA LimitsInv ==
  ASSUME NEW r, StepOf(r), Openfile(r) \/ sysctl(r)
  PROVE  IInv'
<1>1. host \in Hosts /\ cmd[r] \in {"main", "out", "ssh_FP", "update_ops"}
  BY DEF StepOf, IInv, TypeOK
<1>2. CASE /\ host.limits = 0
           /\ Do(r, "Openfile", "sed_limits", host)
  <2>1. Sound(r, "Openfile", "sed_limits", host)
    BY <1>1, <1>2
    DEF Sound, Knows, Midway, Achieved, Settled, OfCommand, AfterTools,
        AfterSafesshd, AfterLimits, AfterSysctl, AfterCrontab, AfterScan,
        AfterChronyConf, FilesInv, Hosts, Stopped
  <2> QED
    BY <1>2, <2>1, CommandInv DEF PCs, Stopped
<1>3. CASE /\ host.limits > 0
           /\ Do(r, "Openfile", "mv_sysctl", host)
  <2>1. Sound(r, "Openfile", "mv_sysctl", host)
    BY <1>1, <1>3
    DEF Sound, Knows, Midway, Achieved, Settled, OfCommand, AfterTools,
        AfterSafesshd, AfterLimits, AfterSysctl, AfterCrontab, AfterScan,
        AfterChronyConf, FilesInv, Hosts, Stopped
  <2> QED
    BY <1>3, <2>1, CommandInv DEF PCs, Stopped
<1>4. CASE Do(r, "sed_limits", "mv_sysctl", [host EXCEPT !.limits = @ + 1])
  <2>1. Sound(r, "sed_limits", "mv_sysctl", [host EXCEPT !.limits = @ + 1])
    BY <1>1
    DEF Sound, Knows, Midway, Achieved, Settled, OfCommand, AfterTools,
        AfterSafesshd, AfterLimits, AfterSysctl, AfterCrontab, AfterScan,
        AfterChronyConf, FilesInv, Hosts, Stopped
  <2> QED
    BY <1>4, <2>1, CommandInv DEF PCs, Stopped
<1>5. CASE /\ host.sysctl = "none"
           /\ Do(r, "mv_sysctl", "cp_sysctl", host)
  <2>1. Sound(r, "mv_sysctl", "cp_sysctl", host)
    BY <1>1, <1>5
    DEF Sound, Knows, Midway, Achieved, Settled, OfCommand, AfterTools,
        AfterSafesshd, AfterLimits, AfterSysctl, AfterCrontab, AfterScan,
        AfterChronyConf, FilesInv, Hosts, Stopped
  <2> QED
    BY <1>5, <2>1, CommandInv DEF PCs, Stopped
<1>6. CASE /\ host.sysctl # "none"
           /\ Do(r, "mv_sysctl", "cp_sysctl", [host EXCEPT !.sysctl = "none", !.sysctl_bak = host.sysctl])
  <2>1. Sound(r, "mv_sysctl", "cp_sysctl", [host EXCEPT !.sysctl = "none", !.sysctl_bak = host.sysctl])
    <3>2. [host EXCEPT !.sysctl = "none", !.sysctl_bak = host.sysctl] \in Hosts
      BY <1>1 DEF Hosts
    <3>3. FilesInv(host) => FilesInv([host EXCEPT !.sysctl = "none", !.sysctl_bak = host.sysctl])
      BY <1>1, <1>6 DEF FilesInv, Hosts
    <3> QED
      BY <1>1, <1>6, <3>2, <3>3
    DEF Sound, Knows, Midway, Achieved, Settled, OfCommand, AfterTools, AfterSafesshd,
             AfterLimits, AfterSysctl, AfterCrontab, AfterScan, AfterChronyConf,
             Hosts, Stopped
  <2> QED
    BY <1>6, <2>1, CommandInv DEF PCs, Stopped
<1>7. CASE Do(r, "cp_sysctl", "grep_crontab",
             [host EXCEPT !.sysctl = IF cwd[r] = "repository" THEN "ours" ELSE @])
  <2>1. Sound(r, "cp_sysctl", "grep_crontab", [host EXCEPT !.sysctl = IF cwd[r] = "repository" THEN "ours" ELSE @])
    BY <1>1
    DEF Sound, Knows, Midway, Achieved, Settled, OfCommand, AfterTools,
        AfterSafesshd, AfterLimits, AfterSysctl, AfterCrontab, AfterScan,
        AfterChronyConf, FilesInv, Hosts, Stopped
  <2> QED
    BY <1>7, <2>1, CommandInv DEF PCs, Stopped
<1>8. host.limits \in Nat
  BY <1>1 DEF Hosts
<1> QED
  BY <1>2, <1>3, <1>4, <1>5, <1>6, <1>7, <1>8
  DEF Openfile, sysctl, mv_sysctl

(* The four lines of chrony.conf.                                          *)
LEMMA ChronyInv ==
  ASSUME NEW r, StepOf(r), time_ntp(r)
  PROVE  IInv'
<1>1. host \in Hosts /\ cmd[r] \in {"main", "out", "ssh_FP", "update_ops"}
  BY DEF StepOf, IInv, TypeOK
<1>2. CASE /\ host.chrony = 0
           /\ Do(r, "grep_chrony", "echo_chrony1", host)
  <2>1. Sound(r, "grep_chrony", "echo_chrony1", host)
    BY <1>1, <1>2
    DEF Sound, Knows, Midway, Achieved, Settled, OfCommand, AfterTools,
        AfterSafesshd, AfterLimits, AfterSysctl, AfterCrontab, AfterScan,
        AfterChronyConf, FilesInv, Hosts, Stopped
  <2> QED
    BY <1>2, <2>1, CommandInv DEF PCs, Stopped
<1>3. CASE /\ host.chrony > 0 /\ cmd[r] # "out"
           /\ Do(r, "grep_chrony", "curl", host)
  <2>1. Sound(r, "grep_chrony", "curl", host)
    BY <1>1, <1>3
    DEF Sound, Knows, Midway, Achieved, Settled, OfCommand, AfterTools,
        AfterSafesshd, AfterLimits, AfterSysctl, AfterCrontab, AfterScan,
        AfterChronyConf, FilesInv, Hosts, Stopped
  <2> QED
    BY <1>3, <2>1, CommandInv DEF PCs, Stopped
<1>4. CASE /\ host.chrony > 0 /\ cmd[r] = "out"
           /\ Do(r, "grep_chrony", "shell_unlock", host)
  <2>1. Sound(r, "grep_chrony", "shell_unlock", host)
    BY <1>1, <1>4
    DEF Sound, Knows, Midway, Achieved, Settled, OfCommand, AfterTools,
        AfterSafesshd, AfterLimits, AfterSysctl, AfterCrontab, AfterScan,
        AfterChronyConf, FilesInv, Hosts, Stopped
  <2> QED
    BY <1>4, <2>1, CommandInv DEF PCs, Stopped
<1>5. CASE Do(r, "echo_chrony1", "echo_chrony2",
             [host EXCEPT !.chrony = @ + 1])
  <2>1. Sound(r, "echo_chrony1", "echo_chrony2", [host EXCEPT !.chrony = @ + 1])
    BY <1>1
    DEF Sound, Knows, Midway, Achieved, Settled, OfCommand, AfterTools,
        AfterSafesshd, AfterLimits, AfterSysctl, AfterCrontab, AfterScan,
        AfterChronyConf, FilesInv, Hosts, Stopped
  <2> QED
    BY <1>5, <2>1, CommandInv DEF PCs, Stopped
<1>6. CASE Do(r, "echo_chrony2", "echo_chrony3",
             [host EXCEPT !.chrony = @ + 1])
  <2>1. Sound(r, "echo_chrony2", "echo_chrony3", [host EXCEPT !.chrony = @ + 1])
    BY <1>1
    DEF Sound, Knows, Midway, Achieved, Settled, OfCommand, AfterTools,
        AfterSafesshd, AfterLimits, AfterSysctl, AfterCrontab, AfterScan,
        AfterChronyConf, FilesInv, Hosts, Stopped
  <2> QED
    BY <1>6, <2>1, CommandInv DEF PCs, Stopped
<1>7. CASE Do(r, "echo_chrony3", "echo_chrony4",
             [host EXCEPT !.chrony = @ + 1])
  <2>1. Sound(r, "echo_chrony3", "echo_chrony4", [host EXCEPT !.chrony = @ + 1])
    BY <1>1
    DEF Sound, Knows, Midway, Achieved, Settled, OfCommand, AfterTools,
        AfterSafesshd, AfterLimits, AfterSysctl, AfterCrontab, AfterScan,
        AfterChronyConf, FilesInv, Hosts, Stopped
  <2> QED
    BY <1>7, <2>1, CommandInv DEF PCs, Stopped
<1>8. CASE /\ cmd[r] # "out"
           /\ Do(r, "echo_chrony4", "curl", [host EXCEPT !.chrony = @ + 1])
  <2>1. Sound(r, "echo_chrony4", "curl", [host EXCEPT !.chrony = @ + 1])
    BY <1>1, <1>8
    DEF Sound, Knows, Midway, Achieved, Settled, OfCommand, AfterTools,
        AfterSafesshd, AfterLimits, AfterSysctl, AfterCrontab, AfterScan,
        AfterChronyConf, FilesInv, Hosts, Stopped
  <2> QED
    BY <1>8, <2>1, CommandInv DEF PCs, Stopped
<1>9. CASE /\ cmd[r] = "out"
           /\ Do(r, "echo_chrony4", "shell_unlock", [host EXCEPT !.chrony = @ + 1])
  <2>1. Sound(r, "echo_chrony4", "shell_unlock", [host EXCEPT !.chrony = @ + 1])
    BY <1>1, <1>9
    DEF Sound, Knows, Midway, Achieved, Settled, OfCommand, AfterTools,
        AfterSafesshd, AfterLimits, AfterSysctl, AfterCrontab, AfterScan,
        AfterChronyConf, FilesInv, Hosts, Stopped
  <2> QED
    BY <1>9, <2>1, CommandInv DEF PCs, Stopped
<1>10. host.chrony \in Nat
  BY <1>1 DEF Hosts
<1>11. \/ Do(r, "grep_chrony", IF host.chrony < 1 THEN "echo_chrony1" ELSE AfterChrony(r), host)
       \/ Do(r, "echo_chrony1", "echo_chrony2", [host EXCEPT !.chrony = @ + 1])
       \/ Do(r, "echo_chrony2", "echo_chrony3", [host EXCEPT !.chrony = @ + 1])
       \/ Do(r, "echo_chrony3", "echo_chrony4", [host EXCEPT !.chrony = @ + 1])
       \/ Do(r, "echo_chrony4", AfterChrony(r), [host EXCEPT !.chrony = @ + 1])
  BY DEF time_ntp
<1> QED
  BY <1>2, <1>3, <1>4, <1>5, <1>6, <1>7, <1>8, <1>9, <1>10, <1>11
  DEF AfterChrony

(* The repository file: what is moved over the copy is the original, or an *)
(* earlier download other than the last.                                   *)
LEMMA RepoInv ==
  ASSUME NEW r, StepOf(r), config_yum(r)
  PROVE  IInv'
<1>1. /\ host \in Hosts /\ cmd[r] \in {"main", "out", "ssh_FP", "update_ops"}
      /\ "none" \notin Pages
  BY HostAssumption DEF StepOf, IInv, TypeOK
<1>2. ASSUME NEW page \in Pages, Do(r, "curl", "cmp_repo", fetch(host, page))
      PROVE  IInv'
  <2>1. Sound(r, "curl", "cmp_repo", fetch(host, page))
    <3>1. fetch(host, page) \in Hosts
      BY <1>1 DEF Hosts, fetch
    <3>2. Midway("cmp_repo", fetch(host, page))
      BY <1>1 DEF Midway, Hosts, fetch
    <3>3. FilesInv(host) => FilesInv(fetch(host, page))
      BY <1>1 DEF FilesInv, RepoKept, Hosts, fetch
    <3> QED
      BY <1>1, <3>1, <3>2, <3>3
    DEF Sound, Knows, Achieved, Settled, OfCommand, AfterTools, AfterSafesshd,
             AfterLimits, AfterSysctl, AfterCrontab, AfterScan, AfterChronyConf,
             Hosts, Stopped, fetch
  <2> QED
    BY <1>2, <2>1, CommandInv DEF PCs, Stopped
<1>3. ASSUME NEW part \in {host.tmp} \cup Pages,
             Do(r, "curl", "failed", [host EXCEPT !.lock = FALSE, !.tmp = part])
      PROVE  IInv'
  <2>1. Sound(r, "curl", "failed", [host EXCEPT !.lock = FALSE, !.tmp = part])
    <3>1. [host EXCEPT !.lock = FALSE, !.tmp = part] \in Hosts
      BY <1>1 DEF Hosts
    <3> QED
      BY <1>1, <3>1
      DEF Sound, Knows, Midway, Achieved, Settled, OfCommand, AfterTools,
          AfterSafesshd, AfterLimits, AfterSysctl, AfterCrontab, AfterScan,
          AfterChronyConf, FilesInv, Hosts, Stopped
  <2> QED
    BY <1>3, <2>1, CommandInv DEF PCs, Stopped
<1>4. CASE /\ same_repo(host)
           /\ Do(r, "cmp_repo", "shell_unlock", host)
  <2>1. Sound(r, "cmp_repo", "shell_unlock", host)
    BY <1>1, <1>4
    DEF Sound, Knows, Midway, Achieved, Settled, OfCommand, AfterTools,
        AfterSafesshd, AfterLimits, AfterSysctl, AfterCrontab, AfterScan,
        AfterChronyConf, FilesInv, Hosts, Stopped, same_repo
  <2> QED
    BY <1>4, <2>1, CommandInv DEF PCs, Stopped
<1>5. CASE /\ ~same_repo(host)
           /\ Do(r, "cmp_repo", "mv_repo", host)
  <2>1. Sound(r, "cmp_repo", "mv_repo", host)
    BY <1>1, <1>5
    DEF Sound, Knows, Midway, Achieved, Settled, OfCommand, AfterTools,
        AfterSafesshd, AfterLimits, AfterSysctl, AfterCrontab, AfterScan,
        AfterChronyConf, FilesInv, Hosts, Stopped, same_repo
  <2> QED
    BY <1>5, <2>1, CommandInv DEF PCs, Stopped
<1>6. CASE /\ host.repo = "none"
           /\ Do(r, "mv_repo", "mv_tmp", host)
  <2>1. Sound(r, "mv_repo", "mv_tmp", host)
    BY <1>1, <1>6
    DEF Sound, Knows, Midway, Achieved, Settled, OfCommand, AfterTools,
        AfterSafesshd, AfterLimits, AfterSysctl, AfterCrontab, AfterScan,
        AfterChronyConf, FilesInv, Hosts, Stopped
  <2> QED
    BY <1>6, <2>1, CommandInv DEF PCs, Stopped
<1>7. CASE /\ host.repo # "none"
           /\ Do(r, "mv_repo", "mv_tmp", [host EXCEPT !.repo = "none", !.repo_bak = host.repo])
  <2>1. Sound(r, "mv_repo", "mv_tmp", [host EXCEPT !.repo = "none", !.repo_bak = host.repo])
    <3>1. [host EXCEPT !.repo = "none", !.repo_bak = host.repo] \in Hosts
      BY <1>1 DEF Hosts
    <3>2. Midway("mv_repo", host) =>
            Midway("mv_tmp", [host EXCEPT !.repo = "none", !.repo_bak = host.repo])
      BY <1>1 DEF Midway, Hosts
    <3>3. FilesInv(host) /\ Midway("mv_repo", host) =>
            FilesInv([host EXCEPT !.repo = "none", !.repo_bak = host.repo])
      <4>1. Midway("mv_repo", host) => host.tmp \in host.fetched /\ host.repo # host.tmp
        BY DEF Midway
      <4> QED
        BY <1>1, <1>7, <4>1 DEF FilesInv, RepoKept, Hosts
    <3> QED
      BY <1>1, <1>7, <3>1, <3>2, <3>3
    DEF Sound, Knows, Achieved, Settled, OfCommand, AfterTools, AfterSafesshd,
             AfterLimits, AfterSysctl, AfterCrontab, AfterScan, AfterChronyConf,
             Hosts, Stopped
  <2> QED
    BY <1>7, <2>1, CommandInv DEF PCs, Stopped
<1>8. CASE /\ host.tmp = "none"
           /\ Do(r, "mv_tmp", "shell_unlock", host)
  <2>1. Sound(r, "mv_tmp", "shell_unlock", host)
    <3>1. ~Midway("mv_tmp", host)
      BY <1>1, <1>8 DEF Midway, Hosts
    <3> QED
      BY <1>1, <3>1 DEF Sound, Knows, OfCommand, AfterTools, AfterSafesshd, AfterLimits,
                        AfterSysctl, AfterCrontab, AfterScan, AfterChronyConf, Stopped
  <2> QED
    BY <1>8, <2>1, CommandInv DEF PCs, Stopped
<1>9. CASE /\ host.tmp # "none"
           /\ Do(r, "mv_tmp", "shell_unlock", [host EXCEPT !.repo = host.tmp, !.tmp = "none"])
  <2>1. Sound(r, "mv_tmp", "shell_unlock", [host EXCEPT !.repo = host.tmp, !.tmp = "none"])
    <3>1. [host EXCEPT !.repo = host.tmp, !.tmp = "none"] \in Hosts
      BY <1>1, <1>9 DEF Hosts
    <3>2. Midway("shell_unlock", [host EXCEPT !.repo = host.tmp, !.tmp = "none"])
      BY DEF Midway
    <3>3. FilesInv(host) /\ Midway("mv_tmp", host) =>
            FilesInv([host EXCEPT !.repo = host.tmp, !.tmp = "none"])
      BY <1>1 DEF Midway, FilesInv, RepoKept, Hosts
    <3>4. Midway("mv_tmp", host) => host.tmp \in host.fetched
      BY DEF Midway
    <3> QED
      BY <1>1, <3>1, <3>2, <3>3, <3>4
    DEF Sound, Knows, Achieved, Settled, OfCommand, AfterTools, AfterSafesshd,
             AfterLimits, AfterSysctl, AfterCrontab, AfterScan, AfterChronyConf,
             Hosts, Stopped
  <2> QED
    BY <1>9, <2>1, CommandInv DEF PCs, Stopped
<1> QED
  BY <1>2, <1>3, <1>4, <1>5, <1>6, <1>7, <1>8, <1>9
  DEF config_yum, same_repo
-----------------------------------------------------------------------------
(* Steps outside the script, and the theorems *)

(* A run is started or interrupted: the host stays as it is, and the run   *)
(* is not inside.                                                          *)
LEMMA OtherInv ==
  ASSUME IInv, RacedNext, TypeOK', NEW r \in Runs,
         NEW to \in {"check_lock", "grep_crontab", "rm_ops", "failed"},
         pc' = [pc EXCEPT ![r] = to], host' = host,
         \A s \in Runs \ {r} : cmd'[s] = cmd[s] /\ cwd'[s] = cwd[s],
         OfCommand(to, cmd'[r]),
         to \in {"grep_crontab", "rm_ops"} => cmd'[r] \notin {"main", "out"},
         \/ to = "failed" /\ interrupts' = interrupts + 1
         \/ pc[r] = "idle" /\ interrupts' = interrupts
  PROVE  IInv'
<1>1. /\ pc'[r] = to /\ \A s \in Runs \ {r} : pc'[s] = pc[s]
      /\ interrupts \in Nat /\ interrupts' \in Nat
  BY DEF IInv, TypeOK
<1>2. ASSUME NEW s \in Runs \ {r}
      PROVE  (Working(s)' <=> Working(s)) /\ (Inside(s)' <=> Inside(s))
  BY <1>1 DEF Working, Running, Inside
<1>3. ~Inside(r)'
  BY <1>1 DEF Inside, Working, Running, Stopped
<1>4. ASSUME NEW s \in Runs
      PROVE  OfCommand(pc[s], cmd[s])'
  <2>1. CASE s = r
    BY <1>1, <2>1 DEF OfCommand
  <2>2. CASE s # r
    <3>1. OfCommand(pc[s], cmd[s]) /\ pc'[s] = pc[s] /\ cmd'[s] = cmd[s]
      BY <1>1, <2>2 DEF IInv
    <3> QED
      BY <3>1 DEF OfCommand
  <2> QED
    BY <2>1, <2>2
<1>5. ASSUME ~raced'
      PROVE  /\ FilesInv(host)'
             /\ \A s, t \in Runs : Working(s)' /\ Working(t)' => s = t
             /\ ((\A s \in Runs : ~Working(s)) => Settled("idle", host))'
             /\ \A s \in Runs : /\ Working(s)' => Knows(s, pc[s], host)'
                                /\ Inside(s)' => host'.lock
  <2>1. ~raced /\ \A s, t \in Runs : Working(s)' /\ Working(t)' => s = t
    BY <1>5 DEF RacedNext
  <2>2. /\ FilesInv(host)
        /\ (\A s \in Runs : ~Working(s)) => Settled("idle", host)
        /\ \A s \in Runs : /\ Working(s) => Knows(s, pc[s], host)
                           /\ Inside(s) => host.lock
    BY <2>1 DEF IInv, TurnsInv
  <2>3. ASSUME \A s \in Runs \ {r} : ~Working(s)
        PROVE  Settled("idle", host)'
    <3>1. CASE to = "failed" /\ interrupts' = interrupts + 1
      BY <1>1, <3>1 DEF Settled
    <3>2. CASE pc[r] = "idle" /\ interrupts' = interrupts
      <4>1. ~Working(r)
        BY <3>2 DEF Working, Running, Stopped
      <4> QED
        BY <2>2, <2>3, <3>2, <4>1 DEF Settled
    <3> QED
      BY <3>1, <3>2
  <2>4. ASSUME NEW s \in Runs, Working(s)'
        PROVE  Knows(s, pc[s], host)'
    <3>1. CASE s = r
      <4>1. to \in {"grep_crontab", "rm_ops"}
        BY <1>1, <2>4, <3>1 DEF Working, Running, Stopped
      <4>2. Settled("idle", host)'
        BY <1>2, <2>1, <2>3, <2>4, <3>1
      <4>3. Settled(to, host)'
        BY <4>1, <4>2 DEF Settled
      <4>4. Midway(to, host)' /\ Achieved(r, to, host)'
        BY <4>1 DEF Midway, Achieved
      <4> QED
        BY <1>1, <3>1, <4>3, <4>4 DEF Knows, Midway, Achieved, Settled
    <3>2. CASE s # r
      <4>1. /\ Knows(s, pc[s], host) /\ pc'[s] = pc[s]
            /\ cmd'[s] = cmd[s] /\ cwd'[s] = cwd[s]
            /\ interrupts' = 0 => interrupts = 0
        BY <1>1, <1>2, <2>2, <2>4, <3>2
      <4>2. Midway(pc[s], host)'
        BY <4>1 DEF Knows, Midway
      <4>3. Achieved(s, pc[s], host)'
        BY <4>1 DEF Knows, Achieved
      <4>4. Settled(pc[s], host)'
        BY <4>1 DEF Knows, Settled
      <4> QED
        BY <4>2, <4>3, <4>4 DEF Knows
    <3> QED
      BY <3>1, <3>2
  <2>5. ((\A s \in Runs : ~Working(s)) => Settled("idle", host))'
    BY <1>2, <2>3
  <2>6. ASSUME NEW s \in Runs, Inside(s)' PROVE host'.lock
    BY <1>2, <1>3, <2>2, <2>6
  <2> QED
    BY <2>1, <2>2, <2>4, <2>5, <2>6 DEF FilesInv
<1> QED
  BY <1>4, <1>5 DEF IInv, TurnsInv

(* Every command of every script, and every interruption. *)
LEMMA NextInv == IInv /\ [Next]_vars => IInv'
<1> SUFFICES ASSUME IInv, [Next]_vars PROVE IInv'
  OBVIOUS
<1>1. ASSUME NEW r \in Runs, Start(r), RacedNext
      PROVE  IInv'
  <2>1. PICK c \in {"main", "out", "ssh_FP", "update_ops"} :
          /\ cmd' = [cmd EXCEPT ![r] = c]
          /\ Do(r, "idle", CASE c \in {"main", "out"} -> "check_lock"
                             [] c = "ssh_FP" -> "grep_crontab"
                             [] c = "update_ops" -> "rm_ops", host)
    BY <1>1 DEF Start
  <2>2. PICK d \in {"repository", "elsewhere"} : cwd' = [cwd EXCEPT ![r] = d]
    BY <1>1 DEF Start
  <2>3. PICK to \in {"check_lock", "grep_crontab", "rm_ops"} :
          /\ pc[r] = "idle" /\ pc' = [pc EXCEPT ![r] = to] /\ host' = host
          /\ interrupts' = interrupts
          /\ to = "check_lock" <=> c \in {"main", "out"}
          /\ to = "grep_crontab" <=> c = "ssh_FP"
    BY <2>1 DEF Do
  <2>4. TypeOK'
    BY <1>1, <2>1, <2>2, <2>3 DEF IInv, TypeOK, RacedNext, PCs
  <2>5. /\ cmd'[r] = c
        /\ \A s \in Runs \ {r} : cmd'[s] = cmd[s] /\ cwd'[s] = cwd[s]
    BY <2>1, <2>2 DEF IInv, TypeOK
  <2>6. OfCommand(to, c)
    BY <2>3 DEF OfCommand, AfterTools, AfterSafesshd, AfterLimits, AfterSysctl,
                AfterCrontab, AfterScan, AfterChronyConf
  <2> QED
    BY <1>1, <2>3, <2>4, <2>5, <2>6, OtherInv
<1>2. ASSUME NEW r \in Runs, Interrupt(r), UNCHANGED <<cmd, cwd>>, RacedNext
      PROVE  IInv'
  <2>1. /\ pc' = [pc EXCEPT ![r] = "failed"] /\ host' = host
        /\ interrupts' = interrupts + 1
    BY <1>2 DEF Interrupt
  <2>2. TypeOK'
    BY <1>2, <2>1 DEF IInv, TypeOK, RacedNext, PCs, Stopped
  <2>3. OfCommand("failed", cmd'[r])
    BY DEF OfCommand, AfterTools, AfterSafesshd, AfterLimits, AfterSysctl,
           AfterCrontab, AfterScan, AfterChronyConf
  <2> QED
    BY <1>2, <2>1, <2>2, <2>3, OtherInv
<1>3. ASSUME NEW r \in Runs, Steps(r), UNCHANGED <<cmd, cwd>>, RacedNext
      PROVE  IInv'
  <2>1. StepOf(r)
    BY <1>3 DEF StepOf
  <2> QED
    BY <1>3, <2>1, LockInv, ToolsInv, SshdInv, LimitsInv, ChronyInv, RepoInv
    DEF Steps
<1>4. CASE UNCHANGED vars
  BY <1>4 DEF vars, IInv, TypeOK, TurnsInv, FilesInv, Knows, Midway, Achieved, Settled,
              OfCommand, Working, Running, Inside
<1> QED
  BY <1>1, <1>2, <1>3, <1>4 DEF Next, RacedNext

(* What one invocation finds is what an earlier one, finished, failed or   *)
(* interrupted anywhere, has left.                                         *)
THEOREM Invariant == Spec => []IInv
BY InitInv, NextInv, PTL DEF Spec

(* Every variable keeps its type. *)
THEOREM TypeCorrect == Spec => []TypeOK
<1>1. IInv => TypeOK
  BY DEF IInv
<1> QED
  BY <1>1, Invariant, PTL

(* As long as runs do not overlap, no exit of one, early or late, removes  *)
(* the lock of another: check_lock, shell_lock, test_ping, config_yum,     *)
(* shell_unlock.                                                           *)
THEOREM LockHeld == Spec => []LockHeldInside
<1>1. IInv => LockHeldInside
  BY DEF IInv, TurnsInv, LockHeldInside
<1> QED
  BY <1>1, Invariant, PTL

(* However often init.sh is run in a day and wherever it is interrupted,   *)
(* sshd_config of the administrator is in place or in a copy; so is his    *)
(* repository file until a run that fetches something else moves what an   *)
(* earlier one fetched over the copy, and his sysctl.conf until our own is *)
(* moved over the copy (Safesshd, config_yum, main).                       *)
THEOREM OriginalsSafe == Spec => []OriginalsKept
<1>1. IInv => OriginalsKept
  BY DEF IInv, TurnsInv, FilesInv, RepoKept, OriginalsKept
<1> QED
  BY <1>1, Invariant, PTL

(* However often init.sh is run and wherever it is interrupted, no line is *)
(* added twice (Openfile, add_scan_sshd, time_ntp).                        *)
THEOREM LinesAddedOnce == Spec => []LinesOnce
<1>1. IInv => LinesOnce
  BY DEF IInv, TurnsInv, FilesInv, LinesOnce
<1> QED
  BY <1>1, Invariant, PTL

(* A run that reaches its end has configured the host: what it has done    *)
(* itself, and what it skipped because an earlier run, finished or         *)
(* interrupted, had done it (all functions that main and out call).        *)
LEMMA EndStep ==
  ASSUME IInv, Next, NEW r \in Runs, pc[r] = "shell_unlock", pc'[r] = "end", ~raced
  PROVE  /\ host.sshd = "safe" /\ host.daemon = "safe"
         /\ host.limits = 1 /\ host.crontab = 1 /\ host.profile
         /\ cwd[r] = "repository" => host.sysctl = "ours"
         /\ cmd[r] = "main" => host.repo \in host.fetched
         /\ interrupts = 0 => host.ops = "complete" /\ host.chrony = 4
<1>1. Working(r) /\ cmd[r] \in {"main", "out"}
  BY DEF IInv, OfCommand, Working, Running, Stopped, AfterScan, AfterChronyConf
<1>2. Achieved(r, "shell_unlock", host)
  BY <1>1 DEF IInv, TurnsInv, Knows
<1> QED
  BY <1>1, <1>2
  DEF Achieved, AfterTools, AfterSafesshd, AfterLimits, AfterSysctl, AfterCrontab,
      AfterScan, AfterChronyConf

(* A run that reaches its end has configured the host, whatever the runs   *)
(* before it, finished, failed or interrupted, have left (main and out).   *)
THEOREM Reruns == Spec => RerunConfigures
<1>1. IInv /\ [Next]_vars =>
        [\A r \in Runs :
           (pc[r] = "shell_unlock" /\ pc'[r] = "end" /\ ~raced) =>
             /\ host.sshd = "safe" /\ host.daemon = "safe"
             /\ host.limits = 1 /\ host.crontab = 1 /\ host.profile
             /\ cwd[r] = "repository" => host.sysctl = "ours"
             /\ cmd[r] = "main" => host.repo \in host.fetched
             /\ interrupts = 0 => host.ops = "complete" /\ host.chrony = 4]_vars
  BY EndStep
<1> QED
  BY <1>1, Invariant, PTL DEF Spec, RerunConfigures
-----------------------------------------------------------------------------
(* sshd *)

(* While sshd_config is away somebody is about to put the new one there,   *)
(* and while sshd is down somebody is about to restart it.                 *)
SshdReturns ==
  interrupts = 0 =>
    /\ host.sshd = "none" => \E r \in Runs : pc[r] = "cp_sshd"
    /\ host.daemon = "none" => \E r \in Runs : pc[r] \in {"cp_sshd", "restart_sshd"}

(* What the commands of a run do to sshd_config and to sshd. *)
LEMMA SshdCommands ==
  ASSUME TypeOK, NEW r \in Runs, Steps(r)
  PROVE  /\ \A s \in Runs \ {r} : pc'[s] = pc[s]
         /\ interrupts' = interrupts
         /\ \/ /\ pc[r] \notin {"cp_sshd", "restart_sshd"}
               /\ host'.sshd = host.sshd /\ host'.daemon \in {host.daemon, host.sshd}
            \/ pc'[r] = "cp_sshd" /\ host'.daemon = host.daemon
            \/ pc'[r] = "restart_sshd" /\ host'.sshd = "safe"
            \/ pc[r] = "restart_sshd" /\ host'.sshd = host.sshd /\ host'.daemon = host.sshd
<1> USE DEF TypeOK, Hosts, Do
<1>1. CASE check_lock(r) \/ shell_lock(r) \/ test_ping(r) \/ check_sys(r) \/ shell_unlock(r)
  BY <1>1 DEF check_lock, shell_lock, test_ping, check_sys, shell_unlock
<1>2. CASE install_ops(r)
  BY <1>2 DEF install_ops, Copying
<1>3. CASE update_ops(r)
  BY <1>3 DEF update_ops, Copying
<1>4. CASE Safesshd(r)
  <2>1. CASE Do(r, "Safesshd", IF host.sshd = "safe" THEN "Openfile" ELSE "mv_sshd", host)
    BY <2>1 DEF mv_sshd, cp_sshd
  <2>2. CASE Do(r, "mv_sshd", "cp_sshd", mv_sshd(host))
    BY <2>2 DEF mv_sshd, cp_sshd
  <2>3. CASE Do(r, "cp_sshd", "restart_sshd", cp_sshd(host, cwd[r]))
    BY <2>3 DEF mv_sshd, cp_sshd
  <2>4. CASE Do(r, "restart_sshd", "Openfile", [host EXCEPT !.daemon = host.sshd])
    BY <2>4 DEF mv_sshd, cp_sshd
  <2> QED
    BY <1>4, <2>1, <2>2, <2>3, <2>4 DEF Safesshd
<1>5. CASE Openfile(r)
  BY <1>5 DEF Openfile
<1>6. CASE sysctl(r)
  <2>1. CASE Do(r, "mv_sysctl", "cp_sysctl", mv_sysctl(host))
    BY <2>1 DEF mv_sysctl
  <2>2. CASE Do(r, "cp_sysctl", "grep_crontab",
                [host EXCEPT !.sysctl = IF cwd[r] = "repository" THEN "ours" ELSE @])
    BY <2>2 DEF mv_sysctl
  <2> QED
    BY <1>6, <2>1, <2>2 DEF sysctl
<1>7. CASE add_scan_sshd(r)
  BY <1>7 DEF add_scan_sshd
<1>8. CASE time_ntp(r)
  BY <1>8 DEF time_ntp
<1>9. CASE config_yum(r)
  <2> DEFINE Goal ==
             /\ \A s \in Runs \ {r} : pc'[s] = pc[s]
             /\ interrupts' = interrupts
             /\ \/ /\ pc[r] \notin {"cp_sshd", "restart_sshd"}
                   /\ host'.sshd = host.sshd /\ host'.daemon \in {host.daemon, host.sshd}
                \/ pc'[r] = "cp_sshd" /\ host'.daemon = host.daemon
                \/ pc'[r] = "restart_sshd" /\ host'.sshd = "safe"
                \/ pc[r] = "restart_sshd" /\ host'.sshd = host.sshd /\ host'.daemon = host.sshd
  <2>1. ASSUME NEW page \in Pages, Do(r, "curl", "cmp_repo", fetch(host, page))
        PROVE  Goal
    BY <2>1 DEF fetch
  <2>2. ASSUME NEW part \in {host.tmp} \cup Pages,
               Do(r, "curl", "failed", [host EXCEPT !.lock = FALSE, !.tmp = part])
        PROVE  Goal
    BY <2>2
  <2>3. CASE Do(r, "cmp_repo", IF same_repo(host) THEN "shell_unlock" ELSE "mv_repo", host)
    BY <2>3
  <2>4. CASE Do(r, "mv_repo", "mv_tmp",
                IF host.repo = "none" THEN host
                ELSE [host EXCEPT !.repo = "none", !.repo_bak = host.repo])
    BY <2>4
  <2>5. CASE Do(r, "mv_tmp", "shell_unlock",
                IF host.tmp = "none" THEN host
                ELSE [host EXCEPT !.repo = host.tmp, !.tmp = "none"])
    BY <2>5
  <2> QED
    BY <1>9, <2>1, <2>2, <2>3, <2>4, <2>5 DEF config_yum
<1> QED
  BY <1>1, <1>2, <1>3, <1>4, <1>5, <1>6, <1>7, <1>8, <1>9 DEF Steps

(* However the runs overlap: sshd is up again when all are done.           *)
THEOREM SshdUp == Spec => []SshdComesBack
<1>1. Init => SshdReturns
  BY DEF Init, Fresh, SshdReturns
<1>2. TypeOK /\ SshdReturns /\ [Next]_vars => SshdReturns'
  <2> SUFFICES ASSUME TypeOK, SshdReturns, [Next]_vars PROVE SshdReturns'
    OBVIOUS
  <2>1. ASSUME NEW r \in Runs, Start(r) PROVE SshdReturns'
    <3>1. /\ host' = host /\ interrupts' = interrupts /\ pc[r] = "idle"
          /\ \A s \in Runs \ {r} : pc'[s] = pc[s]
      BY <2>1 DEF Start, Do, TypeOK
    <3> QED
      BY <3>1 DEF SshdReturns
  <2>2. ASSUME NEW r \in Runs, Interrupt(r) PROVE SshdReturns'
    BY <2>2 DEF Interrupt, SshdReturns, TypeOK
  <2>3. ASSUME NEW r \in Runs, Steps(r) PROVE SshdReturns'
    <3>1. /\ \A s \in Runs \ {r} : pc'[s] = pc[s]
          /\ interrupts' = interrupts
      BY <2>3, SshdCommands
    <3>2. CASE /\ pc[r] \notin {"cp_sshd", "restart_sshd"}
               /\ host'.sshd = host.sshd /\ host'.daemon \in {host.daemon, host.sshd}
      BY <3>1, <3>2 DEF SshdReturns
    <3>3. CASE pc'[r] = "cp_sshd" /\ host'.daemon = host.daemon
      BY <3>1, <3>3 DEF SshdReturns
    <3>4. CASE pc'[r] = "restart_sshd" /\ host'.sshd = "safe"
      BY <3>1, <3>4 DEF SshdReturns
    <3>5. CASE pc[r] = "restart_sshd" /\ host'.sshd = host.sshd /\ host'.daemon = host.sshd
      BY <3>1, <3>5 DEF SshdReturns
    <3> QED
      BY <2>3, <3>2, <3>3, <3>4, <3>5, SshdCommands
  <2>4. CASE UNCHANGED vars
    BY <2>4 DEF vars, SshdReturns
  <2> QED
    BY <2>1, <2>2, <2>3, <2>4 DEF Next
<1>3. SshdReturns => SshdComesBack
  BY DEF SshdReturns, SshdComesBack, Running, Stopped
<1> QED
  BY <1>1, <1>2, <1>3, TypeCorrect, PTL DEF Spec
-----------------------------------------------------------------------------
(* The lock file *)

ToolsAgain == {"rm_ops", "update_cp", "update_cp_end", "rm_profile", "update_profile",
               "again_ops", "again_cp", "again_cp_end", "again_profile"}

(* Only update_ops takes the tools away; a lock has an owner.              *)
OwnerInv ==
  /\ \A r \in Runs : pc[r] \in ToolsAgain => cmd[r] = "update_ops"
  /\ ~raced /\ interrupts = 0 /\ host.supported /\ host.lock => \E r \in Runs : Inside(r)

(* What the commands of a run do to the lock.                              *)
LEMMA LockCommands ==
  ASSUME IInv, OwnerInv, NEW r \in Runs, Steps(r)
  PROVE  /\ \A s \in Runs \ {r} : pc'[s] = pc[s]
         /\ interrupts' = interrupts /\ host'.supported = host.supported
         /\ pc'[r] \in ToolsAgain => pc[r] \in ToolsAgain
         /\ host.supported =>
              \/ ~host'.lock
              \/ pc'[r] = "test_ping" /\ cmd[r] \in {"main", "out"}
              \/ host'.lock = host.lock /\ ~Inside(r)
              \/ /\ host'.lock = host.lock
                 /\ pc'[r] \notin Stopped \cup {"check_lock", "shell_lock"}
<1>1. /\ pc \in [Runs -> PCs] /\ host \in Hosts /\ OfCommand(pc[r], cmd[r])
      /\ pc[r] \in ToolsAgain => cmd[r] = "update_ops"
  BY DEF IInv, TypeOK, OwnerInv
<1> USE <1>1 DEF Hosts, Do, ToolsAgain, Stopped
<1>2. CASE check_lock(r)
  BY <1>2 DEF check_lock, Inside, Working
<1>3. CASE shell_lock(r)
  BY <1>3 DEF shell_lock, OfCommand
<1>4. CASE test_ping(r)
  BY <1>4 DEF test_ping
<1>5. CASE check_sys(r)
  BY <1>5 DEF check_sys
<1>6. CASE shell_unlock(r)
  BY <1>6 DEF shell_unlock
<1>7. CASE install_ops(r)
  <2>1. CASE Do(r, "install_ops", IF host.ops = "none" THEN "cp_ops" ELSE "cp_profile", host)
    BY <2>1 DEF Copying
  <2>2. CASE Copying(r, "cp_ops", "cp_ops_end", "cp_profile")
    BY <2>2 DEF Copying
  <2>3. CASE Do(r, "cp_profile", "Safesshd", [host EXCEPT !.profile = TRUE])
    BY <2>3 DEF Copying
  <2> QED
    BY <1>7, <2>1, <2>2, <2>3 DEF install_ops
<1>8. CASE update_ops(r)
  BY <1>8 DEF update_ops, Copying, Inside
<1>9. CASE Safesshd(r)
  <2>1. CASE Do(r, "Safesshd", IF host.sshd = "safe" THEN "Openfile" ELSE "mv_sshd", host)
    BY <2>1 DEF mv_sshd, cp_sshd
  <2>2. CASE Do(r, "mv_sshd", "cp_sshd", mv_sshd(host))
    BY <2>2 DEF mv_sshd, cp_sshd
  <2>3. CASE Do(r, "cp_sshd", "restart_sshd", cp_sshd(host, cwd[r]))
    BY <2>3 DEF mv_sshd, cp_sshd
  <2>4. CASE Do(r, "restart_sshd", "Openfile", [host EXCEPT !.daemon = host.sshd])
    BY <2>4 DEF mv_sshd, cp_sshd
  <2> QED
    BY <1>9, <2>1, <2>2, <2>3, <2>4 DEF Safesshd
<1>10. CASE Openfile(r)
  BY <1>10 DEF Openfile
<1>11. CASE sysctl(r)
  <2>1. CASE Do(r, "mv_sysctl", "cp_sysctl", mv_sysctl(host))
    BY <2>1 DEF mv_sysctl
  <2>2. CASE Do(r, "cp_sysctl", "grep_crontab",
                [host EXCEPT !.sysctl = IF cwd[r] = "repository" THEN "ours" ELSE @])
    BY <2>2 DEF mv_sysctl
  <2> QED
    BY <1>11, <2>1, <2>2 DEF sysctl
<1>12. CASE add_scan_sshd(r)
  <2>1. CASE Do(r, "grep_crontab",
                IF host.crontab > 0 THEN "scan_restart" ELSE "echo_crontab", host)
    BY <2>1 DEF Inside
  <2>2. CASE Do(r, "echo_crontab", "scan_restart", [host EXCEPT !.crontab = @ + 1])
    BY <2>2 DEF Inside
  <2>3. CASE Do(r, "scan_restart", IF cmd[r] = "ssh_FP" THEN "end" ELSE "grep_chrony",
                [host EXCEPT !.daemon = host.sshd])
    BY <2>3 DEF Inside
  <2> QED
    BY <1>12, <2>1, <2>2, <2>3 DEF add_scan_sshd
<1>13. CASE time_ntp(r)
  <2>1. CASE Do(r, "grep_chrony", IF host.chrony < 1 THEN "echo_chrony1" ELSE AfterChrony(r), host)
    BY <2>1 DEF AfterChrony
  <2>2. CASE Do(r, "echo_chrony1", "echo_chrony2", [host EXCEPT !.chrony = @ + 1])
    BY <2>2 DEF AfterChrony
  <2>3. CASE Do(r, "echo_chrony2", "echo_chrony3", [host EXCEPT !.chrony = @ + 1])
    BY <2>3 DEF AfterChrony
  <2>4. CASE Do(r, "echo_chrony3", "echo_chrony4", [host EXCEPT !.chrony = @ + 1])
    BY <2>4 DEF AfterChrony
  <2>5. CASE Do(r, "echo_chrony4", AfterChrony(r), [host EXCEPT !.chrony = @ + 1])
    BY <2>5 DEF AfterChrony
  <2> QED
    BY <1>13, <2>1, <2>2, <2>3, <2>4, <2>5 DEF time_ntp
<1>14. CASE config_yum(r)
  <2> DEFINE Goal ==
             /\ \A s \in Runs \ {r} : pc'[s] = pc[s]
             /\ interrupts' = interrupts /\ host'.supported = host.supported
             /\ pc'[r] \in ToolsAgain => pc[r] \in ToolsAgain
             /\ host.supported =>
                  \/ ~host'.lock
                  \/ pc'[r] = "test_ping" /\ cmd[r] \in {"main", "out"}
                  \/ host'.lock = host.lock /\ ~Inside(r)
                  \/ /\ host'.lock = host.lock
                     /\ pc'[r] \notin Stopped \cup {"check_lock", "shell_lock"}
  <2>1. ASSUME NEW page \in Pages, Do(r, "curl", "cmp_repo", fetch(host, page))
        PROVE  Goal
    BY <2>1 DEF fetch
  <2>2. ASSUME NEW part \in {host.tmp} \cup Pages,
               Do(r, "curl", "failed", [host EXCEPT !.lock = FALSE, !.tmp = part])
        PROVE  Goal
    BY <2>2
  <2>3. CASE Do(r, "cmp_repo", IF same_repo(host) THEN "shell_unlock" ELSE "mv_repo", host)
    BY <2>3
  <2>4. CASE Do(r, "mv_repo", "mv_tmp",
                IF host.repo = "none" THEN host
                ELSE [host EXCEPT !.repo = "none", !.repo_bak = host.repo])
    BY <2>4
  <2>5. CASE Do(r, "mv_tmp", "shell_unlock",
                IF host.tmp = "none" THEN host
                ELSE [host EXCEPT !.repo = host.tmp, !.tmp = "none"])
    BY <2>5
  <2> QED
    BY <1>14, <2>1, <2>2, <2>3, <2>4, <2>5 DEF config_yum
<1> QED
  BY <1>2, <1>3, <1>4, <1>5, <1>6, <1>7, <1>8, <1>9, <1>10, <1>11, <1>12, <1>13, <1>14
  DEF Steps

(* Also a run of a supported host that fails leaves no lock behind:        *)
(* whatever the others find, a lock has an owner.                          *)
THEOREM LockOwned == Spec => []LockIffInside
<1>1. Init => OwnerInv
  BY DEF Init, Fresh, OwnerInv, ToolsAgain
<1>2. IInv /\ OwnerInv /\ [Next]_vars => OwnerInv'
  <2> SUFFICES ASSUME IInv, OwnerInv, [Next]_vars PROVE OwnerInv'
    OBVIOUS
  <2>1. ASSUME NEW r \in Runs, Start(r), RacedNext PROVE OwnerInv'
    <3>1. PICK c \in {"main", "out", "ssh_FP", "update_ops"} :
            /\ cmd' = [cmd EXCEPT ![r] = c]
            /\ Do(r, "idle", CASE c \in {"main", "out"} -> "check_lock"
                               [] c = "ssh_FP" -> "grep_crontab"
                               [] c = "update_ops" -> "rm_ops", host)
      BY <2>1 DEF Start
    <3>2. /\ host' = host /\ interrupts' = interrupts /\ pc[r] = "idle"
          /\ \A s \in Runs \ {r} : pc'[s] = pc[s] /\ cmd'[s] = cmd[s]
          /\ pc'[r] \in ToolsAgain => cmd'[r] = "update_ops"
      BY <3>1 DEF Do, IInv, TypeOK, ToolsAgain
    <3>3. \A s \in Runs : Inside(s) => s # r /\ Inside(s)'
      BY <3>2 DEF Inside, Working, Running, Stopped
    <3>4. raced => raced'
      BY <2>1 DEF RacedNext
    <3> QED
      BY <3>2, <3>3, <3>4 DEF OwnerInv
  <2>2. ASSUME NEW r \in Runs, Interrupt(r), UNCHANGED <<cmd, cwd>> PROVE OwnerInv'
    <3>1. /\ interrupts' # 0 /\ pc'[r] = "failed"
          /\ \A s \in Runs \ {r} : pc'[s] = pc[s]
      BY <2>2 DEF Interrupt, IInv, TypeOK
    <3> QED
      BY <2>2, <3>1 DEF OwnerInv, ToolsAgain
  <2>3. ASSUME NEW r \in Runs, Steps(r), UNCHANGED <<cmd, cwd>>, RacedNext PROVE OwnerInv'
    <3>1. /\ \A s \in Runs \ {r} : pc'[s] = pc[s]
          /\ interrupts' = interrupts /\ host'.supported = host.supported
          /\ pc'[r] \in ToolsAgain => pc[r] \in ToolsAgain
          /\ host.supported =>
               \/ ~host'.lock
               \/ pc'[r] = "test_ping" /\ cmd[r] \in {"main", "out"}
               \/ host'.lock = host.lock /\ ~Inside(r)
               \/ /\ host'.lock = host.lock
                  /\ pc'[r] \notin Stopped \cup {"check_lock", "shell_lock"}
      BY <2>3, LockCommands
    <3>2. \A s \in Runs \ {r} : Inside(s) => Inside(s)'
      BY <2>3, <3>1 DEF Inside, Working, Running
    <3>3. ASSUME pc'[r] = "test_ping" /\ cmd[r] \in {"main", "out"} PROVE Inside(r)'
      BY <2>3, <3>3 DEF Inside, Working, Running, Stopped
    <3>4. ASSUME Inside(r), pc'[r] \notin Stopped \cup {"check_lock", "shell_lock"}
          PROVE  Inside(r)'
      BY <2>3, <3>4 DEF Inside, Working, Running
    <3>5. raced => raced'
      BY <2>3 DEF RacedNext
    <3>6. ASSUME ~raced', interrupts' = 0, host'.supported, host'.lock
          PROVE  \E s \in Runs : Inside(s)'
      BY <3>1, <3>2, <3>3, <3>4, <3>5, <3>6 DEF OwnerInv
    <3>7. \A s \in Runs : pc'[s] \in ToolsAgain => cmd'[s] = "update_ops"
      BY <2>3, <3>1 DEF OwnerInv
    <3> QED
      BY <3>6, <3>7 DEF OwnerInv
  <2>4. CASE UNCHANGED vars
    BY <2>4 DEF vars, OwnerInv, Inside, Working, Running
  <2> QED
    BY <2>1, <2>2, <2>3, <2>4 DEF Next, RacedNext
<1>3. IInv /\ OwnerInv => LockIffInside
  BY DEF IInv, TurnsInv, OwnerInv, LockIffInside
<1> QED
  BY <1>1, <1>2, <1>3, Invariant, PTL DEF Spec
=============================================================================
