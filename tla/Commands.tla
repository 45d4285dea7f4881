------------------------------ MODULE Commands ------------------------------
(***************************************************************************)
(* The commands start, stop and restart (cli), which are processes of      *)
(* their own and share the PID file, and the servers they start and stop.  *)
(* A system call of a command is a step: between two of them other         *)
(* commands run, the server ends, and the system gives its identifier to   *)
(* another process.  The two seconds a command polls may end at any point  *)
(* of the server's shutdown, which has ten.                                *)
(***************************************************************************)
EXTENDS Integers, FiniteSets

CONSTANTS Cmds,      \* commands that may run at the same time
          Pids,      \* process identifiers
          MaxOthers, \* bound: processes that are no server
          NoPid,
          Garbage    \* a PID file that does not parse: cut short, or not written yet

ASSUME CommandsAssumption == NoPid \notin Pids /\ Garbage \notin Pids \cup {NoPid}

Ended == {"done", "failed"}
Steps == {"read", "running", "matches", "request", "insist", "poll", "recheck", "rematch",
          "force", "remove", "spawn", "truncate", "write", "kill"}

\* A server runs, from its start to its end: `termed' has its signal and still its port,
\* `draining' has closed it.
Alive == {"starting", "serving", "termed", "draining"}
\* `killed' has SIGKILL and is about to end; `zombie' ended before its parent; `alike' is
\* no server but has leoxy in its command line; `other' has not.
States == Alive \cup {"free", "killed", "zombie", "alike", "other"}

VARIABLES pc, kind,
          target,     \* the pid of a stop or restart, and of start's check
          child,      \* the server a command started
          pidFile,    \* NoPid if there is none
          proc, port,
          gone,       \* history: the process a command looked at has ended
          overlapped  \* history: commands ran at the same time

cmds == <<pc, kind, target, child>>
vars == <<cmds, pidFile, proc, port, gone, overlapped>>

Busy(c) == pc[c] \in Steps
Named   == \A p \in Pids : proc[p] \in Alive => pidFile = p

Init == /\ pc = [c \in Cmds |-> "done"] /\ kind = [c \in Cmds |-> "start"]
        /\ target = [c \in Cmds |-> NoPid] /\ child = [c \in Cmds |-> NoPid]
        /\ pidFile = NoPid
        /\ proc = [p \in Pids |-> "free"] /\ port = NoPid
        /\ gone = [c \in Cmds |-> FALSE] /\ overlapped = FALSE

\* syscall.Kill(pid, 0); /proc/pid/cmdline, with TRUE when it cannot be read.
Running(p) == proc[p] # "free"
Matches(p) == proc[p] \in Alive \cup {"killed", "alike", "free"}

\* c goes on at `to'; at its end the system reaps a child that has ended.
Reaped(c) == [p \in Pids |-> IF p = child[c] /\ proc[p] = "zombie" THEN "free" ELSE proc[p]]
To(c, to) == pc' = [pc EXCEPT ![c] = to]
Goes(c, to) == To(c, to) /\ proc' = IF to \in Ended THEN Reaped(c) ELSE proc
-----------------------------------------------------------------------------
Invoke(c, k) == /\ ~Busy(c)
                /\ pc' = [pc EXCEPT ![c] = "read"] /\ kind' = [kind EXCEPT ![c] = k]
                /\ target' = [target EXCEPT ![c] = NoPid] /\ child' = [child EXCEPT ![c] = NoPid]
                /\ overlapped' = IF \E d \in Cmds : Busy(d) THEN TRUE ELSE overlapped /\ ~Named
                /\ gone' = [gone EXCEPT ![c] = FALSE]
                /\ UNCHANGED <<pidFile, proc, port>>

ReadUnparsed(c) == \* mutant of Read: the error of the conversion is dropped
  /\ pc[c] = "read"
  /\ target' = [target EXCEPT ![c] = pidFile]
  /\ Goes(c, IF pidFile # NoPid THEN "running" ELSE IF kind[c] = "start" THEN "spawn" ELSE "failed")
  /\ UNCHANGED <<kind, child, pidFile, port, gone, overlapped>>
Read(c) == /\ pc[c] = "read"
           /\ IF pidFile \in Pids
              THEN Goes(c, "running") /\ target' = [target EXCEPT ![c] = pidFile]
              ELSE Goes(c, IF kind[c] = "start" THEN "spawn" ELSE "failed") /\ UNCHANGED target
           /\ UNCHANGED <<kind, child, pidFile, port, gone, overlapped>>

\* The process is not there, or not the server: start starts one, the others end.
NoServer(c) == IF kind[c] = "start" THEN Goes(c, "spawn") /\ UNCHANGED pidFile
               ELSE Goes(c, "failed") /\ pidFile' = NoPid

CheckRunningOnly(c) == \* mutant of CheckRunning: a process that runs is taken for the server
  /\ pc[c] = "running"
  /\ IF ~Running(target[c]) THEN NoServer(c)
     ELSE Goes(c, IF kind[c] = "start" THEN "failed" ELSE "request") /\ UNCHANGED pidFile
  /\ UNCHANGED <<kind, target, child, port, gone, overlapped>>
CheckRunning(c) == /\ pc[c] = "running"
                   /\ IF Running(target[c]) THEN Goes(c, "matches") /\ UNCHANGED pidFile
                      ELSE NoServer(c)
                   /\ UNCHANGED <<kind, target, child, port, gone, overlapped>>

CheckIgnored(c) == \* mutant of CheckMatches: start goes on although a server runs
  /\ pc[c] = "matches"
  /\ IF Matches(target[c]) /\ kind[c] # "start" THEN Goes(c, "request") /\ UNCHANGED pidFile
     ELSE NoServer(c)
  /\ gone' = [gone EXCEPT ![c] = ~Running(target[c])]
  /\ UNCHANGED <<kind, target, child, port, overlapped>>
CheckMatches(c) == /\ pc[c] = "matches"
                   /\ IF Matches(target[c])
                      THEN Goes(c, IF kind[c] = "start" THEN "failed" ELSE "request") /\ UNCHANGED pidFile
                      ELSE NoServer(c)
                   /\ gone' = [gone EXCEPT ![c] = ~Running(target[c])]
                   /\ UNCHANGED <<kind, target, child, port, overlapped>>

\* SIGTERM: a server that has not asked for signals yet, and any other process, may end
\* of it; a server that has asked drains.
Terminated(s) == CASE s = "serving"  -> {"termed"}
                   [] s = "starting" -> {"killed", "draining"}
                   [] s \in {"alike", "other"} -> {s, "killed"}
                   [] OTHER -> {s}
Request(c) == /\ pc[c] = "request"
              /\ IF Running(target[c])
                 THEN /\ \E s \in Terminated(proc[target[c]]) : proc' = [proc EXCEPT ![target[c]] = s]
                      /\ To(c, "poll")
                 ELSE Goes(c, "insist")
              /\ UNCHANGED <<kind, target, child, pidFile, port, gone, overlapped>>

\* SIGKILL, and what the command does if the process is not there.
Kill(c, then) == IF Running(target[c])
                 THEN /\ proc' = [proc EXCEPT ![target[c]] = IF @ = "zombie" THEN @ ELSE "killed"]
                      /\ To(c, then) /\ UNCHANGED pidFile
                 ELSE Goes(c, "failed") /\ pidFile' = NoPid
Insist(c) == /\ pc[c] = "insist" /\ Kill(c, "poll")
             /\ UNCHANGED <<kind, target, child, port, gone, overlapped>>

\* The loop ends when the process is gone, or after two seconds.
Poll(c) == /\ pc[c] = "poll" /\ Goes(c, "recheck")
           /\ UNCHANGED <<kind, target, child, pidFile, port, gone, overlapped>>

RecheckTrusts(c) == \* mutant of Recheck: the signal is taken for the end
  /\ pc[c] = "recheck" /\ Goes(c, "remove")
  /\ UNCHANGED <<kind, target, child, pidFile, port, gone, overlapped>>
Recheck(c) == /\ pc[c] = "recheck"
              /\ Goes(c, IF ~Running(target[c]) THEN "remove"
                         ELSE IF kind[c] = "stop" THEN "force" ELSE "rematch")
              /\ UNCHANGED <<kind, target, child, pidFile, port, gone, overlapped>>

\* restart only: the identifier may belong to another process by now.
Rematch(c) == /\ pc[c] = "rematch"
              /\ IF Matches(target[c]) THEN Goes(c, "force") /\ UNCHANGED pidFile
                 ELSE Goes(c, "failed") /\ pidFile' = NoPid
              /\ UNCHANGED <<kind, target, child, port, gone, overlapped>>

ForceKill(c) == /\ pc[c] = "force" /\ Kill(c, "remove")
            /\ UNCHANGED <<kind, target, child, port, gone, overlapped>>

Remove(c) == /\ pc[c] = "remove"
             /\ pidFile' = NoPid
             /\ Goes(c, IF kind[c] = "stop" THEN "done" ELSE "spawn")
             /\ UNCHANGED <<kind, target, child, port, gone, overlapped>>

Spawn(c) == /\ pc[c] = "spawn"
            /\ \/ \E p \in Pids : /\ proc[p] = "free"
                                  /\ proc' = [proc EXCEPT ![p] = "starting"]
                                  /\ child' = [child EXCEPT ![c] = p]
                                  /\ To(c, "truncate")
               \/ Goes(c, "failed") /\ UNCHANGED child
            /\ UNCHANGED <<kind, target, pidFile, port, gone, overlapped>>

\* os.WriteFile: the file is emptied, then written; each may fail.
Truncate(c) == /\ pc[c] = "truncate"
               /\ \/ Goes(c, "write") /\ pidFile' = Garbage
                  \/ Goes(c, "kill") /\ UNCHANGED pidFile
               /\ UNCHANGED <<kind, target, child, port, gone, overlapped>>

Write(c) == /\ pc[c] = "write"
            /\ \/ Goes(c, "done") /\ pidFile' = child[c]
               \/ Goes(c, "kill") /\ UNCHANGED pidFile
            /\ UNCHANGED <<kind, target, child, port, gone, overlapped>>

KillChildNot(c) == \* mutant of KillChild: the error is returned at once
  /\ pc[c] = "kill" /\ Goes(c, "failed")
  /\ UNCHANGED <<kind, target, child, pidFile, port, gone, overlapped>>
KillChild(c) == /\ pc[c] = "kill"
                /\ proc' = [proc EXCEPT ![child[c]] = IF @ = "zombie" THEN "free" ELSE "killed"]
                /\ To(c, "failed")
                /\ UNCHANGED <<kind, target, child, pidFile, port, gone, overlapped>>
-----------------------------------------------------------------------------
(* The servers *)

\* A process ends.
End(p) == /\ proc' = [proc EXCEPT ![p] = IF \E c \in Cmds : child[c] = p /\ Busy(c)
                                         THEN "zombie" ELSE "free"]
          /\ port' = IF port = p THEN NoPid ELSE port
          /\ gone' = [c \in Cmds |-> gone[c] \/ target[c] = p]
          /\ UNCHANGED <<cmds, pidFile, overlapped>>

Bind(p) == /\ proc[p] = "starting"
           /\ IF port = NoPid
              THEN /\ proc' = [proc EXCEPT ![p] = "serving"] /\ port' = p
                   /\ UNCHANGED <<cmds, pidFile, gone, overlapped>>
              ELSE End(p)

Shutdown(p) == /\ proc[p] = "termed"
               /\ proc' = [proc EXCEPT ![p] = "draining"] /\ port' = NoPid
               /\ UNCHANGED <<cmds, pidFile, gone, overlapped>>

Drained(p) == proc[p] = "draining" /\ End(p)
Dies(p)    == proc[p] = "killed" /\ End(p)
Server(p)  == Bind(p) \/ Shutdown(p) \/ Drained(p) \/ Dies(p)

(* The world: servers crash, and other processes come and go *)

Crash(p) == proc[p] \in Alive \cup {"alike", "other"} /\ End(p)

Others == {p \in Pids : proc[p] \in {"alike", "other"}}
Comes(p, s) == /\ proc[p] = "free" /\ Cardinality(Others) < MaxOthers
               /\ proc' = [proc EXCEPT ![p] = s]
               /\ UNCHANGED <<cmds, pidFile, port, gone, overlapped>>
-----------------------------------------------------------------------------
Command(c) == \/ Read(c) \/ CheckRunning(c) \/ CheckMatches(c) \/ Request(c) \/ Insist(c)
              \/ Poll(c) \/ Recheck(c) \/ Rematch(c) \/ ForceKill(c) \/ Remove(c)
              \/ Spawn(c) \/ Truncate(c) \/ Write(c) \/ KillChild(c)

Next == \/ \E c \in Cmds : Command(c) \/ \E k \in {"start", "stop", "restart"} : Invoke(c, k)
        \/ \E p \in Pids : Server(p) \/ Crash(p) \/ \E s \in {"alike", "other"} : Comes(p, s)

Spec == Init /\ [][Next]_vars
-----------------------------------------------------------------------------
TypeOK ==
  /\ pc \in [Cmds -> Steps \cup Ended] /\ kind \in [Cmds -> {"start", "stop", "restart"}]
  /\ target \in [Cmds -> Pids \cup {NoPid}] /\ child \in [Cmds -> Pids \cup {NoPid}]
  /\ pidFile \in Pids \cup {NoPid, Garbage}
  /\ proc \in [Pids -> States]
  /\ port # NoPid => port \in Pids /\ proc[port] \in {"serving", "termed", "killed"}
  /\ gone \in [Cmds -> BOOLEAN] /\ overlapped \in BOOLEAN
  /\ \A c \in Cmds : pc[c] \in {"truncate", "write", "kill"} => proc[child[c]] # "free"

\* docs/cli.md: "Leoxy ... stores the process ID in leoxy/keys/leoxy.pid" - where commands
\* do not overlap, every server that runs is the one the PID file names once the command
\* is over, so that the next one finds it: whatever failed, crashed or was slow to end.
NamedServer == (\A c \in Cmds : ~Busy(c)) /\ ~overlapped => Named

\* A start or restart that reports an error leaves no server of its own behind, also when
\* other commands run at the same time.
FailedStartLeavesNothing ==
  [][\A c \in Cmds : Busy(c) /\ pc'[c] = "failed" /\ child[c] # NoPid =>
       proc'[child[c]] \notin Alive]_vars

\* A stop that reports success has ended the process it found, or killed it.
StopMeansStopped ==
  \A c \in Cmds : pc[c] = "done" /\ kind[c] = "stop" => gone[c] \/ proc[target[c]] = "killed"

\* What the commands say of servers is so: none runs that the file does not name, and none
\* runs on that was stopped.
ServersAccounted == TypeOK /\ NamedServer /\ StopMeansStopped

\* A process without leoxy in its command line is killed only if it took the identifier of
\* one that the command had looked at: never because a PID file is stale.
StrangersSpared ==
  [][\A p \in Pids : proc[p] = "other" /\ proc'[p] = "killed" =>
       \E c \in Cmds : target[c] = p /\ gone[c]]_vars
=============================================================================
