--------------------------- MODULE CommandsProofs ---------------------------
(***************************************************************************)
(* Commands proved for any number of commands, identifiers and other       *)
(* processes: what the commands say of the servers, and whom they kill;    *)
(* and Readiness, which says of a server that runs whether it can serve,   *)
(* for any requests, groups of targets and times.                          *)
(***************************************************************************)
EXTENDS Commands, Readiness, FiniteSetTheorems, TLAPS

USE CommandsAssumption
-----------------------------------------------------------------------------
(* The invariant *)

\* From where on a command has seen who its target is; and where it has a server.
Looked   == {"request", "insist", "poll", "recheck", "rematch", "force"}
Spawning == {"truncate", "write", "kill"}

\* A command has a target from the read of the PID file to its end, and only one that is
\* no stop starts a server.
Course(c) ==
  /\ pc[c] \in Looked \cup {"running", "matches", "remove"} => target[c] \in Pids
  /\ pc[c] = "done" /\ kind[c] = "stop" => target[c] \in Pids
  /\ pc[c] \in {"spawn"} \cup Spawning => kind[c] # "stop"

\* The identifier of a child is not given to another process while its parent runs.
Parent(c) ==
  /\ pc[c] \in Spawning => child[c] \in Pids
  /\ Busy(c) /\ child[c] # NoPid =>
       /\ pc[c] \in Spawning /\ proc[child[c]] \in Alive \cup {"killed", "zombie"}
       /\ \A d \in Cmds : Busy(d) /\ child[d] = child[c] => d = c

\* A process that a command has seen, and that has not ended since, is no stranger; one
\* that it has stopped is killed.
Seen(c) ==
  ~gone[c] => /\ pc[c] \in Looked => proc[target[c]] \in Alive \cup {"killed", "alike"}
              /\ pc[c] = "remove" \/ (pc[c] = "done" /\ kind[c] = "stop") =>
                   proc[target[c]] = "killed"

OnlyAlive(S) == \A p \in Pids : proc[p] \in Alive => p \in S

\* Where commands do not overlap: which servers may run, at each step of the one command.
Naming(c) ==
  /\ pc[c] = "read" => Named
  /\ pc[c] \in Looked \cup {"running", "matches"} => Named /\ pidFile = target[c]
  /\ pc[c] \in {"remove", "spawn"} => OnlyAlive({})
  /\ pc[c] \in Spawning => OnlyAlive({child[c]})
Alone == ~overlapped => /\ \A c, d \in Cmds : Busy(c) /\ Busy(d) => c = d
                        /\ \A c \in Cmds : Naming(c)
                        /\ (\A c \in Cmds : ~Busy(c)) => Named

Courses == \A c \in Cmds : Course(c)
Parents == \A c \in Cmds : Parent(c)
Sights  == \A c \in Cmds : Seen(c)
IInv == TypeOK /\ Courses /\ Parents /\ Sights /\ Alone
-----------------------------------------------------------------------------
(* What a step may do *)

Steady(d) == /\ pc'[d] = pc[d] /\ kind'[d] = kind[d] /\ target'[d] = target[d]
             /\ child'[d] = child[d] /\ (gone[d] => gone'[d])

\* A process keeps its state, ends or is reaped, is killed, or goes on as a server; an
\* identifier that is free is given away.
Moves(p) == \/ proc'[p] = proc[p]
            \/ proc'[p] \in {"zombie", "free"} /\ \A c \in Cmds : target'[c] = p => gone'[c]
            \/ proc[p] = "zombie" /\ proc'[p] = "free"
            \/ proc[p] \notin {"free", "zombie"} /\ proc'[p] = "killed"
            \/ proc[p] \in Alive /\ proc'[p] \in Alive
            \/ proc[p] = "free" /\ proc'[p] \in {"alike", "other"}
            \/ /\ proc[p] = "free" /\ proc'[p] = "starting"
               /\ \E c \in Cmds : pc[c] = "spawn"

\* A step of command c moves no other command.
LEMMA OthersSteady ==
  ASSUME TypeOK, NEW c \in Cmds, Command(c)
  PROVE  /\ \A d \in Cmds \ {c} : Steady(d)
         /\ kind' = kind /\ overlapped' = overlapped /\ port' = port /\ Busy(c)
BY DEF TypeOK, Steady, Command, Read, CheckRunning, CheckMatches, NoServer, Request, Insist,
       Kill, Poll, Recheck, Rematch, ForceKill, Remove, Spawn, Truncate, Write, KillChild, Goes,
       To, Busy, Steps

LEMMA CommandMoves ==
  ASSUME TypeOK, Parents, NEW c \in Cmds, Command(c)
  PROVE  \A p \in Pids : Moves(p)
<1> USE DEF TypeOK, Moves, Goes, To, Busy, Steps
<1>1. ASSUME pc'[c] \in Ended, proc' = Reaped(c) PROVE \A p \in Pids : Moves(p)
  BY <1>1 DEF Reaped
<1>2. ASSUME UNCHANGED proc PROVE \A p \in Pids : Moves(p)
  BY <1>2
<1>3. ASSUME NEW to \in Steps \cup Ended, Goes(c, to) PROVE \A p \in Pids : Moves(p)
  BY <1>1, <1>2, <1>3
<1>4. ASSUME NEW to \in Steps, Kill(c, to) PROVE \A p \in Pids : Moves(p)
  BY <1>3, <1>4 DEF Kill, Running, Ended
<1>5. CASE Request(c)
  BY <1>3, <1>5 DEF Request, Running, Terminated, Alive, Ended
<1>6. CASE Spawn(c)
  BY <1>3, <1>6 DEF Spawn, Ended
<1>7. CASE KillChild(c)
  BY <1>7 DEF KillChild, Parents, Parent, Alive, Spawning
<1>8. CASE Read(c) \/ CheckRunning(c) \/ CheckMatches(c) \/ Poll(c) \/ Recheck(c) \/ Rematch(c)
  BY <1>3, <1>8 DEF Read, CheckRunning, CheckMatches, NoServer, Poll, Recheck, Rematch, Ended
<1>9. CASE Remove(c) \/ Truncate(c) \/ Write(c)
  BY <1>3, <1>9 DEF Remove, Truncate, Write, Ended
<1>10. CASE Insist(c) \/ ForceKill(c)
  BY <1>4, <1>10 DEF Insist, ForceKill
<1> QED BY <1>5, <1>6, <1>7, <1>8, <1>9, <1>10 DEF Command

\* What servers and the world do moves no command.
WorldStep == \E p \in Pids : Server(p) \/ Crash(p) \/ \E s \in {"alike", "other"} : Comes(p, s)

LEMMA WorldMoves ==
  ASSUME TypeOK, WorldStep
  PROVE  /\ UNCHANGED <<cmds, pidFile, overlapped>> /\ \A c \in Cmds : Steady(c)
         /\ \A p \in Pids : /\ Moves(p)
                            /\ proc'[p] = proc[p] \/ proc'[p] # "free"
                               \/ ~\E c \in Cmds : child[c] = p /\ Busy(c)
<1> DEFINE Held(p) == \E c \in Cmds : child[c] = p /\ Busy(c)
           Goal == /\ UNCHANGED <<cmds, pidFile, overlapped>> /\ \A c \in Cmds : Steady(c)
                   /\ \A p \in Pids : /\ Moves(p)
                                      /\ proc'[p] = proc[p] \/ proc'[p] # "free" \/ ~Held(p)
<1>1. ASSUME NEW p \in Pids, End(p) PROVE Goal
  <2>1. /\ UNCHANGED <<pc, kind, target, child, pidFile, overlapped>>
        /\ proc' = [proc EXCEPT ![p] = IF Held(p) THEN "zombie" ELSE "free"]
        /\ gone' = [c \in Cmds |-> gone[c] \/ target[c] = p]
    BY <1>1 DEF End, cmds
  <2> QED BY <2>1 DEF TypeOK, Steady, Moves, cmds
<1>2. ASSUME NEW p \in Pids, NEW s \in States, proc' = [proc EXCEPT ![p] = s],
             UNCHANGED <<cmds, pidFile, gone, overlapped>>, s # "free",
             \/ proc[p] \in Alive /\ s \in Alive
             \/ proc[p] = "free" /\ s \in {"alike", "other"}
      PROVE  Goal
  BY <1>2 DEF TypeOK, Steady, Moves, cmds
<1>3. PICK p \in Pids : Server(p) \/ Crash(p) \/ \E s \in {"alike", "other"} : Comes(p, s)
  BY DEF WorldStep
<1>4. CASE Bind(p)
  BY <1>1, <1>2, <1>4 DEF Bind, Alive, States
<1>5. CASE Shutdown(p)
  BY <1>2, <1>5 DEF Shutdown, Alive, States
<1>6. CASE Drained(p) \/ Dies(p) \/ Crash(p)
  BY <1>1, <1>6 DEF Drained, Dies, Crash
<1>7. ASSUME NEW s \in {"alike", "other"}, Comes(p, s) PROVE Goal
  BY <1>2, <1>7 DEF Comes, States
<1> QED BY <1>3, <1>4, <1>5, <1>6, <1>7 DEF Server

LEMMA InvokeSteady ==
  ASSUME TypeOK, NEW c \in Cmds, NEW k, Invoke(c, k)
  PROVE  /\ \A d \in Cmds \ {c} : Steady(d)
         /\ UNCHANGED <<proc, port, pidFile>> /\ \A p \in Pids : Moves(p)
         /\ pc'[c] = "read" /\ child'[c] = NoPid /\ ~Busy(c)
BY DEF TypeOK, Invoke, Steady, Moves
-----------------------------------------------------------------------------
(* Every step keeps the invariant *)

LEMMA CourseStep == TypeOK /\ Courses /\ [Next]_vars => Courses'
<1> SUFFICES ASSUME TypeOK, Courses, [Next]_vars PROVE Courses'
  OBVIOUS
<1> USE DEF Courses, Course, Steady, Looked, Spawning
<1>1. ASSUME NEW c \in Cmds, Command(c) PROVE Courses'
  <2>1. Course(c)'
    BY <1>1 DEF TypeOK, Command, Read, CheckRunning, CheckMatches, NoServer, Request, Insist,
                Kill, Poll, Recheck, Rematch, ForceKill, Remove, Spawn, Truncate, Write,
                KillChild, Goes, To
  <2> QED BY <1>1, <2>1, OthersSteady
<1>2. ASSUME NEW c \in Cmds, NEW k \in {"start", "stop", "restart"}, Invoke(c, k) PROVE Courses'
  BY <1>2, InvokeSteady
<1>3. CASE WorldStep
  BY <1>3, WorldMoves
<1>4. CASE UNCHANGED vars
  BY <1>4 DEF vars, cmds
<1> QED BY <1>1, <1>2, <1>3, <1>4 DEF Next, WorldStep

LEMMA ParentStep == TypeOK /\ Courses /\ Parents /\ [Next]_vars => Parents'
<1> SUFFICES ASSUME TypeOK, Courses, Parents, [Next]_vars PROVE Parents'
  OBVIOUS
<1> USE DEF Parents, Parent, Spawning, Alive
\* Only the end of its parent reaps a child.
<1>1. ASSUME NEW d \in Cmds, Steady(d), NEW p \in Pids, p = child[d], Busy(d), Moves(p),
             proc'[p] = "free" => proc[p] = "free"
      PROVE  proc'[p] \in Alive \cup {"killed", "zombie"}
  BY <1>1 DEF Moves, TypeOK
<1>2. ASSUME NEW c \in Cmds, Command(c) PROVE Parents'
  <2>1. \A d \in Cmds \ {c} : Steady(d)
    BY <1>2, OthersSteady
  <2>2. \A p \in Pids : Moves(p)
    BY <1>2, CommandMoves
  <2>3. ASSUME NEW p \in Pids, p # child[c], proc'[p] = "free" PROVE proc[p] = "free"
    BY <1>2, <2>3
       DEF TypeOK, Command, Read, CheckRunning, CheckMatches, NoServer, Request, Terminated,
           Running, Insist, Kill, Poll, Recheck, Rematch, ForceKill, Remove, Spawn, Truncate,
           Write, KillChild, Goes, To, Reaped, Ended, Steps
  <2>4. CASE Spawn(c) /\ child' # child
    <3>1. PICK p \in Pids : /\ proc[p] = "free" /\ proc' = [proc EXCEPT ![p] = "starting"]
                            /\ child' = [child EXCEPT ![c] = p] /\ To(c, "truncate")
      BY <2>4 DEF Spawn
    <3>2. Parent(c)'
      BY <2>1, <3>1 DEF TypeOK, To, Busy, Steady
    <3>3. ASSUME NEW d \in Cmds \ {c} PROVE Parent(d)'
      BY <2>1, <3>1 DEF TypeOK, To, Busy, Steady
    <3> QED BY <3>2, <3>3
  <2>5. CASE UNCHANGED child
    <3>1. ASSUME Busy(c)' PROVE pc[c] \in Spawning <=> pc'[c] \in Spawning
      BY <1>2, <2>5, <3>1
         DEF TypeOK, Command, Read, CheckRunning, CheckMatches, NoServer, Request, Insist, Kill,
             Poll, Recheck, Rematch, ForceKill, Remove, Spawn, Truncate, Write, KillChild, Goes,
             To, Busy, Steps, Ended
    <3>2. Busy(c)
      BY <1>2, OthersSteady
    <3>3. ASSUME NEW d \in Cmds \ {c} PROVE Parent(d)'
      <4>1. Steady(d)
        BY <2>1
      <4>2. ASSUME Busy(d), child[d] # NoPid PROVE proc'[child[d]] \in Alive \cup {"killed", "zombie"}
        <5>1. child[d] \in Pids /\ child[d] # child[c]
          BY <3>2, <4>2 DEF TypeOK
        <5> QED BY <1>1, <2>2, <2>3, <4>1, <4>2, <5>1
      <4> QED BY <2>1, <2>5, <3>2, <4>1, <4>2 DEF Steady, Busy
    <3>4. Parent(c)'
      <4>1. CASE ~Busy(c)'
        BY <2>5, <4>1 DEF Busy, Steps
      <4>2. CASE Busy(c)' /\ pc[c] \in Spawning
        <5>1. proc' = proc
          BY <1>2, <4>2
             DEF TypeOK, Command, Read, CheckRunning, CheckMatches, Request, Insist, Poll, Recheck,
                 Rematch, ForceKill, Remove, Spawn, Truncate, Write, KillChild, Goes, To, Busy,
                 Steps, Ended
        <5> QED BY <2>1, <2>5, <3>1, <3>2, <4>2, <5>1 DEF TypeOK, Busy, Steady
      <4>3. CASE Busy(c)' /\ pc[c] \notin Spawning
        BY <2>5, <3>1, <3>2, <4>3
      <4> QED BY <4>1, <4>2, <4>3
    <3> QED BY <3>3, <3>4
  <2>6. child' = child \/ Spawn(c)
    BY <1>2 DEF Command, Read, CheckRunning, CheckMatches, Request, Insist, Poll, Recheck, Rematch,
                ForceKill, Remove, Truncate, Write, KillChild
  <2> QED BY <2>4, <2>5, <2>6
<1>3. ASSUME NEW c \in Cmds, NEW k \in {"start", "stop", "restart"}, Invoke(c, k) PROVE Parents'
  BY <1>3, InvokeSteady DEF Steady, Busy
<1>4. CASE WorldStep
  <2>1. UNCHANGED cmds /\ \A d \in Cmds : Steady(d)
    BY <1>4, WorldMoves
  <2>2. ASSUME NEW d \in Cmds, Busy(d), child[d] # NoPid
        PROVE  proc'[child[d]] \in Alive \cup {"killed", "zombie"}
    <3>1. child[d] \in Pids
      BY <2>2 DEF TypeOK
    <3>2. Moves(child[d]) /\ (proc'[child[d]] = "free" => proc[child[d]] = "free")
      BY <1>4, <2>2, <3>1, WorldMoves
    <3> QED BY <1>1, <2>1, <2>2, <3>1, <3>2
  <2> QED BY <2>1, <2>2 DEF cmds, Busy
<1>5. CASE UNCHANGED vars
  BY <1>5 DEF vars, cmds, Busy
<1> QED BY <1>2, <1>3, <1>4, <1>5 DEF Next, WorldStep

LEMMA TypeStep == TypeOK /\ Courses /\ Parents /\ [Next]_vars => TypeOK'
<1> SUFFICES ASSUME TypeOK, Courses, Parents, [Next]_vars PROVE TypeOK'
  OBVIOUS
<1>1. \A c \in Cmds : pc'[c] \in Spawning => proc'[child'[c]] # "free"
  <2>1. Parents'
    BY ParentStep
  <2> QED BY <2>1 DEF Parents, Parent, Spawning, Busy, Steps, Alive
<1> DEFINE Types == /\ pc' \in [Cmds -> Steps \cup Ended] /\ kind' \in [Cmds -> {"start", "stop", "restart"}]
                    /\ target' \in [Cmds -> Pids \cup {NoPid}] /\ child' \in [Cmds -> Pids \cup {NoPid}]
                    /\ pidFile' \in Pids \cup {NoPid, Garbage}
                    /\ proc' \in [Pids -> States]
                    /\ gone' \in [Cmds -> BOOLEAN] /\ overlapped' \in BOOLEAN
           Ports == port' # NoPid => port' \in Pids /\ proc'[port'] \in {"serving", "termed", "killed"}
<1>2. ASSUME NEW c \in Cmds, Command(c) PROVE Types /\ Ports
  <2>0. \E to \in Steps \cup Ended : pc' = [pc EXCEPT ![c] = to]
    BY <1>2 DEF Command, Read, CheckRunning, CheckMatches, NoServer, Request, Insist, Kill, Poll,
                Recheck, Rematch, ForceKill, Remove, Spawn, Truncate, Write, KillChild, Goes, To,
                Steps, Ended
  <2>1. /\ pc' \in [Cmds -> Steps \cup Ended] /\ kind' = kind /\ gone' \in [Cmds -> BOOLEAN]
        /\ target' \in [Cmds -> Pids \cup {NoPid}] /\ child' \in [Cmds -> Pids \cup {NoPid}]
        /\ UNCHANGED <<port, overlapped>>
    <3>1. pc' \in [Cmds -> Steps \cup Ended]
      BY <2>0 DEF TypeOK
    <3>2. UNCHANGED <<kind, port, overlapped>>
      BY <1>2, OthersSteady
    <3>3. gone' \in [Cmds -> BOOLEAN] /\ target' \in [Cmds -> Pids \cup {NoPid}]
          /\ child' \in [Cmds -> Pids \cup {NoPid}]
      BY <1>2 DEF TypeOK, Running, Command, Read, CheckRunning, CheckMatches, Request, Insist,
                  Poll, Recheck, Rematch, ForceKill, Remove, Spawn, Truncate, Write, KillChild
    <3> QED BY <3>1, <3>2, <3>3
  <2>2. pidFile' \in Pids \cup {NoPid, Garbage}
    BY <1>2 DEF TypeOK, Command, Read, CheckRunning, CheckMatches, NoServer, Request, Insist, Kill,
                Poll, Recheck, Rematch, ForceKill, Remove, Spawn, Truncate, Write, KillChild
  <2>3. \A p \in Pids : Moves(p)
    BY <1>2, CommandMoves
  <2>4. DOMAIN proc' = Pids /\ \E f : proc' = [p \in Pids |-> f[p]]
    BY <1>2 DEF TypeOK, Command, Read, CheckRunning, CheckMatches, NoServer, Request, Running,
                Insist, Kill, Poll, Recheck, Rematch, ForceKill, Remove, Spawn, Truncate, Write,
                KillChild, Goes, To, Reaped
  <2>5. proc' \in [Pids -> States]
    BY <2>3, <2>4 DEF Moves, TypeOK, States, Alive
  <2>6. Ports
    <3>1. ASSUME port # NoPid PROVE proc'[port] \in {"serving", "termed", "killed"}
      BY <1>2, <3>1 DEF TypeOK, Command, Read, CheckRunning, CheckMatches, NoServer, Request,
           Terminated, Running, Insist, Kill, Poll, Recheck, Rematch, ForceKill, Remove, Spawn,
           Truncate, Write, KillChild, Goes, To, Reaped
    <3> QED BY <2>1, <3>1 DEF TypeOK
  <2> QED BY <2>1, <2>2, <2>5, <2>6 DEF TypeOK
<1>3. ASSUME NEW c \in Cmds, NEW k \in {"start", "stop", "restart"}, Invoke(c, k)
      PROVE  Types /\ Ports
  BY <1>3 DEF TypeOK, Invoke, Steps
<1>4. ASSUME NEW p \in Pids, Server(p) \/ Crash(p) \/ \E s \in {"alike", "other"} : Comes(p, s)
      PROVE  Types /\ Ports
  <2>1. CASE End(p)
    BY <2>1 DEF TypeOK, End, cmds, States
  <2>2. CASE ~End(p)
    BY <1>4, <2>2 DEF TypeOK, Server, Bind, Shutdown, Drained, Dies, Crash, Comes, cmds, States, Alive
  <2> QED BY <2>1, <2>2
<1>5. CASE UNCHANGED vars
  BY <1>5 DEF vars, cmds, TypeOK
<1> QED BY <1>1, <1>2, <1>3, <1>4, <1>5 DEF TypeOK, Spawning, Next

\* A sight is lost only with the process itself, which is noticed in gone.
LEMMA SeenStep == TypeOK /\ Courses /\ Parents /\ Sights /\ [Next]_vars => Sights'
<1> SUFFICES ASSUME TypeOK, Courses, Parents, Sights, [Next]_vars PROVE Sights'
  OBVIOUS
<1> USE DEF Sights, Seen, Looked, Alive
<1>1. ASSUME NEW d \in Cmds, Steady(d), \A p \in Pids : Moves(p) PROVE Seen(d)'
  <2>1. ASSUME pc[d] \in Looked \cup {"remove"} \/ (pc[d] = "done" /\ kind[d] = "stop")
        PROVE  target[d] \in Pids /\ Moves(target[d])
    BY <1>1, <2>1 DEF Courses, Course
  <2> QED BY <1>1, <2>1 DEF Steady, Moves
<1>2. ASSUME NEW c \in Cmds, Command(c) PROVE Sights'
  <2>1. /\ \A d \in Cmds \ {c} : Steady(d)
        /\ \A p \in Pids : Moves(p)
    BY <1>2, OthersSteady, CommandMoves
  <2>2. Seen(c)'
    <3>1. CASE pc[c] = "matches"
      <4>1. CheckMatches(c)
        BY <1>2, <3>1 DEF Command, Read, CheckRunning, Request, Insist, Poll, Recheck, Rematch,
             ForceKill, Remove, Spawn, Truncate, Write, KillChild
      <4> QED BY <3>1, <4>1 DEF TypeOK, Courses, Course, CheckMatches, NoServer, Running, Matches, Goes,
                                To, Ended, Reaped
    <3>2. CASE pc[c] \in {"recheck", "force", "insist"}
      BY <1>2, <3>2 DEF TypeOK, Courses, Course, Command, Read, CheckRunning, CheckMatches, Kill,
           Running, Request, Insist, Poll, Recheck, Rematch, ForceKill, Remove, Spawn,
           Truncate, Write, KillChild, Goes, To, Ended
    <3>3. CASE pc[c] \in {"request", "poll", "rematch", "remove"}
      BY <1>2, <3>3 DEF TypeOK, Courses, Course, Command, Read, CheckRunning, CheckMatches, Kill,
           Running, Terminated, Request, Insist, Poll, Recheck, Rematch, ForceKill, Remove, Spawn,
           Truncate, Write, KillChild, Goes, To, Ended, Reaped
    <3>4. CASE pc[c] \notin Looked \cup {"matches", "remove"}
      BY <1>2, <3>4 DEF TypeOK, Courses, Course, Spawning, Command, Read, CheckRunning, CheckMatches,
           NoServer, Kill, Request, Insist, Poll, Recheck, Rematch, ForceKill, Remove, Spawn,
           Truncate, Write, KillChild, Goes, To, Ended
    <3> QED BY <3>1, <3>2, <3>3, <3>4
  <2> QED BY <1>1, <2>1, <2>2
<1>3. ASSUME NEW c \in Cmds, NEW k \in {"start", "stop", "restart"}, Invoke(c, k) PROVE Sights'
  BY <1>1, <1>3, InvokeSteady
<1>4. CASE WorldStep
  BY <1>1, <1>4, WorldMoves
<1>5. CASE UNCHANGED vars
  BY <1>5 DEF vars, cmds
<1> QED BY <1>2, <1>3, <1>4, <1>5 DEF Next, WorldStep
LEMMA AloneStep == IInv /\ [Next]_vars => Alone'
<1> SUFFICES ASSUME IInv, [Next]_vars, ~overlapped' PROVE Alone'
  BY DEF Alone
<1>1. TypeOK /\ Courses /\ Parents /\ Sights /\ Alone
  BY DEF IInv
<1>2. ASSUME NEW c \in Cmds, Command(c) PROVE Alone'
  <2>1. /\ ~overlapped /\ Busy(c) /\ Naming(c) /\ \A d \in Cmds \ {c} : ~Busy(d)
        /\ \A d \in Cmds \ {c} : ~Busy(d)'
    BY <1>1, <1>2, OthersSteady DEF Alone, Steady, Busy
  <2>2. target[c] \in Pids \/ pc[c] \in {"read", "spawn"} \cup Spawning
    BY <1>1, <2>1 DEF Courses, Course, Busy, Steps, Looked, Spawning
  <2>3. /\ Busy(c)' => Naming(c)'
        /\ ~Busy(c)' => Named'
    <3> USE <1>1, <1>2, <2>1, <2>2 DEF Naming, Named, OnlyAlive, Looked, Spawning
    <3>1. ASSUME pc[c] # "spawn", NEW p \in Pids, proc'[p] \in Alive PROVE proc[p] \in Alive
      <4>1. \A d \in Cmds : pc[d] # "spawn"
        BY <3>1 DEF Busy, Steps
      <4> QED BY <3>1, <4>1, CommandMoves DEF Moves, Alive
    <3>2. CASE Read(c)
      BY <3>1, <3>2 DEF Read, Goes, To, Busy, Steps, Ended, TypeOK
    <3>3. CASE CheckRunning(c)
      BY <3>1, <3>3 DEF CheckRunning, Running, NoServer, Goes, To, Busy, Steps, Ended, TypeOK, Alive
    <3>4. CASE CheckMatches(c)
      BY <3>1, <3>4 DEF CheckMatches, Matches, NoServer, Goes, To, Busy, Steps, Ended, TypeOK
    <3>5. CASE Request(c) \/ Poll(c)
      BY <3>1, <3>5 DEF Request, Poll, Goes, To, Busy, Steps, Ended, TypeOK
    <3>6. CASE Insist(c) \/ ForceKill(c)
      BY <3>1, <3>6 DEF Insist, ForceKill, Kill, Running, Goes, To, Busy, Steps, Ended, TypeOK, Alive
    <3>7. CASE Recheck(c)
      BY <3>1, <3>7 DEF Recheck, Running, Goes, To, Busy, Steps, Ended, TypeOK, Alive
    <3>8. CASE Rematch(c)
      BY <3>1, <3>8 DEF Rematch, Matches, Goes, To, Busy, Steps, Ended, TypeOK
    <3>9. CASE Remove(c)
      BY <3>1, <3>9 DEF Remove, Goes, To, Busy, Steps, Ended, TypeOK
    <3>10. CASE Spawn(c)
      BY <3>10 DEF Spawn, Goes, To, Reaped, Busy, Steps, Ended, TypeOK, Alive
    <3>11. CASE Truncate(c) \/ Write(c)
      BY <3>1, <3>11 DEF Truncate, Write, Goes, To, Busy, Steps, Ended, TypeOK
    <3>12. CASE KillChild(c)
      BY <3>12 DEF KillChild, Goes, To, Busy, Steps, TypeOK, Alive
    <3> QED BY <3>2, <3>3, <3>4, <3>5, <3>6, <3>7, <3>8, <3>9, <3>10, <3>11, <3>12 DEF Command
  <2> QED BY <2>1, <2>3 DEF Alone, Naming, Busy, Looked, Spawning, Steps
<1>3. ASSUME NEW c \in Cmds, NEW k \in {"start", "stop", "restart"}, Invoke(c, k) PROVE Alone'
  <2>1. Named /\ \A d \in Cmds : ~Busy(d)
    BY <1>1, <1>3 DEF Invoke, Alone, TypeOK
  <2>2. Named' /\ pc' = [pc EXCEPT ![c] = "read"]
    BY <1>3, <2>1 DEF Invoke, Named
  <2>3. \A d \in Cmds : Busy(d)' <=> d = c
    BY <1>1, <2>1, <2>2 DEF Busy, TypeOK, Steps
  <2>4. \A d \in Cmds : Naming(d)'
    BY <1>1, <2>2, <2>3 DEF Naming, Busy, TypeOK, Looked, Spawning, Steps
  <2> QED BY <1>3, <2>2, <2>3, <2>4 DEF Alone
<1>4. CASE WorldStep
  <2>1. UNCHANGED <<pc, target, child, pidFile, overlapped>>
    BY <1>1, <1>4, WorldMoves DEF cmds
  <2>2. \A p \in Pids : proc'[p] \in Alive => proc[p] \in Alive
    BY <1>1, <1>4 DEF TypeOK, WorldStep, Server, Bind, Shutdown, Drained, Dies, Crash, End, Comes,
                      Alive
  <2> QED BY <1>1, <2>1, <2>2 DEF Alone, Naming, Named, OnlyAlive, Busy
<1>5. CASE UNCHANGED vars
  BY <1>1, <1>5 DEF vars, cmds, Alone, Naming, Named, OnlyAlive, Busy
<1> QED BY <1>2, <1>3, <1>4, <1>5 DEF Next, WorldStep
-----------------------------------------------------------------------------
(* The theorems *)

LEMMA Invariance == Spec => []IInv
<1>1. Init => IInv
  <2> SUFFICES ASSUME Init PROVE IInv
    OBVIOUS
  <2>1. /\ \A c \in Cmds : pc[c] = "done" /\ kind[c] = "start" /\ ~Busy(c)
        /\ \A p \in Pids : proc[p] = "free"
    BY DEF Init, Busy, Steps
  <2>2. TypeOK
    BY <2>1 DEF Init, TypeOK, Steps, Ended, States
  <2>3. Courses /\ Parents /\ Sights
    BY <2>1 DEF Courses, Course, Parents, Parent, Sights, Seen, Looked, Spawning
  <2>4. Alone
    BY <2>1 DEF Alone, Naming, Named, Alive, Looked, Spawning
  <2> QED BY <2>2, <2>3, <2>4 DEF IInv
<1>2. IInv /\ [Next]_vars => IInv'
  BY TypeStep, CourseStep, ParentStep, SeenStep, AloneStep DEF IInv
<1> QED BY <1>1, <1>2, PTL DEF Spec

\* What the commands say of servers is so: where they do not overlap each server that runs
\* is the one of the PID file, and what a stop reports as stopped has ended or is killed.
THEOREM Accounted == Spec => []ServersAccounted
<1>1. IInv => ServersAccounted
  BY DEF IInv, Alone, Sights, Seen, ServersAccounted, NamedServer, StopMeansStopped
<1> QED BY <1>1, Invariance, PTL

\* A start or a restart that reports an error has killed the server it had started, whatever
\* other commands do meanwhile: its identifier is no one else's until then.
THEOREM FailureLeavesNothing == Spec => FailedStartLeavesNothing
<1> DEFINE Left == \A c \in Cmds : Busy(c) /\ pc'[c] = "failed" /\ child[c] # NoPid =>
                                     proc'[child[c]] \notin Alive
<1>1. IInv /\ [Next]_vars => [Left]_vars
  <2> SUFFICES ASSUME IInv, [Next]_vars,
                      NEW c \in Cmds, Busy(c), pc'[c] = "failed", child[c] # NoPid
               PROVE  proc'[child[c]] \notin Alive
    OBVIOUS
  <2> USE DEF IInv
  <2>1. pc[c] \in Spawning /\ child[c] \in Pids
    BY DEF Parents, Parent, TypeOK
  <2>2. ~Steady(c)
    BY <2>1 DEF Steady, Spawning
  <2>3. ASSUME NEW d \in Cmds, Command(d) PROVE KillChild(c)
    <3>1. d = c
      BY <2>2, <2>3, OthersSteady
    <3> QED BY <2>1, <2>3, <3>1
            DEF Spawning, Command, Read, CheckRunning, CheckMatches, Request, Insist, Poll, Recheck,
                Rematch, ForceKill, Remove, Spawn, Truncate, Write, Goes, To, TypeOK
  <2>4. ASSUME NEW d \in Cmds, NEW k \in {"start", "stop", "restart"}, Invoke(d, k) PROVE FALSE
    BY <2>2, <2>4, InvokeSteady
  <2>5. ~WorldStep
    BY <2>2, WorldMoves
  <2>6. ~UNCHANGED vars
    BY <2>1 DEF vars, cmds, Spawning
  <2>7. KillChild(c)
    BY <2>3, <2>4, <2>5, <2>6 DEF Next, WorldStep
  <2> QED BY <2>1, <2>7 DEF KillChild, TypeOK, Alive
<1> QED BY <1>1, Invariance, PTL DEF Spec, FailedStartLeavesNothing

\* A process without leoxy in its command line is killed only in place of one that the
\* command had looked at and that ended since: never because of a stale PID file.
THEOREM StrangersAreSpared == Spec => StrangersSpared
<1> DEFINE Spared == \A p \in Pids : proc[p] = "other" /\ proc'[p] = "killed" =>
                                       \E c \in Cmds : target[c] = p /\ gone[c]
<1>1. IInv /\ [Next]_vars => [Spared]_vars
  <2> SUFFICES ASSUME IInv, [Next]_vars, NEW p \in Pids, proc[p] = "other", proc'[p] = "killed"
               PROVE  \E c \in Cmds : target[c] = p /\ gone[c]
    OBVIOUS
  <2> USE DEF IInv
  <2>1. ASSUME NEW c \in Cmds, Command(c) PROVE target[c] = p /\ pc[c] \in {"request", "insist", "force"}
    <3>1. Request(c) \/ Insist(c) \/ ForceKill(c) \/ KillChild(c)
      BY <2>1 DEF Command, Read, CheckRunning, CheckMatches, NoServer, Poll, Recheck, Rematch, Remove,
                  Spawn, Truncate, Write, Goes, To, Reaped, TypeOK
    <3>2. CASE KillChild(c)
      BY <3>2 DEF KillChild, Parents, Parent, Spawning, Alive, Busy, Steps, TypeOK
    <3>3. CASE Request(c) \/ Insist(c) \/ ForceKill(c)
      BY <3>3 DEF Request, Insist, ForceKill, Kill, Goes, To, Reaped, TypeOK
    <3> QED BY <3>1, <3>2, <3>3
  <2>2. \E c \in Cmds : Command(c)
    BY DEF Next, Invoke, Server, Bind, Shutdown, Drained, Dies, Crash, End, Comes, TypeOK, vars
  <2> QED BY <2>1, <2>2 DEF Sights, Seen, Looked, Alive
<1> QED BY <1>1, Invariance, PTL DEF Spec, StrangersSpared
-----------------------------------------------------------------------------
(* The readiness probe: scripts ask it whether the servers they started can serve. *)

USE ReadinessAssumption

Yes(s)          == \E i \in 1..Len(s) : s[i]
WellSince(g, d) == \E t \in Groups[g] : wellAge[t] <= d
IllSince(g, d)  == \A t \in Groups[g] : illAge[t] <= d
Pending(g)      == Cardinality(probing \cap Groups[g])

ReadyShape ==
  /\ stage \in [Requests -> {"idle", "lock", "probe"}]
  /\ holder \in Requests \cup {None} /\ \A r \in Requests : holder = r <=> stage[r] = "probe"
  /\ group \in 0..Len(Groups) /\ (group # 0 <=> holder # None) /\ left \in 0..Timeout
  /\ probing \subseteq Targets /\ failed \in Nat
  /\ channel \in [DOMAIN Groups -> Seq(BOOLEAN)]
  /\ cached \in BOOLEAN /\ checked \in 0..Old

Ages ==
  /\ health \in [Targets -> {"ok", "slow", "bad"}]
  /\ wellAge \in [Targets -> 0..Old] /\ illAge \in [Targets -> 0..Old]
  /\ \A t \in Targets : /\ health[t] # "bad" => wellAge[t] = 0
                        /\ health[t] # "ok"  => illAge[t] = 0

\* A target of a group counts once: its probe runs, or left its result, or this was received.
Counts ==
  \A g \in DOMAIN Groups :
    /\ Len(channel[g]) + Pending(g) <= Cardinality(Groups[g])
    /\ g = group => Len(channel[g]) + failed + Pending(g) = Cardinality(Groups[g])

\* What the round of probes has seen so far was so since it began.
Round ==
  group # 0 =>
    /\ \A g \in 1..(group - 1) : WellSince(g, Timeout - left)
    /\ Yes(channel[group]) => left > 0 /\ WellSince(group, 0)
    /\ left = 0 => \A t \in probing \cap Groups[group] : illAge[t] = 0
    /\ ~Yes(channel[group]) => \A t \in Groups[group] \ probing : illAge[t] <= Timeout - left

\* And what is cached was so in the round that it is from.
CacheGenuine ==
  checked < Old => /\ cached  => \A g \in DOMAIN Groups : WellSince(g, checked + Timeout)
                   /\ ~cached => \E g \in DOMAIN Groups : IllSince(g, checked + Timeout)

\* A request that waited while another probed finds an answer of this very moment.
Waits ==
  /\ waited \in [Requests -> 0..Timeout]
  /\ \A r \in Requests :
       /\ holder # None /\ stage[r] # "idle" => waited[r] <= Timeout - left
       /\ holder = None /\ stage[r] = "lock" /\ waited[r] > 0 => checked = 0

ReadyInv == ReadyShape /\ Ages /\ Counts /\ Round /\ CacheGenuine /\ Waits

LEMMA GroupsAre ==
  /\ Len(Groups) \in Nat /\ Len(Groups) >= 1 /\ DOMAIN Groups = 1..Len(Groups)
  /\ \A g \in DOMAIN Groups : Groups[g] \subseteq Targets /\ IsFiniteSet(Groups[g])
                              /\ Cardinality(Groups[g]) \in Nat
<1>1. Len(Groups) \in Nat /\ Len(Groups) >= 1 /\ DOMAIN Groups = 1..Len(Groups)
  OBVIOUS
<1>2. \A g \in DOMAIN Groups : Groups[g] \subseteq Targets
  BY DEF Targets
<1> QED BY <1>1, <1>2, FS_CardinalityType

LEMMA GroupOfIs ==
  ASSUME NEW t \in Targets
  PROVE  /\ GroupOf(t) \in DOMAIN Groups /\ t \in Groups[GroupOf(t)]
         /\ \A g \in DOMAIN Groups : t \in Groups[g] => g = GroupOf(t)
<1>1. \E g \in DOMAIN Groups : t \in Groups[g]
  BY DEF Targets
<1>2. GroupOf(t) \in DOMAIN Groups /\ t \in Groups[GroupOf(t)]
  BY <1>1, Zenon DEF GroupOf
<1> QED BY <1>2

LEMMA PendingIs ==
  ASSUME NEW S, NEW g \in DOMAIN Groups
  PROVE  /\ IsFiniteSet(S \cap Groups[g]) /\ Cardinality(S \cap Groups[g]) \in Nat
         /\ Cardinality(S \cap Groups[g]) <= Cardinality(Groups[g])
         /\ (Cardinality(S \cap Groups[g]) = 0 <=> S \cap Groups[g] = {})
         /\ \A t \in S \cap Groups[g] :
              Cardinality((S \ {t}) \cap Groups[g]) = Cardinality(S \cap Groups[g]) - 1
<1>1. IsFiniteSet(Groups[g]) /\ S \cap Groups[g] \subseteq Groups[g]
  BY GroupsAre
<1>2. IsFiniteSet(S \cap Groups[g]) /\ Cardinality(S \cap Groups[g]) <= Cardinality(Groups[g])
  BY <1>1, FS_Subset
<1>3. \A t \in S \cap Groups[g] : (S \ {t}) \cap Groups[g] = (S \cap Groups[g]) \ {t}
  OBVIOUS
<1> QED BY <1>2, <1>3, FS_CardinalityType, FS_EmptySet, FS_RemoveElement

LEMMA YesAppend ==
  ASSUME NEW s \in Seq(BOOLEAN), NEW b \in BOOLEAN
  PROVE  /\ Append(s, b) \in Seq(BOOLEAN) /\ Len(Append(s, b)) = Len(s) + 1
         /\ Yes(Append(s, b)) <=> Yes(s) \/ b
<1>1. /\ Append(s, b) \in Seq(BOOLEAN) /\ Len(Append(s, b)) = Len(s) + 1 /\ Len(s) \in Nat
      /\ \A i \in 1..Len(s) : Append(s, b)[i] = s[i]
      /\ Append(s, b)[Len(s) + 1] = b
  OBVIOUS
<1>2. 1..Len(Append(s, b)) = 1..Len(s) \cup {Len(s) + 1}
  BY <1>1
<1>3. Yes(Append(s, b)) <=> Yes(s) \/ b
  <2>1. Yes(Append(s, b)) <=> \E i \in 1..Len(s) \cup {Len(s) + 1} : Append(s, b)[i]
    BY <1>2 DEF Yes
  <2>2. (\E i \in 1..Len(s) \cup {Len(s) + 1} : Append(s, b)[i])
          <=> (\E i \in 1..Len(s) : Append(s, b)[i]) \/ Append(s, b)[Len(s) + 1]
    BY Zenon
  <2>3. (\E i \in 1..Len(s) : Append(s, b)[i]) <=> \E i \in 1..Len(s) : s[i]
    BY <1>1, Zenon
  <2>4. Append(s, b)[Len(s) + 1] <=> b
    BY <1>1, Zenon
  <2> QED BY <2>1, <2>2, <2>3, <2>4, Zenon DEF Yes
<1> QED BY <1>1, <1>3

LEMMA YesTail ==
  ASSUME NEW s \in Seq(BOOLEAN), s # <<>>
  PROVE  /\ Tail(s) \in Seq(BOOLEAN) /\ Len(Tail(s)) = Len(s) - 1 /\ Len(s) \in Nat /\ Len(s) > 0
         /\ Head(s) => Yes(s)
         /\ ~Head(s) => (Yes(Tail(s)) <=> Yes(s))
<1>1. /\ Tail(s) \in Seq(BOOLEAN) /\ Len(Tail(s)) = Len(s) - 1 /\ Len(s) \in Nat /\ Len(s) > 0
      /\ Head(s) = s[1] /\ \A i \in 1..Len(s) - 1 : Tail(s)[i] = s[i + 1]
  OBVIOUS
<1>2. Head(s) => Yes(s)
  <2>1. 1 \in 1..Len(s)
    BY <1>1
  <2> QED BY <1>1, <2>1, Zenon DEF Yes
<1>3. ASSUME ~Head(s), Yes(s) PROVE Yes(Tail(s))
  <2>1. PICK i \in 1..Len(s) : s[i]
    BY <1>3 DEF Yes
  <2>2. i # 1
    BY <1>1, <1>3, <2>1, Zenon
  <2>3. i - 1 \in 1..Len(Tail(s)) /\ Tail(s)[i - 1] = s[i]
    BY <1>1, <2>2
  <2> QED BY <2>1, <2>3, Zenon DEF Yes
<1>4. ASSUME Yes(Tail(s)) PROVE Yes(s)
  <2>1. PICK i \in 1..Len(Tail(s)) : Tail(s)[i]
    BY <1>4 DEF Yes
  <2>2. i + 1 \in 1..Len(s) /\ Tail(s)[i] = s[i + 1]
    BY <1>1
  <2> QED BY <2>1, <2>2, Zenon DEF Yes
<1> QED BY <1>1, <1>2, <1>3, <1>4, Zenon

LEMMA NoYes == ~Yes(<<>>)
BY DEF Yes

LEMMA ReadyInit == ReadinessInit => ReadyInv
<1> SUFFICES ASSUME ReadinessInit PROVE ReadyInv
  OBVIOUS
<1>1. Old \in Nat /\ Old > 0
  BY DEF Old
<1>2. ReadyShape
  <2>1. <<>> \in Seq(BOOLEAN)
    OBVIOUS
  <2>2. channel \in [DOMAIN Groups -> Seq(BOOLEAN)]
    BY <2>1, Zenon DEF ReadinessInit
  <2>3. stage \in [Requests -> {"idle", "lock", "probe"}] /\ \A r \in Requests : holder # r /\ stage[r] # "probe"
    BY DEF ReadinessInit
  <2>4. group \in 0..Len(Groups) /\ group = 0 /\ holder = None /\ left \in 0..Timeout /\ checked \in 0..Old
    BY <1>1, GroupsAre DEF ReadinessInit
  <2> QED BY <2>2, <2>3, <2>4 DEF ReadyShape, ReadinessInit
<1>3. Ages
  BY <1>1 DEF Ages, ReadinessInit
<1>4. Counts
  <2> SUFFICES ASSUME NEW g \in DOMAIN Groups
               PROVE  Len(channel[g]) + Pending(g) <= Cardinality(Groups[g]) /\ g # group
    BY DEF Counts
  <2>1. channel[g] = <<>> /\ probing \cap Groups[g] = {} /\ g # group
    BY GroupsAre DEF ReadinessInit
  <2>2. Len(channel[g]) = 0 /\ Pending(g) = 0
    BY <2>1, FS_EmptySet DEF Pending
  <2> QED BY <2>1, <2>2, GroupsAre
<1> QED BY <1>2, <1>3, <1>4, <1>1 DEF ReadyInv, ReadinessInit, Round, CacheGenuine, Waits

LEMMA ArriveKeeps ==
  ASSUME ReadyInv, NEW r \in Requests, Arrive(r)
  PROVE  ReadyInv'
<1>1. /\ stage[r] = "idle" /\ stage' = [stage EXCEPT ![r] = "lock"] /\ waited' = [waited EXCEPT ![r] = 0]
      /\ UNCHANGED <<holder, group, left, probing, channel, failed, cached, checked, health, wellAge, illAge>>
  BY DEF Arrive, probes, cache, world
<1>2. ReadyShape'
  BY <1>1 DEF ReadyInv, ReadyShape
<1>3. Waits'
  BY <1>1 DEF ReadyInv, ReadyShape, Waits
<1>4. Ages' /\ Counts' /\ Round' /\ CacheGenuine'
  BY <1>1 DEF ReadyInv, Ages, Counts, Pending, Round, CacheGenuine, WellSince, IllSince
<1> QED BY <1>2, <1>3, <1>4 DEF ReadyInv

\* A group's probes begin, in a round that the groups before it passed.
LEMMA StartsCounts ==
  ASSUME ReadyShape, Counts, NEW g \in DOMAIN Groups, Starts(g)
  PROVE  Counts' /\ probing' \subseteq Targets /\ channel' \in [DOMAIN Groups -> Seq(BOOLEAN)]
<1>1. /\ group' = g /\ failed' = 0 /\ probing' = probing \cup Groups[g]
      /\ channel' = [channel EXCEPT ![g] = <<>>]
      /\ channel \in [DOMAIN Groups -> Seq(BOOLEAN)] /\ probing \subseteq Targets
  BY DEF Starts, ReadyShape
<1>2. <<>> \in Seq(BOOLEAN) /\ Len(<<>>) = 0
  OBVIOUS
<1>3. channel' \in [DOMAIN Groups -> Seq(BOOLEAN)] /\ channel'[g] = <<>>
  BY <1>1, <1>2
<1>4. Counts'
  <2> SUFFICES ASSUME NEW h \in DOMAIN Groups
               PROVE  /\ Len(channel'[h]) + Pending(h)' <= Cardinality(Groups[h])
                      /\ h = group' => Len(channel'[h]) + failed' + Pending(h)' = Cardinality(Groups[h])
    BY DEF Counts
  <2>1. CASE h = g
    <3>1. probing' \cap Groups[g] = Groups[g]
      BY <1>1
    <3>2. Pending(h)' = Cardinality(Groups[h]) /\ Len(channel'[h]) = 0 /\ failed' = 0
      BY <1>1, <1>2, <1>3, <2>1, <3>1 DEF Pending
    <3> QED BY <3>2, GroupsAre
  <2>2. CASE h # g
    <3>1. Groups[h] \cap Groups[g] = {}
      BY <2>2
    <3>2. probing' \cap Groups[h] = probing \cap Groups[h] /\ channel'[h] = channel[h]
      BY <1>1, <2>2, <3>1
    <3> QED BY <1>1, <2>2, <3>2 DEF Pending, Counts
  <2> QED BY <2>1, <2>2
<1> QED BY <1>1, <1>3, <1>4, GroupsAre

LEMMA LockKeeps ==
  ASSUME ReadyInv, NEW r \in Requests, Lock(r)
  PROVE  ReadyInv'
<1>1. stage[r] = "lock" /\ holder = None /\ UNCHANGED <<health, wellAge, illAge, waited>>
  BY DEF Lock, world
<1>2. CASE Fresh
  <2>1. /\ stage' = [stage EXCEPT ![r] = "idle"]
        /\ UNCHANGED <<holder, group, left, probing, channel, failed, cached, checked>>
    BY <1>2 DEF Lock, probes, cache
  <2>2. ReadyShape'
    BY <1>1, <2>1 DEF ReadyInv, ReadyShape
  <2>3. Waits'
    BY <1>1, <2>1 DEF ReadyInv, ReadyShape, Waits
  <2>4. Ages' /\ Counts' /\ Round' /\ CacheGenuine'
    BY <1>1, <2>1 DEF ReadyInv, Ages, Counts, Pending, Round, CacheGenuine, WellSince, IllSince
  <2> QED BY <2>2, <2>3, <2>4 DEF ReadyInv
<1>3. CASE ~Fresh
  <2>1. /\ holder' = r /\ stage' = [stage EXCEPT ![r] = "probe"] /\ left' = Timeout /\ Starts(1)
        /\ UNCHANGED <<cached, checked>>
    BY <1>3 DEF Lock, cache
  <2>2. /\ group' = 1 /\ failed' = 0 /\ probing' = probing \cup Groups[1] /\ r # None /\ 1 \in DOMAIN Groups
        /\ channel'[1] = <<>>
    BY <2>1, GroupsAre DEF Starts, ReadyInv, ReadyShape
  <2>3. Counts' /\ probing' \subseteq Targets /\ channel' \in [DOMAIN Groups -> Seq(BOOLEAN)]
    BY <2>1, <2>2, StartsCounts DEF ReadyInv
  <2>4. ReadyShape'
    BY <1>1, <2>1, <2>2, <2>3, GroupsAre DEF ReadyInv, ReadyShape
  <2>5. Waits'
    <3>1. checked # 0
      BY <1>3 DEF Fresh
    <3>2. \A q \in Requests : stage'[q] # "idle" => waited[q] = 0
      BY <1>1, <2>1, <3>1 DEF ReadyInv, ReadyShape, Waits
    <3> QED BY <1>1, <2>1, <2>2, <3>2 DEF ReadyInv, Waits
  <2>6. Round'
    <3>1. ~Yes(channel'[1]) /\ Groups[1] \ probing' = {} /\ 1..0 = {} /\ left' # 0
      BY <2>1, <2>2, NoYes
    <3> QED BY <2>2, <3>1 DEF Round
  <2>7. Ages' /\ CacheGenuine'
    BY <1>1, <2>1 DEF ReadyInv, Ages, CacheGenuine, WellSince, IllSince
  <2> QED BY <2>3, <2>4, <2>5, <2>6, <2>7 DEF ReadyInv
<1> QED BY <1>2, <1>3

LEMMA SendKeeps ==
  ASSUME ReadyInv, NEW t \in Targets, Send(t)
  PROVE  ReadyInv'
<1> DEFINE g == GroupOf(t)
<1>1. /\ t \in probing /\ probing' = probing \ {t}
      /\ UNCHANGED <<stage, holder, group, left, failed, cached, checked, health, wellAge, illAge, waited>>
  BY DEF Send, cache, world
<1>2. PICK b \in BOOLEAN : /\ channel' = [channel EXCEPT ![g] = Append(channel[g], b)]
                           /\ b => health[t] # "bad" /\ left > 0
                           /\ ~b => health[t] = "bad" \/ left = 0 \/ Cancelled(t)
  <2>1. PICK b \in Results(t) : channel' = [channel EXCEPT ![g] = Append(channel[g], b)]
    BY DEF Send
  <2>2. b \in BOOLEAN /\ (b => health[t] # "bad" /\ left > 0)
          /\ (~b => health[t] = "bad" \/ left = 0 \/ Cancelled(t))
    BY DEF Results
  <2> QED BY <2>1, <2>2
<1>3. g \in DOMAIN Groups /\ t \in Groups[g] /\ \A h \in DOMAIN Groups : t \in Groups[h] => h = g
  BY GroupOfIs
<1>4. channel \in [DOMAIN Groups -> Seq(BOOLEAN)] /\ channel[g] \in Seq(BOOLEAN)
  BY <1>3 DEF ReadyInv, ReadyShape
<1>5. /\ channel' \in [DOMAIN Groups -> Seq(BOOLEAN)] /\ Len(channel'[g]) = Len(channel[g]) + 1
      /\ (Yes(channel'[g]) <=> Yes(channel[g]) \/ b)
      /\ \A h \in DOMAIN Groups \ {g} : channel'[h] = channel[h]
  <2>1. Append(channel[g], b) \in Seq(BOOLEAN)
    BY <1>4, YesAppend
  <2>2. channel'[g] = Append(channel[g], b)
    BY <1>2, <1>3, <1>4
  <2>3. Len(channel'[g]) = Len(channel[g]) + 1 /\ (Yes(channel'[g]) <=> Yes(channel[g]) \/ b)
    BY <1>4, <2>2, YesAppend
  <2> QED BY <1>2, <1>3, <1>4, <2>1, <2>3
<1>6. ReadyShape'
  BY <1>1, <1>5 DEF ReadyInv, ReadyShape
<1>7. Counts'
  <2> SUFFICES ASSUME NEW h \in DOMAIN Groups
               PROVE  /\ Len(channel'[h]) + Pending(h)' <= Cardinality(Groups[h])
                      /\ h = group' => Len(channel'[h]) + failed' + Pending(h)' = Cardinality(Groups[h])
    BY DEF Counts
  <2>1. /\ Len(channel[h]) + Pending(h) <= Cardinality(Groups[h])
        /\ h = group => Len(channel[h]) + failed + Pending(h) = Cardinality(Groups[h])
        /\ Len(channel[h]) \in Nat /\ failed \in Nat
    BY <1>4 DEF ReadyInv, ReadyShape, Counts
  <2>2. CASE h = g
    <3>1. Pending(h)' = Pending(h) - 1 /\ Pending(h) \in Nat
      BY <1>1, <1>3, <2>2, PendingIs DEF Pending
    <3>2. Len(channel'[h]) = Len(channel[h]) + 1 /\ group' = group /\ failed' = failed
      BY <1>1, <1>5, <2>2
    <3>3. Cardinality(Groups[h]) \in Nat
      BY GroupsAre
    <3> QED BY <2>1, <3>1, <3>2, <3>3
  <2>3. CASE h # g
    <3>1. probing' \cap Groups[h] = probing \cap Groups[h]
      BY <1>1, <1>3, <2>3
    <3> QED BY <1>1, <1>5, <2>1, <2>3, <3>1 DEF Pending
  <2> QED BY <2>2, <2>3
<1>8. Round'
  <2> SUFFICES ASSUME group # 0 PROVE Round'
    BY <1>1 DEF Round
  <2>1. group \in DOMAIN Groups /\ left \in 0..Timeout
    BY GroupsAre DEF ReadyInv, ReadyShape
  <2>2. \A h \in 1..(group - 1) : WellSince(h, Timeout - left)'
    BY <1>1 DEF ReadyInv, Round, WellSince
  <2>3. left = 0 => \A u \in probing' \cap Groups[group] : illAge[u] = 0
    BY <1>1 DEF ReadyInv, Round
  <2>4. CASE group # g
    <3>1. channel'[group] = channel[group] /\ Groups[group] \ probing' = Groups[group] \ probing
      BY <1>1, <1>3, <1>5, <2>1, <2>4
    <3> QED BY <1>1, <2>2, <2>3, <3>1 DEF ReadyInv, Round, WellSince
  <2>5. CASE group = g
    <3>1. ASSUME Yes(channel'[group]) PROVE left > 0 /\ WellSince(group, 0)
      <4>1. CASE Yes(channel[group])
        BY <4>1 DEF ReadyInv, Round
      <4>2. CASE ~Yes(channel[group])
        <5>1. b
          BY <1>5, <2>5, <3>1, <4>2
        <5>2. health[t] # "bad" /\ left > 0 /\ wellAge[t] = 0
          BY <1>2, <5>1 DEF ReadyInv, Ages
        <5> QED BY <1>3, <2>5, <5>2 DEF WellSince
      <4> QED BY <4>1, <4>2
    <3>2. ASSUME ~Yes(channel'[group]) PROVE \A u \in Groups[group] \ probing' : illAge[u] <= Timeout - left
      <4>1. ~Yes(channel[group]) /\ ~b
        BY <1>5, <2>5, <3>2
      <4>2. illAge[t] = 0
        <5>1. health[t] = "bad" \/ left = 0
          BY <1>2, <2>5, <4>1 DEF Cancelled
        <5> QED BY <1>1, <1>3, <2>5, <5>1 DEF ReadyInv, Ages, Round
      <4>3. \A u \in Groups[group] \ probing : illAge[u] <= Timeout - left
        BY <4>1 DEF ReadyInv, Round
      <4> QED BY <1>1, <2>1, <4>2, <4>3
    <3> QED BY <1>1, <2>2, <2>3, <3>1, <3>2 DEF Round, WellSince
  <2> QED BY <2>4, <2>5
<1>9. Ages' /\ CacheGenuine' /\ Waits'
  BY <1>1 DEF ReadyInv, Ages, CacheGenuine, Waits, WellSince, IllSince
<1> QED BY <1>6, <1>7, <1>8, <1>9 DEF ReadyInv

LEMMA ChangeKeeps ==
  ASSUME ReadyInv, NEW t \in Targets, NEW h \in {"ok", "slow", "bad"}, Change(t, h)
  PROVE  ReadyInv'
<1>1. /\ health' = [health EXCEPT ![t] = h]
      /\ wellAge' = IF h # "bad" THEN [wellAge EXCEPT ![t] = 0] ELSE wellAge
      /\ illAge' = IF h # "ok" THEN [illAge EXCEPT ![t] = 0] ELSE illAge
      /\ UNCHANGED <<stage, holder, group, left, probing, channel, failed, cached, checked, waited>>
  BY DEF Change, probes, cache
<1>2. /\ Old \in Nat /\ health \in [Targets -> {"ok", "slow", "bad"}]
      /\ wellAge \in [Targets -> 0..Old] /\ illAge \in [Targets -> 0..Old]
  BY DEF ReadyInv, Ages, Old
<1>3. Ages'
  BY <1>1, <1>2 DEF ReadyInv, Ages
<1>4. /\ \A u \in Targets : wellAge'[u] <= wellAge[u] /\ illAge'[u] <= illAge[u]
      /\ wellAge' \in [Targets -> 0..Old] /\ illAge' \in [Targets -> 0..Old]
  BY <1>1, <1>2
<1>5. \A g \in DOMAIN Groups, d \in Int : /\ WellSince(g, d) => \E u \in Groups[g] : wellAge'[u] <= d
                                          /\ IllSince(g, d) => \A u \in Groups[g] : illAge'[u] <= d
  <2> SUFFICES ASSUME NEW g \in DOMAIN Groups, NEW d \in Int
               PROVE  /\ WellSince(g, d) => \E u \in Groups[g] : wellAge'[u] <= d
                      /\ IllSince(g, d) => \A u \in Groups[g] : illAge'[u] <= d
    OBVIOUS
  <2>1. \A u \in Groups[g] : /\ wellAge[u] \in Int /\ wellAge'[u] \in Int /\ wellAge'[u] <= wellAge[u]
                             /\ illAge[u] \in Int /\ illAge'[u] \in Int /\ illAge'[u] <= illAge[u]
    BY <1>2, <1>4, GroupsAre
  <2> QED BY <2>1 DEF WellSince, IllSince
<1>6. Round'
  <2> SUFFICES ASSUME group # 0 PROVE Round'
    BY <1>1 DEF Round
  <2>1. group \in DOMAIN Groups /\ Timeout - left \in Int /\ 0 \in Int /\ \A g \in 1..(group - 1) : g \in DOMAIN Groups
    BY GroupsAre DEF ReadyInv, ReadyShape
  <2>2. \A u \in Groups[group] : illAge[u] \in Nat /\ illAge'[u] \in Nat /\ illAge'[u] <= illAge[u]
    BY <1>2, <1>4, <2>1, GroupsAre
  <2>3. \A g \in 1..(group - 1) : \E u \in Groups[g] : wellAge'[u] <= Timeout - left
    BY <1>5, <2>1 DEF ReadyInv, Round
  <2>4. Yes(channel[group]) => left > 0 /\ \E u \in Groups[group] : wellAge'[u] <= 0
    BY <1>5, <2>1 DEF ReadyInv, Round
  <2>5. left = 0 => \A u \in probing \cap Groups[group] : illAge'[u] = 0
    BY <2>2 DEF ReadyInv, Round
  <2>6. ~Yes(channel[group]) => \A u \in Groups[group] \ probing : illAge'[u] <= Timeout - left
    BY <2>1, <2>2 DEF ReadyInv, Round
  <2> QED BY <1>1, <2>3, <2>4, <2>5, <2>6 DEF Round, WellSince
<1>7. CacheGenuine'
  <2>1. checked + Timeout \in Int
    BY DEF ReadyInv, ReadyShape, Old
  <2> QED BY <1>1, <1>5, <2>1 DEF ReadyInv, CacheGenuine, WellSince, IllSince
<1>8. ReadyShape' /\ Counts' /\ Waits'
  BY <1>1 DEF ReadyInv, ReadyShape, Counts, Pending, Waits
<1> QED BY <1>3, <1>6, <1>7, <1>8 DEF ReadyInv

\* A round's end: its answer is cached while it is true.
LEMMA FinishesKeeps ==
  ASSUME ReadyInv, holder # None, NEW result \in BOOLEAN, Finishes(result),
         UNCHANGED <<health, wellAge, illAge, waited>>,
         result  => \A g \in DOMAIN Groups : WellSince(g, Timeout),
         ~result => \E g \in DOMAIN Groups : IllSince(g, Timeout)
  PROVE  ReadyInv'
<1>1. /\ cached' = result /\ checked' = 0 /\ stage' = [stage EXCEPT ![holder] = "idle"]
      /\ holder' = None /\ group' = 0 /\ left' = 0 /\ failed' = 0 /\ UNCHANGED <<probing, channel>>
  BY DEF Finishes
<1>2. holder \in Requests /\ Old \in Nat
  BY DEF ReadyInv, ReadyShape, Old
<1>3. ReadyShape'
  BY <1>1, <1>2, GroupsAre DEF ReadyInv, ReadyShape
<1>4. Counts'
  <2>1. \A g \in DOMAIN Groups : g # group'
    BY <1>1, GroupsAre
  <2> QED BY <1>1, <2>1 DEF ReadyInv, Counts, Pending
<1>5. CacheGenuine'
  <2>1. checked' + Timeout = Timeout
    BY <1>1
  <2> QED BY <1>1, <2>1 DEF CacheGenuine, WellSince, IllSince
<1>6. Ages' /\ Round' /\ Waits'
  BY <1>1 DEF ReadyInv, Ages, Round, Waits
<1> QED BY <1>3, <1>4, <1>5, <1>6 DEF ReadyInv

\* What the results received so far say of the groups.
LEMMA Decides ==
  ASSUME ReadyInv, holder # None
  PROVE  /\ group \in DOMAIN Groups
         /\ channel[group] # <<>> /\ Head(channel[group]) =>
              left > 0 /\ WellSince(group, Timeout - left)
         /\ failed = Cardinality(Groups[group]) => IllSince(group, Timeout)
<1>1. /\ group \in DOMAIN Groups /\ channel[group] \in Seq(BOOLEAN) /\ left \in 0..Timeout /\ failed \in Nat
      /\ Len(channel[group]) \in Nat
  BY GroupsAre DEF ReadyInv, ReadyShape
<1>2. \A t \in Groups[group] : wellAge[t] \in Nat /\ illAge[t] \in Nat
  BY <1>1, GroupsAre DEF ReadyInv, Ages, Old
<1>3. ASSUME channel[group] # <<>>, Head(channel[group])
      PROVE  left > 0 /\ WellSince(group, Timeout - left)
  <2>1. Yes(channel[group])
    BY <1>1, <1>3, YesTail
  <2>2. left > 0 /\ WellSince(group, 0)
    BY <1>1, <2>1 DEF ReadyInv, Round
  <2> QED BY <1>1, <1>2, <2>2 DEF WellSince
<1>4. ASSUME failed = Cardinality(Groups[group]) PROVE IllSince(group, Timeout)
  <2>1. Len(channel[group]) + failed + Pending(group) = Cardinality(Groups[group]) /\ Pending(group) \in Nat
    BY <1>1, PendingIs DEF ReadyInv, Counts, Pending
  <2>2. Len(channel[group]) = 0 /\ Pending(group) = 0
    BY <1>1, <1>4, <2>1
  <2>3. channel[group] = <<>> /\ probing \cap Groups[group] = {}
    <3>1. channel[group] = <<>>
      BY <1>1, <2>2
    <3>2. probing \cap Groups[group] = {}
      BY <1>1, <2>2, PendingIs DEF Pending
    <3> QED BY <3>1, <3>2
  <2>4. ~Yes(channel[group]) /\ Groups[group] \ probing = Groups[group]
    BY <2>3, NoYes
  <2>5. \A t \in Groups[group] : illAge[t] <= Timeout - left
    BY <1>1, <2>4 DEF ReadyInv, Round
  <2> QED BY <1>1, <1>2, <2>5 DEF IllSince
<1> QED BY <1>1, <1>3, <1>4

LEMMA ReceiveKeeps ==
  ASSUME ReadyInv, Receive
  PROVE  ReadyInv'
<1>1. holder # None /\ UNCHANGED <<health, wellAge, illAge, waited>>
  BY DEF Receive, world
<1>2. /\ group \in DOMAIN Groups /\ left \in 0..Timeout /\ failed \in Nat /\ group \in Nat /\ group # 0
      /\ channel \in [DOMAIN Groups -> Seq(BOOLEAN)] /\ channel[group] \in Seq(BOOLEAN)
  <2>1. group \in DOMAIN Groups
    BY <1>1, Decides
  <2>2. /\ channel \in [DOMAIN Groups -> Seq(BOOLEAN)] /\ left \in 0..Timeout /\ failed \in Nat
        /\ group \in 0..Len(Groups) /\ group # 0
    BY <1>1 DEF ReadyInv, ReadyShape
  <2> QED BY <2>1, <2>2, GroupsAre
<1>3. CASE channel[group] # <<>> /\ Head(channel[group]) /\ GroupIs(TRUE)
  <2>1. left > 0 /\ WellSince(group, Timeout - left)
    BY <1>1, <1>3, Decides
  <2>2. \A g \in 1..group : WellSince(g, Timeout - left)
    <3>1. \A g \in 1..group : g = group \/ g \in 1..(group - 1)
      BY <1>2
    <3> QED BY <1>2, <2>1, <3>1 DEF ReadyInv, Round
  <2>3. CASE group < Len(Groups) /\ Starts(group + 1) /\ UNCHANGED <<stage, holder, left, cached, checked>>
    <3>1. group + 1 \in DOMAIN Groups
      BY <1>2, <2>3, GroupsAre
    <3>2. /\ group' = group + 1 /\ failed' = 0 /\ probing' = probing \cup Groups[group + 1]
          /\ channel'[group + 1] = <<>>
      BY <1>2, <2>3, <3>1 DEF Starts
    <3>3. Counts' /\ probing' \subseteq Targets /\ channel' \in [DOMAIN Groups -> Seq(BOOLEAN)]
      BY <2>3, <3>1, StartsCounts DEF ReadyInv
    <3>4. ReadyShape'
      BY <1>1, <1>2, <2>3, <3>1, <3>2, <3>3, GroupsAre DEF ReadyInv, ReadyShape
    <3>5. Round'
      <4>1. ~Yes(channel'[group']) /\ Groups[group'] \ probing' = {} /\ 1..(group' - 1) = 1..group /\ left' # 0
        BY <1>2, <2>1, <2>3, <3>2, NoYes
      <4>2. \A g \in 1..group : WellSince(g, Timeout - left)'
        BY <1>1, <2>2, <2>3 DEF WellSince
      <4> QED BY <4>1, <4>2 DEF Round
    <3>6. Ages' /\ CacheGenuine' /\ Waits'
      BY <1>1, <2>3 DEF ReadyInv, Ages, CacheGenuine, Waits, WellSince, IllSince
    <3> QED BY <3>3, <3>4, <3>5, <3>6 DEF ReadyInv
  <2>4. CASE group >= Len(Groups) /\ Finishes(TRUE)
    <3>1. \A g \in DOMAIN Groups : g \in 1..group
      BY <1>2, <2>4, GroupsAre
    <3>2. \A g \in DOMAIN Groups : \A t \in Groups[g] : wellAge[t] \in Nat
      BY GroupsAre DEF ReadyInv, Ages, Old
    <3>3. \A g \in DOMAIN Groups : WellSince(g, Timeout)
      <4> SUFFICES ASSUME NEW g \in DOMAIN Groups PROVE WellSince(g, Timeout)
        OBVIOUS
      <4>1. PICK t \in Groups[g] : wellAge[t] <= Timeout - left
        BY <2>2, <3>1 DEF WellSince
      <4>2. wellAge[t] \in Nat
        BY <3>2
      <4> QED BY <1>2, <4>1, <4>2 DEF WellSince
    <3> QED BY <1>1, <2>4, <3>3, FinishesKeeps
  <2>5. CASE group < Len(Groups)
    BY <1>3, <2>3, <2>5 DEF GroupIs, cache
  <2>6. CASE ~(group < Len(Groups))
    <3>1. group >= Len(Groups)
      BY <1>2, <2>6, GroupsAre
    <3> QED BY <1>3, <2>4, <2>6, <3>1 DEF GroupIs
  <2> QED BY <2>5, <2>6
<1>4. CASE /\ channel[group] # <<>> /\ ~Head(channel[group])
           /\ channel' = [channel EXCEPT ![group] = Tail(channel[group])] /\ failed' = failed + 1
           /\ UNCHANGED <<stage, holder, group, left, probing, cached, checked>>
  <2>1. /\ Tail(channel[group]) \in Seq(BOOLEAN) /\ Len(Tail(channel[group])) = Len(channel[group]) - 1
        /\ Len(channel[group]) \in Nat /\ (Yes(Tail(channel[group])) <=> Yes(channel[group]))
    BY <1>2, <1>4, YesTail
  <2>2. /\ channel' \in [DOMAIN Groups -> Seq(BOOLEAN)] /\ channel'[group] = Tail(channel[group])
        /\ \A g \in DOMAIN Groups \ {group} : channel'[g] = channel[g]
    BY <1>2, <1>4, <2>1
  <2>3. ReadyShape'
    <3>1. failed' = failed + 1 /\ failed \in Nat
          /\ UNCHANGED <<stage, holder, group, left, probing, cached, checked>>
      BY <1>2, <1>4, Zenon
    <3>2. failed' \in Nat
      BY <3>1
    <3> QED BY <2>2, <3>1, <3>2 DEF ReadyInv, ReadyShape
  <2>4. Counts'
    <3> SUFFICES ASSUME NEW g \in DOMAIN Groups
                 PROVE  /\ Len(channel'[g]) + Pending(g)' <= Cardinality(Groups[g])
                        /\ g = group' => Len(channel'[g]) + failed' + Pending(g)' = Cardinality(Groups[g])
      BY DEF Counts
    <3>1. /\ Len(channel[g]) + Pending(g) <= Cardinality(Groups[g])
          /\ g = group => Len(channel[g]) + failed + Pending(g) = Cardinality(Groups[g])
          /\ Pending(g)' = Pending(g) /\ Pending(g) \in Nat /\ Cardinality(Groups[g]) \in Nat
          /\ group' = group /\ failed' = failed + 1
      BY <1>4, PendingIs, GroupsAre DEF ReadyInv, Counts, Pending
    <3>2. CASE g = group
      <4>1. Len(channel'[g]) = Len(channel[g]) - 1 /\ Len(channel[g]) \in Nat
        BY <2>1, <2>2, <3>2
      <4> QED BY <1>2, <3>1, <3>2, <4>1
    <3>3. CASE g # group
      BY <2>2, <3>1, <3>3
    <3> QED BY <3>2, <3>3
  <2>5. Round'
    BY <1>1, <1>2, <1>4, <2>1, <2>2 DEF ReadyInv, Round, WellSince
  <2>6. Ages' /\ CacheGenuine' /\ Waits'
    BY <1>1, <1>4 DEF ReadyInv, Ages, CacheGenuine, Waits, WellSince, IllSince
  <2> QED BY <2>3, <2>4, <2>5, <2>6 DEF ReadyInv
<1>5. CASE failed = Cardinality(Groups[group]) /\ GroupIs(FALSE)
  <2>1. Finishes(FALSE)
    BY <1>5 DEF GroupIs
  <2>2. \E g \in DOMAIN Groups : IllSince(g, Timeout)
    BY <1>1, <1>5, Decides
  <2> QED BY <1>1, <2>1, <2>2, FinishesKeeps
<1> QED BY <1>3, <1>4, <1>5 DEF Receive, cache

LEMMA OlderIs ==
  ASSUME NEW a \in 0..Old
  PROVE  /\ Older(a) \in 0..Old /\ Older(a) <= a + 1 /\ (Older(a) < Old => Older(a) = a + 1 /\ a < Old)
BY DEF Older, Least, Old

LEMMA TickKeeps ==
  ASSUME ReadyInv, Tick
  PROVE  ReadyInv'
<1>1. /\ \A r \in Requests : stage[r] # "lock" \/ holder # None
      /\ holder # None => channel[group] = <<>> /\ failed < Cardinality(Groups[group])
      /\ \A t \in probing : health[t] # "ok" /\ left > 0
      /\ left' = IF holder # None THEN left - 1 ELSE 0
      /\ checked' = Older(checked)
      /\ wellAge' = [t \in Targets |-> IF health[t] # "bad" THEN 0 ELSE Older(wellAge[t])]
      /\ illAge' = [t \in Targets |-> IF health[t] # "ok" THEN 0 ELSE Older(illAge[t])]
      /\ waited' = [r \in Requests |-> IF stage[r] \in {"lock", "probe"} THEN waited[r] + 1 ELSE 0]
      /\ channel' = [g \in DOMAIN Groups |-> <<>>]
      /\ UNCHANGED <<stage, holder, group, probing, failed, cached, health>>
  BY DEF Tick
<1>2. /\ Old \in Nat /\ checked \in 0..Old /\ left \in 0..Timeout /\ probing \subseteq Targets
      /\ wellAge \in [Targets -> 0..Old] /\ illAge \in [Targets -> 0..Old]
      /\ (group # 0 <=> holder # None) /\ group \in 0..Len(Groups)
  BY DEF ReadyInv, ReadyShape, Ages, Old
<1>3. ASSUME holder # None
      PROVE  group \in DOMAIN Groups /\ left > 0 /\ left' = left - 1 /\ ~Yes(channel[group])
  <2>1. group \in DOMAIN Groups
    BY <1>2, <1>3, GroupsAre
  <2>2. channel[group] = <<>> /\ failed < Cardinality(Groups[group]) /\ Len(<<>>) = 0
    BY <1>1, <1>3
  <2>3. Len(channel[group]) + failed + Pending(group) = Cardinality(Groups[group])
        /\ Pending(group) \in Nat /\ failed \in Nat /\ Cardinality(Groups[group]) \in Nat
    BY <2>1, PendingIs, GroupsAre DEF ReadyInv, ReadyShape, Counts, Pending
  <2>4. Pending(group) # 0
    BY <2>2, <2>3
  <2>5. probing \cap Groups[group] # {}
    BY <2>1, <2>4, PendingIs, Zenon DEF Pending
  <2> QED BY <1>1, <1>3, <2>1, <2>2, <2>5, NoYes
<1>4. left' \in 0..Timeout /\ checked' \in 0..Old
  <2>1. checked' \in 0..Old
    BY <1>1, <1>2, OlderIs
  <2>2. left' \in 0..Timeout
    BY <1>1, <1>2, <1>3
  <2> QED BY <2>1, <2>2
<1>5. \A t \in Targets : /\ wellAge'[t] \in 0..Old /\ illAge'[t] \in 0..Old
                         /\ wellAge'[t] <= wellAge[t] + 1 /\ illAge'[t] <= illAge[t] + 1
                         /\ wellAge[t] \in 0..Old /\ illAge[t] \in 0..Old
  <2> SUFFICES ASSUME NEW t \in Targets
               PROVE  /\ wellAge'[t] \in 0..Old /\ illAge'[t] \in 0..Old
                      /\ wellAge'[t] <= wellAge[t] + 1 /\ illAge'[t] <= illAge[t] + 1
                      /\ wellAge[t] \in 0..Old /\ illAge[t] \in 0..Old
    OBVIOUS
  <2>1. wellAge[t] \in 0..Old /\ illAge[t] \in 0..Old
    BY <1>2
  <2>2. /\ wellAge'[t] = IF health[t] # "bad" THEN 0 ELSE Older(wellAge[t])
        /\ illAge'[t] = IF health[t] # "ok" THEN 0 ELSE Older(illAge[t])
    BY <1>1
  <2> QED BY <1>2, <2>1, <2>2, OlderIs
<1>6. ReadyShape'
  <2>1. <<>> \in Seq(BOOLEAN)
    OBVIOUS
  <2>2. channel' \in [DOMAIN Groups -> Seq(BOOLEAN)]
    BY <1>1, <2>1
  <2> QED BY <1>1, <1>4, <2>2 DEF ReadyInv, ReadyShape
<1>7. Ages'
  <2>1. wellAge' \in [Targets -> 0..Old] /\ illAge' \in [Targets -> 0..Old]
    BY <1>1, <1>5
  <2>2. \A t \in Targets : /\ health'[t] # "bad" => wellAge'[t] = 0
                           /\ health'[t] # "ok" => illAge'[t] = 0
    BY <1>1
  <2>3. Old' = Old
    BY DEF Old
  <2> QED BY <1>1, <2>1, <2>2, <2>3 DEF ReadyInv, Ages
<1>8. Counts'
  <2> SUFFICES ASSUME NEW g \in DOMAIN Groups
               PROVE  /\ Len(channel'[g]) + Pending(g)' <= Cardinality(Groups[g])
                      /\ g = group' => Len(channel'[g]) + failed' + Pending(g)' = Cardinality(Groups[g])
    BY DEF Counts
  <2>1. /\ Len(channel[g]) + Pending(g) <= Cardinality(Groups[g])
        /\ g = group => Len(channel[g]) + failed + Pending(g) = Cardinality(Groups[g])
        /\ Pending(g)' = Pending(g) /\ Pending(g) \in Nat /\ Cardinality(Groups[g]) \in Nat
        /\ group' = group /\ failed' = failed
    BY <1>1, PendingIs, GroupsAre DEF ReadyInv, Counts, Pending
  <2>2. Len(channel'[g]) = 0 /\ Len(channel[g]) \in Nat
    BY <1>1 DEF ReadyInv, ReadyShape
  <2>3. g = group => Len(channel[g]) = 0
    BY <1>1, <1>2, GroupsAre
  <2> QED BY <2>1, <2>2, <2>3
<1>9. Round'
  <2> SUFFICES ASSUME group # 0 PROVE Round'
    BY <1>1 DEF Round
  <2>1. /\ group \in DOMAIN Groups /\ left > 0 /\ left' = left - 1 /\ ~Yes(channel[group])
        /\ group' = group /\ probing' = probing /\ channel'[group] = <<>>
    BY <1>1, <1>2, <1>3
  <2>2. \A g \in 1..(group - 1) : WellSince(g, Timeout - left)'
    <3> SUFFICES ASSUME NEW g \in 1..(group - 1) PROVE WellSince(g, Timeout - left)'
      OBVIOUS
    <3>1. g \in DOMAIN Groups
      BY <2>1, GroupsAre
    <3>2. PICK t \in Groups[g] : wellAge[t] <= Timeout - left
      BY <2>1 DEF ReadyInv, Round, WellSince
    <3>3. t \in Targets
      BY <3>1, GroupsAre
    <3>4. wellAge'[t] <= Timeout - left'
      BY <1>2, <1>5, <2>1, <3>2, <3>3
    <3> QED BY <3>4 DEF WellSince
  <2>3. \A t \in probing \cap Groups[group] : illAge'[t] = 0
    BY <1>1, <1>2
  <2>4. \A t \in Groups[group] \ probing : illAge'[t] <= Timeout - left'
    <3> SUFFICES ASSUME NEW t \in Groups[group] \ probing PROVE illAge'[t] <= Timeout - left'
      OBVIOUS
    <3>1. t \in Targets
      BY <2>1, GroupsAre
    <3>2. illAge[t] <= Timeout - left
      BY <2>1 DEF ReadyInv, Round
    <3> QED BY <1>2, <1>5, <2>1, <3>1, <3>2
  <2> QED BY <2>1, <2>2, <2>3, <2>4, NoYes DEF Round
<1>10. CacheGenuine'
  <2> SUFFICES ASSUME checked' < Old
               PROVE  /\ cached'  => \A g \in DOMAIN Groups : WellSince(g, checked + Timeout)'
                      /\ ~cached' => \E g \in DOMAIN Groups : IllSince(g, checked + Timeout)'
    BY DEF CacheGenuine, Old
  <2>1. checked' = checked + 1 /\ checked < Old
    BY <1>1, <1>2, OlderIs
  <2>2. ASSUME NEW g \in DOMAIN Groups, WellSince(g, checked + Timeout)
        PROVE  WellSince(g, checked + Timeout)'
    <3>1. PICK t \in Groups[g] : wellAge[t] <= checked + Timeout
      BY <2>2 DEF WellSince
    <3>2. t \in Targets
      BY GroupsAre
    <3>3. wellAge'[t] <= checked' + Timeout
      BY <1>2, <1>5, <2>1, <3>1, <3>2
    <3> QED BY <3>3 DEF WellSince
  <2>3. ASSUME NEW g \in DOMAIN Groups, IllSince(g, checked + Timeout)
        PROVE  IllSince(g, checked + Timeout)'
    <3>1. \A t \in Groups[g] : t \in Targets /\ illAge[t] <= checked + Timeout
      BY <2>3, GroupsAre DEF IllSince
    <3>2. \A t \in Groups[g] : illAge'[t] <= checked' + Timeout
      BY <1>2, <1>5, <2>1, <3>1
    <3> QED BY <3>2 DEF IllSince
  <2> QED BY <1>1, <2>1, <2>2, <2>3 DEF ReadyInv, CacheGenuine
<1>11. Waits'
  <2>1. waited \in [Requests -> 0..Timeout] /\ stage \in [Requests -> {"idle", "lock", "probe"}]
    BY DEF ReadyInv, Waits, ReadyShape
  <2>2. ASSUME NEW r \in Requests
        PROVE  /\ waited'[r] \in 0..Timeout
               /\ holder # None /\ stage[r] # "idle" => waited'[r] <= Timeout - left'
               /\ holder = None => stage[r] # "lock"
    <3>1. waited'[r] = IF stage[r] \in {"lock", "probe"} THEN waited[r] + 1 ELSE 0
      BY <1>1
    <3>2. CASE stage[r] = "idle"
      BY <3>1, <3>2
    <3>3. CASE stage[r] # "idle"
      <4>1. holder # None
        BY <1>1, <2>1, <3>3 DEF ReadyInv, ReadyShape
      <4>2. waited[r] <= Timeout - left /\ waited[r] \in Nat
        BY <2>1, <3>3, <4>1 DEF ReadyInv, Waits
      <4> QED BY <1>2, <1>3, <2>1, <3>1, <3>3, <4>1, <4>2
    <3> QED BY <3>2, <3>3
  <2>3. waited' \in [Requests -> 0..Timeout]
    BY <1>1, <2>2
  <2> QED BY <1>1, <2>2, <2>3 DEF Waits
<1> QED BY <1>6, <1>7, <1>8, <1>9, <1>10, <1>11 DEF ReadyInv

LEMMA ReadyStep ==
  ASSUME ReadyInv, [ReadinessNext]_readinessVars
  PROVE  ReadyInv'
<1>1. CASE UNCHANGED readinessVars
  BY <1>1 DEF readinessVars, probes, cache, world, ReadyInv, ReadyShape, Ages, Counts, Pending, Round,
              CacheGenuine, WellSince, IllSince, Waits
<1>2. CASE ReadinessNext
  BY <1>2, ArriveKeeps, LockKeeps, SendKeeps, ChangeKeeps, ReceiveKeeps, TickKeeps DEF ReadinessNext
<1> QED BY <1>1, <1>2

LEMMA ReadyInvariance == ReadinessSpec => []ReadyInv
BY ReadyInit, ReadyStep, PTL DEF ReadinessSpec

\* However many requests wait, and however the targets answer, no request waits for longer
\* than one round of probes, and no probe for a reader of its result.
THEOREM ReadinessHoldsNobodyUp == ReadinessSpec => []NobodyStuck
<1>1. ReadyInv => NobodyStuck
  <2> SUFFICES ASSUME ReadyInv PROVE NobodyStuck
    OBVIOUS
  <2>1. ReadinessTypeOK
    <3>1. ASSUME NEW g \in DOMAIN Groups
          PROVE  channel[g] \in UNION {[1..n -> BOOLEAN] : n \in 0..Cardinality(Groups[g])}
      <4>1. /\ channel[g] \in Seq(BOOLEAN) /\ Len(channel[g]) + Pending(g) <= Cardinality(Groups[g])
            /\ Pending(g) \in Nat /\ Cardinality(Groups[g]) \in Nat
        BY PendingIs, GroupsAre DEF ReadyInv, ReadyShape, Counts, Pending
      <4>2. channel[g] \in [1..Len(channel[g]) -> BOOLEAN] /\ Len(channel[g]) \in 0..Cardinality(Groups[g])
        BY <4>1
      <4> QED BY <4>2
    <3> QED BY <3>1 DEF ReadyInv, ReadyShape, ReadinessTypeOK
  <2>2. WaitBounded
    BY DEF ReadyInv, Waits, WaitBounded
  <2>3. ASSUME NEW t \in probing PROVE HasRoom(GroupOf(t)) /\ Results(t) # {}
    <3>1. t \in Targets /\ left \in 0..Timeout
      BY DEF ReadyInv, ReadyShape
    <3>2. GroupOf(t) \in DOMAIN Groups /\ t \in probing \cap Groups[GroupOf(t)]
      BY <3>1, GroupOfIs
    <3>3. /\ Len(channel[GroupOf(t)]) + Pending(GroupOf(t)) <= Cardinality(Groups[GroupOf(t)])
          /\ Pending(GroupOf(t)) \in Nat /\ Pending(GroupOf(t)) # 0 /\ Len(channel[GroupOf(t)]) \in Nat
          /\ Cardinality(Groups[GroupOf(t)]) \in Nat
      <4>1. Pending(GroupOf(t)) \in Nat /\ Pending(GroupOf(t)) # 0
        BY <3>2, PendingIs DEF Pending
      <4>2. channel[GroupOf(t)] \in Seq(BOOLEAN)
        BY <3>2 DEF ReadyInv, ReadyShape
      <4> QED BY <3>2, <4>1, <4>2, GroupsAre DEF ReadyInv, Counts
    <3>4. HasRoom(GroupOf(t))
      BY <3>3 DEF HasRoom
    <3>5. TRUE \in Results(t) \/ FALSE \in Results(t)
      <4>1. CASE health[t] # "bad" /\ left > 0
        BY <4>1, Zenon DEF Results
      <4>2. CASE health[t] = "bad" \/ left = 0
        BY <4>2, Zenon DEF Results
      <4>3. left > 0 \/ left = 0
        BY <3>1
      <4> QED BY <4>1, <4>2, <4>3, Zenon
    <3> QED BY <3>4, <3>5
  <2> QED BY <2>1, <2>2, <2>3 DEF NobodyStuck, ProbesEnd
<1> QED BY <1>1, ReadyInvariance, PTL

\* An answer is given from the cache, or cached as it is given.
LEMMA AnswersAreFresh ==
  ASSUME ReadyInv, [ReadinessNext]_readinessVars, NEW r \in Requests, stage[r] # "idle", stage'[r] = "idle"
  PROVE  checked' < TTL /\ UNCHANGED <<wellAge, illAge>>
<1>1. stage \in [Requests -> {"idle", "lock", "probe"}]
  BY DEF ReadyInv, ReadyShape
<1>2. ReadinessNext /\ stage' # stage
  BY DEF readinessVars
<1>3. ASSUME NEW q \in Requests, Arrive(q) PROVE FALSE
  BY <1>1, <1>3 DEF Arrive
<1>4. ASSUME NEW q \in Requests, Lock(q) PROVE checked' < TTL /\ UNCHANGED <<wellAge, illAge>>
  <2>1. CASE Fresh
    BY <1>4, <2>1 DEF Lock, Fresh, cache, world
  <2>2. CASE ~Fresh
    BY <1>1, <1>4, <2>2 DEF Lock
  <2> QED BY <2>1, <2>2
<1>5. ASSUME Receive PROVE checked' < TTL /\ UNCHANGED <<wellAge, illAge>>
  <2>1. PICK b \in BOOLEAN : GroupIs(b)
    BY <1>2, <1>5, Zenon DEF Receive
  <2>2. checked' = 0
    <3>1. CASE b /\ group < Len(Groups)
      BY <1>2, <2>1, <3>1 DEF GroupIs
    <3>2. CASE ~(b /\ group < Len(Groups))
      BY <2>1, <3>2 DEF GroupIs, Finishes
    <3> QED BY <3>1, <3>2
  <2>3. UNCHANGED <<world, waited>>
    BY <1>5, Zenon DEF Receive
  <2> QED BY <2>2, <2>3 DEF world
<1> QED BY <1>2, <1>3, <1>4, <1>5 DEF ReadinessNext, Send, Change, Tick

\* Every answer is true of a moment less than cacheTTL and probeTimeout ago.
THEOREM ReadinessAnswersJustified == ReadinessSpec => AnswersJustified
<1>1. ASSUME ReadyInv, ReadyInv', [ReadinessNext]_readinessVars
      PROVE  /\ Given(TRUE) => \A g \in DOMAIN Groups : \E t \in Groups[g] : wellAge[t] < TTL + Timeout
             /\ Given(FALSE) => \E g \in DOMAIN Groups : \A t \in Groups[g] : illAge[t] < TTL + Timeout
  <2> SUFFICES ASSUME NEW r \in Requests, stage[r] # "idle", stage'[r] = "idle"
               PROVE  /\ cached' = TRUE => \A g \in DOMAIN Groups : \E t \in Groups[g] : wellAge[t] < TTL + Timeout
                      /\ cached' = FALSE => \E g \in DOMAIN Groups : \A t \in Groups[g] : illAge[t] < TTL + Timeout
    BY DEF Given
  <2>1. checked' < TTL /\ checked' \in Nat /\ checked' < Old /\ UNCHANGED <<wellAge, illAge>>
    <3>1. checked' < TTL /\ UNCHANGED <<wellAge, illAge>>
      BY <1>1, AnswersAreFresh
    <3> QED BY <1>1, <3>1 DEF ReadyInv, ReadyShape, Old
  <2>2. \A g \in DOMAIN Groups : \A t \in Groups[g] : wellAge[t] \in Nat /\ illAge[t] \in Nat
    BY <1>1, GroupsAre DEF ReadyInv, Ages, Old
  <2>3. /\ cached'  => \A g \in DOMAIN Groups : \E t \in Groups[g] : wellAge[t] <= checked' + Timeout
        /\ ~cached' => \E g \in DOMAIN Groups : \A t \in Groups[g] : illAge[t] <= checked' + Timeout
    BY <1>1, <2>1 DEF ReadyInv, CacheGenuine, WellSince, IllSince, Old
  <2>4. cached' = TRUE => \A g \in DOMAIN Groups : \E t \in Groups[g] : wellAge[t] < TTL + Timeout
    BY <2>1, <2>2, <2>3
  <2>5. cached' = FALSE => \E g \in DOMAIN Groups : \A t \in Groups[g] : illAge[t] < TTL + Timeout
    BY <2>1, <2>2, <2>3
  <2> QED BY <2>4, <2>5
<1>2. ReadinessSpec => ReadyJustified /\ UnavailableJustified
  BY <1>1, ReadyInvariance, PTL DEF ReadinessSpec, ReadyJustified, UnavailableJustified
<1> QED BY <1>2 DEF AnswersJustified
=============================================================================
