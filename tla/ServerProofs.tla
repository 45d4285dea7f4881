---------------------------- MODULE ServerProofs ----------------------------
(***************************************************************************)
(* Server and RequestLog proved for any requests, streams, limits and what *)
(* an earlier process logged: what a shutdown leaves, and that no failure  *)
(* of a file operation loses an entry or lets a log grow; and of Watcher,  *)
(* which runs beside them, that what it leaves on disk is what it says.    *)
(***************************************************************************)
EXTENDS Server, Watcher, FiniteSetTheorems, TLAPS

USE LogAssumption, ServerAssumption
-----------------------------------------------------------------------------
(* A log file *)

Bounded(f) == Cardinality(f.active) > MaxLogSize => f.stuck
Counted(f) == f.open => Cardinality(f.active) <= f.size
SoundFile(f, S) == /\ f \in LogFile(S) /\ IsFiniteSet(f.active)
                   /\ Counted(f) /\ Bounded(f)

\* A file that is open for one more entry.
Ready(f) == f.open => f.size < MaxLogSize \/ f.stuck

Keeps(f, g) == f.active \subseteq g.active \cup g.rotated

LEMMA OpenedSound ==
  ASSUME NEW S, NEW f, SoundFile(f, S), NEW g \in Opened(f)
  PROVE  /\ SoundFile(g, S) /\ g.active = f.active /\ g.rotated = f.rotated /\ g.stuck = f.stuck
         /\ g.open => g.size = Cardinality(f.active)
<1>1. f \in LogFile(S) /\ Cardinality(f.active) \in Nat /\ IsFiniteSet(f.active)
  BY FS_CardinalityType DEF SoundFile
<1>2. g \in LogFile(S) /\ g.active = f.active /\ g.rotated = f.rotated /\ g.stuck = f.stuck
      /\ (g.open => g.size = Cardinality(f.active))
  BY <1>1 DEF Opened, Closed, LogFile
<1> QED BY <1>1, <1>2 DEF SoundFile, Counted, Bounded

LEMMA RenamedSound ==
  ASSUME NEW S, NEW f, SoundFile(f, S), NEW g \in Renamed(f)
  PROVE  SoundFile(g, S) /\ Keeps(f, g) /\ (g.stuck \/ g.active = {})
<1>1. f \in LogFile(S) /\ IsFiniteSet(f.active) /\ IsFiniteSet({}) /\ Cardinality({}) = 0
  BY FS_EmptySet DEF SoundFile
<1>2. CASE g = [Closed(f) EXCEPT !.stuck = TRUE]
  <2>1. g \in LogFile(S) /\ g.active = f.active /\ ~g.open /\ g.stuck
    BY <1>1, <1>2 DEF Closed, LogFile
  <2> QED BY <1>1, <2>1 DEF SoundFile, Counted, Bounded, Keeps
<1>3. CASE g = [Closed(f) EXCEPT !.active = {}, !.rotated = f.active, !.stuck = FALSE]
  <2>1. g \in LogFile(S) /\ g.active = {} /\ ~g.open /\ g.rotated = f.active
    BY <1>1, <1>3 DEF Closed, LogFile
  <2> QED BY <1>1, <2>1 DEF SoundFile, Counted, Bounded, Keeps
<1> QED BY <1>2, <1>3 DEF Renamed

LEMMA AppendedSound ==
  ASSUME NEW S, NEW f, SoundFile(f, S), Ready(f), f.open, NEW m \in S, NEW g \in Appended(f, m)
  PROVE  SoundFile(g, S) /\ Keeps(f, g) /\ g.rotated = f.rotated
<1>1. f \in LogFile(S) /\ IsFiniteSet(f.active) /\ Cardinality(f.active) \in Nat
      /\ Cardinality(f.active) <= f.size /\ (f.size < MaxLogSize \/ f.stuck)
  BY FS_CardinalityType DEF SoundFile, Counted, Ready
<1>2. CASE g = Closed(f)
  <2>1. g \in LogFile(S) /\ g.active = f.active /\ ~g.open /\ g.rotated = f.rotated
        /\ g.stuck = f.stuck
    BY <1>1, <1>2 DEF Closed, LogFile
  <2> QED BY <1>1, <2>1 DEF SoundFile, Counted, Bounded, Keeps
<1>3. CASE g = [f EXCEPT !.active = @ \cup {m}, !.size = @ + 1]
  <2>0. f.active \cup {m} \in SUBSET S /\ f.size + 1 \in Nat
    BY <1>1 DEF LogFile
  <2>1. g \in LogFile(S) /\ g.active = f.active \cup {m} /\ g.size = f.size + 1
        /\ g.rotated = f.rotated /\ g.stuck = f.stuck
    <3> DEFINE A == f.active \cup {m}
               n == f.size + 1
    <3>1. A \in SUBSET S /\ n \in Nat /\ g = [f EXCEPT !.active = A, !.size = n]
      BY <1>3, <2>0
    <3> HIDE DEF A, n
    <3>2. g \in LogFile(S) /\ g.active = A /\ g.size = n
          /\ g.rotated = f.rotated /\ g.stuck = f.stuck
      BY <1>1, <3>1 DEF LogFile
    <3> QED BY <3>2 DEF A, n
  <2>2. /\ IsFiniteSet(g.active) /\ Cardinality(g.active) \in Nat
        /\ Cardinality(g.active) <= Cardinality(f.active) + 1
    <3>1. /\ IsFiniteSet(f.active \cup {m})
          /\ \/ Cardinality(f.active \cup {m}) = Cardinality(f.active)
             \/ Cardinality(f.active \cup {m}) = Cardinality(f.active) + 1
      BY <1>1, FS_AddElement
    <3> QED BY <1>1, <2>1, <3>1
  <2>3. f.size \in Nat
    BY <1>1 DEF LogFile
  <2> QED BY <1>1, <2>1, <2>2, <2>3 DEF SoundFile, Counted, Bounded, Keeps
<1> QED BY <1>2, <1>3 DEF Appended

\* Whatever fails on the way, a write keeps what was logged, in the file or in the
\* rotated one, and the file within its limit unless it cannot be rotated.
LEMMA WrittenSound ==
  ASSUME NEW S, NEW f, SoundFile(f, S), NEW m \in S, NEW g \in Written(f, m)
  PROVE  SoundFile(g, S) /\ Keeps(f, g)
<1> DEFINE opened == IF f.open THEN {f} ELSE Opened(f)
           Rotated(x) == IF x.open /\ x.size >= MaxLogSize
                         THEN UNION {Opened(h) : h \in Renamed(x)} ELSE {x}
<1>0. PICK a \in opened : \E b \in Rotated(a) : g \in (IF b.open THEN Appended(b, m) ELSE {b})
  BY DEF Written
<1>1. PICK b \in Rotated(a) : g \in (IF b.open THEN Appended(b, m) ELSE {b})
  BY <1>0
<1>2. SoundFile(a, S) /\ a.active = f.active
  BY <1>0, OpenedSound
<1>3. SoundFile(b, S) /\ Keeps(a, b) /\ Ready(b)
  <2>1. CASE a.open /\ a.size >= MaxLogSize
    <3>1. PICK h \in Renamed(a) : b \in Opened(h)
      BY <1>1, <2>1
    <3>2. SoundFile(h, S) /\ Keeps(a, h) /\ (h.stuck \/ h.active = {})
      BY <1>2, <3>1, RenamedSound
    <3>3. SoundFile(b, S) /\ b.active = h.active /\ b.rotated = h.rotated /\ b.stuck = h.stuck
          /\ (b.open => b.size = Cardinality(h.active))
      BY <3>1, <3>2, OpenedSound
    <3>4. Cardinality({}) = 0
      BY FS_EmptySet
    <3> QED BY <3>2, <3>3, <3>4 DEF Keeps, Ready
  <2>2. CASE ~(a.open /\ a.size >= MaxLogSize)
    <3>1. b = a
      BY <1>1, <2>2
    <3>2. a.size \in Nat
      BY <1>2 DEF SoundFile, LogFile
    <3> QED BY <1>2, <2>2, <3>1, <3>2 DEF Keeps, Ready
  <2> QED BY <2>1, <2>2
<1>4. SoundFile(g, S) /\ Keeps(b, g) /\ g.rotated = b.rotated
  <2>1. CASE b.open
    BY <1>1, <1>3, <2>1, AppendedSound
  <2>2. CASE ~b.open
    BY <1>1, <1>3, <2>2 DEF Keeps
  <2> QED BY <2>1, <2>2
<1> QED BY <1>2, <1>3, <1>4 DEF Keeps

LEMMA ClosedSound ==
  ASSUME NEW S, NEW f, SoundFile(f, S)
  PROVE  SoundFile(Closed(f), S) /\ ~Closed(f).open /\ Closed(f).active = f.active
<1>1. Closed(f) \in LogFile(S) /\ ~Closed(f).open /\ Closed(f).active = f.active
      /\ Closed(f).stuck = f.stuck
  BY DEF SoundFile, Closed, LogFile
<1> QED BY <1>1 DEF SoundFile, Counted, Bounded
-----------------------------------------------------------------------------
(* The logs of the server *)

LogInv == /\ DOMAIN logs = Files /\ \A f \in Files : SoundFile(logs[f], Entries)

LEMMA LogStep == LogInv /\ [Next]_vars => LogInv' /\ \A f \in Files : Keeps(logs[f], logs'[f])
<1> SUFFICES ASSUME LogInv, [Next]_vars
             PROVE  LogInv' /\ \A f \in Files : Keeps(logs[f], logs'[f])
  OBVIOUS
<1>1. CASE logs' = logs
  BY <1>1 DEF LogInv, Keeps
<1>2. CASE CloseLog
  <2>1. DOMAIN logs' = Files /\ \A f \in Files : logs'[f] = Closed(logs[f])
    BY <1>2 DEF CloseLog
  <2>2. \A f \in Files : SoundFile(Closed(logs[f]), Entries) /\ Closed(logs[f]).active = logs[f].active
    BY ClosedSound DEF LogInv
  <2> QED BY <2>1, <2>2 DEF LogInv, Keeps
<1>3. ASSUME NEW r \in Requests, Logs(r), ~(logs' = logs)
      PROVE  LogInv' /\ \A f \in Files : Keeps(logs[f], logs'[f])
  <2>1. PICK isError \in BOOLEAN, f \in Written(logs["request"], r), g \in Written(logs["error"], r) :
          logs' = [logs EXCEPT !["request"] = f, !["error"] = IF isError THEN g ELSE @]
    BY <1>3 DEF Logs
  <2>2. /\ SoundFile(f, Entries) /\ Keeps(logs["request"], f)
        /\ SoundFile(g, Entries) /\ Keeps(logs["error"], g)
    <3>1. r \in Entries /\ "request" \in Files /\ "error" \in Files
      BY DEF Entries, Files
    <3> QED BY <3>1, WrittenSound DEF LogInv
  <2>3. /\ DOMAIN logs' = Files /\ logs'["request"] = f
        /\ logs'["error"] = g \/ logs'["error"] = logs["error"]
    BY <2>1 DEF LogInv, Files
  <2>4. \A x \in Files : SoundFile(logs'[x], Entries)
    BY <2>2, <2>3 DEF LogInv, Files
  <2>5. \A x \in Files : Keeps(logs[x], logs'[x])
    BY <2>2, <2>3 DEF Keeps, Files
  <2> QED BY <2>3, <2>4, <2>5 DEF LogInv
<1> QED BY <1>1, <1>2, <1>3 DEF Next, Main, StartHttp, Select, ServerError, Receive, Drained,
        StreamsEnded, Exit, Signal, HttpFails, Deadline, Request, Comes, Returns, StartStream,
        Stream, Runs, Stops, logVars, vars

LEMMA LogsHold == Spec => []LogInv
<1>1. Init => LogInv
  <2> SUFFICES ASSUME Init PROVE LogInv
    OBVIOUS
  <2>1. DOMAIN logs = Files
    BY DEF Init
  <2>2. ASSUME NEW f \in Files PROVE SoundFile(logs[f], Entries)
    <3>1. PICK S \in SUBSET OldEntries : logs[f] = Unopened(S)
      BY DEF Init
    <3>2. Cardinality(logs[f].active) <= MaxLogSize
      BY DEF Init
    <3>3. IsFiniteSet(S) /\ Cardinality(S) \in Nat
      BY FS_Subset, FS_CardinalityType
    <3>4. logs[f] \in LogFile(Entries) /\ logs[f].active = S /\ ~logs[f].open
      BY <3>1 DEF Unopened, LogFile, Entries
    <3> QED BY <3>2, <3>3, <3>4 DEF SoundFile, Counted, Bounded
  <2> QED BY <2>1, <2>2 DEF LogInv
<1> QED BY <1>1, LogStep, PTL DEF Spec
-----------------------------------------------------------------------------
(* The shutdown *)

Running == {s \in Streams : stream[s] \in {"starting", "running"}}

Shape == /\ main \in {"starting", "serving", "draining", "waiting", "closing", "returning",
                      "exited", "fatal"}
         /\ signal \in BOOLEAN /\ done \in BOOLEAN /\ expired \in BOOLEAN
         /\ logClosed \in BOOLEAN
         /\ stream \in [Streams -> {"off", "starting", "running", "stopped"}]
         /\ http \in {"off", "listening", "closed", "failed"}
         /\ phase \in [Requests -> {"none", "running", "ended", "skipped", "done", "dropped"}]

Ending == main \in {"waiting", "closing", "returning", "exited"}

\* How far main has come, and what is behind it.
Progress ==
  /\ counted = Cardinality(Running)
  /\ main \notin {"starting", "fatal"} => \A s \in Streams : stream[s] # "off"
  /\ main \in {"closing", "returning", "exited"} => Running = {}
  /\ main = "draining" \/ Ending => http # "listening"
  /\ logClosed => main \in {"returning", "exited"} /\ \A f \in Files : ~logs[f].open
  /\ Ending /\ ~expired => InFlight = {}
  /\ \A r \in Requests : phase[r] = "dropped" => logClosed /\ expired

LEMMA ShapeStep == Shape /\ [Next]_vars => Shape'
<1> SUFFICES ASSUME Shape, [Next]_vars PROVE Shape'
  OBVIOUS
<1> USE DEF Shape, streamVars, logVars, MainGoes
<1>1. CASE Main
  BY <1>1 DEF Main, StartHttp, Select, ServerError, Receive, Drained, StreamsEnded, CloseLog, Exit
<1>2. CASE Signal \/ HttpFails \/ Deadline
  BY <1>2 DEF Signal, HttpFails, Deadline
<1>3. ASSUME NEW r \in Requests, Request(r) PROVE Shape'
  BY <1>3 DEF Request, Comes, Returns, Logs
<1>4. ASSUME NEW s \in Streams, StartStream(s) \/ Stream(s) PROVE Shape'
  BY <1>4 DEF StartStream, Stream, Runs, Stops
<1>5. CASE UNCHANGED vars
  BY <1>5 DEF vars
<1> QED BY <1>1, <1>2, <1>3, <1>4, <1>5 DEF Next

LEMMA RunningFinite ==
  /\ IsFiniteSet(Running) /\ Cardinality(Running) \in Nat
  /\ Cardinality(Running) <= Cardinality(Streams) /\ Cardinality(Streams) \in Nat
  /\ Cardinality(Running) = 0 <=> Running = {}
<1>1. Running \subseteq Streams
  BY DEF Running
<1> QED BY <1>1, FS_Subset, FS_CardinalityType, FS_EmptySet

LEMMA ProgressStep == LogInv /\ Shape /\ Progress /\ [Next]_vars => Progress'
<1> SUFFICES ASSUME LogInv, Shape, Progress, [Next]_vars PROVE Progress'
  OBVIOUS
<1> USE DEF Progress, Ending, InFlight, streamVars, logVars
<1>0. UNCHANGED stream => UNCHANGED Running
  BY DEF Running
<1>1. CASE StartHttp \/ ServerError \/ Receive
  BY <1>0, <1>1 DEF StartHttp, ServerError, Receive, MainGoes, Shape
<1>2. CASE Drained
  BY <1>0, <1>2 DEF Drained, MainGoes, Shape
<1>3. CASE StreamsEnded
  <2>1. Running = {}
    BY <1>3, RunningFinite DEF StreamsEnded
  <2> QED BY <1>0, <1>3, <2>1 DEF StreamsEnded, MainGoes, Shape
<1>4. CASE CloseLog
  <2>1. \A f \in Files : ~logs'[f].open
    BY <1>4, ClosedSound DEF CloseLog, LogInv
  <2> QED BY <1>0, <1>4, <2>1 DEF CloseLog, MainGoes, Shape
<1>5. CASE Exit \/ Signal \/ HttpFails \/ Deadline
  BY <1>0, <1>5 DEF Exit, Signal, HttpFails, Deadline, MainGoes, Shape
<1>6. ASSUME NEW r \in Requests, Request(r) PROVE Progress'
  <2>1. CASE Comes(r)
    BY <1>0, <2>1 DEF Comes, Serves, Shape
  <2>2. CASE Returns(r)
    BY <1>0, <2>2 DEF Returns, Shape
  <2>3. CASE Logs(r)
    BY <1>0, <2>3 DEF Logs, Shape
  <2> QED BY <1>6, <2>1, <2>2, <2>3 DEF Request
<1>7. ASSUME NEW s \in Streams, StartStream(s) PROVE Progress'
  <2>1. /\ main = "starting" /\ stream[s] = "off"
        /\ UNCHANGED <<main, signal, done, http, expired, phase, logs, logClosed>>
    BY <1>7 DEF StartStream
  <2>2. CASE stream' = [stream EXCEPT ![s] = "starting"] /\ counted' = counted + 1
    <3>1. Running' = Running \cup {s} /\ s \notin Running
      BY <2>1, <2>2 DEF Shape, Running
    <3>2. Cardinality(Running') = Cardinality(Running) + 1
      BY <3>1, RunningFinite, FS_AddElement
    <3> QED BY <2>1, <2>2, <3>2
  <2>3. CASE stream' = [stream EXCEPT ![s] = "stopped"] /\ UNCHANGED counted
    <3>1. Running' = Running
      BY <2>1, <2>3 DEF Shape, Running
    <3> QED BY <2>1, <2>3, <3>1
  <2> QED BY <1>7, <2>2, <2>3 DEF StartStream
<1>8. ASSUME NEW s \in Streams, Runs(s) PROVE Progress'
  <2>1. Running' = Running
    BY <1>8 DEF Runs, Shape, Running
  <2> QED BY <1>8, <2>1 DEF Runs, Shape
<1>9. ASSUME NEW s \in Streams, Stops(s) PROVE Progress'
  <2>1. Running' = Running \ {s} /\ s \in Running
    BY <1>9 DEF Stops, Shape, Running
  <2>2. Cardinality(Running') = Cardinality(Running) - 1
    BY <2>1, RunningFinite, FS_RemoveElement
  <2> QED BY <1>9, <2>1, <2>2 DEF Stops, Shape
<1>10. CASE UNCHANGED vars
  BY <1>0, <1>10 DEF vars
<1> QED BY <1>1, <1>2, <1>3, <1>4, <1>5, <1>6, <1>7, <1>8, <1>9, <1>10
        DEF Next, Main, Select, Stream

IInv == LogInv /\ Shape /\ Progress

LEMMA Invariance == Spec => []IInv
<1>1. Init => Shape /\ Progress
  <2> SUFFICES ASSUME Init PROVE Shape /\ Progress
    OBVIOUS
  <2>1. Running = {}
    BY DEF Init, Running
  <2>2. Cardinality(Running) = 0
    BY <2>1, FS_EmptySet
  <2> QED BY <2>2 DEF Init, Shape, Progress, Ending
<1> QED BY <1>1, LogsHold, ShapeStep, ProgressStep, PTL DEF Spec, IInv
-----------------------------------------------------------------------------
\* A log outgrows its limit only while it cannot be rotated: logger.rotate reads the
\* size of the file it opens again, whatever failed before.
THEOREM LogsStayBounded == Spec => []LogBounded
<1>1. LogInv => LogBounded
  BY DEF LogInv, SoundFile, Bounded, LogBounded
<1> QED BY <1>1, LogsHold, PTL

\* No failure of an open, a rename, a close or a write loses an entry that was in the
\* file: it is there still, or in the rotated one.
THEOREM EntriesAreKept == Spec => LogKept
<1>1. LogInv /\ [Next]_vars =>
        [\A f \in Files : logs[f].active \subseteq logs'[f].active \cup logs'[f].rotated]_vars
  BY LogStep DEF Keeps
<1> QED BY <1>1, LogsHold, PTL DEF Spec, LogKept

\* A shutdown on a signal leaves every stream proxy returned and the log closed for good,
\* and within the drain's deadline no request without its entry (run.go, from the select).
THEOREM EndsOrderly == Spec => []OrderlyEnd
<1>1. IInv => OrderlyEnd
  <2> SUFFICES ASSUME IInv PROVE OrderlyEnd
    OBVIOUS
  <2>1. TypeOK
    <3>1. counted \in 0..Cardinality(Streams)
      BY RunningFinite DEF IInv, Progress
    <3>2. \A f \in Files : logs[f] \in LogFile(Entries)
      BY DEF IInv, LogInv, SoundFile
    <3> QED BY <3>1, <3>2 DEF IInv, LogInv, Shape, TypeOK
  <2>2. ClosedStaysClosed
    BY DEF IInv, Progress, ClosedStaysClosed
  <2>3. DrainLosesNothing
    BY DEF IInv, Progress, Ending, InFlight, DrainLosesNothing
  <2>4. StreamsAwaited
    BY DEF IInv, Shape, Progress, Running, StreamsAwaited
  <2> QED BY <2>1, <2>2, <2>3, <2>4 DEF OrderlyEnd
<1> QED BY <1>1, Invariance, PTL
-----------------------------------------------------------------------------
(* The memory watcher: Run starts it next to the servers, and it ends on the same done. *)

File == [whole : BOOLEAN, fresh : BOOLEAN]

Named    == {"temp", "rename", "pruneReports", "pruneProfiles", "notify"} \* the profile was written, or failed
Reported == {"pruneReports", "pruneProfiles", "notify"}

WatchShape ==
  /\ pc \in {"idle", "stopped", "down", "create", "fill"} \cup Named
  /\ doneClosed \in BOOLEAN /\ over \in BOOLEAN /\ healthy \in BOOLEAN /\ named \in BOOLEAN
  /\ cool \in 0..Cooldown
  /\ reports \in Seq(File) /\ profiles \in Seq(File)

\* The files of the write in progress are the last of their kind.
WatchFiles ==
  /\ \A i \in DOMAIN reports  : reports[i].whole
  /\ \A i \in DOMAIN reports  : reports[i].fresh => pc \in Reported /\ i = Len(reports)
  /\ \A i \in DOMAIN profiles : profiles[i].fresh => pc \in Named \cup {"fill"} /\ i = Len(profiles)
  /\ pc \in Reported => reports # <<>> /\ reports[Len(reports)].fresh
  /\ pc = "fill" => profiles # <<>> /\ profiles[Len(profiles)].fresh /\ ~named
  /\ pc \in Named /\ named => profiles # <<>> /\ profiles[Len(profiles)].whole
                                                     /\ profiles[Len(profiles)].fresh

\* A write adds a file of each kind, and prunes both or fails while there is room.
WatchRoom ==
  /\ Len(reports)  <= MaxFiles /\ (pc # "pruneReports" => Len(reports) < MaxFiles)
  /\ Len(profiles) <= MaxFiles
  /\ pc \notin {"fill", "temp", "rename", "pruneReports", "pruneProfiles"} => Len(profiles) < MaxFiles

WatchInv == WatchShape /\ WatchFiles /\ WatchRoom

LEMMA FileIs ==
  ASSUME NEW f \in File, f.whole, f.fresh
  PROVE  f = [whole |-> TRUE, fresh |-> TRUE]
<1>1. f = [whole |-> f.whole, fresh |-> f.fresh] /\ f.whole \in BOOLEAN /\ f.fresh \in BOOLEAN
  BY DEF File
<1>2. f.whole = TRUE /\ f.fresh = TRUE
  BY <1>1, Zenon
<1> QED BY <1>1, <1>2, Zenon

LEMMA Boolean ==
  ASSUME NEW b, b = TRUE \/ b = FALSE
  PROVE  b \in BOOLEAN
BY Zenon

LEMMA SettledFiles ==
  ASSUME NEW s \in Seq(File)
  PROVE  LET t == Settled(s)
         IN  /\ t \in Seq(File) /\ Len(t) = Len(s) /\ DOMAIN t = DOMAIN s
             /\ \A i \in DOMAIN s : ~t[i].fresh /\ t[i].whole = s[i].whole
<1> DEFINE t == [i \in 1..Len(s) |-> [s[i] EXCEPT !.fresh = FALSE]]
<1>1. Len(s) \in Nat /\ DOMAIN s = 1..Len(s) /\ \A i \in 1..Len(s) : s[i] \in File
  OBVIOUS
<1>2. \A i \in 1..Len(s) : t[i] \in File /\ ~t[i].fresh /\ t[i].whole = s[i].whole
  BY <1>1 DEF File
<1>3. t \in Seq(File) /\ Len(t) = Len(s) /\ DOMAIN t = 1..Len(s)
  BY <1>1, <1>2
<1>4. Settled(s) = t
  BY <1>1 DEF Settled
<1> QED BY <1>1, <1>2, <1>3, <1>4

\* t is an end of s.
EndOf(s, t) == /\ t \in Seq(File) /\ Len(t) <= Len(s)
               /\ s # <<>> => t # <<>> /\ t[Len(t)] = s[Len(s)]
               /\ \A i \in DOMAIN t : \E j \in DOMAIN s : t[i] = s[j] /\ (j = Len(s) => i = Len(t))

LEMMA Suffix ==
  ASSUME NEW s \in Seq(File), NEW i \in 1..Len(s), NEW t, t = SubSeq(s, i, Len(s))
  PROVE  EndOf(s, t) /\ Len(t) = Len(s) - i + 1
<1>1. Len(s) \in Nat /\ DOMAIN s = 1..Len(s) /\ i \in Nat
  OBVIOUS
<1>2. /\ t \in Seq(File) /\ Len(t) = Len(s) - i + 1 /\ DOMAIN t = 1..Len(t)
      /\ \A k \in 1..Len(t) : t[k] = s[k + i - 1]
  BY <1>1
<1>3. Len(t) \in 1..Len(t) /\ Len(t) + i - 1 = Len(s) /\ Len(t) <= Len(s)
  BY <1>1, <1>2
<1>4. t # <<>> /\ t[Len(t)] = s[Len(s)]
  BY <1>2, <1>3
<1>5. \A k \in DOMAIN t : k + i - 1 \in DOMAIN s /\ (k + i - 1 = Len(s) => k = Len(t))
  BY <1>1, <1>2
<1> QED BY <1>2, <1>3, <1>4, <1>5 DEF EndOf

\* What is left of a sequence that was pruned ends like it.
LEMMA PruningSpares ==
  ASSUME Keep \in Nat \ {0}, NEW s \in Seq(File), NEW t,
         t = Pruned(s) \/ \E i \in 1..(Len(s) - Keep) : t = SubSeq(s, i, Len(s))
  PROVE  EndOf(s, t) /\ (t = Pruned(s) => Len(t) <= Keep)
<1>1. Len(s) \in Nat /\ DOMAIN s = 1..Len(s)
  OBVIOUS
<1>2. ASSUME t = s PROVE EndOf(s, t)
  BY <1>1, <1>2 DEF EndOf
<1>3. ASSUME Len(s) > Keep, t = SubSeq(s, Len(s) - Keep + 1, Len(s)) PROVE EndOf(s, t) /\ Len(t) = Keep
  <2>1. Len(s) - Keep + 1 \in 1..Len(s) /\ Len(s) - (Len(s) - Keep + 1) + 1 = Keep
    BY <1>1, <1>3
  <2> QED BY <1>3, <2>1, Suffix
<1>4. ASSUME NEW i \in 1..(Len(s) - Keep), t = SubSeq(s, i, Len(s)) PROVE EndOf(s, t)
  <2>1. i \in 1..Len(s)
    BY <1>1
  <2> QED BY <1>4, <2>1, Suffix
<1>5. ASSUME t = Pruned(s) PROVE EndOf(s, t) /\ Len(t) <= Keep
  <2>1. Pruned(s) = IF Len(s) <= Keep THEN s ELSE SubSeq(s, Len(s) - Keep + 1, Len(s))
    BY DEF Pruned
  <2>2. CASE Len(s) <= Keep
    BY <1>2, <1>5, <2>1, <2>2
  <2>3. CASE Len(s) > Keep
    BY <1>3, <1>5, <2>1, <2>3
  <2> QED BY <1>1, <2>2, <2>3
<1> QED BY <1>4, <1>5

\* Every action but a write's next step leaves nothing of a write in progress, or its files alone.
LEMMA Settles ==
  ASSUME WatchInv, Settle, pc' \in {"idle", "down"}, Len(reports) < MaxFiles, Len(profiles) < MaxFiles,
         UNCHANGED <<doneClosed, over, healthy, cool, named>>
  PROVE  WatchInv'
<1>1. reports' = Settled(reports) /\ profiles' = Settled(profiles)
  BY DEF Settle
<1>2. reports \in Seq(File) /\ profiles \in Seq(File)
  BY DEF WatchInv, WatchShape
<1>3. WatchShape'
  BY <1>1, <1>2, SettledFiles DEF WatchInv, WatchShape
<1>4. WatchFiles'
  BY <1>1, <1>2, SettledFiles DEF WatchInv, WatchFiles, Named, Reported
<1>5. WatchRoom'
  BY <1>1, <1>2, SettledFiles DEF WatchInv, WatchRoom
<1> QED BY <1>3, <1>4, <1>5 DEF WatchInv

LEMMA Appends ==
  ASSUME NEW s \in Seq(File), NEW x \in File
  PROVE  /\ Append(s, x) \in Seq(File) /\ Len(Append(s, x)) = Len(s) + 1 /\ Append(s, x) # <<>>
         /\ DOMAIN s = 1..Len(s) /\ DOMAIN Append(s, x) = 1..Len(s) + 1 /\ Len(s) \in Nat
         /\ Append(s, x)[Len(s) + 1] = x /\ \A i \in 1..Len(s) : Append(s, x)[i] = s[i]
OBVIOUS

LEMMA WatchStep ==
  ASSUME WatchInv, [WatcherNext]_watcherVars
  PROVE  WatchInv'
<1>1. /\ Keep \in Nat \ {0} /\ Cooldown \in Nat \ {0} /\ MaxFiles \in Nat /\ MaxFiles > Keep
      /\ reports \in Seq(File) /\ profiles \in Seq(File) /\ cool \in 0..Cooldown
      /\ DOMAIN reports = 1..Len(reports) /\ Len(reports) \in Nat
      /\ DOMAIN profiles = 1..Len(profiles) /\ Len(profiles) \in Nat
  BY WatcherAssumption DEF WatchInv, WatchShape
<1>2. CASE Sample
  <2>1. /\ pc = "idle" /\ pc' \in {"idle", "create"} /\ cool' \in 0..Cooldown
        /\ UNCHANGED <<doneClosed, over, healthy, named, reports, profiles>>
    BY <1>1, <1>2 DEF Sample, files
  <2> QED BY <2>1 DEF WatchInv, WatchShape, WatchFiles, WatchRoom, Named, Reported
<1>3. CASE Create
  <2>1. pc = "create" /\ named' = FALSE /\ UNCHANGED <<doneClosed, over, healthy, cool, reports>>
    BY <1>3 DEF Create, Goes
  <2>2. CASE pc' = "temp" /\ UNCHANGED profiles
    BY <2>1, <2>2 DEF WatchInv, WatchShape, WatchFiles, WatchRoom, Named, Reported
  <2>3. CASE pc' = "fill" /\ profiles' = Append(profiles, Newer(FALSE))
    <3>1. Newer(FALSE) \in File /\ Newer(FALSE).fresh
      BY DEF Newer, File
    <3>2. /\ profiles' \in Seq(File) /\ Len(profiles') = Len(profiles) + 1 /\ profiles' # <<>>
          /\ DOMAIN profiles' = 1..Len(profiles) + 1 /\ profiles'[Len(profiles) + 1].fresh
          /\ \A i \in 1..Len(profiles) : profiles'[i] = profiles[i] /\ ~profiles[i].fresh
      <4>1. \A i \in 1..Len(profiles) : ~profiles[i].fresh
        BY <1>1, <2>1 DEF WatchInv, WatchFiles, Named
      <4>2. PICK x \in File : profiles' = Append(profiles, x) /\ x.fresh
        BY <2>3, <3>1
      <4>3. /\ Append(profiles, x) \in Seq(File) /\ Len(Append(profiles, x)) = Len(profiles) + 1
            /\ Append(profiles, x) # <<>> /\ DOMAIN Append(profiles, x) = 1..Len(profiles) + 1
            /\ Append(profiles, x)[Len(profiles) + 1] = x
            /\ \A i \in 1..Len(profiles) : Append(profiles, x)[i] = profiles[i]
        BY <1>1, Appends
      <4> QED BY <4>1, <4>2, <4>3
    <3>3. WatchShape'
      BY <2>1, <2>3, <3>2 DEF WatchInv, WatchShape
    <3>4. WatchFiles'
      <4>1. \A i \in DOMAIN profiles' : profiles'[i].fresh => i = Len(profiles')
        BY <1>1, <3>2
      <4>2. profiles'[Len(profiles')].fresh
        BY <1>1, <3>2
      <4>3. \A i \in DOMAIN reports : reports[i].whole /\ ~reports[i].fresh
        BY <2>1 DEF WatchInv, WatchFiles, Reported
      <4> QED BY <2>1, <2>3, <3>2, <4>1, <4>2, <4>3 DEF WatchFiles, Named, Reported
    <3>5. WatchRoom'
      BY <1>1, <2>1, <2>3, <3>2 DEF WatchInv, WatchRoom
    <3> QED BY <3>3, <3>4, <3>5 DEF WatchInv
  <2> QED BY <1>3, <2>2, <2>3 DEF Create, Goes
<1>4. CASE Fill
  <2>1. pc = "fill" /\ pc' = "temp" /\ UNCHANGED <<doneClosed, over, healthy, cool, reports>>
    BY <1>4 DEF Fill, Goes
  <2>2. CASE UNCHANGED <<profiles, named>>
    BY <2>1, <2>2 DEF WatchInv, WatchShape, WatchFiles, WatchRoom, Named, Reported
  <2>3. CASE profiles' = [profiles EXCEPT ![Len(profiles)].whole = TRUE] /\ named' = TRUE
    <3>1. Len(profiles) \in DOMAIN profiles /\ profiles[Len(profiles)] \in File
          /\ profiles[Len(profiles)].fresh
      BY <1>1, <2>1 DEF WatchInv, WatchFiles
    <3>2. \A f \in File : [f EXCEPT !.whole = TRUE] \in File /\ [f EXCEPT !.whole = TRUE].whole
                          /\ ([f EXCEPT !.whole = TRUE].fresh <=> f.fresh)
      BY DEF File
    <3>3. PICK f \in File : profiles' = [profiles EXCEPT ![Len(profiles)] = f] /\ f.whole /\ f.fresh
      BY <2>3, <3>1, <3>2
    <3>4. /\ profiles' \in Seq(File) /\ Len(profiles') = Len(profiles) /\ DOMAIN profiles' = DOMAIN profiles
          /\ profiles'[Len(profiles)] = f /\ profiles' # <<>>
          /\ \A i \in DOMAIN profiles : i # Len(profiles) => profiles'[i] = profiles[i]
      BY <1>1, <3>1, <3>3
    <3>5. WatchShape'
      BY <2>1, <2>3, <3>4 DEF WatchInv, WatchShape, Named
    <3>6. WatchFiles'
      BY <1>1, <2>1, <2>3, <3>3, <3>4 DEF WatchInv, WatchFiles, Named, Reported
    <3>7. WatchRoom'
      BY <2>1, <3>4 DEF WatchInv, WatchRoom
    <3> QED BY <3>5, <3>6, <3>7 DEF WatchInv
  <2> QED BY <1>4, <2>2, <2>3 DEF Fill
<1>5. CASE Temp
  <2>1. CASE pc = "temp" /\ pc' = "rename" /\ UNCHANGED <<reports, profiles, doneClosed, over, healthy, cool, named>>
    BY <2>1 DEF WatchInv, WatchShape, WatchFiles, WatchRoom, Named, Reported
  <2>2. CASE pc' = "idle" /\ MayFail /\ Settle /\ UNCHANGED <<doneClosed, over, healthy, cool, named>>
    BY <2>2, Settles DEF MayFail
  <2> QED BY <1>5, <2>1, <2>2 DEF Temp, Goes, files
<1>6. CASE Rename
  <2>1. CASE /\ pc = "rename" /\ pc' = "pruneReports" /\ reports' = Append(reports, Newer(TRUE))
             /\ UNCHANGED <<profiles, doneClosed, over, healthy, cool, named>>
    <3>1. Newer(TRUE) \in File /\ Newer(TRUE).fresh /\ Newer(TRUE).whole
      BY DEF Newer, File
    <3>2. /\ reports' \in Seq(File) /\ Len(reports') = Len(reports) + 1 /\ reports' # <<>>
          /\ DOMAIN reports' = 1..Len(reports) + 1
          /\ reports'[Len(reports) + 1].fresh /\ reports'[Len(reports) + 1].whole
          /\ \A i \in 1..Len(reports) : reports'[i] = reports[i] /\ ~reports[i].fresh /\ reports[i].whole
      <4>1. \A i \in 1..Len(reports) : ~reports[i].fresh /\ reports[i].whole
        BY <1>1, <2>1 DEF WatchInv, WatchFiles, Reported
      <4>2. PICK x \in File : reports' = Append(reports, x) /\ x.fresh /\ x.whole
        BY <2>1, <3>1
      <4>3. /\ Append(reports, x) \in Seq(File) /\ Len(Append(reports, x)) = Len(reports) + 1
            /\ Append(reports, x) # <<>> /\ DOMAIN Append(reports, x) = 1..Len(reports) + 1
            /\ Append(reports, x)[Len(reports) + 1] = x
            /\ \A i \in 1..Len(reports) : Append(reports, x)[i] = reports[i]
        BY <1>1, Appends
      <4> QED BY <4>1, <4>2, <4>3
    <3>3. WatchShape'
      BY <2>1, <3>2 DEF WatchInv, WatchShape, Named
    <3>4. WatchFiles'
      <4>1. \A i \in DOMAIN reports' : reports'[i].whole /\ (reports'[i].fresh => i = Len(reports'))
        BY <1>1, <3>2
      <4>2. reports'[Len(reports')].fresh
        BY <1>1, <3>2
      <4>3. /\ \A i \in DOMAIN profiles : profiles[i].fresh => i = Len(profiles)
            /\ named => profiles # <<>> /\ profiles[Len(profiles)].whole /\ profiles[Len(profiles)].fresh
        BY <2>1 DEF WatchInv, WatchFiles, Named
      <4> QED BY <2>1, <3>2, <4>1, <4>2, <4>3 DEF WatchFiles, Named, Reported
    <3>5. WatchRoom'
      BY <1>1, <2>1, <3>2 DEF WatchInv, WatchRoom
    <3> QED BY <3>3, <3>4, <3>5 DEF WatchInv
  <2>2. CASE pc' = "idle" /\ MayFail /\ Settle /\ UNCHANGED <<doneClosed, over, healthy, cool, named>>
    BY <2>2, Settles DEF MayFail
  <2> QED BY <1>6, <2>1, <2>2 DEF Rename, Goes
<1>7. CASE PruneReports
  <2>1. /\ pc = "pruneReports" /\ pc' = "pruneProfiles" /\ Pruning(reports, reports')
        /\ UNCHANGED <<doneClosed, over, healthy, cool, named, profiles>>
    BY <1>7 DEF PruneReports, Goes
  <2>2. EndOf(reports, reports') /\ (Len(reports') <= Keep \/ MayFail)
    BY <1>1, <2>1, PruningSpares DEF Pruning
  <2>3. WatchShape'
    BY <2>1, <2>2 DEF WatchInv, WatchShape, EndOf, Named
  <2>4. WatchFiles'
    BY <1>1, <2>1, <2>2 DEF WatchInv, WatchFiles, EndOf, Named, Reported
  <2>5. WatchRoom'
    BY <1>1, <2>1, <2>2 DEF WatchInv, WatchRoom, EndOf, MayFail
  <2> QED BY <2>3, <2>4, <2>5 DEF WatchInv
<1>8. CASE PruneProfiles
  <2>1. /\ pc = "pruneProfiles" /\ pc' = "notify" /\ Pruning(profiles, profiles')
        /\ UNCHANGED <<doneClosed, over, healthy, cool, named, reports>>
    BY <1>8 DEF PruneProfiles, Goes
  <2>2. EndOf(profiles, profiles') /\ (Len(profiles') <= Keep \/ MayFail)
    BY <1>1, <2>1, PruningSpares DEF Pruning
  <2>3. WatchShape'
    BY <2>1, <2>2 DEF WatchInv, WatchShape, EndOf, Named
  <2>4. WatchFiles'
    BY <1>1, <2>1, <2>2 DEF WatchInv, WatchFiles, EndOf, Named, Reported
  <2>5. WatchRoom'
    BY <1>1, <2>1, <2>2 DEF WatchInv, WatchRoom, EndOf, MayFail
  <2> QED BY <2>3, <2>4, <2>5 DEF WatchInv
<1>9. CASE Notify
  <2>1. pc = "notify" /\ pc' = "idle" /\ Settle /\ UNCHANGED <<doneClosed, over, healthy, cool, named>>
    BY <1>9 DEF Notify, Goes
  <2>2. Len(reports) < MaxFiles /\ Len(profiles) < MaxFiles
    BY <2>1 DEF WatchInv, WatchRoom
  <2> QED BY <2>1, <2>2, Settles
<1>10. CASE Stop \/ Shutdown \/ Load \/ Disk
  <2>1. /\ pc' = pc \/ (pc = "idle" /\ pc' = "stopped")
        /\ doneClosed' \in BOOLEAN /\ over' \in BOOLEAN /\ healthy' \in BOOLEAN
        /\ UNCHANGED <<cool, named, reports, profiles>>
    BY <1>10 DEF Stop, Shutdown, Load, Disk, Goes, files,
                 WatchInv, WatchShape
  <2> QED BY <2>1 DEF WatchInv, WatchShape, WatchFiles, WatchRoom, Named, Reported
<1>11. CASE Crash
  BY <1>11, Settles DEF Crash
<1>12. CASE Restart
  <2>1. /\ pc = "down" /\ pc' = "idle" /\ doneClosed' \in BOOLEAN /\ cool' \in 0..Cooldown
        /\ UNCHANGED <<over, healthy, named, reports, profiles>>
    <3>1. pc = "down" /\ pc' = "idle" /\ doneClosed' = FALSE /\ cool' = 0
      BY <1>12 DEF Restart, Goes
    <3>2. UNCHANGED <<over, healthy, named, reports, profiles>>
      BY <1>12 DEF Restart, files
    <3>3. doneClosed' \in BOOLEAN
      BY <3>1, Boolean
    <3> QED BY <1>1, <3>1, <3>2, <3>3
  <2> QED BY <2>1 DEF WatchInv, WatchShape, WatchFiles, WatchRoom, Named, Reported
<1>13. CASE UNCHANGED watcherVars
  BY <1>13 DEF watcherVars, files, WatchInv, WatchShape, WatchFiles, WatchRoom
<1> QED BY <1>2, <1>3, <1>4, <1>5, <1>6, <1>7, <1>8, <1>9, <1>10, <1>11, <1>12, <1>13
        DEF WatcherNext, Write, World

\* No crash and no failure of a file operation makes half a report look like one, or has a
\* report announced that is not on disk with the heap profile it names: for any number of
\* reports to keep, any cooldown, and however many files failures left behind.
THEOREM ReportsAreGenuine == WatcherSpec => []ReportsGenuine
<1>1. WatcherInit => WatchInv
  <2> SUFFICES ASSUME WatcherInit PROVE WatchInv
    OBVIOUS
  <2>1. /\ pc = "idle" /\ reports = <<>> /\ profiles = <<>> /\ cool = 0 /\ doneClosed = FALSE
        /\ over = FALSE /\ healthy = TRUE /\ named = FALSE
    BY DEF WatcherInit
  <2>2. Cooldown \in Nat /\ MaxFiles \in Nat \ {0}
    BY WatcherAssumption
  <2>3. WatchShape
    <3>1. doneClosed \in BOOLEAN /\ over \in BOOLEAN /\ healthy \in BOOLEAN /\ named \in BOOLEAN
      BY <2>1, Boolean
    <3> QED BY <2>1, <2>2, <3>1 DEF WatchShape
  <2>4. WatchFiles /\ WatchRoom
    BY <2>1, <2>2 DEF WatchFiles, WatchRoom, Named, Reported
  <2> QED BY <2>3, <2>4 DEF WatchInv
<1>2. WatchInv /\ [WatcherNext]_watcherVars => WatchInv'
  BY WatchStep
<1>3. WatchInv => ReportsGenuine
  <2> SUFFICES ASSUME WatchInv PROVE ReportsGenuine
    OBVIOUS
  <2>1. WatcherTypeOK
    <3>1. ASSUME NEW s \in {reports, profiles}
          PROVE  /\ Len(s) <= MaxFiles + 1
                 /\ \A i \in DOMAIN s : /\ s[i] \in [whole : BOOLEAN, fresh : BOOLEAN]
                                        /\ s[i].fresh => Writing /\ i = Len(s)
      <4>1. /\ s \in Seq(File) /\ Len(s) <= MaxFiles
            /\ \A i \in DOMAIN s : s[i].fresh => pc \in Named \cup {"fill"} /\ i = Len(s)
        BY DEF WatchInv, WatchShape, WatchFiles, WatchRoom, Named, Reported
      <4>2. pc \in Named \cup {"fill"} => Writing
        BY DEF Named, Writing
      <4>3. \A i \in DOMAIN s : s[i] \in File
        BY <4>1
      <4> QED BY <4>1, <4>2, <4>3, WatcherAssumption DEF File
    <3> QED BY <3>1 DEF WatchInv, WatchShape, WatcherTypeOK, Writing, Named
  <2>2. ReportsWhole
    BY DEF WatchInv, WatchFiles, ReportsWhole
  <2>3. ReportOnDisk
    <3> SUFFICES ASSUME pc = "notify" PROVE ReportOnDisk
      BY DEF ReportOnDisk
    <3>1. reports # <<>> /\ reports[Len(reports)].fresh
      BY DEF WatchInv, WatchFiles, Reported
    <3>2. ASSUME named PROVE profiles # <<>> /\ profiles[Len(profiles)] = [whole |-> TRUE, fresh |-> TRUE]
      <4>1. profiles # <<>> /\ profiles[Len(profiles)].whole /\ profiles[Len(profiles)].fresh
        BY <3>2 DEF WatchInv, WatchFiles, Named
      <4>2. profiles[Len(profiles)] \in File
        BY <4>1 DEF WatchInv, WatchShape
      <4> QED BY <4>1, <4>2, FileIs
    <3> QED BY <3>1, <3>2 DEF ReportOnDisk, Last
  <2> QED BY <2>1, <2>2, <2>3 DEF ReportsGenuine
<1> QED BY <1>1, <1>2, <1>3, PTL DEF WatcherSpec
=============================================================================
