------------------------------- MODULE Server -------------------------------
(***************************************************************************)
(* The life of a server process (core/run.go) with its requests and their  *)
(* log (common/logger.go):                                                 *)
(*                                                                         *)
(*   main      Run: starts the stream proxies and the HTTP server, waits   *)
(*             for a signal or an error of the HTTP server, drains, waits  *)
(*             for the stream proxies, closes the log;                     *)
(*   requests  run in goroutines of the HTTP server, and write to the log  *)
(*             when their handler has returned;                            *)
(*   streams   the proxies of TcpProxy and UdpProxy, which return once     *)
(*             done is closed (ShutdownStops there), or on an error.       *)
(***************************************************************************)
EXTENDS RequestLog

CONSTANTS Requests, \* each comes once
          Streams,  \* the TCP and UDP upstreams
          OldEntries \* what an earlier process may have logged

ASSUME ServerAssumption == IsFiniteSet(Streams) /\ IsFiniteSet(OldEntries)

Files   == {"request", "error"}
Entries == Requests \cup OldEntries

VARIABLES main,
          signal,   \* what is in the channel `shutdown', which holds one
          done,
          stream,   \* stream[s]: "off", "starting", "running", "stopped"
          counted,  \* the WaitGroup `streams'
          http,     \* the HTTP server: "off", "listening", "closed", "failed"
          expired,  \* the ten seconds of the drain are over
          phase,    \* phase[r]
          logs, logClosed

streamVars == <<stream, counted>>
logVars    == <<logs, logClosed>>
vars == <<main, signal, done, streamVars, http, expired, phase, logVars>>

Init == /\ main = "starting" /\ signal = FALSE /\ done = FALSE
        /\ stream = [s \in Streams |-> "off"] /\ counted = 0
        /\ http = "off" /\ expired = FALSE
        /\ phase = [r \in Requests |-> "none"]
        /\ logs \in [Files -> {Unopened(S) : S \in SUBSET OldEntries}]
        /\ \A f \in Files : Cardinality(logs[f].active) <= MaxLogSize
        /\ logClosed = FALSE

Alive == main \notin {"exited", "fatal"}
MainGoes(from, to) == main = from /\ main' = to
-----------------------------------------------------------------------------
(* main *)

StartUncounted(s) == \* mutant of StartStream: streams.Add is missing
  /\ main = "starting" /\ stream[s] = "off"
  /\ stream' = [stream EXCEPT ![s] = "starting"]
  /\ UNCHANGED <<main, signal, done, counted, http, expired, phase, logVars>>
\* The listener of an upstream is opened and its proxy started; a failure is logged only.
StartStream(s) == /\ main = "starting" /\ stream[s] = "off"
                  /\ \/ /\ stream' = [stream EXCEPT ![s] = "starting"]
                        /\ counted' = counted + 1
                     \/ /\ stream' = [stream EXCEPT ![s] = "stopped"]
                        /\ UNCHANGED counted
                  /\ UNCHANGED <<main, signal, done, http, expired, phase, logVars>>

\* The rest of the configuration is refused (log.Fatal), or the HTTP server is started.
StartHttp == /\ \/ /\ MainGoes("starting", "fatal") /\ UNCHANGED http
                \/ /\ MainGoes("starting", "serving")
                   /\ \A s \in Streams : stream[s] # "off"
                   /\ http' \in {"listening", "failed"}
             /\ UNCHANGED <<signal, done, streamVars, expired, phase, logVars>>

\* The select, one case: the HTTP server failed.  log.Fatalf runs no deferred call.
ServerError == /\ MainGoes("serving", "fatal") /\ http = "failed"
               /\ done' = TRUE
               /\ UNCHANGED <<signal, streamVars, http, expired, phase, logVars>>

ReceiveClosesLog == \* mutant of Receive: the log is closed before the drain
  /\ MainGoes("serving", "draining") /\ signal
  /\ signal' = FALSE /\ done' = TRUE
  /\ http' = IF http = "listening" THEN "closed" ELSE http
  /\ logClosed' = TRUE /\ logs' = [f \in Files |-> Closed(logs[f])]
  /\ UNCHANGED <<streamVars, expired, phase>>
\* The other: a signal.  Shutdown closes the listener and drains.
Receive == /\ MainGoes("serving", "draining") /\ signal
           /\ signal' = FALSE /\ done' = TRUE
           /\ http' = IF http = "listening" THEN "closed" ELSE http
           /\ UNCHANGED <<streamVars, expired, phase, logVars>>

InFlight == {r \in Requests : phase[r] \in {"running", "ended"}}

DrainedForever == \* mutant of Drained: Shutdown gets a context without a deadline
  /\ MainGoes("draining", "waiting") /\ InFlight = {}
  /\ UNCHANGED <<signal, done, streamVars, http, expired, phase, logVars>>
Drained == /\ MainGoes("draining", "waiting")
           /\ InFlight = {} \/ expired
           /\ UNCHANGED <<signal, done, streamVars, http, expired, phase, logVars>>

StreamsLeft == \* mutant of StreamsEnded: nobody waits for the streams
  /\ MainGoes("waiting", "closing")
  /\ UNCHANGED <<signal, done, streamVars, http, expired, phase, logVars>>
\* streams.Wait()
StreamsEnded == /\ MainGoes("waiting", "closing")
                /\ counted = 0
                /\ UNCHANGED <<signal, done, streamVars, http, expired, phase, logVars>>

\* The deferred calls; the process ends when they have returned.
CloseLog == /\ MainGoes("closing", "returning")
            /\ logClosed' = TRUE
            /\ logs' = [f \in Files |-> Closed(logs[f])]
            /\ UNCHANGED <<signal, done, streamVars, http, expired, phase>>
Exit == /\ MainGoes("returning", "exited")
        /\ UNCHANGED <<signal, done, streamVars, http, expired, phase, logVars>>
-----------------------------------------------------------------------------
(* A request: the handler of the logger, around all the others *)

\* Also on a connection accepted before, until Shutdown has seen that all are idle.
Serves   == http = "listening" \/ (http = "closed" /\ (main = "draining" \/ expired))
Comes(r) == /\ Alive /\ Serves /\ phase[r] = "none"
            /\ phase' = [phase EXCEPT ![r] = "running"]
            /\ UNCHANGED <<main, signal, done, streamVars, http, expired, logVars>>

\* The handler returns; one that panics, as a proxy whose client or upstream is cut off
\* does, passes by the log, and so does a success on a path of skip_paths.
Returns(r) == /\ Alive /\ phase[r] = "running"
              /\ \E p \in {"ended", "skipped"} : phase' = [phase EXCEPT ![r] = p]
              /\ UNCHANGED <<main, signal, done, streamVars, http, expired, logVars>>

LogsUnchecked(r) == \* mutant of Logs: `closed' is not looked at
  /\ Alive /\ phase[r] = "ended"
  /\ \E f \in Written(logs["request"], r) : logs' = [logs EXCEPT !["request"] = f]
  /\ phase' = [phase EXCEPT ![r] = "done"]
  /\ UNCHANGED <<main, signal, done, streamVars, http, expired, logClosed>>
\* requestLogger.write, under the mutex of the logger.
Logs(r) == /\ Alive /\ phase[r] = "ended"
           /\ \/ /\ logClosed
                 /\ phase' = [phase EXCEPT ![r] = "dropped"]
                 /\ UNCHANGED logs
              \/ /\ ~logClosed
                 /\ phase' = [phase EXCEPT ![r] = "done"]
                 /\ \E isError \in BOOLEAN, f \in Written(logs["request"], r),
                       g \in Written(logs["error"], r) :
                      logs' = [logs EXCEPT !["request"] = f,
                                           !["error"] = IF isError THEN g ELSE @]
           /\ UNCHANGED <<main, signal, done, streamVars, http, expired, logClosed>>
-----------------------------------------------------------------------------
(* The proxies, the HTTP server and the world *)

Runs(s) == /\ Alive /\ stream[s] = "starting"
           /\ stream' = [stream EXCEPT ![s] = "running"]
           /\ UNCHANGED <<main, signal, done, counted, http, expired, phase, logVars>>

\* defer streams.Done()
Stops(s) == /\ Alive /\ stream[s] = "running"
            /\ stream' = [stream EXCEPT ![s] = "stopped"]
            /\ counted' = counted - 1
            /\ UNCHANGED <<main, signal, done, http, expired, phase, logVars>>

Signal == /\ Alive /\ ~signal /\ signal' = TRUE
          /\ UNCHANGED <<main, done, streamVars, http, expired, phase, logVars>>

HttpFails == /\ Alive /\ http = "listening" /\ http' = "failed"
             /\ UNCHANGED <<main, signal, done, streamVars, expired, phase, logVars>>

Deadline == /\ main = "draining" /\ ~expired /\ expired' = TRUE
            /\ UNCHANGED <<main, signal, done, streamVars, http, phase, logVars>>
-----------------------------------------------------------------------------
Select == ServerError \/ Receive
Main == StartHttp \/ Select \/ Drained \/ StreamsEnded \/ CloseLog \/ Exit
Request(r) == Comes(r) \/ Returns(r) \/ Logs(r)
Stream(s) == Runs(s) \/ Stops(s)
Next == \/ Main \/ Signal \/ HttpFails \/ Deadline
        \/ \E r \in Requests : Request(r)
        \/ \E s \in Streams : StartStream(s) \/ Stream(s)

Spec == Init /\ [][Next]_vars

(***************************************************************************)
(* Fairness.  main goes on when it can, and the deadline comes.  A proxy   *)
(* returns once done is closed; nothing says that a request ever ends.     *)
(***************************************************************************)
FairSpec == /\ Spec
            /\ WF_vars(Main) /\ WF_vars(Deadline)
            /\ \A s \in Streams : WF_vars(StartStream(s)) /\ WF_vars(Runs(s))
                                  /\ WF_vars(done /\ Stops(s))
-----------------------------------------------------------------------------
TypeOK ==
  /\ main \in {"starting", "serving", "draining", "waiting", "closing", "returning", "exited",
               "fatal"}
  /\ signal \in BOOLEAN /\ done \in BOOLEAN /\ expired \in BOOLEAN /\ logClosed \in BOOLEAN
  /\ stream \in [Streams -> {"off", "starting", "running", "stopped"}]
  /\ counted \in 0..Cardinality(Streams)
  /\ http \in {"off", "listening", "closed", "failed"}
  /\ phase \in [Requests -> {"none", "running", "ended", "skipped", "done", "dropped"}]
  /\ DOMAIN logs = Files /\ \A f \in Files : logs[f] \in LogFile(Entries)

\* Nobody opens a log again that main has closed, not even a request that outlives the
\* drain: its entry is dropped instead of written to a file nobody closes.
ClosedStaysClosed == logClosed => \A f \in Files : ~logs[f].open

\* No entry of a request is dropped, and none is cut off, by a shutdown on a signal whose
\* drain took less than its deadline: the log is open until the last request is done.
DrainLosesNothing ==
  main \in {"waiting", "closing", "returning", "exited"} /\ ~expired =>
    \A r \in Requests : phase[r] \notin {"running", "ended", "dropped"}

\* The process ends on a signal only after every stream proxy has returned.
StreamsAwaited == main = "exited" => \A s \in Streams : stream[s] = "stopped"

\* A shutdown leaves nothing half done: no entry lost, no stream proxy running, no log
\* opened again behind the back of main.
OrderlyEnd == TypeOK /\ ClosedStaysClosed /\ DrainLosesNothing /\ StreamsAwaited

\* No operation on a log that fails loses what was logged before: it is still in the file
\* or in the rotated one.
LogKept == [][\A f \in Files : logs[f].active \subseteq logs'[f].active \cup logs'[f].rotated]_vars

\* A log outgrows its limit only while it cannot be rotated, that of an earlier process
\* included.
LogBounded == \A f \in Files : Cardinality(logs[f].active) > MaxLogSize => logs[f].stuck

\* A signal, whenever it comes, ends the process, though requests may hang.
SignalEnds == signal ~> ~Alive
=============================================================================
