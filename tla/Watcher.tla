------------------------------ MODULE Watcher ------------------------------
(***************************************************************************)
(* The memory watcher (internal/watcher): it samples memory at intervals   *)
(* and, when this is at its limit, writes a heap profile and a report,     *)
(* removes old ones and posts the report to a webhook.  The process may    *)
(* crash at any step and start again; every file operation may fail while  *)
(* the file system is not `healthy'.                                       *)
(*                                                                         *)
(* Files are named for the second of their sample, and samples are a       *)
(* second apart at least, so the files of a kind are a sequence, oldest    *)
(* first, as the names sort.                                               *)
(***************************************************************************)
EXTENDS Integers, Sequences, SequencesExt

CONSTANTS Keep,     \* keepReports
          Cooldown, \* in samples
          MaxFiles  \* bound: no crash and no failure once there are as many of a kind

ASSUME WatcherAssumption == /\ Keep \in Nat \ {0} /\ Cooldown \in Nat \ {0}
                            /\ MaxFiles \in Nat /\ MaxFiles > Keep

VARIABLES pc,
          doneClosed, \* of the channel done, which Run closes
          over,       \* the memory is at the limit
          healthy,
          cool,       \* samples until the cooldown is over
          named,      \* the report names a heap profile
          reports,    \* the files memory-report-*.json
          profiles    \* and heap-*.pprof: whole, and, history, of the write in progress

files       == <<reports, profiles>>
watcherVars == <<pc, doneClosed, over, healthy, cool, named, files>>

WatcherInit ==
  /\ pc = "idle" /\ doneClosed = FALSE /\ over = FALSE /\ healthy = TRUE
  /\ cool = 0 /\ named = FALSE
  /\ reports = <<>> /\ profiles = <<>>

Goes(from, to) == pc = from /\ pc' = to
MayFail == ~healthy /\ Len(reports) < MaxFiles /\ Len(profiles) < MaxFiles
Newer(whole) == [whole |-> whole, fresh |-> TRUE]
-----------------------------------------------------------------------------
\* A sample, `passed' intervals after the last; Write begins if it is over the limit
\* and no cooldown runs, which then starts.
SampleOverruns == \* mutant of Sample: the time since the last report is not compared but subtracted
  /\ pc = "idle"
  /\ \E passed \in 1..Cooldown :
       IF over /\ cool - passed <= 0 THEN pc' = "create" /\ cool' = Cooldown
       ELSE pc' = "idle" /\ cool' = cool - passed
  /\ UNCHANGED <<doneClosed, over, healthy, named, files>>
Sample == /\ pc = "idle"
          /\ \E passed \in 1..Cooldown :
               LET rest == IF cool > passed THEN cool - passed ELSE 0
               IN  IF over /\ rest = 0 THEN pc' = "create" /\ cool' = Cooldown
                   ELSE pc' = "idle" /\ cool' = rest
          /\ UNCHANGED <<doneClosed, over, healthy, named, files>>

\* writeHeapProfile: the file, then its contents; what fails leaves it as it is.
Create == /\ \/ /\ Goes("create", "fill")
                /\ profiles' = Append(profiles, Newer(FALSE))
             \/ Goes("create", "temp") /\ MayFail /\ UNCHANGED profiles
          /\ named' = FALSE
          /\ UNCHANGED <<doneClosed, over, healthy, cool, reports>>

Fill == /\ Goes("fill", "temp")
        /\ \/ profiles' = [profiles EXCEPT ![Len(profiles)].whole = TRUE] /\ named' = TRUE
           \/ MayFail /\ UNCHANGED <<profiles, named>>
        /\ UNCHANGED <<doneClosed, over, healthy, cool, reports>>

\* The files of a write that is over are like any other.
Settled(s) == [i \in DOMAIN s |-> [s[i] EXCEPT !.fresh = FALSE]]
Settle == reports' = Settled(reports) /\ profiles' = Settled(profiles)

TempInPlace == \* mutant of Temp: the report is written to where it belongs
  /\ Goes("temp", "rename")
  /\ reports' = Append(reports, Newer(FALSE))
  /\ UNCHANGED <<doneClosed, over, healthy, cool, named, profiles>>
\* writeAtomic: a temporary file, removed if it cannot be written or closed ...
Temp == /\ \/ Goes("temp", "rename") /\ UNCHANGED files
           \/ Goes("temp", "idle") /\ MayFail /\ Settle
        /\ UNCHANGED <<doneClosed, over, healthy, cool, named>>

RenameGivesUp == \* mutant of Rename: its failure ends the goroutine
  /\ \/ /\ Goes("rename", "pruneReports")
        /\ reports' = Append(reports, Newer(TRUE)) /\ UNCHANGED profiles
     \/ Goes("rename", "stopped") /\ MayFail /\ Settle
  /\ UNCHANGED <<doneClosed, over, healthy, cool, named>>
RenameIgnored == \* mutant of Rename: the error is dropped
  /\ Goes("rename", "pruneReports")
  /\ \/ reports' = Append(reports, Newer(TRUE))
     \/ MayFail /\ UNCHANGED reports
  /\ UNCHANGED <<doneClosed, over, healthy, cool, named, profiles>>
\* ... and renamed.
Rename == /\ \/ /\ Goes("rename", "pruneReports")
                /\ reports' = Append(reports, Newer(TRUE)) /\ UNCHANGED profiles
             \/ Goes("rename", "idle") /\ MayFail /\ Settle
          /\ UNCHANGED <<doneClosed, over, healthy, cool, named>>

PrunedByOne(s) == IF Len(s) <= Keep THEN s ELSE Tail(s) \* mutant: only the oldest goes
PrunedNewest(s) == IF Len(s) <= Keep THEN s ELSE SubSeq(s, 1, Keep) \* mutant: sorted the other way
Pruned(s) == IF Len(s) <= Keep THEN s ELSE SubSeq(s, Len(s) - Keep + 1, Len(s))

\* prune: what cannot be removed stays, without a word; which of the old files that is
\* makes no difference.
Pruning(before, after) == \/ after = Pruned(before)
                          \/ MayFail /\ \E i \in 1..(Len(before) - Keep) :
                                           after = SubSeq(before, i, Len(before))

PruneReports == /\ Goes("pruneReports", "pruneProfiles")
                /\ Pruning(reports, reports')
                /\ UNCHANGED <<doneClosed, over, healthy, cool, named, profiles>>

PruneProfiles == /\ Goes("pruneProfiles", "notify")
                 /\ Pruning(profiles, profiles')
                 /\ UNCHANGED <<doneClosed, over, healthy, cool, named, reports>>

\* The report is logged and posted in a goroutine, whose outcome is only logged.
Notify == /\ Goes("notify", "idle")
          /\ Settle
          /\ UNCHANGED <<doneClosed, over, healthy, cool, named>>

Stop == /\ Goes("idle", "stopped") /\ doneClosed
        /\ UNCHANGED <<doneClosed, over, healthy, cool, named, files>>
-----------------------------------------------------------------------------
(* The world *)

Shutdown == /\ ~doneClosed /\ pc # "down" /\ doneClosed' = TRUE
            /\ UNCHANGED <<pc, over, healthy, cool, named, files>>

Load == /\ over' = ~over
        /\ UNCHANGED <<pc, doneClosed, healthy, cool, named, files>>

Disk == /\ healthy' = ~healthy
        /\ UNCHANGED <<pc, doneClosed, over, cool, named, files>>

Crash == /\ pc # "down" /\ Len(reports) < MaxFiles /\ Len(profiles) < MaxFiles
         /\ pc' = "down"
         /\ Settle
         /\ UNCHANGED <<doneClosed, over, healthy, cool, named>>

Restart == /\ Goes("down", "idle")
           /\ doneClosed' = FALSE /\ cool' = 0
           /\ UNCHANGED <<over, healthy, named, files>>
-----------------------------------------------------------------------------
Write == Create \/ Fill \/ Temp \/ Rename \/ PruneReports \/ PruneProfiles \/ Notify
World == Shutdown \/ Load \/ Disk \/ Crash \/ Restart
WatcherNext == Sample \/ Write \/ Stop \/ World
WatcherSpec == WatcherInit /\ [][WatcherNext]_watcherVars

\* The ticker ticks, and file operations return; the select takes done in the end, also
\* when the ticker is ready each time.
WatcherFairSpec == WatcherSpec /\ WF_watcherVars(Sample) /\ WF_watcherVars(Write) /\ SF_watcherVars(Stop)
-----------------------------------------------------------------------------
Writing == pc \in {"create", "fill", "temp", "rename", "pruneReports", "pruneProfiles", "notify"}

WatcherTypeOK ==
  /\ Writing \/ pc \in {"idle", "stopped", "down"}
  /\ doneClosed \in BOOLEAN /\ over \in BOOLEAN /\ healthy \in BOOLEAN /\ named \in BOOLEAN
  /\ cool \in 0..Cooldown
  /\ \A s \in {reports, profiles} :
       /\ Len(s) <= MaxFiles + 1
       /\ \A i \in DOMAIN s : /\ s[i] \in [whole : BOOLEAN, fresh : BOOLEAN]
                              /\ s[i].fresh => Writing /\ i = Len(s)

\* A file that has the name of a report is one, whole, wherever a crash comes.
ReportsWhole == \A i \in DOMAIN reports : reports[i].whole

\* The report that is logged and posted is on disk, and so is the heap profile it names:
\* no failure on the way is taken for a success, and pruning spares the newest.
ReportOnDisk ==
  pc = "notify" => /\ reports # <<>> /\ Last(reports).fresh
                   /\ named => /\ profiles # <<>>
                               /\ Last(profiles) = [whole |-> TRUE, fresh |-> TRUE]

\* What the watcher leaves on disk is what it says: no crash and no failure makes half a
\* report look like one, or has a report announced that is not there.
ReportsGenuine == WatcherTypeOK /\ ReportsWhole /\ ReportOnDisk

\* The watcher goes on reporting as long as the memory is at the limit and files can be
\* written: a write that failed silences it for one cooldown and no longer.
KeepsReporting ==
  <>[](over /\ healthy /\ ~doneClosed /\ pc # "down") => []<>(pc = "notify")

\* docs/watcher/watcher.md: "Reports and profiles are pruned separately to retain at most
\* the 20 newest matching files" - whatever crashes, failed reports (which leave their
\* heap profile) and failed removals left behind is gone after the next writes that fail
\* nowhere.
PruningCatchesUp ==
  <>[](over /\ healthy /\ ~doneClosed /\ pc # "down") =>
     <>[](pc = "notify" => Len(reports) <= Keep /\ Len(profiles) <= Keep)
=============================================================================
