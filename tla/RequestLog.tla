----------------------------- MODULE RequestLog -----------------------------
(***************************************************************************)
(* A log file of the request logger (common/logger.go), opened when it is  *)
(* first written to and rotated when it is full.  Every operation on the   *)
(* file system may fail, which is never reported to the request.           *)
(*                                                                         *)
(* A file is a record: whether it is open, the size the program counts,    *)
(* the messages of the file and of the rotated one, `.1', and, history,    *)
(* whether the last attempt to rotate failed.  Sizes are in messages.      *)
(***************************************************************************)
EXTENDS Naturals, FiniteSets

CONSTANT MaxLogSize \* maxLogBytes

ASSUME LogAssumption == MaxLogSize \in Nat \ {0}

LogFile(messages) == [open : BOOLEAN, size : Nat, active : SUBSET messages,
                      rotated : SUBSET messages, stuck : BOOLEAN]
Unopened(messages) == [open |-> FALSE, size |-> 0, active |-> messages, rotated |-> {},
                       stuck |-> FALSE]

Closed(f) == [f EXCEPT !.open = FALSE]

OpenedTruncates(f) == \* mutant of Opened: O_TRUNC for O_APPEND
  {Closed(f), [f EXCEPT !.open = TRUE, !.active = {}, !.size = 0]}
OpenedUncounted(f) == \* mutant of Opened: what is in the file already is not counted
  {Closed(f), [f EXCEPT !.open = TRUE, !.size = 0]}
\* What open may leave: it fails, or appends to what is there.
Opened(f) == {Closed(f), [f EXCEPT !.open = TRUE, !.size = Cardinality(f.active)]}

\* Closed and renamed, if the rename does not fail.
Renamed(f) == {[Closed(f) EXCEPT !.stuck = TRUE],
               [Closed(f) EXCEPT !.active = {}, !.rotated = f.active, !.stuck = FALSE]}

\* Written, or torn, which closes the file.
Appended(f, message) == {Closed(f),
                         [f EXCEPT !.active = @ \cup {message}, !.size = @ + 1]}

\* What a write may leave of f.
Written(f, message) ==
  LET opened  == IF f.open THEN {f} ELSE Opened(f)
      rotated == UNION {IF g.open /\ g.size >= MaxLogSize
                        THEN UNION {Opened(h) : h \in Renamed(g)} ELSE {g} : g \in opened}
  IN  UNION {IF g.open THEN Appended(g, message) ELSE {g} : g \in rotated}
=============================================================================
