------------------------------ MODULE LogViewer ------------------------------
(***************************************************************************)
(* The page that shows the log of a command (app/core/log_viewer_template  *)
(* .py, rendered by view_command of app/api/v1/command.py): a timer, and a *)
(* refresh that asks for what is past its cursor.  How long the page waits *)
(* between two polls, and the banner over a large log, are left out.       *)
(***************************************************************************)
EXTENDS Naturals, Sequences

CONSTANTS
  Viewers,
  MaxFailures   \* polls that may fail in a row (5 in the page)

ASSUME MaxFailuresAssumption == MaxFailures \in Nat \ {0}

VARIABLE page   \* page[v]

\* TERMINAL_STATUSES of the page
Over == {"success", "failed", "killed"}

\* `timer' is "off" for null.  `shown' are the rows of the table.
Blank == [of |-> "none", timer |-> "off", offset |-> 0, num |-> 1, failures |-> 0,
          shown |-> <<>>, notice |-> "connecting"]

ViewersInit == page = [v \in Viewers |-> Blank]

\* The user opens the page, reloads one that stopped, or is sent back by login.
Open(v, c) ==
  /\ page[v].timer = "off"
  /\ page' = [page EXCEPT ![v] = [Blank EXCEPT !.of = c, !.timer = "set"]]

Fire(v) ==
  /\ page[v].timer = "set"
  /\ page' = [page EXCEPT ![v].timer = "fired"]

\* showFatalError, and the redirect to the login page
Stopped(p, notice) == [p EXCEPT !.timer = "off", !.notice = notice]

Failed_NotCounted(p) == [p EXCEPT !.timer = "set", !.notice = "failed"]

Failed(p) ==
  LET counted == [p EXCEPT !.failures = @ + 1]
  IN  IF counted.failures >= MaxFailures THEN Stopped(counted, "poll_failed")
      ELSE [counted EXCEPT !.timer = "set", !.notice = "failed"]

Rendered_NotTheLast(p, slice) ==
  IF slice.status \in Over THEN Stopped(p, "finished")
  ELSE [p EXCEPT !.failures = 0, !.offset = slice.offset, !.num = slice.num,
                 !.shown = @ \o slice.lines, !.timer = "set", !.notice = "syncing"]

Rendered(p, slice) ==
  LET grown == [p EXCEPT !.failures = 0, !.offset = slice.offset, !.num = slice.num,
                         !.shown = @ \o slice.lines]
  IN  IF slice.status \in Over THEN Stopped(grown, "finished")
      ELSE [grown EXCEPT !.timer = "set", !.notice = "syncing"]

\* refresh, from the answer on
Answered(p, answer) ==
  CASE answer.kind = "error" -> Failed(p)
    [] answer.kind = "slice" -> Rendered(p, answer)
    [] OTHER -> Stopped(p, answer.kind)

Refresh(v, answer) == page' = [page EXCEPT ![v] = Answered(@, answer)]
=============================================================================
