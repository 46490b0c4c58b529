----------------------------- MODULE CommandRuns -----------------------------
(***************************************************************************)
(* What deploy-service promises about the commands it runs, as the command *)
(* proxy and its log viewer (app/api/v1/command.py) rely on it: a command  *)
(* runs once, its log only grows, nothing is written after it ended, and   *)
(* how it ended does not change.  A command that is not logged has no log. *)
(***************************************************************************)
EXTENDS Sequences

CONSTANTS
  Executions,   \* command ids
  Commands,     \* names of commands
  Logged,       \* the commands with a log
  Chunks        \* the sequences of lines that are written at once

VARIABLE executions   \* executions[c]: its command, status and log

Terminal == {"success", "failed", "killed"}

Unused == [command |-> "none", status |-> "new", log |-> <<>>]

Written(name, lines) == IF name \in Logged THEN lines ELSE <<>>

Init == executions = [c \in Executions |-> Unused]

Start(c) ==
  /\ executions[c] = Unused
  /\ \E name \in Commands, lines \in Chunks :
       executions' = [executions EXCEPT ![c] =
         [command |-> name, status |-> "running", log |-> Written(name, lines)]]

Step(c, status, lines) ==
  /\ executions[c].status = "running"
  /\ executions' = [executions EXCEPT ![c].status = status,
                                      ![c].log = @ \o Written(executions[c].command, lines)]

Write(c) == \E lines \in Chunks : Step(c, "running", lines)

End(c) == \E status \in Terminal, lines \in Chunks : Step(c, status, lines)

Next == \E c \in Executions : Start(c) \/ Write(c) \/ End(c)

Spec == Init /\ [][Next]_executions
=============================================================================
