--------------------------- MODULE DryRunCommands ---------------------------
(***************************************************************************)
(* The stand-in for the commands of deploy-service                         *)
(* (app/clients/dry_run_command_service_client.py).  Its methods never     *)
(* await, so each is one step of the event loop.  Executions live in the   *)
(* process: a restart forgets them, and what they were stays in executions *)
(* as history.  A command id is a fresh uuid.                              *)
(***************************************************************************)
EXTENDS Naturals, Sequences

CONSTANT Executions

VARIABLES
  executions,   \* executions[c]: its command, status and log
  forgotten     \* executions of processes that ended

commands == <<executions, forgotten>>

Whitelist ==
  [ping |-> [killable |-> TRUE, logged |-> TRUE],
   facts |-> [killable |-> FALSE, logged |-> FALSE]]

\* The lines that are written when a command is started, and at its end.
Opening == <<"command", "would run", "nothing was executed">>
Finished == "finished with exit status 0"
Killed == "killed"

Unused == [command |-> "none", status |-> "new", log |-> <<>>]

CommandsInit == executions = [c \in Executions |-> Unused] /\ forgotten = {}

Known(c) == executions[c] # Unused /\ c \notin forgotten

\* A name that is not on the whitelist is refused with 403.
Execute(c, name) ==
  /\ executions[c] = Unused
  /\ executions' = IF name \notin DOMAIN Whitelist THEN executions
                   ELSE [executions EXCEPT ![c] =
                          [command |-> name, status |-> "running",
                           log |-> IF Whitelist[name].logged THEN Opening ELSE <<>>]]

\* Whoever looks at a command that runs finds that it has just finished.
Observed(e) ==
  IF e.status # "running" THEN e
  ELSE [e EXCEPT !.status = "success",
                 !.log = IF Whitelist[e.command].logged THEN Append(@, Finished) ELSE @]

Observe(c) ==
  executions' = IF Known(c) THEN [executions EXCEPT ![c] = Observed(@)] ELSE executions

\* Whether the format that is asked for is refused (400) is looked at later.
Result(c) == Observe(c)

Stop_Again(e) ==
  IF ~Whitelist[e.command].killable THEN e
  ELSE [e EXCEPT !.status = "killed", !.log = Append(@, Killed)]

Stop_Canceled(e) ==
  IF ~Whitelist[e.command].killable \/ e.status # "running" THEN e
  ELSE [e EXCEPT !.status = "canceled", !.log = Append(@, Killed)]

Stop(e) ==
  IF ~Whitelist[e.command].killable \/ e.status # "running" THEN e
  ELSE [e EXCEPT !.status = "killed", !.log = Append(@, Killed)]

Kill(c) ==
  executions' = IF Known(c) THEN [executions EXCEPT ![c] = Stop(@)] ELSE executions

\* What a poll of the log is answered: the lines past an offset, numbered.
Slice(e, offset, num) ==
  LET rest == SubSeq(e.log, offset + 1, Len(e.log))
  IN  [kind |-> "slice", status |-> e.status, offset |-> Len(e.log),
       num |-> num + Len(rest),
       lines |-> [i \in DOMAIN rest |-> [num |-> num + i - 1, text |-> rest[i]]]]

Forget == forgotten' = {c \in Executions : executions[c] # Unused} /\ UNCHANGED executions
=============================================================================
