---------------------------- MODULE ServiceProxy ----------------------------
(***************************************************************************)
(* Requests about commands and pipelines on the event loop: the middleware *)
(* that keeps the request id (app/core/logging.py), the handlers, the log  *)
(* viewers that poll, and behind them either the dry-run stand-ins or      *)
(* deploy-service, which is external and follows CommandRuns.  A handler   *)
(* runs in one step; other requests arrive between the middleware and it.  *)
(***************************************************************************)
EXTENDS DryRunCommands, DryRunPipelines, LogViewer

CONSTANTS
  Callers,      \* API clients
  MaxLines,     \* bound: lines of a log that deploy-service writes
  MaxRestarts   \* bound

ASSUME SendersAssumption == Callers \cap Viewers = {}

VARIABLES
  dryRun,       \* DRY_RUN_MODE
  stage,        \* stage[a]: where the request of a caller or viewer is
  answer,       \* answer[v]: on its way to viewer v
  current,      \* RequestIdFilter._current_request_id
  restarts

requests == <<stage, answer, current, restarts>>
vars == <<commands, pipelines, page, dryRun, requests>>

\* A request id is that of its sender: a sender has one request at a time.
Actors == Callers \cup Viewers
NoId == "N/A"

Error == [kind |-> "error"]
NoAnswer == [kind |-> "none"]

\* deploy-service: what it writes at once.
Runs == INSTANCE CommandRuns WITH
  Commands <- DOMAIN Whitelist,
  Logged <- {name \in DOMAIN Whitelist : Whitelist[name].logged},
  Chunks <- {<<>>, <<"output">>, Opening, <<Finished>>, <<Killed>>}

Init ==
  /\ CommandsInit /\ PipelinesInit /\ ViewersInit
  /\ dryRun \in BOOLEAN
  /\ stage = [a \in Actors |-> "idle"]
  /\ answer = [v \in Viewers |-> NoAnswer]
  /\ current = NoId
  /\ restarts = 0

Enter(a, l) == stage' = [stage EXCEPT ![a] = l]

\* Commands that run in deploy-service.
Upstream ==
  /\ ~dryRun
  /\ Runs!Next
  /\ \A c \in Executions : Len(executions'[c].log) <= MaxLines
  /\ UNCHANGED <<forgotten, pipelines, page, dryRun, requests>>

-----------------------------------------------------------------------------

\* RequestIdMiddleware, before it calls the next.
Begin(a) ==
  /\ \/ a \in Callers /\ stage[a] = "idle"
     \/ a \in Viewers /\ stage[a] = "sent"
  /\ Enter(a, "begun")
  /\ current' = a
  /\ UNCHANGED <<commands, pipelines, page, dryRun, answer, restarts>>

CommandOperation ==
  /\ \E c \in Executions :
       \/ \E name \in DOMAIN Whitelist \cup {"other"} : Execute(c, name)
       \/ Result(c)
       \/ Kill(c)
  /\ UNCHANGED <<forgotten, pipelines>>

PipelineOperation ==
  /\ \/ \E order \in Orders : Trigger(order)
     \/ \E id \in 1 .. MaxPipelines : GetPipeline(id) \/ Cancel(id) \/ Retry(id)
  /\ UNCHANGED commands

\* What only reads: check_running, the whitelist, and refusals before the
\* service is called.  A call of deploy-service takes effect there.
Forwarded == UNCHANGED <<commands, pipelines>>

\* Every handler logs: what is done, or the error that it answers.
Serve(a) ==
  /\ a \in Callers /\ stage[a] = "begun"
  /\ \/ dryRun /\ CommandOperation
     \/ dryRun /\ PipelineOperation
     \/ Forwarded
  /\ Enter(a, "idle")
  /\ UNCHANGED <<page, dryRun, answer, current, restarts>>

\* get_command_trace_ui: the token of the cookie may have expired, an upstream
\* call may fail, and the execution may be unknown (404).
Polled(v, a) ==
  /\ answer' = [answer EXCEPT ![v] = a]
  /\ UNCHANGED commands

TraceSlice(v, e) ==
  IF Whitelist[e.command].logged THEN Slice(e, page[v].offset, page[v].num)
  ELSE [kind |-> "not_logged"]

Observable(c) == IF dryRun THEN Known(c) ELSE executions[c] # Unused

Trace(v) ==
  /\ Observable(page[v].of)
  /\ IF dryRun THEN Observe(page[v].of) ELSE UNCHANGED executions
  /\ answer' = [answer EXCEPT ![v] = TraceSlice(v, executions'[page[v].of])]
  /\ UNCHANGED forgotten

ServeTrace(v) ==
  /\ v \in Viewers /\ stage[v] = "begun"
  /\ \/ Polled(v, [kind |-> "login"])
     \/ (~dryRun \/ ~Known(page[v].of)) /\ Polled(v, Error)
     \/ ~dryRun /\ Polled(v, [kind |-> "too_large"])
     \/ Trace(v)
  /\ Enter(v, "answered")
  /\ UNCHANGED <<pipelines, page, dryRun, current, restarts>>

-----------------------------------------------------------------------------

OpenPage(v) ==
  /\ \E c \in Executions : executions[c] # Unused /\ Open(v, c)
  /\ UNCHANGED <<commands, pipelines, dryRun, requests>>

Poll(v) ==
  /\ v \in Viewers /\ Fire(v)
  /\ Enter(v, "sent")
  /\ UNCHANGED <<commands, pipelines, dryRun, answer, current, restarts>>

\* The answer arrives, or the call was lost before or after it was served.
Receive(v) ==
  /\ v \in Viewers
  /\ \/ stage[v] = "answered" /\ Refresh(v, answer[v])
     \/ stage[v] \in {"sent", "answered"} /\ Refresh(v, Error)
  /\ Enter(v, "idle")
  /\ answer' = [answer EXCEPT ![v] = NoAnswer]
  /\ UNCHANGED <<commands, pipelines, dryRun, current, restarts>>

\* A restart forgets what the stand-ins keep; what was being served is lost.
Restart ==
  /\ restarts < MaxRestarts
  /\ restarts' = restarts + 1
  /\ IF dryRun THEN Forget ELSE UNCHANGED commands
  /\ pipelines' = <<>>
  /\ stage' = [a \in Actors |-> IF stage[a] # "begun" THEN stage[a]
                             ELSE IF a \in Viewers THEN "answered" ELSE "idle"]
  /\ answer' = [v \in Viewers |-> IF stage[v] = "begun" THEN Error ELSE answer[v]]
  /\ current' = NoId
  /\ UNCHANGED <<page, dryRun>>

ViewerStep(v) == Poll(v) \/ Begin(v) \/ ServeTrace(v) \/ Receive(v)

Next ==
  \/ Upstream \/ Restart
  \/ \E a \in Callers : Begin(a) \/ Serve(a)
  \/ \E v \in Viewers : OpenPage(v) \/ ViewerStep(v)

Spec == Init /\ [][Next]_vars

\* The page's timer fires, a request that was sent is served, and its answer
\* arrives or the connection breaks.
FairSpec == Spec /\ \A v \in Viewers : WF_vars(ViewerStep(v))

-----------------------------------------------------------------------------
(* Properties.                                                             *)

Statuses == {"new", "running"} \cup Over

Lines == {"output", Finished, Killed, Opening[1], Opening[2], Opening[3]}

\* What a page is told instead of a slice, and what it tells its user.
Refusals == {"login", "too_large", "not_logged"}
Notices == Refusals \cup {"connecting", "syncing", "failed", "poll_failed", "finished"}

\* A status is one that the pages know.
TypeOK ==
  /\ executions \in [Executions -> [command : DOMAIN Whitelist \cup {"none"},
                                    status : Statuses, log : Seq(Lines)]]
  /\ forgotten \subseteq Executions
  /\ pipelines \in Seq([order : Orders, retried : BOOLEAN,
                        status : {"running", "success", "canceled"}])
  /\ page \in [Viewers ->
                [of : Executions \cup {"none"}, timer : {"off", "set", "fired"},
                 offset : Nat, num : Nat, failures : 0 .. MaxFailures,
                 shown : Seq([num : Nat, text : Lines]), notice : Notices]]
  /\ stage \in [Actors -> {"idle", "sent", "begun", "answered"}]
  /\ current \in Actors \cup {NoId}

\* The dry-run stand-in keeps the promises of deploy-service: whoever observes,
\* kills or polls a command, in whatever order, in one process or across a
\* restart, it ends once and its log is closed.
KeepsItsPromises == Runs!Spec

\* A page shows the log from its start, each line once, in order and with its
\* number, whatever answers were lost; a page that says "Finished" shows all.
ShowsTheLog ==
  \A v \in Viewers : page[v].of # "none" =>
    LET e == executions[page[v].of]
        n == Len(page[v].shown)
    IN  /\ n <= Len(e.log)
        /\ \A i \in 1 .. n : page[v].shown[i] = [num |-> i, text |-> e.log[i]]
        /\ page[v].notice = "finished" => e.status \in Over /\ n = Len(e.log)

\* A page does not poll for ever: not once the command has ended, and in
\* dry-run not even before, since polling ends it.
ViewerStops ==
  \A v \in Viewers :
    /\ page[v].timer # "off"
    /\ dryRun \/ executions[page[v].of].status \in Over
    ~> page[v].timer = "off"

\* "Every log line includes the request ID" (README.md:363), that of the request
\* whose handler writes it.
LogLineOwn ==
  [][\A a \in Callers : stage[a] = "begun" /\ stage'[a] = "idle" /\ UNCHANGED restarts
                        => current = a]_vars
=============================================================================
