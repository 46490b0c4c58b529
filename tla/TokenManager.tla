----------------------------- MODULE TokenManager -----------------------------
(***************************************************************************)
(* Calls to deploy-service on a shared token: TokenManager                 *)
(* (app/core/token_manager.py) under the one retry of                      *)
(* DeployServiceClient._request_with_retry                                 *)
(* (app/clients/deploy_service_client.py; CommandServiceClient has the     *)
(* same).  Calls are tasks of one event loop: a step is what a task does   *)
(* from one await to the next.  Before, each gets the manager from         *)
(* get_deploy_token_manager (app/api/v1/deploy.py) in a thread of its own: *)
(* the first to look all find that there is none, and each creates one.    *)
(* A manager has the name of the call that created it.                     *)
(*                                                                         *)
(* deploy-service numbers the tokens it issues from 1; 0 is the token of   *)
(* the configuration.  Its clock and ours are one.                         *)
(***************************************************************************)
EXTENDS Integers, Sequences

CONSTANTS
  Calls,          \* calls to deploy-service
  Lifetimes,      \* expires_in of the tokens it may issue
  Buffer,         \* a token is given up this long before it expires
  MaxDelay,       \* how long the answer of a login can be under way
  MaxClock        \* bound: the clock stops there

ASSUME DelayAssumption == MaxDelay \in Nat /\ Buffer \in Nat /\ MaxDelay <= Buffer
ASSUME LifetimesAssumption == \A l \in Lifetimes : l \in Nat /\ l > MaxDelay
ASSUME ClockAssumption == MaxClock \in Nat
ASSUME CallsAssumption == "none" \notin Calls

VARIABLES
  singleton,         \* _deploy_token_manager
  manager,           \* manager[c]: the one that call c was given
  token, expire_at,  \* _token and _expire_at of each manager
  lock,              \* lock[m]: who holds its _lock
  pc,                \* pc[c]: what call c awaits
  header,            \* header[c]: the token in its Authorization header
  attempt,           \* attempt[c]: requests it has sent
  fetched,           \* fetched[c]: the token in the answer to its login, or 0
  outcome,           \* outcome[c]: a status, or the exception it raised
  \* deploy-service
  clock,
  issued,            \* issued[t]: when it issued token t, and the lifetime
  revoked,           \* the tokens up to this one are refused
  effects            \* effects[c]: how often it did what c asks

managers == <<singleton, manager>>
ours == <<singleton, manager, token, expire_at, lock, pc, header, attempt, fetched, outcome>>
tokenVars == <<singleton, manager, token, expire_at, lock, pc, header, attempt, fetched, outcome,
          clock, issued, revoked, effects>>

NoOne == "none"
Unmanaged == {"start", "create", "return"}
PC == Unmanaged \cup {"get", "wait", "login", "send", "refresh", "done"}

\* Answers: 2xx, 401, any other error.
Status == {"ok", "unauthorized", "error"}
Exceptions == {"AuthException", "network"}

TokensInit ==
  /\ singleton = NoOne
  /\ manager = [c \in Calls |-> NoOne]
  /\ token = [m \in Calls |-> 0]
  /\ expire_at = [m \in Calls |-> 0]
  /\ lock = [m \in Calls |-> NoOne]
  /\ pc = [c \in Calls |-> "start"]
  /\ header = [c \in Calls |-> 0]
  /\ attempt = [c \in Calls |-> 0]
  /\ fetched = [c \in Calls |-> 0]
  /\ outcome = [c \in Calls |-> "pending"]
  /\ clock = 0 /\ issued = <<>> /\ revoked = 0
  /\ effects = [c \in Calls |-> 0]

Goto(c, l) == pc' = [pc EXCEPT ![c] = l]
Finish(c, result) == Goto(c, "done") /\ outcome' = [outcome EXCEPT ![c] = result]

-----------------------------------------------------------------------------
(* get_deploy_token_manager.                                               *)

Look(c) ==
  /\ pc[c] = "start"
  /\ Goto(c, IF singleton = NoOne THEN "create" ELSE "return")
  /\ UNCHANGED managers

Create(c) ==
  /\ pc[c] = "create"
  /\ singleton' = c
  /\ Goto(c, "return")
  /\ UNCHANGED manager

Return(c) ==
  /\ pc[c] = "return"
  /\ manager' = [manager EXCEPT ![c] = singleton]
  /\ Goto(c, "get")
  /\ UNCHANGED singleton

GetManager(c) ==
  /\ Look(c) \/ Create(c) \/ Return(c)
  /\ UNCHANGED <<token, expire_at, lock, header, attempt, fetched, outcome, clock, issued,
                 revoked, effects>>

-----------------------------------------------------------------------------
(* get_token and refresh.                                                  *)

IsExpired(tok, at) == tok = 0 \/ clock >= at

SetLock(c, holder) == lock' = [lock EXCEPT ![manager[c]] = holder]

\* get_token, once it has the lock.
Take(c, tok, at) ==
  \/ ~IsExpired(tok, at) /\ Goto(c, "send") /\ header' = [header EXCEPT ![c] = tok]
       /\ SetLock(c, NoOne)
  \/ IsExpired(tok, at) /\ Goto(c, "login") /\ SetLock(c, c) /\ UNCHANGED header

\* The lock is taken without an await when it is free and nobody waits for it.
Free(m) == lock[m] = NoOne /\ \A c \in Calls : ~(pc[c] = "wait" /\ manager[c] = m)

GetToken(c, tok, at) ==
  \/ Free(manager[c]) /\ Take(c, tok, at)
  \/ ~Free(manager[c]) /\ Goto(c, "wait") /\ UNCHANGED <<lock, header>>

Cached(c) == token[manager[c]]
CachedUntil(c) == expire_at[manager[c]]

Start(c) ==
  /\ pc[c] = "get"
  /\ GetToken(c, Cached(c), CachedUntil(c))
  /\ UNCHANGED <<managers, token, expire_at, attempt, fetched, outcome, clock, issued, revoked,
                 effects>>

Acquire(c) ==
  /\ pc[c] = "wait" /\ lock[manager[c]] = NoOne
  /\ Take(c, Cached(c), CachedUntil(c))
  /\ UNCHANGED <<managers, token, expire_at, attempt, fetched, outcome, clock, issued, revoked,
                 effects>>

\* _expire_at of a token that is received now.
ExpireAt_NoBuffer(tok) == clock + issued[tok].lifetime

ExpireAt(tok) == clock + issued[tok].lifetime - Buffer

\* The login of get_token, which holds the lock ...
LoggedIn(c) ==
  /\ pc[c] = "login"
  /\ header' = [header EXCEPT ![c] = fetched[c]]
  /\ Goto(c, "send")
  /\ SetLock(c, NoOne)

\* ... and that of the retry, which does not, and goes on to get_token.
Refreshed(c) == pc[c] = "refresh" /\ GetToken(c, fetched[c], ExpireAt(fetched[c]))

Received(c) ==
  /\ fetched[c] # 0
  /\ token' = [token EXCEPT ![manager[c]] = fetched[c]]
  /\ expire_at' = [expire_at EXCEPT ![manager[c]] = ExpireAt(fetched[c])]
  /\ fetched' = [fetched EXCEPT ![c] = 0]
  /\ LoggedIn(c) \/ Refreshed(c)
  /\ UNCHANGED <<managers, attempt, outcome, clock, issued, revoked, effects>>

FetchFailed_KeepingLock(c) ==
  /\ pc[c] \in {"login", "refresh"}
  /\ \E exc \in Exceptions : Finish(c, exc)
  /\ fetched' = [fetched EXCEPT ![c] = 0]
  /\ UNCHANGED <<managers, lock, token, expire_at, header, attempt, clock, issued, revoked,
                 effects>>

\* The login is refused, or its answer never comes.
FetchFailed(c) ==
  /\ pc[c] \in {"login", "refresh"}
  /\ \E exc \in Exceptions : Finish(c, exc)
  /\ IF pc[c] = "login" THEN SetLock(c, NoOne) ELSE UNCHANGED lock
  /\ fetched' = [fetched EXCEPT ![c] = 0]
  /\ UNCHANGED <<managers, token, expire_at, header, attempt, clock, issued, revoked, effects>>

-----------------------------------------------------------------------------
(* _request_with_retry, from the request to its answer.                    *)

Accepted(tok) == tok > revoked /\ clock < issued[tok].at + issued[tok].lifetime

Retries_OnError(c, status) == attempt[c] = 0 /\ status # "ok"

Retries(c, status) == attempt[c] = 0 /\ status = "unauthorized"

Answer(c, status) ==
  /\ attempt' = [attempt EXCEPT ![c] = @ + 1]
  /\ \/ Retries(c, status) /\ Goto(c, "refresh") /\ UNCHANGED outcome
     \/ ~Retries(c, status) /\ Finish(c, status)

\* deploy-service does what c asks, or not: an error may come of either.
Perform(c, maybe) ==
  \/ effects' = [effects EXCEPT ![c] = @ + 1]
  \/ maybe /\ UNCHANGED effects

Request(c) ==
  /\ pc[c] = "send"
  /\ \/ ~Accepted(header[c]) /\ Answer(c, "unauthorized") /\ UNCHANGED effects
     \/ Accepted(header[c]) /\ Answer(c, "ok") /\ Perform(c, FALSE)
     \/ Accepted(header[c]) /\ Answer(c, "error") /\ Perform(c, TRUE)
  /\ UNCHANGED <<managers, token, expire_at, lock, header, fetched, clock, issued, revoked>>

\* The request, or its answer, is lost.
RequestFailed(c) ==
  /\ pc[c] = "send"
  /\ attempt' = [attempt EXCEPT ![c] = @ + 1]
  /\ Finish(c, "network")
  /\ \/ Accepted(header[c]) /\ Perform(c, FALSE)
     \/ UNCHANGED effects
  /\ UNCHANGED <<managers, token, expire_at, lock, header, fetched, clock, issued, revoked>>

CallStep(c) ==
  \/ GetManager(c)
  \/ Start(c) \/ Acquire(c)
  \/ Received(c) \/ FetchFailed(c)
  \/ Request(c) \/ RequestFailed(c)

-----------------------------------------------------------------------------
(* deploy-service.                                                         *)

Issue(c) ==
  /\ pc[c] \in {"login", "refresh"} /\ fetched[c] = 0
  /\ \E l \in Lifetimes : issued' = Append(issued, [at |-> clock, lifetime |-> l])
  /\ fetched' = [fetched EXCEPT ![c] = Len(issued) + 1]
  /\ UNCHANGED <<managers, token, expire_at, lock, pc, header, attempt, outcome, clock, revoked,
                 effects>>

\* It restarts, with another signing key.
Revoke ==
  /\ revoked' = Len(issued)
  /\ UNCHANGED <<ours, clock, issued, effects>>

\* No answer of a login is under way for longer than MaxDelay.
Tick ==
  /\ clock < MaxClock
  /\ \A c \in Calls : fetched[c] # 0 => clock < issued[fetched[c]].at + MaxDelay
  /\ clock' = clock + 1
  /\ UNCHANGED <<ours, issued, revoked, effects>>

DeployService == (\E c \in Calls : Issue(c)) \/ Revoke \/ Tick

TokensNext == DeployService \/ \E c \in Calls : CallStep(c)

TokensSpec == TokensInit /\ [][TokensNext]_tokenVars

\* Threads run, and every await ends, by its answer or its timeout.
FairTokensSpec == TokensSpec /\ \A c \in Calls : WF_tokenVars(CallStep(c))

-----------------------------------------------------------------------------
(* Properties.                                                             *)

\* A manager's lock is held exactly by the call whose login its get_token awaits.
LockOK ==
  /\ lock \in [Calls -> Calls \cup {NoOne}]
  /\ \A m, c \in Calls : lock[m] = c <=> pc[c] = "login" /\ manager[c] = m

\* A call has a manager once it was given one, and one is there to be given.
ManagersOK ==
  /\ singleton \in Calls \cup {NoOne}
  /\ manager \in [Calls -> Calls \cup {NoOne}]
  /\ \A c \in Calls : pc[c] = "return" => singleton # NoOne
  /\ \A c \in Calls : pc[c] \notin Unmanaged => manager[c] # NoOne

TokensTypeOK ==
  /\ ManagersOK
  /\ token \in [Calls -> 0 .. Len(issued)] /\ expire_at \in [Calls -> Int]
  /\ pc \in [Calls -> PC]
  /\ header \in [Calls -> 0 .. Len(issued)]
  /\ attempt \in [Calls -> 0 .. 2]
  /\ fetched \in [Calls -> 0 .. Len(issued)]
  /\ outcome \in [Calls -> {"pending"} \cup Status \cup Exceptions]
  /\ clock \in 0 .. MaxClock
  /\ issued \in Seq([at : 0 .. MaxClock, lifetime : Lifetimes])
  /\ revoked \in 0 .. Len(issued)
  /\ effects \in [Calls -> 0 .. 2]
  /\ LockOK

\* The retry never repeats what deploy-service already did, a success did it
\* once, and a call that failed to authenticate did nothing.
AtMostOnce ==
  \A c \in Calls :
    /\ effects[c] <= 1
    /\ outcome[c] = "ok" => effects[c] = 1
    /\ outcome[c] \in {"unauthorized", "AuthException"} => effects[c] = 0

\* No call goes out with an expired token, however the refreshes of other
\* calls interleave with it: the first 401 it sees comes of a revocation.
SentUnexpired ==
  [][\A c \in Calls : pc[c] # "send" /\ pc'[c] = "send" =>
       LET t == header'[c] IN t # 0 /\ clock < issued[t].at + issued[t].lifetime]_tokenVars

\* Every call returns or raises, even if deploy-service refuses every token.
EveryCallReturns == \A c \in Calls : pc[c] = "start" ~> pc[c] = "done"
=============================================================================
