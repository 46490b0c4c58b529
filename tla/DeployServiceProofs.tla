------------------------- MODULE DeployServiceProofs -------------------------
(***************************************************************************)
(* What stands between the clients of the API and deploy-service, for any  *)
(* number of each.  First the calls that share a token (TokenManager), for *)
(* any lifetimes, and any buffer that covers the delay of a login's        *)
(* answer.  Then the requests about commands and pipelines (ServiceProxy): *)
(* the dry-run stand-in refines CommandRuns, the pages show the log of     *)
(* whatever does, and triggering makes no duplicate pipeline.              *)
(***************************************************************************)
EXTENDS TokenManager, ServiceProxy, FiniteSetTheorems, SequenceTheorems, TLAPS

Expiry(t) == issued[t].at + issued[t].lifetime

\* A manager gives a token up before deploy-service does.
CacheSafe == \A m \in Calls : token[m] # 0 => expire_at[m] <= Expiry(token[m])

\* An answer under way is that of a login, and recent.
PendingSafe ==
  \A c \in Calls : fetched[c] # 0 =>
    pc[c] \in {"login", "refresh"} /\ clock <= issued[fetched[c]].at + MaxDelay

\* What deploy-service has done for a call, by where the call stands.
Progress ==
  \A c \in Calls :
    IF pc[c] # "done"
    THEN outcome[c] = "pending" /\ effects[c] = 0 /\ attempt[c] <= 1
    ELSE /\ outcome[c] # "pending" /\ effects[c] <= 1
         /\ outcome[c] = "ok" => effects[c] = 1
         /\ outcome[c] \in {"unauthorized", "AuthException"} => effects[c] = 0

TokensInv == TokensTypeOK /\ CacheSafe /\ PendingSafe /\ Progress

LEMMA TokensInitOK == TokensInit => TokensInv
BY DelayAssumption, LifetimesAssumption, ClockAssumption, CallsAssumption
DEF TokensInit, TokensInv, TokensTypeOK, LockOK, ManagersOK, CacheSafe, PendingSafe, Progress, NoOne, Unmanaged, PC, Status, Exceptions

LEMMA IssuedType ==
  ASSUME TokensTypeOK, NEW t \in 1 .. Len(issued)
  PROVE  /\ issued[t].at \in Nat /\ issued[t].lifetime \in Nat /\ issued[t].lifetime > MaxDelay
         /\ Expiry(t) \in Nat
<1> DEFINE Token == [at : 0 .. MaxClock, lifetime : Lifetimes]
<1>1. issued[t] \in Token
  <2>1. issued \in Seq(Token)
    BY DEF TokensTypeOK
  <2> HIDE DEF Token
  <2>2. QED
    BY <2>1
<1>2. issued[t].at \in 0 .. MaxClock /\ issued[t].lifetime \in Lifetimes
  BY <1>1
<1>3. issued[t].at \in Nat /\ issued[t].lifetime \in Nat /\ issued[t].lifetime > MaxDelay
  BY <1>2, ClockAssumption, LifetimesAssumption
<1>4. QED
  BY <1>3 DEF Expiry

\* A call that gets a token from the cache, or goes on to a login, or waits.
LEMMA TakeOK ==
  ASSUME TokensInv, NEW c \in Calls, NEW tok \in 0 .. Len(issued), NEW at \in Int,
         tok # 0 => at <= Expiry(tok), lock[manager[c]] = NoOne, Take(c, tok, at)
  PROVE  /\ pc' \in [Calls -> PC] /\ header' \in [Calls -> 0 .. Len(issued)]
         /\ \A d \in Calls : d # c => pc'[d] = pc[d] /\ header'[d] = header[d]
         /\ pc'[c] \in {"send", "login"}
         /\ lock' = [lock EXCEPT ![manager[c]] = IF pc'[c] = "login" THEN c ELSE NoOne]
         /\ pc'[c] = "send" => header'[c] # 0 /\ clock < Expiry(header'[c])
<1>1. pc \in [Calls -> PC] /\ header \in [Calls -> 0 .. Len(issued)] /\ clock \in Int
  BY ClockAssumption DEF TokensInv, TokensTypeOK
<1>2. \A t \in 1 .. Len(issued) : Expiry(t) \in Int
  BY IssuedType DEF TokensInv
<1>3. Len(issued) \in Nat
  BY DEF TokensInv, TokensTypeOK
<1>4. CASE ~IsExpired(tok, at) /\ Goto(c, "send") /\ header' = [header EXCEPT ![c] = tok]
           /\ SetLock(c, NoOne)
  BY <1>1, <1>2, <1>3, <1>4 DEF IsExpired, SetLock, Goto, PC
<1>5. CASE IsExpired(tok, at) /\ Goto(c, "login") /\ SetLock(c, c) /\ UNCHANGED header
  BY <1>1, <1>5 DEF SetLock, Goto, PC
<1>6. QED
  BY <1>4, <1>5 DEF Take

LEMMA GetTokenOK ==
  ASSUME TokensInv, NEW c \in Calls, NEW tok \in 0 .. Len(issued), NEW at \in Int,
         tok # 0 => at <= Expiry(tok), pc[c] # "login", GetToken(c, tok, at)
  PROVE  /\ pc' \in [Calls -> PC] /\ header' \in [Calls -> 0 .. Len(issued)]
         /\ \A d \in Calls : d # c => pc'[d] = pc[d] /\ header'[d] = header[d]
         /\ pc'[c] \in {"send", "login", "wait"}
         /\ lock' = IF pc'[c] = "login" THEN [lock EXCEPT ![manager[c]] = c] ELSE lock
         /\ pc'[c] = "login" => lock[manager[c]] = NoOne
         /\ pc'[c] = "send" => header'[c] # 0 /\ clock < Expiry(header'[c])
<1>1. CASE Free(manager[c]) /\ Take(c, tok, at)
  <2>1. lock[manager[c]] = NoOne /\ lock \in [Calls -> Calls \cup {NoOne}]
    BY <1>1 DEF Free, TokensInv, TokensTypeOK, LockOK
  <2>2. lock = [lock EXCEPT ![manager[c]] = NoOne]
    BY <2>1
  <2>3. QED
    BY <1>1, <2>1, <2>2, TakeOK
<1>2. CASE ~Free(manager[c]) /\ Goto(c, "wait") /\ UNCHANGED <<lock, header>>
  BY <1>2 DEF Goto, PC, TokensInv, TokensTypeOK, LockOK
<1>3. QED
  BY <1>1, <1>2 DEF GetToken

\* What holds of the token in an answer, when the answer is received.
LEMMA ReceivedSafe ==
  ASSUME TokensInv, NEW c \in Calls, fetched[c] # 0
  PROVE  /\ fetched[c] \in 1 .. Len(issued)
         /\ ExpireAt(fetched[c]) \in Int
         /\ ExpireAt(fetched[c]) <= Expiry(fetched[c])
         /\ clock < Expiry(fetched[c])
<1>1. Len(issued) \in Nat /\ fetched[c] \in 1 .. Len(issued) /\ clock \in Nat
  BY ClockAssumption DEF TokensInv, TokensTypeOK
<1>2. issued[fetched[c]].at \in Nat
  BY <1>1, IssuedType DEF TokensInv
<1>3. issued[fetched[c]].lifetime \in Nat /\ MaxDelay < issued[fetched[c]].lifetime
  BY <1>1, IssuedType, DelayAssumption DEF TokensInv
<1>4. clock <= issued[fetched[c]].at + MaxDelay
  BY DEF TokensInv, PendingSafe
<1>5. QED
  <2> DEFINE born == issued[fetched[c]].at
             life == issued[fetched[c]].lifetime
  <2>1. born \in Nat /\ life \in Nat /\ MaxDelay < life /\ clock <= born + MaxDelay
    BY <1>2, <1>3, <1>4
  <2>2. ExpireAt(fetched[c]) = clock + life - Buffer
        /\ Expiry(fetched[c]) = born + life
    BY DEF ExpireAt, Expiry
  <2> HIDE DEF born, life
  <2> QED BY <1>1, <2>1, <2>2, DelayAssumption

-----------------------------------------------------------------------------
(* The steps.  What a step of call c leaves alone about the other calls.   *)

LEMMA GetManagerOK == ASSUME TokensInv, NEW c \in Calls, GetManager(c) PROVE TokensInv'
<1>1. /\ pc[c] \in Unmanaged /\ pc' \in [Calls -> PC]
      /\ \A d \in Calls : d # c => pc'[d] = pc[d] /\ manager'[d] = manager[d]
      /\ pc'[c] \in {"create", "return", "get"}
      /\ ManagersOK'
  <2>1. /\ pc \in [Calls -> PC] /\ manager \in [Calls -> Calls \cup {NoOne}]
        /\ singleton \in Calls \cup {NoOne}
    BY DEF TokensInv, TokensTypeOK, ManagersOK
  <2>2. CASE Look(c)
    BY <2>1, <2>2, CallsAssumption
    DEF Look, managers, Goto, PC, Unmanaged, TokensInv, TokensTypeOK, ManagersOK, NoOne
  <2>3. CASE Create(c)
    BY <2>1, <2>3, CallsAssumption
    DEF Create, Goto, PC, Unmanaged, TokensInv, TokensTypeOK, ManagersOK, NoOne
  <2>4. CASE Return(c)
    BY <2>1, <2>4, CallsAssumption
    DEF Return, Goto, PC, Unmanaged, TokensInv, TokensTypeOK, ManagersOK, NoOne
  <2>5. QED
    BY <2>2, <2>3, <2>4 DEF GetManager
<1>2. UNCHANGED <<token, expire_at, lock, header, attempt, fetched, outcome, clock, issued,
                  revoked, effects>>
  BY DEF GetManager
<1>3. LockOK'
  <2>1. /\ lock' = lock /\ lock \in [Calls -> Calls \cup {NoOne}]
        /\ \A m, d \in Calls : lock[m] = d <=> pc[d] = "login" /\ manager[d] = m
    BY <1>2 DEF TokensInv, TokensTypeOK, LockOK
  <2>2. pc[c] # "login" /\ pc'[c] # "login"
    BY <1>1 DEF Unmanaged
  <2>3. ASSUME NEW m \in Calls, NEW d \in Calls
        PROVE  lock'[m] = d <=> pc'[d] = "login" /\ manager'[d] = m
    <3>1. CASE d = c
      BY <2>1, <2>2, <3>1
    <3>2. CASE d # c
      BY <1>1, <2>1, <3>2
    <3>3. QED
      BY <3>1, <3>2
  <2>4. QED
    BY <2>1, <2>3 DEF LockOK
<1>4. TokensTypeOK'
  BY <1>1, <1>2, <1>3 DEF TokensInv, TokensTypeOK
<1>5. CacheSafe' /\ PendingSafe'
  BY <1>1, <1>2 DEF TokensInv, CacheSafe, PendingSafe, Expiry, Unmanaged
<1>6. Progress'
  BY <1>1, <1>2 DEF TokensInv, Progress, Unmanaged
<1>7. QED
  BY <1>4, <1>5, <1>6 DEF TokensInv

\* The manager of a call that has one, and the token it holds.
LEMMA ManagerOK ==
  ASSUME TokensInv, NEW c \in Calls, pc[c] \notin Unmanaged
  PROVE  /\ manager[c] \in Calls
         /\ Cached(c) \in 0 .. Len(issued) /\ CachedUntil(c) \in Int
         /\ Cached(c) # 0 => CachedUntil(c) <= Expiry(Cached(c))
<1>1. manager[c] \in Calls
  BY DEF TokensInv, TokensTypeOK, ManagersOK
<1>2. QED
  BY <1>1 DEF TokensInv, TokensTypeOK, CacheSafe, Cached, CachedUntil

\* A step that leaves the managers as they are, of a call that has one.
LEMMA ManagersKept ==
  ASSUME TokensInv, NEW c \in Calls, pc[c] \notin Unmanaged, pc'[c] \notin Unmanaged,
         \A d \in Calls : d # c => pc'[d] = pc[d], UNCHANGED managers
  PROVE  ManagersOK'
BY DEF managers, Unmanaged, TokensInv, TokensTypeOK, ManagersOK

\* The lock, when a call takes it, leaves it alone or gives it up.
LEMMA LockTaken ==
  ASSUME TokensInv, NEW c \in Calls, pc[c] \notin Unmanaged, UNCHANGED managers,
         lock[manager[c]] \in {c, NoOne}, pc[c] = "login" <=> lock[manager[c]] = c,
         \A d \in Calls : d # c => pc'[d] = pc[d],
         lock' = [lock EXCEPT ![manager[c]] = IF pc'[c] = "login" THEN c ELSE NoOne]
  PROVE  LockOK'
<1>1. /\ lock \in [Calls -> Calls \cup {NoOne}] /\ manager[c] \in Calls
      /\ \A m, d \in Calls : lock[m] = d <=> pc[d] = "login" /\ manager[d] = m
      /\ manager' = manager
  BY ManagerOK DEF TokensInv, TokensTypeOK, LockOK, managers
<1>2. lock' \in [Calls -> Calls \cup {NoOne}]
  BY <1>1
<1>3. ASSUME NEW m \in Calls, NEW d \in Calls
      PROVE  lock'[m] = d <=> pc'[d] = "login" /\ manager'[d] = m
  <2>1. CASE m = manager[c]
    BY <1>1, <1>3, <2>1, CallsAssumption DEF NoOne
  <2>2. CASE m # manager[c]
    BY <1>1, <1>3, <2>2, CallsAssumption DEF NoOne
  <2>3. QED
    BY <2>1, <2>2
<1>4. QED
  BY <1>2, <1>3 DEF LockOK

\* The lock of a call that neither holds it nor takes it.
LEMMA LockKept ==
  ASSUME TokensInv, NEW c \in Calls, pc[c] # "login", pc'[c] # "login",
         \A d \in Calls : d # c => pc'[d] = pc[d], UNCHANGED <<managers, lock>>
  PROVE  LockOK'
<1>1. LockOK /\ lock' = lock /\ manager' = manager
  BY DEF TokensInv, TokensTypeOK, managers
<1>2. \A d \in Calls : pc'[d] = "login" <=> pc[d] = "login"
  OBVIOUS
<1> QED BY <1>1, <1>2 DEF LockOK

\* What get_token does of the lock.
LEMMA GetTokenLock ==
  ASSUME TokensInv, NEW c \in Calls, pc[c] \notin Unmanaged, pc[c] # "login", UNCHANGED managers,
         \A d \in Calls : d # c => pc'[d] = pc[d],
         lock' = IF pc'[c] = "login" THEN [lock EXCEPT ![manager[c]] = c] ELSE lock,
         pc'[c] = "login" => lock[manager[c]] = NoOne
  PROVE  LockOK'
<1>1. CASE pc'[c] = "login"
  BY <1>1, LockTaken, CallsAssumption DEF NoOne
<1>2. CASE pc'[c] # "login"
  BY <1>2, LockKept
<1>3. QED
  BY <1>1, <1>2

LEMMA StartOK == ASSUME TokensInv, NEW c \in Calls, Start(c) PROVE TokensInv'
<1>1. /\ Cached(c) \in 0 .. Len(issued) /\ CachedUntil(c) \in Int
      /\ Cached(c) # 0 => CachedUntil(c) <= Expiry(Cached(c))
      /\ pc[c] = "get" /\ pc[c] \notin Unmanaged /\ GetToken(c, Cached(c), CachedUntil(c))
  BY ManagerOK DEF Start, Unmanaged
<1>2. /\ pc' \in [Calls -> PC] /\ header' \in [Calls -> 0 .. Len(issued)]
      /\ \A d \in Calls : d # c => pc'[d] = pc[d]
      /\ pc'[c] \in {"send", "login", "wait"}
      /\ lock' = IF pc'[c] = "login" THEN [lock EXCEPT ![manager[c]] = c] ELSE lock
      /\ pc'[c] = "login" => lock[manager[c]] = NoOne
  BY <1>1, GetTokenOK
<1>3. UNCHANGED <<managers, token, expire_at, attempt, fetched, outcome, clock, issued, revoked, effects>>
  BY DEF Start
<1>4. LockOK' /\ ManagersOK'
  BY <1>1, <1>2, <1>3, GetTokenLock, ManagersKept DEF Unmanaged
<1>5. TokensTypeOK'
  BY <1>2, <1>3, <1>4 DEF TokensInv, TokensTypeOK
<1>6. CacheSafe' /\ PendingSafe'
  BY <1>1, <1>2, <1>3 DEF TokensInv, CacheSafe, PendingSafe, Expiry
<1>7. Progress'
  BY <1>1, <1>2, <1>3 DEF TokensInv, Progress
<1>8. QED
  BY <1>5, <1>6, <1>7 DEF TokensInv

LEMMA AcquireOK == ASSUME TokensInv, NEW c \in Calls, Acquire(c) PROVE TokensInv'
<1>1. /\ Cached(c) \in 0 .. Len(issued) /\ CachedUntil(c) \in Int
      /\ Cached(c) # 0 => CachedUntil(c) <= Expiry(Cached(c))
      /\ pc[c] = "wait" /\ pc[c] \notin Unmanaged
      /\ lock[manager[c]] = NoOne /\ Take(c, Cached(c), CachedUntil(c))
  BY ManagerOK DEF Acquire, Unmanaged
<1>2. /\ pc' \in [Calls -> PC] /\ header' \in [Calls -> 0 .. Len(issued)]
      /\ \A d \in Calls : d # c => pc'[d] = pc[d]
      /\ pc'[c] \in {"send", "login"}
      /\ lock' = [lock EXCEPT ![manager[c]] = IF pc'[c] = "login" THEN c ELSE NoOne]
  BY <1>1, TakeOK
<1>3. UNCHANGED <<managers, token, expire_at, attempt, fetched, outcome, clock, issued, revoked, effects>>
  BY DEF Acquire
<1>4. LockOK' /\ ManagersOK'
  BY <1>1, <1>2, <1>3, LockTaken, ManagersKept, CallsAssumption DEF NoOne, Unmanaged
<1>5. TokensTypeOK'
  BY <1>2, <1>3, <1>4 DEF TokensInv, TokensTypeOK
<1>6. CacheSafe' /\ PendingSafe'
  BY <1>1, <1>2, <1>3 DEF TokensInv, CacheSafe, PendingSafe, Expiry
<1>7. Progress'
  BY <1>1, <1>2, <1>3 DEF TokensInv, Progress
<1>8. QED
  BY <1>5, <1>6, <1>7 DEF TokensInv

LEMMA ReceivedOK == ASSUME TokensInv, NEW c \in Calls, Received(c) PROVE TokensInv'
<1>1. /\ fetched[c] \in 1 .. Len(issued) /\ ExpireAt(fetched[c]) \in Int
      /\ ExpireAt(fetched[c]) <= Expiry(fetched[c])
  BY ReceivedSafe DEF Received
<1>2. /\ token' = [token EXCEPT ![manager[c]] = fetched[c]]
      /\ expire_at' = [expire_at EXCEPT ![manager[c]] = ExpireAt(fetched[c])]
      /\ fetched' = [fetched EXCEPT ![c] = 0]
      /\ UNCHANGED <<managers, attempt, outcome, clock, issued, revoked, effects>>
  BY DEF Received
<1>3. /\ pc[c] \in {"login", "refresh"}
      /\ pc' \in [Calls -> PC] /\ header' \in [Calls -> 0 .. Len(issued)]
      /\ \A d \in Calls : d # c => pc'[d] = pc[d]
      /\ pc'[c] \in {"send", "login", "wait"}
      /\ LockOK' /\ manager[c] \in Calls
  <2>1. CASE LoggedIn(c)
    <3>1. /\ pc[c] = "login" /\ header' = [header EXCEPT ![c] = fetched[c]]
          /\ pc' = [pc EXCEPT ![c] = "send"] /\ lock' = [lock EXCEPT ![manager[c]] = NoOne]
      BY <2>1 DEF LoggedIn, SetLock, Goto
    <3>2. /\ pc \in [Calls -> PC] /\ header \in [Calls -> 0 .. Len(issued)]
          /\ fetched[c] \in 0 .. Len(issued)
      BY DEF TokensInv, TokensTypeOK
    <3>3. manager[c] \in Calls /\ lock[manager[c]] = c
      BY <3>1, ManagerOK DEF TokensInv, TokensTypeOK, LockOK, Unmanaged
    <3>4. LockOK'
      BY <1>2, <3>1, <3>2, <3>3, LockTaken DEF Unmanaged
    <3>5. QED
      BY <3>1, <3>2, <3>3, <3>4 DEF PC
  <2>2. CASE Refreshed(c)
    <3>1. pc[c] = "refresh" /\ GetToken(c, fetched[c], ExpireAt(fetched[c]))
      BY <2>2 DEF Refreshed
    <3>2. fetched[c] \in 0 .. Len(issued)
      BY DEF TokensInv, TokensTypeOK
    <3>3. /\ pc' \in [Calls -> PC] /\ header' \in [Calls -> 0 .. Len(issued)]
          /\ \A d \in Calls : d # c => pc'[d] = pc[d]
          /\ pc'[c] \in {"send", "login", "wait"}
          /\ lock' = IF pc'[c] = "login" THEN [lock EXCEPT ![manager[c]] = c] ELSE lock
          /\ pc'[c] = "login" => lock[manager[c]] = NoOne
      BY <1>1, <3>1, <3>2, GetTokenOK
    <3>4. LockOK' /\ manager[c] \in Calls
      BY <1>2, <3>1, <3>3, GetTokenLock, ManagerOK DEF Unmanaged
    <3>5. QED
      BY <3>1, <3>3, <3>4
  <2>3. QED
    BY <2>1, <2>2 DEF Received
<1>4. TokensTypeOK'
  <2>1. /\ token' \in [Calls -> 0 .. Len(issued)] /\ expire_at' \in [Calls -> Int]
        /\ ManagersOK'
    BY <1>1, <1>2, <1>3, ManagersKept DEF TokensInv, TokensTypeOK, Unmanaged
  <2>2. fetched' \in [Calls -> 0 .. Len(issued)]
    BY <1>2 DEF TokensInv, TokensTypeOK
  <2>3. QED
    BY <1>2, <1>3, <2>1, <2>2 DEF TokensInv, TokensTypeOK
<1>5. CacheSafe'
  BY <1>1, <1>2, <1>3 DEF TokensInv, TokensTypeOK, CacheSafe, Expiry
<1>6. PendingSafe'
  BY <1>2, <1>3 DEF TokensInv, TokensTypeOK, PendingSafe
<1>7. Progress'
  BY <1>2, <1>3 DEF TokensInv, Progress
<1>8. QED
  BY <1>4, <1>5, <1>6, <1>7 DEF TokensInv

LEMMA FetchFailedOK == ASSUME TokensInv, NEW c \in Calls, FetchFailed(c) PROVE TokensInv'
<1>1. PICK exc \in Exceptions : Finish(c, exc)
  BY DEF FetchFailed
<1>2. /\ pc[c] \in {"login", "refresh"} /\ pc' = [pc EXCEPT ![c] = "done"]
      /\ outcome' = [outcome EXCEPT ![c] = exc]
      /\ lock' = IF pc[c] = "login" THEN [lock EXCEPT ![manager[c]] = NoOne] ELSE lock
      /\ fetched' = [fetched EXCEPT ![c] = 0]
      /\ UNCHANGED <<managers, token, expire_at, header, attempt, clock, issued, revoked, effects>>
  BY <1>1 DEF FetchFailed, SetLock, Finish, Goto
<1>3. LockOK' /\ ManagersOK'
  <2>1. pc[c] \notin Unmanaged /\ pc'[c] = "done" /\ \A d \in Calls : d # c => pc'[d] = pc[d]
    BY <1>2 DEF Unmanaged, TokensInv, TokensTypeOK
  <2>2. ManagersOK'
    BY <1>2, <2>1, ManagersKept DEF Unmanaged
  <2>3. CASE pc[c] = "login"
    <3>1. lock[manager[c]] = c
      BY <2>1, <2>3, ManagerOK DEF TokensInv, TokensTypeOK, LockOK
    <3>2. QED
      BY <1>2, <2>1, <2>2, <2>3, <3>1, LockTaken
  <2>4. CASE pc[c] # "login"
    BY <1>2, <2>1, <2>2, <2>4, LockKept
  <2>5. QED
    BY <2>3, <2>4
<1>4. TokensTypeOK'
  BY <1>2, <1>3 DEF TokensInv, TokensTypeOK, PC, Exceptions
<1>5. CacheSafe' /\ PendingSafe'
  BY <1>2 DEF TokensInv, TokensTypeOK, CacheSafe, PendingSafe, Expiry
<1>6. Progress'
  BY <1>2 DEF TokensInv, TokensTypeOK, Progress, Exceptions
<1>7. QED
  BY <1>4, <1>5, <1>6 DEF TokensInv

\* An answer to a call that deploy-service did nothing for before.
LEMMA AnswerOK ==
  ASSUME TokensInv, NEW c \in Calls, pc[c] = "send", NEW s \in Status \cup Exceptions,
         NEW e \in {0, 1}, s = "ok" => e = 1, s \in {"unauthorized", "AuthException"} => e = 0,
         effects' = [effects EXCEPT ![c] = e], attempt' = [attempt EXCEPT ![c] = @ + 1],
         \/ pc' = [pc EXCEPT ![c] = "refresh"] /\ outcome' = outcome
              /\ s = "unauthorized" /\ attempt[c] = 0
         \/ pc' = [pc EXCEPT ![c] = "done"] /\ outcome' = [outcome EXCEPT ![c] = s],
         UNCHANGED <<managers, token, expire_at, lock, header, fetched, clock, issued, revoked>>
  PROVE  TokensInv'
<1>1. attempt[c] \in 0 .. 1
  <2>1. attempt[c] \in 0 .. 2
    BY DEF TokensInv, TokensTypeOK
  <2>2. attempt[c] <= 1
    BY DEF TokensInv, Progress
  <2>3. QED
    BY <2>1, <2>2
<1>2. LockOK' /\ ManagersOK'
  <2>1. /\ pc'[c] \in {"refresh", "done"} /\ \A d \in Calls : d # c => pc'[d] = pc[d]
    BY DEF TokensInv, TokensTypeOK
  <2>2. QED
    BY <2>1, LockKept, ManagersKept DEF Unmanaged
<1>3. TokensTypeOK'
  <2>1. pc' \in [Calls -> PC]
    BY DEF TokensInv, TokensTypeOK, PC
  <2>2. attempt' \in [Calls -> 0 .. 2] /\ effects' \in [Calls -> 0 .. 2]
    BY <1>1 DEF TokensInv, TokensTypeOK
  <2>3. outcome' \in [Calls -> {"pending"} \cup Status \cup Exceptions]
    BY DEF TokensInv, TokensTypeOK
  <2>4. QED
    BY <1>2, <2>1, <2>2, <2>3 DEF TokensInv, TokensTypeOK
<1>4. CacheSafe' /\ PendingSafe'
  BY DEF TokensInv, TokensTypeOK, CacheSafe, PendingSafe, Expiry
<1>5. Progress'
  BY <1>1 DEF TokensInv, TokensTypeOK, Progress, Status, Exceptions
<1>6. QED
  BY <1>3, <1>4, <1>5 DEF TokensInv

LEMMA RequestOK == ASSUME TokensInv, NEW c \in Calls, Request(c) PROVE TokensInv'
<1>1. /\ pc[c] = "send" /\ effects[c] = 0 /\ effects \in [Calls -> 0 .. 2]
      /\ UNCHANGED <<managers, token, expire_at, lock, header, fetched, clock, issued, revoked>>
  BY DEF TokensInv, TokensTypeOK, Progress, Request
<1>2. PICK s \in Status : Answer(c, s) /\ (s = "ok" => Perform(c, FALSE))
                          /\ (s = "unauthorized" => UNCHANGED effects)
                          /\ (s = "error" => Perform(c, TRUE))
  BY DEF Request, Status
<1>3. PICK e \in {0, 1} : effects' = [effects EXCEPT ![c] = e]
                          /\ (s = "ok" => e = 1) /\ (s = "unauthorized" => e = 0)
  BY <1>1, <1>2 DEF Perform, Status
<1>4. /\ attempt' = [attempt EXCEPT ![c] = @ + 1]
      /\ \/ pc' = [pc EXCEPT ![c] = "refresh"] /\ outcome' = outcome
              /\ s = "unauthorized" /\ attempt[c] = 0
         \/ pc' = [pc EXCEPT ![c] = "done"] /\ outcome' = [outcome EXCEPT ![c] = s]
  BY <1>2 DEF Answer, Retries, Goto, Finish
<1>5. s \in Status \cup Exceptions /\ s # "AuthException"
  BY DEF Status
<1>6. QED
  BY <1>1, <1>3, <1>4, <1>5, AnswerOK

LEMMA RequestFailedOK == ASSUME TokensInv, NEW c \in Calls, RequestFailed(c) PROVE TokensInv'
<1>1. /\ pc[c] = "send" /\ effects[c] = 0 /\ effects \in [Calls -> 0 .. 2]
      /\ UNCHANGED <<managers, token, expire_at, lock, header, fetched, clock, issued, revoked>>
      /\ attempt' = [attempt EXCEPT ![c] = @ + 1]
      /\ pc' = [pc EXCEPT ![c] = "done"] /\ outcome' = [outcome EXCEPT ![c] = "network"]
  BY DEF TokensInv, TokensTypeOK, Progress, RequestFailed, Finish, Goto
<1>2. PICK e \in {0, 1} : effects' = [effects EXCEPT ![c] = e]
  BY <1>1 DEF RequestFailed, Perform
<1>3. "network" \in Status \cup Exceptions
  BY DEF Exceptions
<1>4. QED
  BY <1>1, <1>2, <1>3, AnswerOK

LEMMA IssueOK == ASSUME TokensInv, NEW c \in Calls, Issue(c) PROVE TokensInv'
<1>1. PICK l \in Lifetimes : issued' = Append(issued, [at |-> clock, lifetime |-> l])
  BY DEF Issue
<1>2. /\ pc[c] \in {"login", "refresh"} /\ fetched' = [fetched EXCEPT ![c] = Len(issued) + 1]
      /\ UNCHANGED <<managers, token, expire_at, lock, pc, header, attempt, outcome, clock,
                     revoked, effects>>
  BY DEF Issue
<1>3. /\ issued \in Seq([at : 0 .. MaxClock, lifetime : Lifetimes])
      /\ [at |-> clock, lifetime |-> l] \in [at : 0 .. MaxClock, lifetime : Lifetimes]
  BY DEF TokensInv, TokensTypeOK
<1>4. /\ issued' \in Seq([at : 0 .. MaxClock, lifetime : Lifetimes])
      /\ Len(issued) \in Nat /\ Len(issued') = Len(issued) + 1
      /\ \A t \in 1 .. Len(issued) : issued'[t] = issued[t]
      /\ issued'[Len(issued) + 1] = [at |-> clock, lifetime |-> l]
  BY <1>1, <1>3
<1>5. LockOK' /\ ManagersOK'
  BY <1>2 DEF TokensInv, TokensTypeOK, LockOK, ManagersOK, managers
<1>6. TokensTypeOK'
  <2>1. \A n \in 0 .. Len(issued) : n \in 0 .. Len(issued')
    BY <1>4
  <2>2. /\ token \in [Calls -> 0 .. Len(issued)] /\ header \in [Calls -> 0 .. Len(issued)]
        /\ fetched \in [Calls -> 0 .. Len(issued)] /\ revoked \in 0 .. Len(issued)
    BY DEF TokensInv, TokensTypeOK
  <2>3. /\ token \in [Calls -> 0 .. Len(issued')] /\ header \in [Calls -> 0 .. Len(issued')]
        /\ fetched \in [Calls -> 0 .. Len(issued')] /\ revoked \in 0 .. Len(issued')
    BY <2>1, <2>2
  <2>4. Len(issued) + 1 \in 0 .. Len(issued')
    BY <1>4
  <2>5. fetched' \in [Calls -> 0 .. Len(issued')]
    BY <1>2, <2>3, <2>4
  <2> QED BY <1>2, <1>4, <1>5, <2>3, <2>5 DEF TokensInv, TokensTypeOK
<1>7. CacheSafe'
  <2>1. ASSUME NEW m \in Calls, token[m] # 0
        PROVE  expire_at[m] <= issued'[token[m]].at + issued'[token[m]].lifetime
    <3>1. token[m] \in 1 .. Len(issued)
      BY <1>4, <2>1 DEF TokensInv, TokensTypeOK
    <3>2. issued'[token[m]] = issued[token[m]]
      BY <1>4, <3>1
    <3>3. expire_at[m] <= issued[token[m]].at + issued[token[m]].lifetime
      BY <2>1 DEF TokensInv, CacheSafe, Expiry
    <3>4. QED
      BY <3>2, <3>3
  <2>2. QED
    BY <1>2, <2>1 DEF CacheSafe, Expiry
<1>8. PendingSafe'
  <2>1. clock \in Nat
    BY ClockAssumption DEF TokensInv, TokensTypeOK
  <2>2. ASSUME NEW d \in Calls, fetched'[d] # 0
        PROVE  pc'[d] \in {"login", "refresh"} /\ clock' <= issued'[fetched'[d]].at + MaxDelay
    <3>1. CASE d = c
      BY <1>2, <1>4, <2>1, <3>1, DelayAssumption DEF TokensInv, TokensTypeOK
    <3>2. CASE d # c
      <4>1. fetched'[d] = fetched[d] /\ fetched[d] \in 1 .. Len(issued)
        BY <1>2, <2>2, <3>2 DEF TokensInv, TokensTypeOK
      <4>2. QED
        BY <1>2, <1>4, <4>1 DEF TokensInv, PendingSafe
    <3>3. QED
      BY <3>1, <3>2
  <2>3. QED
    BY <2>2 DEF PendingSafe
<1>9. Progress'
  BY <1>2 DEF TokensInv, Progress
<1>10. QED
  BY <1>6, <1>7, <1>8, <1>9 DEF TokensInv

LEMMA RevokeOK == ASSUME TokensInv, Revoke PROVE TokensInv'
<1>1. revoked' \in 0 .. Len(issued)
  BY DEF TokensInv, TokensTypeOK, Revoke
<1>2. QED
  BY <1>1 DEF Revoke, ours, TokensInv, TokensTypeOK, LockOK, ManagersOK, CacheSafe, PendingSafe, Progress, Expiry

LEMMA TickOK == ASSUME TokensInv, Tick PROVE TokensInv'
<1>1. /\ UNCHANGED <<singleton, manager, token, expire_at, lock, pc, header, attempt, fetched,
                     outcome, issued, revoked, effects>>
      /\ clock' = clock + 1 /\ clock \in Nat /\ clock < MaxClock
  BY ClockAssumption DEF Tick, ours, TokensInv, TokensTypeOK
<1>2. TokensTypeOK'
  BY <1>1, ClockAssumption DEF TokensInv, TokensTypeOK, LockOK, ManagersOK
<1>3. CacheSafe' /\ Progress'
  BY <1>1 DEF TokensInv, CacheSafe, Progress, Expiry
<1>4. PendingSafe'
  <2>1. ASSUME NEW d \in Calls, fetched[d] # 0
        PROVE  clock + 1 <= issued[fetched[d]].at + MaxDelay
    <3>1. fetched[d] \in 1 .. Len(issued)
      BY <2>1 DEF TokensInv, TokensTypeOK
    <3>2. issued[fetched[d]].at \in Nat
      BY <3>1, IssuedType DEF TokensInv
    <3>3. clock < issued[fetched[d]].at + MaxDelay
      BY <2>1 DEF Tick
    <3>4. QED
      BY <1>1, <3>2, <3>3, DelayAssumption
  <2>2. QED
    BY <1>1, <2>1 DEF TokensInv, PendingSafe
<1>5. QED
  BY <1>2, <1>3, <1>4 DEF TokensInv

-----------------------------------------------------------------------------
(* The theorems.                                                           *)

\* Every step of every call, and of deploy-service, keeps the invariant.
THEOREM TokensInductive == TokensInv /\ [TokensNext]_tokenVars => TokensInv'
<1> SUFFICES ASSUME TokensInv, [TokensNext]_tokenVars PROVE TokensInv'
  OBVIOUS
<1>1. CASE UNCHANGED tokenVars
  BY <1>1 DEF tokenVars, TokensInv, TokensTypeOK, LockOK, ManagersOK, CacheSafe, PendingSafe, Progress, Expiry
<1>2. ASSUME NEW c \in Calls, CallStep(c) PROVE TokensInv'
  BY <1>2, GetManagerOK, StartOK, AcquireOK, ReceivedOK, FetchFailedOK, RequestOK,
     RequestFailedOK DEF CallStep
<1>3. CASE DeployService
  BY <1>3, IssueOK, RevokeOK, TickOK DEF DeployService
<1>4. QED
  BY <1>1, <1>2, <1>3 DEF TokensNext

\* The manager, the calls and deploy-service keep their types, and the lock is
\* held exactly by the call whose login get_token awaits.
THEOREM TokensTypeCorrect == TokensSpec => []TokensTypeOK
<1>1. TokensInv => TokensTypeOK
  BY DEF TokensInv
<1>2. QED
  BY <1>1, TokensInitOK, TokensInductive, PTL DEF TokensSpec

\* One retry on a 401 never makes deploy-service do a thing twice, and a call
\* that ends in a failure to authenticate did nothing.
THEOREM RetryIsSafe == TokensSpec => []AtMostOnce
<1>1. TokensInv => AtMostOnce
  <2> SUFFICES ASSUME TokensInv, NEW c \in Calls
               PROVE  /\ effects[c] <= 1
                      /\ outcome[c] = "ok" => effects[c] = 1
                      /\ outcome[c] \in {"unauthorized", "AuthException"} => effects[c] = 0
    BY DEF AtMostOnce
  <2>1. CASE pc[c] = "done"
    BY <2>1 DEF TokensInv, Progress
  <2>2. CASE pc[c] # "done"
    BY <2>2 DEF TokensInv, Progress
  <2>3. QED
    BY <2>1, <2>2
<1>2. QED
  BY <1>1, TokensInitOK, TokensInductive, PTL DEF TokensSpec

\* No call goes out with a token that deploy-service has let expire, as long as
\* the buffer covers the delay of a login's answer.
THEOREM BufferSuffices == TokensSpec => SentUnexpired
<1> DEFINE Sent == \A c \in Calls : pc[c] # "send" /\ pc'[c] = "send" =>
             LET t == header'[c] IN t # 0 /\ clock < issued[t].at + issued[t].lifetime
<1>1. TokensInv /\ [TokensNext]_tokenVars => Sent
  <2> SUFFICES ASSUME TokensInv, [TokensNext]_tokenVars, NEW c \in Calls, pc[c] # "send", pc'[c] = "send"
               PROVE  header'[c] # 0 /\ clock < Expiry(header'[c])
    BY DEF Expiry
  <2>1. /\ pc \in [Calls -> PC] /\ header \in [Calls -> 0 .. Len(issued)]
        /\ fetched[c] \in 0 .. Len(issued)
    BY DEF TokensInv, TokensTypeOK
  <2>2. PICK d \in Calls : CallStep(d)
    BY DEF TokensNext, tokenVars, DeployService, Issue, Revoke, Tick, ours
  <2>3. d = c
    BY <2>1, <2>2 DEF CallStep, GetManager, Look, Create, Return, Start, Acquire, Received, FetchFailed, Request, RequestFailed,
         GetToken, Take, LoggedIn, Refreshed, Answer, Finish, Goto
  <2>4. CASE Start(c)
    BY <2>1, <2>4, ManagerOK, GetTokenOK DEF Start, Unmanaged
  <2>5. CASE Acquire(c)
    BY <2>1, <2>5, ManagerOK, TakeOK DEF Acquire, Unmanaged
  <2>6. CASE Received(c)
    <3>1. /\ fetched[c] \in 1 .. Len(issued) /\ ExpireAt(fetched[c]) \in Int
          /\ ExpireAt(fetched[c]) <= Expiry(fetched[c]) /\ clock < Expiry(fetched[c])
      BY <2>6, ReceivedSafe DEF Received
    <3>2. CASE LoggedIn(c)
      BY <2>1, <3>1, <3>2 DEF LoggedIn
    <3>3. CASE Refreshed(c)
      BY <2>1, <3>1, <3>3, GetTokenOK DEF Refreshed
    <3>4. QED
      BY <2>6, <3>2, <3>3 DEF Received
  <2>7. CASE GetManager(c) \/ FetchFailed(c) \/ Request(c) \/ RequestFailed(c)
    BY <2>1, <2>7 DEF GetManager, Look, Create, Return, FetchFailed, Request, RequestFailed, Answer, Finish, Goto
  <2>8. QED
    BY <2>2, <2>3, <2>4, <2>5, <2>6, <2>7 DEF CallStep
<1>2. QED
  BY <1>1, TokensInitOK, TokensInductive, PTL DEF TokensSpec, SentUnexpired

-----------------------------------------------------------------------------
(* Requests about commands and pipelines: what holds of an execution, and  *)
(* of a page.                                                              *)

\* What an execution is, and that one which was started has its command.
ExecutionsOK ==
  /\ executions \in [Executions -> [command : DOMAIN Whitelist \cup {"none"},
                                    status : Statuses, log : Seq(Lines)]]
  /\ \A c \in Executions : executions[c] # Unused => executions[c].command \in DOMAIN Whitelist

\* What happens to an execution in a step: its log grows, and not once it ended.
Extends(c) ==
  /\ Len(executions[c].log) <= Len(executions'[c].log)
  /\ \A i \in 1 .. Len(executions[c].log) : executions'[c].log[i] = executions[c].log[i]
  /\ executions[c].status \in Over => executions'[c] = executions[c]

\* A page as TypeOK has it, and the execution that it shows.
Row == [num : Nat, text : Lines]
Page == [of : Executions \cup {"none"}, timer : {"off", "set", "fired"},
         offset : Nat, num : Nat, failures : 0 .. MaxFailures,
         shown : Seq(Row), notice : Notices]

\* A page waits for an answer exactly while its request is under way, and a page
\* that still polls has failures left.
TimerInv(v) ==
  /\ stage[v] # "idle" <=> page[v].timer = "fired"
  /\ page[v].timer # "off" => page[v].of \in Executions /\ page[v].failures < MaxFailures

\* The cursor stands at the end of what is shown, which is what the log began with.
Shows(p, e) ==
  LET n == Len(p.shown)
  IN  /\ p.offset = n /\ p.num = n + 1
      /\ n <= Len(e.log)
      /\ \A i \in 1 .. n : p.shown[i] = [num |-> i, text |-> e.log[i]]
      /\ p.notice = "finished" => e.status \in Over /\ n = Len(e.log)

CursorInv(v) == page[v].of \in Executions => Shows(page[v], executions[page[v].of])

\* What a viewer is answered.
Kinds == Refusals \cup {"error", "slice"}

\* A slice goes on, with its lines and its numbers, where a page stands in a log.
GoesOn(a, log, offset, num) ==
  /\ a.lines \in Seq(Row)
  /\ a.offset = offset + Len(a.lines) /\ a.num = num + Len(a.lines)
  /\ a.offset <= Len(log)
  /\ \A i \in 1 .. Len(a.lines) : a.lines[i] = [num |-> num + i - 1, text |-> log[offset + i]]

\* A slice under way goes on where the page stands, whatever was written since;
\* one that says that the command ended goes to the end of the log.
SliceInv(v) ==
  LET p == page[v]
      e == executions[p.of]
      a == answer[v]
  IN  /\ IF stage[v] = "answered" THEN a.kind \in Kinds ELSE a = NoAnswer
      /\ a.kind = "slice" =>
           /\ a.status \in Statuses
           /\ GoesOn(a, e.log, p.offset, p.num)
           /\ a.status \in Over => e.status \in Over /\ a.offset = Len(e.log)

ViewerInv(v) == TimerInv(v) /\ CursorInv(v) /\ SliceInv(v)

\* Whoever is older of two identical pipelines runs only since it was retried.
RetriedInv ==
  \A i, j \in DOMAIN pipelines :
    /\ i < j /\ pipelines[i].status \in Active
    /\ Identical(pipelines[i].order, pipelines[j].order)
    => pipelines[i].retried

-----------------------------------------------------------------------------
(* The stand-in keeps the promises of deploy-service.                      *)

LEMMA WhitelistIs ==
  /\ "ping" \in DOMAIN Whitelist
  /\ \A name \in DOMAIN Whitelist :
       name # "none" /\ (Whitelist[name].killable => Whitelist[name].logged)
<1>1. DOMAIN Whitelist = {"ping", "facts"}
  BY DEF Whitelist
<1>2. Whitelist["ping"].logged /\ ~Whitelist["facts"].killable
  BY DEF Whitelist
<1> QED BY <1>1, <1>2

\* What is written at once are lines.
ProxyChunks == {<<>>, <<"output">>, Opening, <<Finished>>, <<Killed>>}

LEMMA ChunksAreLines ==
  /\ ProxyChunks \subseteq Seq(Lines)
  /\ Opening \in ProxyChunks /\ <<Finished>> \in ProxyChunks /\ <<Killed>> \in ProxyChunks
<1>1. /\ "output" \in Lines /\ Finished \in Lines /\ Killed \in Lines
      /\ Opening[1] \in Lines /\ Opening[2] \in Lines /\ Opening[3] \in Lines
  BY DEF Lines
<1>2. Opening \in Seq(Lines)
  <2>1. Opening[1] = "command" /\ Opening[2] = "would run" /\ Opening[3] = "nothing was executed"
    BY DEF Opening
  <2>2. "command" \in Lines /\ "would run" \in Lines /\ "nothing was executed" \in Lines
    BY <1>1, <2>1
  <2>3. ASSUME NEW a \in Lines, NEW b \in Lines, NEW d \in Lines PROVE <<a, b, d>> \in Seq(Lines)
    OBVIOUS
  <2> QED BY <2>2, <2>3 DEF Opening
<1>3. <<>> \in Seq(Lines) /\ <<"output">> \in Seq(Lines)
      /\ <<Finished>> \in Seq(Lines) /\ <<Killed>> \in Seq(Lines)
  BY <1>1
<1> QED BY <1>2, <1>3 DEF ProxyChunks

LEMMA ExecuteRuns ==
  ASSUME NEW c \in Executions, NEW name, Execute(c, name)
  PROVE  [Runs!Next]_executions
<1>1. CASE name \in DOMAIN Whitelist
  <2> DEFINE log == IF Whitelist[name].logged THEN Opening ELSE <<>>
  <2>1. executions[c] = Unused
        /\ executions' = [executions EXCEPT ![c] = [command |-> name, status |-> "running", log |-> log]]
    BY <1>1 DEF Execute
  <2>2. log = Runs!Written(name, Opening)
    BY <1>1 DEF Runs!Written
  <2>3. Opening \in {<<>>, <<"output">>, Opening, <<Finished>>, <<Killed>>}
    OBVIOUS
  <2>4. Runs!Start(c)
    BY <1>1, <2>1, <2>2, <2>3 DEF Runs!Start, Runs!Unused, Unused
  <2> QED BY <2>4 DEF Runs!Next
<1>2. CASE name \notin DOMAIN Whitelist
  BY <1>2 DEF Execute
<1> QED BY <1>1, <1>2

\* One step of a running execution, as deploy-service would take it.
LEMMA EndRuns ==
  ASSUME ExecutionsOK, NEW c \in Executions, executions[c].status = "running",
         NEW status \in {"success", "killed"}, NEW line \in {Finished, Killed},
         executions' = [executions EXCEPT ![c] =
           [executions[c] EXCEPT !.status = status,
              !.log = IF Whitelist[executions[c].command].logged THEN Append(@, line) ELSE @]]
  PROVE  Runs!End(c)
<1> DEFINE e == executions[c]
           lines == Runs!Written(e.command, <<line>>)
<1>1. e \in [command : DOMAIN Whitelist \cup {"none"}, status : Statuses, log : Seq(Lines)]
  BY DEF ExecutionsOK
<1>2. e.command \in DOMAIN Whitelist
  BY DEF ExecutionsOK, Unused
<1>3. e.log \o lines = IF Whitelist[e.command].logged THEN Append(e.log, line) ELSE e.log
  <2>1. e.log \in Seq(Lines) /\ line \in Lines
    BY <1>1 DEF Lines
  <2>2. CASE Whitelist[e.command].logged
    <3>1. lines = <<line>>
      BY <1>2, <2>2 DEF Runs!Written
    <3>2. e.log \o <<line>> = Append(e.log, line)
      BY <2>1, AppendIsConcat
    <3> QED BY <2>2, <3>1, <3>2
  <2>3. CASE ~Whitelist[e.command].logged
    <3>1. lines = <<>>
      BY <2>3 DEF Runs!Written
    <3>2. e.log \o <<>> = e.log
      BY <2>1, ConcatEmptySeq
    <3> QED BY <2>3, <3>1, <3>2
  <2> QED BY <2>2, <2>3
<1>4. executions' = [executions EXCEPT ![c].status = status,
                                       ![c].log = @ \o Runs!Written(executions[c].command, <<line>>)]
  BY <1>1, <1>3 DEF ExecutionsOK
<1>5. Runs!Step(c, status, <<line>>)
  BY <1>4 DEF Runs!Step
<1> QED BY <1>5 DEF Runs!End, Runs!Terminal

LEMMA ObserveRuns ==
  ASSUME ExecutionsOK, NEW c \in Executions, Observe(c)
  PROVE  [Runs!Next]_executions
<1>1. executions = [d \in Executions |-> executions[d]]
  BY DEF ExecutionsOK
<1>2. CASE Known(c) /\ executions[c].status = "running"
  <2>1. executions' = [executions EXCEPT ![c] =
          [executions[c] EXCEPT !.status = "success",
             !.log = IF Whitelist[executions[c].command].logged THEN Append(@, Finished) ELSE @]]
    BY <1>2 DEF Observe, Observed
  <2>2. Runs!End(c)
    BY <1>2, <2>1, EndRuns
  <2> QED BY <2>2 DEF Runs!Next
<1>3. CASE ~(Known(c) /\ executions[c].status = "running")
  BY <1>1, <1>3 DEF Observe, Observed
<1> QED BY <1>2, <1>3

LEMMA KillRuns ==
  ASSUME ExecutionsOK, NEW c \in Executions, Kill(c)
  PROVE  [Runs!Next]_executions
<1>1. executions = [d \in Executions |-> executions[d]]
  BY DEF ExecutionsOK
<1>2. CASE Known(c) /\ executions[c].status = "running" /\ Whitelist[executions[c].command].killable
  <2>1. Whitelist[executions[c].command].logged
    BY <1>2, WhitelistIs DEF ExecutionsOK, Known
  <2>2. executions' = [executions EXCEPT ![c] =
          [executions[c] EXCEPT !.status = "killed",
             !.log = IF Whitelist[executions[c].command].logged THEN Append(@, Killed) ELSE @]]
    BY <1>2, <2>1 DEF Kill, Stop
  <2>3. Runs!End(c)
    BY <1>2, <2>2, EndRuns
  <2> QED BY <2>3 DEF Runs!Next
<1>3. CASE ~(Known(c) /\ executions[c].status = "running" /\ Whitelist[executions[c].command].killable)
  BY <1>1, <1>3 DEF Kill, Stop
<1> QED BY <1>2, <1>3

LEMMA StepRuns ==
  ASSUME ExecutionsOK, [Next]_vars
  PROVE  [Runs!Next]_executions
<1>1. CASE UNCHANGED executions
  BY <1>1
<1>2. CASE Upstream
  BY <1>2 DEF Upstream
<1>3. CASE \E a \in Callers : Serve(a)
  <2>1. UNCHANGED executions \/ CommandOperation
    BY <1>3 DEF Serve, PipelineOperation, Forwarded, commands
  <2>2. CASE CommandOperation
    <3> PICK c \in Executions : (\E name : Execute(c, name)) \/ Observe(c) \/ Kill(c)
      BY <2>2 DEF CommandOperation, Result
    <3> QED BY ExecuteRuns, ObserveRuns, KillRuns
  <2> QED BY <2>1, <2>2
<1>4. CASE \E v \in Viewers : ServeTrace(v)
  <2> PICK v \in Viewers : ServeTrace(v)
    BY <1>4
  <2>1. UNCHANGED executions \/ (Trace(v) /\ dryRun /\ Observe(page[v].of))
    BY DEF ServeTrace, Polled, Trace, commands
  <2>2. CASE Trace(v) /\ dryRun /\ Observe(page[v].of)
    <3>1. CASE page[v].of \in Executions
      BY <2>2, <3>1, ObserveRuns
    <3>2. CASE page[v].of \notin Executions
      BY <2>2, <3>2 DEF Observe, ExecutionsOK
    <3> QED BY <3>1, <3>2
  <2> QED BY <2>1, <2>2
<1> QED
  BY <1>1, <1>2, <1>3, <1>4
  DEF Next, vars, ViewerStep, OpenPage, Poll, Begin, Receive, Restart, Forget, commands

LEMMA Unmoved ==
  ASSUME ExecutionsOK, executions' = executions
  PROVE  ExecutionsOK' /\ \A c \in Executions : Extends(c)
<1>1. ExecutionsOK'
  BY DEF ExecutionsOK
<1>2. ASSUME NEW c \in Executions PROVE Extends(c)
  <2>1. Len(executions[c].log) \in Nat
    BY DEF ExecutionsOK
  <2> QED BY <2>1 DEF Extends
<1> QED BY <1>1, <1>2

\* Whoever keeps the promises lets logs grow, and leaves an execution that ended.
LEMMA RunsGrow ==
  ASSUME ExecutionsOK, [Runs!Next]_executions
  PROVE  ExecutionsOK' /\ \A c \in Executions : Extends(c)
<1> DEFINE Execution == [command : DOMAIN Whitelist \cup {"none"}, status : Statuses, log : Seq(Lines)]
<1>1. CASE UNCHANGED executions
  BY <1>1, Unmoved
<1>2. ASSUME NEW c \in Executions, NEW e \in Execution, executions' = [executions EXCEPT ![c] = e],
             e.command \in DOMAIN Whitelist, executions[c].status \notin Over,
             Len(executions[c].log) <= Len(e.log),
             \A i \in 1 .. Len(executions[c].log) : e.log[i] = executions[c].log[i]
      PROVE  ExecutionsOK' /\ \A d \in Executions : Extends(d)
  <2>1. /\ executions' \in [Executions -> Execution]
        /\ \A d \in Executions : executions'[d] = IF d = c THEN e ELSE executions[d]
    BY <1>2 DEF ExecutionsOK
  <2>2. ExecutionsOK'
    BY <1>2, <2>1 DEF ExecutionsOK
  <2>3. ASSUME NEW d \in Executions PROVE Extends(d)
    BY <1>2, <2>1 DEF Extends, ExecutionsOK
  <2> QED BY <2>2, <2>3
<1>3. ASSUME NEW c \in Executions, Runs!Start(c)
      PROVE  ExecutionsOK' /\ \A d \in Executions : Extends(d)
  <2> PICK name \in DOMAIN Whitelist, lines \in ProxyChunks :
             executions' = [executions EXCEPT ![c] =
               [command |-> name, status |-> "running", log |-> Runs!Written(name, lines)]]
    BY <1>3 DEF Runs!Start, ProxyChunks
  <2>1. Runs!Written(name, lines) \in Seq(Lines)
    BY ChunksAreLines DEF Runs!Written
  <2>2. executions[c].log = <<>> /\ executions[c].status = "new"
    BY <1>3 DEF Runs!Start, Runs!Unused
  <2> DEFINE e == [command |-> name, status |-> "running", log |-> Runs!Written(name, lines)]
  <2>3. e \in Execution /\ e.command = name
    BY <2>1 DEF Statuses
  <2>4. executions' = [executions EXCEPT ![c] = e]
    OBVIOUS
  <2> HIDE DEF e
  <2>5. /\ Len(executions[c].log) = 0 /\ Len(e.log) \in Nat
        /\ 1 .. Len(executions[c].log) = {}
    BY <2>2, <2>3
  <2>6. /\ Len(executions[c].log) <= Len(e.log)
        /\ \A i \in 1 .. Len(executions[c].log) : e.log[i] = executions[c].log[i]
    BY <2>5
  <2>7. executions[c].status \notin Over
    BY <2>2 DEF Over
  <2> QED BY <1>2, <2>3, <2>4, <2>6, <2>7
<1>4. ASSUME NEW c \in Executions, NEW status \in {"running"} \cup Over, NEW lines \in ProxyChunks,
             Runs!Step(c, status, lines)
      PROVE  ExecutionsOK' /\ \A d \in Executions : Extends(d)
  <2> DEFINE e == executions[c]
             more == Runs!Written(e.command, lines)
             next == [e EXCEPT !.status = status, !.log = e.log \o more]
  <2>1. e \in Execution /\ e.status = "running" /\ e.command \in DOMAIN Whitelist
    BY <1>4 DEF Runs!Step, ExecutionsOK, Unused
  <2>2. more \in Seq(Lines)
    BY ChunksAreLines DEF Runs!Written
  <2>3. /\ e.log \o more \in Seq(Lines)
        /\ Len(e.log) <= Len(e.log \o more)
        /\ \A i \in 1 .. Len(e.log) : (e.log \o more)[i] = e.log[i]
    <3>1. e.log \in Seq(Lines)
      BY <2>1
    <3> HIDE DEF e, more
    <3>2. Len(e.log) \in Nat /\ Len(more) \in Nat
      BY <2>2, <3>1
    <3>3. /\ e.log \o more \in Seq(Lines)
          /\ Len(e.log \o more) = Len(e.log) + Len(more)
          /\ \A i \in 1 .. Len(e.log) + Len(more) :
               (e.log \o more)[i] = IF i <= Len(e.log) THEN e.log[i] ELSE more[i - Len(e.log)]
      BY <2>2, <3>1, ConcatProperties
    <3> QED BY <3>2, <3>3
  <2>4. executions' = [executions EXCEPT ![c] = next]
    BY <1>4, <2>1 DEF Runs!Step, ExecutionsOK
  <2>5. next \in Execution /\ next.command = e.command /\ next.log = e.log \o more
    BY <2>1, <2>3 DEF Statuses
  <2> HIDE DEF next
  <2> QED BY <1>2, <2>1, <2>3, <2>4, <2>5 DEF Over
<1> QED
  BY <1>1, <1>3, <1>4
  DEF Runs!Next, Runs!Write, Runs!End, Runs!Terminal, Over, ProxyChunks

LEMMA ExecutionsInit == Init => ExecutionsOK /\ Runs!Init
<1> SUFFICES ASSUME Init PROVE ExecutionsOK /\ Runs!Init
  OBVIOUS
<1>1. executions = [c \in Executions |-> Unused]
  BY DEF Init, CommandsInit
<1>2. Unused \in [command : DOMAIN Whitelist \cup {"none"}, status : Statuses, log : Seq(Lines)]
  BY DEF Unused, Statuses
<1>3. ExecutionsOK
  <2> HIDE DEF Unused
  <2> QED BY <1>1, <1>2 DEF ExecutionsOK
<1>4. Runs!Init
  BY <1>1 DEF Runs!Init, Runs!Unused, Unused
<1> QED BY <1>3, <1>4

LEMMA ExecutionsNext ==
  ASSUME ExecutionsOK, [Next]_vars
  PROVE  ExecutionsOK' /\ \A c \in Executions : Extends(c)
BY StepRuns, RunsGrow

\* The stand-in, and whoever polls, observes or kills a command beside it or
\* beside deploy-service, keep what CommandRuns promises: every step of the
\* requests is a step of CommandRuns, or none.
THEOREM StandInKeepsItsPromises == Spec => KeepsItsPromises
<1>1. Init => ExecutionsOK /\ Runs!Init
  BY ExecutionsInit
<1>2. ExecutionsOK /\ [Next]_vars => ExecutionsOK' /\ [Runs!Next]_executions
  BY ExecutionsNext, StepRuns
<1> QED BY <1>1, <1>2, PTL DEF Spec, KeepsItsPromises, Runs!Spec

-----------------------------------------------------------------------------
(* The pages show the log: from here on only what RunsGrow says of the     *)
(* executions is used, never who wrote them.                               *)

\* A poll is answered with the rest of the log, numbered on from the cursor.
LEMMA SliceIsTheRest ==
  ASSUME NEW e, e.log \in Seq(Lines), NEW offset \in Nat, offset <= Len(e.log), NEW num \in Nat
  PROVE  /\ Slice(e, offset, num).kind = "slice" /\ Slice(e, offset, num).status = e.status
         /\ Slice(e, offset, num).offset = Len(e.log)
         /\ GoesOn(Slice(e, offset, num), e.log, offset, num)
<1> DEFINE a == Slice(e, offset, num)
           rest == SubSeq(e.log, offset + 1, Len(e.log))
           n == Len(e.log) - offset
           lines == [i \in DOMAIN rest |-> [num |-> num + i - 1, text |-> rest[i]]]
<1>1. Len(e.log) \in Nat /\ n \in Nat
  OBVIOUS
<1>2. \A i \in offset + 1 .. Len(e.log) : e.log[i] \in Lines
  OBVIOUS
<1>3. /\ rest \in Seq(Lines)
      /\ Len(rest) = IF offset + 1 <= Len(e.log) THEN Len(e.log) - (offset + 1) + 1 ELSE 0
      /\ \A i \in 1 .. Len(e.log) - (offset + 1) + 1 : rest[i] = e.log[offset + 1 + i - 1]
  <2>1. offset + 1 \in Int /\ Len(e.log) \in Int
    BY <1>1
  <2> QED BY <1>2, <2>1, SubSeqProperties
<1>4. Len(rest) = n /\ \A i \in 1 .. n : rest[i] = e.log[offset + i]
  BY <1>1, <1>3
<1> HIDE DEF rest
<1>5. DOMAIN rest = 1 .. n
  BY <1>3, <1>4
<1> HIDE DEF n
<1>6. lines = [i \in 1 .. n |-> [num |-> num + i - 1, text |-> e.log[offset + i]]]
  BY <1>4, <1>5
<1>7. \A i \in 1 .. n : [num |-> num + i - 1, text |-> e.log[offset + i]] \in Row
  <2> SUFFICES ASSUME NEW i \in 1 .. n
               PROVE  [num |-> num + i - 1, text |-> e.log[offset + i]] \in Row
    OBVIOUS
  <2>1. num + i - 1 \in Nat
    BY <1>1
  <2>2. e.log[offset + i] \in Lines
    BY <1>1, <1>2 DEF n
  <2> QED BY <2>1, <2>2 DEF Row
<1>8. lines \in Seq(Row) /\ Len(lines) = n
  <2>1. lines \in [1 .. n -> Row]
    BY <1>6, <1>7
  <2> HIDE DEF lines
  <2> QED BY <1>1, <2>1
<1>9. /\ a.kind = "slice" /\ a.status = e.status
      /\ a.lines = lines
      /\ a.offset = Len(e.log)
      /\ a.num = num + n
  BY <1>4 DEF Slice, rest
<1>10. Len(e.log) = offset + n
  BY <1>1 DEF n
<1>11. \A i \in 1 .. n : lines[i] = [num |-> num + i - 1, text |-> e.log[offset + i]]
  BY <1>6
<1> QED
  <2> HIDE DEF lines, a
  <2>1. a.lines \in Seq(Row) /\ Len(a.lines) = n
    BY <1>8, <1>9
  <2>2. a.offset = offset + Len(a.lines) /\ a.num = num + Len(a.lines) /\ a.offset <= Len(e.log)
    BY <1>1, <1>9, <1>10, <2>1
  <2>3. \A i \in 1 .. Len(a.lines) :
          a.lines[i] = [num |-> num + i - 1, text |-> e.log[offset + i]]
    BY <1>9, <1>11, <2>1
  <2>4. GoesOn(a, e.log, offset, num)
    BY <2>1, <2>2, <2>3 DEF GoesOn
  <2> QED BY <1>9, <2>4 DEF a

\* A slice goes on in whatever the log grows to.
LEMMA StillGoesOn ==
  ASSUME NEW a, NEW log, NEW grown, NEW offset \in Nat, NEW num, GoesOn(a, log, offset, num),
         Len(log) \in Nat, Len(grown) \in Nat, Len(log) <= Len(grown),
         \A i \in 1 .. Len(log) : grown[i] = log[i]
  PROVE  GoesOn(a, grown, offset, num)
<1>1. /\ a.lines \in Seq(Row)
      /\ a.offset = offset + Len(a.lines) /\ a.num = num + Len(a.lines)
      /\ a.offset <= Len(log)
      /\ \A i \in 1 .. Len(a.lines) : a.lines[i] = [num |-> num + i - 1, text |-> log[offset + i]]
  BY DEF GoesOn
<1>2. Len(a.lines) \in Nat
  BY <1>1
<1>3. a.offset <= Len(grown)
  BY <1>1, <1>2
<1>4. ASSUME NEW i \in 1 .. Len(a.lines) PROVE grown[offset + i] = log[offset + i]
  <2>1. offset + i \in 1 .. Len(log)
    BY <1>1, <1>2
  <2> QED BY <2>1
<1> QED BY <1>1, <1>3, <1>4 DEF GoesOn

LEMMA LogGrows ==
  ASSUME ExecutionsOK, ExecutionsOK', NEW c \in Executions, Extends(c)
  PROVE  /\ Len(executions[c].log) \in Nat /\ Len(executions'[c].log) \in Nat
         /\ Len(executions[c].log) <= Len(executions'[c].log)
         /\ \A i \in 1 .. Len(executions[c].log) : executions'[c].log[i] = executions[c].log[i]
         /\ executions[c].status \in Over => executions'[c] = executions[c]
<1>1. executions[c].log \in Seq(Lines)
  BY DEF ExecutionsOK
<1>2. executions'[c].log \in Seq(Lines)
  BY DEF ExecutionsOK
<1>3. Len(executions[c].log) \in Nat /\ Len(executions'[c].log) \in Nat
  BY <1>1, <1>2
<1> QED BY <1>3 DEF Extends

\* A log that grows goes on showing what a page shows of it.
LEMMA CursorKept ==
  ASSUME NEW v, CursorInv(v), page'[v] = page[v], page[v] \in Page, ExecutionsOK,
         ExecutionsOK', \A c \in Executions : Extends(c)
  PROVE  CursorInv(v)'
<1> DEFINE p == page[v]
           e == executions[p.of]
           next == executions'[p.of]
<1>1. ASSUME p.of \in Executions
      PROVE  /\ Len(e.log) \in Nat /\ Len(next.log) \in Nat /\ Len(e.log) <= Len(next.log)
             /\ \A i \in 1 .. Len(e.log) : next.log[i] = e.log[i]
             /\ e.status \in Over => next = e
  BY <1>1, LogGrows
<1> SUFFICES ASSUME p.of \in Executions PROVE CursorInv(v)'
  BY DEF CursorInv, Shows
<1> DEFINE n == Len(p.shown)
<1>2. n \in Nat
  BY DEF Page
<1>3. /\ p.offset = n /\ p.num = n + 1 /\ n <= Len(e.log)
      /\ \A i \in 1 .. n : p.shown[i] = [num |-> i, text |-> e.log[i]]
      /\ p.notice = "finished" => e.status \in Over /\ n = Len(e.log)
  BY DEF CursorInv, Shows
<1>4. n <= Len(next.log)
  <2> HIDE DEF n, e, next, p
  <2> QED BY <1>1, <1>2, <1>3
<1>5. \A i \in 1 .. n : p.shown[i] = [num |-> i, text |-> next.log[i]]
  <2> SUFFICES ASSUME NEW i \in 1 .. n PROVE p.shown[i] = [num |-> i, text |-> next.log[i]]
    OBVIOUS
  <2>1. i \in 1 .. Len(e.log)
    <3> HIDE DEF n, e, next, p
    <3> QED BY <1>1, <1>2, <1>3
  <2> QED BY <1>1, <1>3, <2>1
<1>6. p.notice = "finished" => next.status \in Over /\ n = Len(next.log)
  BY <1>1, <1>3
<1> QED BY <1>3, <1>4, <1>5, <1>6 DEF CursorInv, Shows

\* What a step that leaves a viewer alone may do to it: nothing.
LEMMA ViewerKept ==
  ASSUME NEW v, ViewerInv(v), page'[v] = page[v], stage'[v] = stage[v], answer'[v] = answer[v],
         page[v] \in Page, ExecutionsOK, ExecutionsOK', \A c \in Executions : Extends(c)
  PROVE  ViewerInv(v)'
<1> DEFINE p == page[v]
           e == executions[p.of]
           next == executions'[p.of]
<1>1. TimerInv(v)'
  BY DEF ViewerInv, TimerInv
<1>2. ASSUME p.of \in Executions
      PROVE  /\ Len(e.log) \in Nat /\ Len(next.log) \in Nat /\ Len(e.log) <= Len(next.log)
             /\ \A i \in 1 .. Len(e.log) : next.log[i] = e.log[i]
             /\ e.status \in Over => next = e
  BY <1>2, LogGrows
<1>3. CursorInv(v)'
  BY CursorKept DEF ViewerInv
<1>4. SliceInv(v)'
  <2> DEFINE a == answer[v]
  <2>1. IF stage[v] = "answered" THEN a.kind \in Kinds ELSE a = NoAnswer
    BY DEF ViewerInv, SliceInv
  <2>2. CASE a.kind # "slice"
    BY <2>1, <2>2 DEF SliceInv
  <2>3. CASE a.kind = "slice"
    <3>1. /\ a.status \in Statuses /\ GoesOn(a, e.log, p.offset, p.num)
          /\ a.status \in Over => e.status \in Over /\ a.offset = Len(e.log)
      BY <2>3 DEF ViewerInv, SliceInv
    <3>2. p.of \in Executions
      <4>1. a # NoAnswer
        BY <2>3 DEF NoAnswer
      <4>2. stage[v] = "answered"
        BY <2>1, <4>1
      <4> QED BY <4>2 DEF ViewerInv, TimerInv
    <3>3. p.offset \in Nat
      BY DEF Page
    <3>4. GoesOn(a, next.log, p.offset, p.num)
      BY <1>2, <3>1, <3>2, <3>3, StillGoesOn
    <3>5. a.status \in Over => next.status \in Over /\ a.offset = Len(next.log)
      BY <1>2, <3>1, <3>2
    <3> QED BY <2>1, <3>1, <3>4, <3>5 DEF SliceInv
  <2> QED BY <2>2, <2>3
<1> QED BY <1>1, <1>3, <1>4 DEF ViewerInv

\* Where requests are, and the pages, as TypeOK has them.
Stages == {"idle", "sent", "begun", "answered"}

PagesOK ==
  /\ page \in [Viewers -> Page]
  /\ stage \in [Actors -> Stages]
  /\ answer = [v \in Viewers |-> answer[v]]

PagesInv == ExecutionsOK /\ PagesOK /\ \A v \in Viewers : ViewerInv(v)

\* A step that moves no viewer.
LEMMA NoViewerMoves ==
  ASSUME PagesInv, ExecutionsOK', \A c \in Executions : Extends(c),
         page' = page, stage' \in [Actors -> Stages],
         \A v \in Viewers : stage'[v] = stage[v], answer' = answer
  PROVE  PagesOK' /\ \A v \in Viewers : ViewerInv(v)'
<1>1. PagesOK'
  BY DEF PagesOK, PagesInv
<1>2. ASSUME NEW v \in Viewers PROVE ViewerInv(v)'
  <2>1. page[v] \in Page
    BY DEF PagesOK, PagesInv
  <2> QED BY <2>1, ViewerKept DEF PagesInv
<1> QED BY <1>1, <1>2

\* A step that moves one viewer.
LEMMA OneViewerMoves ==
  ASSUME PagesInv, ExecutionsOK', \A c \in Executions : Extends(c),
         NEW v \in Viewers, NEW p \in Page, NEW s \in Stages, NEW a,
         page' = [page EXCEPT ![v] = p], stage' = [stage EXCEPT ![v] = s],
         answer' = [answer EXCEPT ![v] = a],
         page'[v] = p /\ stage'[v] = s /\ answer'[v] = a => ViewerInv(v)'
  PROVE  PagesOK' /\ \A w \in Viewers : ViewerInv(w)'
<1>1. PagesOK'
  BY DEF PagesOK, PagesInv, Actors
<1>2. /\ page'[v] = p /\ stage'[v] = s /\ answer'[v] = a
      /\ \A w \in Viewers \ {v} :
           page'[w] = page[w] /\ stage'[w] = stage[w] /\ answer'[w] = answer[w]
  BY DEF PagesOK, PagesInv, Actors
<1>3. ASSUME NEW w \in Viewers \ {v} PROVE ViewerInv(w)'
  <2>1. page[w] \in Page
    BY DEF PagesOK, PagesInv
  <2> QED BY <1>2, <2>1, ViewerKept DEF PagesInv
<1> QED BY <1>1, <1>2, <1>3

LEMMA BlankOK == Blank \in Page
<1>1. <<>> \in Seq(Row) /\ 0 \in 0 .. MaxFailures /\ 0 \in Nat /\ 1 \in Nat
  BY MaxFailuresAssumption
<1>2. /\ "none" \in Executions \cup {"none"} /\ "off" \in {"off", "set", "fired"}
      /\ "connecting" \in Notices
  BY DEF Notices
<1> QED BY <1>1, <1>2 DEF Page, Blank

LEMMA OpenPageOK ==
  ASSUME PagesInv, NEW v \in Viewers, OpenPage(v)
  PROVE  PagesOK' /\ \A w \in Viewers : ViewerInv(w)'
<1> PICK c \in Executions : executions[c] # Unused /\ Open(v, c)
  BY DEF OpenPage
<1> DEFINE p == [Blank EXCEPT !.of = c, !.timer = "set"]
<1>1. /\ p.of = c /\ p.timer = "set" /\ p.offset = 0 /\ p.num = 1 /\ p.failures = 0
      /\ p.shown = <<>> /\ p.notice = "connecting"
  BY DEF Blank
<1>2. UNCHANGED <<executions, stage, answer>>
  BY DEF OpenPage, commands, requests
<1>3. page[v].timer = "off" /\ page' = [page EXCEPT ![v] = p]
  BY DEF Open
<1>4. p \in Page
  BY BlankOK DEF Page
<1> HIDE DEF p
<1>5. stage[v] = "idle" /\ stage[v] \in Stages
  BY <1>3 DEF PagesInv, PagesOK, ViewerInv, TimerInv, Actors
<1>6. stage' = [stage EXCEPT ![v] = stage[v]] /\ answer' = [answer EXCEPT ![v] = answer[v]]
  BY <1>2 DEF PagesInv, PagesOK
<1>7. ASSUME page'[v] = p, stage'[v] = stage[v], answer'[v] = answer[v] PROVE ViewerInv(v)'
  <2>1. TimerInv(v)'
    BY <1>1, <1>5, <1>7, MaxFailuresAssumption DEF TimerInv
  <2>2. CursorInv(v)'
    <3>1. /\ p.offset = 0 /\ p.num = 1 /\ Len(p.shown) = 0 /\ p.notice # "finished"
          /\ p.of = c
      BY <1>1
    <3>2. Len(executions[c].log) \in Nat
      BY DEF PagesInv, ExecutionsOK
    <3> QED BY <1>2, <1>7, <3>1, <3>2 DEF CursorInv, Shows
  <2>3. SliceInv(v)'
    <3>1. answer[v] = NoAnswer
      BY <1>5 DEF PagesInv, ViewerInv, SliceInv
    <3> QED BY <1>5, <1>7, <3>1 DEF SliceInv, NoAnswer
  <2> QED BY <2>1, <2>2, <2>3 DEF ViewerInv
<1>8. ExecutionsOK' /\ \A d \in Executions : Extends(d)
  BY <1>2, Unmoved DEF PagesInv
<1> QED BY <1>3, <1>4, <1>5, <1>6, <1>7, <1>8, OneViewerMoves

LEMMA PollOK ==
  ASSUME PagesInv, NEW v \in Viewers, Poll(v)
  PROVE  PagesOK' /\ \A w \in Viewers : ViewerInv(w)'
<1> DEFINE p == [page[v] EXCEPT !.timer = "fired"]
<1>1. /\ page[v].timer = "set" /\ page' = [page EXCEPT ![v] = p]
      /\ stage' = [stage EXCEPT ![v] = "sent"]
      /\ UNCHANGED <<executions, answer>>
  BY DEF Poll, Fire, Enter, commands
<1>2. page[v] \in Page /\ TimerInv(v) /\ CursorInv(v) /\ SliceInv(v) /\ ExecutionsOK
  BY DEF PagesInv, PagesOK, ViewerInv
<1>3. /\ p \in Page /\ p.timer = "fired" /\ p.of = page[v].of /\ p.offset = page[v].offset
      /\ p.num = page[v].num /\ p.failures = page[v].failures /\ p.shown = page[v].shown
      /\ p.notice = page[v].notice
  BY <1>2 DEF Page
<1> HIDE DEF p
<1>4. stage[v] \in Stages /\ stage[v] = "idle" /\ answer[v] = NoAnswer
  BY <1>1, <1>2 DEF PagesInv, PagesOK, Actors, TimerInv, SliceInv
<1>5. "sent" \in Stages /\ answer' = [answer EXCEPT ![v] = NoAnswer]
  BY <1>1, <1>4 DEF PagesInv, PagesOK, Stages
<1>6. ASSUME page'[v] = p, stage'[v] = "sent", answer'[v] = NoAnswer PROVE ViewerInv(v)'
  <2>1. TimerInv(v)'
    BY <1>1, <1>2, <1>3, <1>6 DEF TimerInv
  <2>2. CursorInv(v)'
    BY <1>1, <1>2, <1>3, <1>6 DEF CursorInv, Shows
  <2>3. SliceInv(v)'
    BY <1>6 DEF SliceInv, NoAnswer
  <2> QED BY <2>1, <2>2, <2>3 DEF ViewerInv
<1>7. ExecutionsOK' /\ \A d \in Executions : Extends(d)
  BY <1>1, <1>2, Unmoved
<1> QED BY <1>1, <1>3, <1>5, <1>6, <1>7, OneViewerMoves

LEMMA BeginOK ==
  ASSUME PagesInv, NEW x, Begin(x)
  PROVE  PagesOK' /\ \A w \in Viewers : ViewerInv(w)'
<1>1. stage' = [stage EXCEPT ![x] = "begun"] /\ UNCHANGED <<executions, page, answer>>
  BY DEF Begin, Enter, commands
<1>2. ExecutionsOK /\ ExecutionsOK' /\ \A d \in Executions : Extends(d)
  BY <1>1, Unmoved DEF PagesInv
<1>3. stage' \in [Actors -> Stages] /\ "begun" \in Stages
  BY <1>1 DEF PagesInv, PagesOK, Stages
<1>4. CASE x \in Callers
  <2>1. \A v \in Viewers : stage'[v] = stage[v]
    BY <1>1, <1>4, SendersAssumption DEF PagesInv, PagesOK, Actors
  <2> QED BY <1>1, <1>2, <1>3, <2>1, NoViewerMoves
<1>5. CASE x \in Viewers /\ stage[x] = "sent"
  <2>1. /\ page[x] \in Page /\ TimerInv(x) /\ CursorInv(x) /\ answer[x] = NoAnswer
        /\ answer' = [answer EXCEPT ![x] = answer[x]] /\ page' = [page EXCEPT ![x] = page[x]]
    BY <1>1, <1>5 DEF PagesInv, PagesOK, ViewerInv, SliceInv
  <2>2. ASSUME page'[x] = page[x], stage'[x] = "begun", answer'[x] = answer[x]
        PROVE  ViewerInv(x)'
    <3>1. TimerInv(x)'
      BY <1>5, <2>1, <2>2 DEF TimerInv
    <3>2. CursorInv(x)'
      BY <1>1, <2>1 DEF CursorInv, Shows
    <3>3. SliceInv(x)'
      BY <2>1, <2>2 DEF SliceInv, NoAnswer
    <3> QED BY <3>1, <3>2, <3>3 DEF ViewerInv
  <2> QED BY <1>1, <1>2, <1>3, <1>5, <2>1, <2>2, OneViewerMoves
<1> QED BY <1>4, <1>5 DEF Begin

\* Whoever is served is a caller, or a viewer that gets an answer.
LEMMA ServeOK ==
  ASSUME PagesInv, NEW x \in Callers, Serve(x), ExecutionsOK', \A c \in Executions : Extends(c)
  PROVE  PagesOK' /\ \A w \in Viewers : ViewerInv(w)'
<1>1. stage' = [stage EXCEPT ![x] = "idle"] /\ UNCHANGED <<page, answer>>
  BY DEF Serve, Enter
<1>2. stage' \in [Actors -> Stages]
  BY <1>1 DEF PagesInv, PagesOK, Stages
<1>3. \A v \in Viewers : stage'[v] = stage[v]
  BY <1>1, SendersAssumption DEF PagesInv, PagesOK, Actors
<1> QED BY <1>1, <1>2, <1>3, NoViewerMoves

LEMMA ServeTraceOK ==
  ASSUME PagesInv, NEW v \in Viewers, ServeTrace(v), ExecutionsOK',
         \A c \in Executions : Extends(c)
  PROVE  PagesOK' /\ \A w \in Viewers : ViewerInv(w)'
<1> DEFINE p == page[v]
           next == executions'[p.of]
<1>1. stage[v] = "begun" /\ stage' = [stage EXCEPT ![v] = "answered"] /\ UNCHANGED page
  BY DEF ServeTrace, Enter
<1>2. /\ p \in Page /\ TimerInv(v) /\ CursorInv(v) /\ ExecutionsOK
      /\ page' = [page EXCEPT ![v] = p] /\ "answered" \in Stages
  BY <1>1 DEF PagesInv, PagesOK, ViewerInv, Stages
<1>3. p.of \in Executions
  BY <1>1, <1>2 DEF TimerInv
<1>4. PICK a : /\ answer' = [answer EXCEPT ![v] = a]
               /\ \/ a.kind \in Kinds /\ a.kind # "slice"
                  \/ a = Slice(next, p.offset, p.num)
  <2>1. CASE Polled(v, [kind |-> "login"]) \/ Polled(v, Error) \/ Polled(v, [kind |-> "too_large"])
    <3>1. PICK a \in {[kind |-> "login"], Error, [kind |-> "too_large"]} : Polled(v, a)
      BY <2>1
    <3>2. a.kind \in Kinds /\ a.kind # "slice"
      BY DEF Error, Kinds, Refusals
    <3> QED BY <3>1, <3>2 DEF Polled
  <2>2. CASE Trace(v)
    <3> DEFINE a == TraceSlice(v, next)
    <3>1. a = [kind |-> "not_logged"] \/ a = Slice(next, p.offset, p.num)
      BY DEF TraceSlice
    <3>2. a = [kind |-> "not_logged"] => a.kind \in Kinds /\ a.kind # "slice"
      BY DEF Kinds, Refusals
    <3>3. answer' = [answer EXCEPT ![v] = a]
      BY <2>2 DEF Trace
    <3> HIDE DEF a
    <3> QED BY <3>1, <3>2, <3>3
  <2> QED BY <2>1, <2>2 DEF ServeTrace
<1>5. ASSUME page'[v] = p, stage'[v] = "answered", answer'[v] = a PROVE ViewerInv(v)'
  <2>1. TimerInv(v)'
    BY <1>1, <1>2, <1>5 DEF TimerInv
  <2>2. CursorInv(v)'
    BY <1>2, <1>5, CursorKept
  <2>3. CASE a.kind \in Kinds /\ a.kind # "slice"
    BY <1>5, <2>1, <2>2, <2>3 DEF ViewerInv, SliceInv
  <2>4. CASE a = Slice(next, p.offset, p.num)
    <3>1. next.log \in Seq(Lines) /\ next.status \in Statuses
      BY <1>3 DEF ExecutionsOK
    <3>2. p.offset \in Nat /\ p.num \in Nat /\ p.offset <= Len(next.log)
      BY <1>2, <1>3, <1>5, <2>2 DEF Page, CursorInv, Shows
    <3> HIDE DEF next
    <3>3. /\ a.kind = "slice" /\ a.status = next.status
          /\ a.offset = Len(next.log) /\ GoesOn(a, next.log, p.offset, p.num)
      BY <2>4, <3>1, <3>2, SliceIsTheRest
    <3>4. Len(next.log) \in Nat /\ "slice" \in Kinds
      BY <3>1 DEF Kinds
    <3>5. SliceInv(v)'
      BY <1>5, <3>1, <3>3, <3>4 DEF SliceInv, next
    <3> QED BY <2>1, <2>2, <3>5 DEF ViewerInv
  <2> QED BY <1>4, <2>3, <2>4
<1> QED BY <1>1, <1>2, <1>4, <1>5, OneViewerMoves

\* The next poll, or the end of polling, after a failure.
LEMMA FailedOK ==
  ASSUME NEW p \in Page, p.failures < MaxFailures, NEW e, Shows(p, e)
  PROVE  LET q == Failed(p)
         IN  /\ q \in Page /\ q.of = p.of /\ q.timer \in {"off", "set"} /\ Shows(q, e)
             /\ q.timer = "set" => q.failures < MaxFailures
<1> DEFINE counted == [p EXCEPT !.failures = @ + 1]
           stopped == Stopped(counted, "poll_failed")
           again == [counted EXCEPT !.timer = "set", !.notice = "failed"]
<1>1. p.failures \in Nat /\ p.failures + 1 \in 0 .. MaxFailures
  BY MaxFailuresAssumption DEF Page
<1>2. "poll_failed" \in Notices /\ "failed" \in Notices
  BY DEF Notices
<1>3. /\ counted \in Page /\ counted.failures = p.failures + 1
      /\ counted.of = p.of /\ counted.offset = p.offset /\ counted.num = p.num
      /\ counted.shown = p.shown
  BY <1>1 DEF Page
<1> HIDE DEF counted
<1>4. /\ stopped \in Page /\ stopped.of = p.of /\ stopped.offset = p.offset
      /\ stopped.num = p.num /\ stopped.shown = p.shown
      /\ stopped.timer = "off" /\ stopped.notice = "poll_failed"
  BY <1>2, <1>3 DEF Page, Stopped
<1>5. /\ again \in Page /\ again.of = p.of /\ again.offset = p.offset
      /\ again.num = p.num /\ again.shown = p.shown /\ again.failures = counted.failures
      /\ again.timer = "set" /\ again.notice = "failed"
  BY <1>2, <1>3 DEF Page
<1>6. Failed(p) = IF counted.failures >= MaxFailures THEN stopped ELSE again
  BY DEF Failed, counted
<1> HIDE DEF stopped, again
<1>7. Shows(stopped, e) /\ Shows(again, e)
  BY <1>4, <1>5 DEF Shows
<1>8. CASE counted.failures >= MaxFailures
  BY <1>4, <1>6, <1>7, <1>8
<1>9. CASE ~(counted.failures >= MaxFailures)
  <2>1. counted.failures < MaxFailures
    BY <1>1, <1>3, <1>9, MaxFailuresAssumption
  <2> QED BY <1>5, <1>6, <1>7, <1>9, <2>1
<1> QED BY <1>8, <1>9

\* The lines of a slice that goes on where the page stands are shown next.
LEMMA RenderedOK ==
  ASSUME NEW p \in Page, NEW e, e.log \in Seq(Lines), Shows(p, e),
         NEW a, GoesOn(a, e.log, p.offset, p.num),
         a.status \in Over => e.status \in Over /\ a.offset = Len(e.log)
  PROVE  LET q == Rendered(p, a)
         IN  /\ q \in Page /\ q.of = p.of /\ q.timer \in {"off", "set"} /\ Shows(q, e)
             /\ q.timer = "set" => q.failures < MaxFailures
<1> DEFINE n == Len(p.shown)
           m == Len(a.lines)
           shown == p.shown \o a.lines
           Grown(o, k, s) == [p EXCEPT !.failures = 0, !.offset = o, !.num = k, !.shown = s]
           grown == Grown(a.offset, a.num, shown)
           again == [grown EXCEPT !.timer = "set", !.notice = "syncing"]
<1>1. p.shown \in Seq(Row) /\ a.lines \in Seq(Row)
  BY DEF Page, GoesOn
<1>2. n \in Nat /\ m \in Nat
  BY <1>1
<1>3. /\ shown \in Seq(Row) /\ Len(shown) = n + m
      /\ \A i \in 1 .. n + m : shown[i] = IF i <= n THEN p.shown[i] ELSE a.lines[i - n]
  <2>1. ASSUME NEW s \in Seq(Row), NEW t \in Seq(Row)
        PROVE  /\ s \o t \in Seq(Row) /\ Len(s \o t) = Len(s) + Len(t)
               /\ \A i \in 1 .. Len(s) + Len(t) :
                    (s \o t)[i] = IF i <= Len(s) THEN s[i] ELSE t[i - Len(s)]
    BY ConcatProperties
  <2> QED BY <1>1, <2>1
<1>4. /\ p.offset = n /\ p.num = n + 1
      /\ \A i \in 1 .. n : p.shown[i] = [num |-> i, text |-> e.log[i]]
  BY DEF Shows
<1>5. /\ a.offset = p.offset + m /\ a.num = p.num + m /\ a.offset <= Len(e.log)
      /\ \A i \in 1 .. m : a.lines[i] = [num |-> p.num + i - 1, text |-> e.log[p.offset + i]]
  BY DEF GoesOn
<1> HIDE DEF shown, n, m
<1>6. ASSUME NEW i \in 1 .. n + m PROVE shown[i] = [num |-> i, text |-> e.log[i]]
  <2>1. CASE i <= n
    <3>1. i \in 1 .. n
      BY <1>2, <2>1
    <3> QED BY <1>3, <1>4, <2>1, <3>1
  <2>2. CASE ~(i <= n)
    <3>1. i - n \in 1 .. m /\ p.num + (i - n) - 1 = i /\ p.offset + (i - n) = i
      BY <1>2, <1>4, <2>2
    <3>2. shown[i] = a.lines[i - n]
      BY <1>3, <2>2
    <3>3. a.lines[i - n] = [num |-> p.num + (i - n) - 1, text |-> e.log[p.offset + (i - n)]]
      BY <1>5, <3>1
    <3> QED BY <3>1, <3>2, <3>3
  <2> QED BY <2>1, <2>2
<1>7. a.offset = n + m /\ a.num = n + m + 1 /\ n + m \in Nat /\ 0 \in 0 .. MaxFailures
  BY <1>2, <1>4, <1>5, MaxFailuresAssumption
<1>8. /\ grown \in Page /\ grown.of = p.of /\ grown.failures = 0 /\ grown.offset = n + m
      /\ grown.num = n + m + 1 /\ grown.shown = shown
  <2>1. ASSUME NEW o \in Nat, NEW k \in Nat, NEW s \in Seq(Row)
        PROVE  /\ Grown(o, k, s) \in Page /\ Grown(o, k, s).of = p.of
               /\ Grown(o, k, s).failures = 0 /\ Grown(o, k, s).offset = o
               /\ Grown(o, k, s).num = k /\ Grown(o, k, s).shown = s
    BY <1>7, <2>1 DEF Page
  <2>2. a.offset \in Nat /\ a.num \in Nat
    BY <1>7
  <2>3. /\ grown \in Page /\ grown.of = p.of /\ grown.failures = 0 /\ grown.offset = a.offset
        /\ grown.num = a.num /\ grown.shown = shown
    <3> HIDE DEF Grown
    <3> QED BY <1>3, <2>1, <2>2
  <2> QED BY <1>7, <2>3
<1>9. Rendered(p, a) = IF a.status \in Over THEN Stopped(grown, "finished") ELSE again
  BY DEF Rendered, shown
<1>10. "finished" \in Notices /\ "syncing" \in Notices /\ n + m <= Len(e.log)
  BY <1>5, <1>7 DEF Notices
<1> HIDE DEF grown
<1>11. CASE a.status \in Over
  <2> DEFINE q == Stopped(grown, "finished")
  <2>1. /\ q \in Page /\ q.of = p.of /\ q.offset = n + m /\ q.num = n + m + 1
        /\ q.shown = shown /\ q.timer = "off" /\ q.notice = "finished"
    BY <1>8, <1>10 DEF Page, Stopped
  <2>2. e.status \in Over /\ n + m = Len(e.log)
    BY <1>7, <1>11
  <2> HIDE DEF q
  <2>3. Shows(q, e)
    BY <1>3, <1>6, <1>10, <2>1, <2>2 DEF Shows
  <2>4. Rendered(p, a) = q
    BY <1>9, <1>11 DEF q
  <2> QED BY <2>1, <2>3, <2>4
<1>12. CASE a.status \notin Over
  <2>1. /\ again \in Page /\ again.of = p.of /\ again.offset = n + m /\ again.num = n + m + 1
        /\ again.shown = shown /\ again.timer = "set" /\ again.notice = "syncing"
        /\ again.failures = 0
    BY <1>8, <1>10 DEF Page
  <2>2. Rendered(p, a) = again
    BY <1>9, <1>12
  <2> HIDE DEF again
  <2>3. Shows(again, e)
    BY <1>3, <1>6, <1>10, <2>1 DEF Shows
  <2>4. again.failures < MaxFailures
    BY <2>1, MaxFailuresAssumption
  <2> QED BY <2>1, <2>2, <2>3, <2>4
<1> QED BY <1>11, <1>12

\* Whatever a page is answered, it shows the log, and polls on only within its
\* failures.
LEMMA AnsweredOK ==
  ASSUME NEW p \in Page, p.failures < MaxFailures, NEW e, e.log \in Seq(Lines), Shows(p, e),
         NEW a, a.kind \in Kinds,
         a.kind = "slice" =>
           /\ GoesOn(a, e.log, p.offset, p.num)
           /\ a.status \in Over => e.status \in Over /\ a.offset = Len(e.log)
  PROVE  LET q == Answered(p, a)
         IN  /\ q \in Page /\ q.of = p.of /\ q.timer \in {"off", "set"} /\ Shows(q, e)
             /\ q.timer = "set" => q.failures < MaxFailures
<1>1. CASE a.kind = "error"
  <2>1. Answered(p, a) = Failed(p)
    BY <1>1 DEF Answered
  <2> QED BY <2>1, FailedOK
<1>2. CASE a.kind = "slice"
  <2>1. Answered(p, a) = Rendered(p, a)
    BY <1>2 DEF Answered
  <2> QED BY <1>2, <2>1, RenderedOK
<1>3. CASE a.kind \in Refusals
  <2> DEFINE q == Stopped(p, a.kind)
  <2>1. a.kind # "error" /\ a.kind # "slice" /\ a.kind # "finished" /\ a.kind \in Notices
    BY <1>3 DEF Refusals, Notices
  <2>2. Answered(p, a) = q
    BY <2>1 DEF Answered
  <2>3. /\ q \in Page /\ q.of = p.of /\ q.offset = p.offset /\ q.num = p.num
        /\ q.shown = p.shown /\ q.timer = "off" /\ q.notice = a.kind
    BY <2>1 DEF Page, Stopped
  <2> HIDE DEF q
  <2>4. Shows(q, e)
    BY <2>1, <2>3 DEF Shows
  <2> QED BY <2>2, <2>3, <2>4
<1> QED BY <1>1, <1>2, <1>3 DEF Kinds

LEMMA ReceiveOK ==
  ASSUME PagesInv, NEW v \in Viewers, Receive(v)
  PROVE  PagesOK' /\ \A w \in Viewers : ViewerInv(w)'
<1> DEFINE p == page[v]
           e == executions[p.of]
<1>1. /\ stage[v] \in {"sent", "answered"}
      /\ stage' = [stage EXCEPT ![v] = "idle"] /\ answer' = [answer EXCEPT ![v] = NoAnswer]
      /\ UNCHANGED executions
  BY DEF Receive, Enter, commands
<1>2. PICK a : /\ page' = [page EXCEPT ![v] = Answered(p, a)]
               /\ a = Error \/ (stage[v] = "answered" /\ a = answer[v])
  BY DEF Receive, Refresh
<1>3. p \in Page /\ TimerInv(v) /\ CursorInv(v) /\ SliceInv(v) /\ ExecutionsOK
  BY DEF PagesInv, PagesOK, ViewerInv
<1>4. p.of \in Executions /\ p.failures < MaxFailures
  BY <1>1, <1>3 DEF TimerInv
<1>5. e.log \in Seq(Lines) /\ Shows(p, e)
  BY <1>3, <1>4 DEF ExecutionsOK, CursorInv
<1>6. /\ a.kind \in Kinds
      /\ a.kind = "slice" =>
           /\ GoesOn(a, e.log, p.offset, p.num)
           /\ a.status \in Over => e.status \in Over /\ a.offset = Len(e.log)
  <2>1. CASE a = Error
    BY <2>1 DEF Error, Kinds
  <2>2. CASE stage[v] = "answered" /\ a = answer[v]
    BY <1>3, <2>2 DEF SliceInv
  <2> QED BY <1>2, <2>1, <2>2
<1> DEFINE q == Answered(p, a)
<1>7. /\ q \in Page /\ q.of = p.of /\ q.timer \in {"off", "set"} /\ Shows(q, e)
      /\ q.timer = "set" => q.failures < MaxFailures
  <2> HIDE DEF p, e
  <2> QED BY <1>3, <1>4, <1>5, <1>6, AnsweredOK
<1> HIDE DEF q
<1>8. ASSUME page'[v] = q, stage'[v] = "idle", answer'[v] = NoAnswer PROVE ViewerInv(v)'
  <2>1. TimerInv(v)'
    BY <1>4, <1>7, <1>8 DEF TimerInv
  <2>2. CursorInv(v)'
    BY <1>1, <1>7, <1>8 DEF CursorInv
  <2>3. SliceInv(v)'
    BY <1>8 DEF SliceInv, NoAnswer
  <2> QED BY <2>1, <2>2, <2>3 DEF ViewerInv
<1>9. ExecutionsOK' /\ \A d \in Executions : Extends(d)
  BY <1>1, <1>3, Unmoved
<1>10. page' = [page EXCEPT ![v] = q] /\ "idle" \in Stages
  BY <1>2 DEF q, Stages
<1> QED BY <1>1, <1>7, <1>8, <1>9, <1>10, OneViewerMoves

\* A restart loses the polls that are being served.
LEMMA RestartOK ==
  ASSUME PagesInv, Restart
  PROVE  PagesOK' /\ \A w \in Viewers : ViewerInv(w)'
<1>1. /\ UNCHANGED <<executions, page>>
      /\ stage' = [x \in Actors |-> IF stage[x] # "begun" THEN stage[x]
                                    ELSE IF x \in Viewers THEN "answered" ELSE "idle"]
      /\ answer' = [v \in Viewers |-> IF stage[v] = "begun" THEN Error ELSE answer[v]]
  BY DEF Restart, Forget, commands
<1>2. ExecutionsOK /\ ExecutionsOK' /\ \A c \in Executions : Extends(c)
  BY <1>1, Unmoved DEF PagesInv
<1>3. stage' \in [Actors -> Stages]
  BY <1>1 DEF PagesInv, PagesOK, Stages
<1>4. answer' = [v \in Viewers |-> answer'[v]]
  BY <1>1
<1>5. PagesOK'
  BY <1>1, <1>3, <1>4 DEF PagesOK, PagesInv
<1>6. ASSUME NEW v \in Viewers PROVE ViewerInv(v)'
  <2>1. v \in Actors /\ page[v] \in Page /\ ViewerInv(v)
    BY DEF Actors, PagesInv, PagesOK
  <2>2. CASE stage[v] = "begun"
    <3>1. stage'[v] = "answered" /\ answer'[v] = Error /\ page'[v] = page[v]
      BY <1>1, <2>1, <2>2
    <3>2. TimerInv(v)'
      BY <2>1, <2>2, <3>1 DEF ViewerInv, TimerInv
    <3>3. CursorInv(v)'
      BY <1>1, <2>1 DEF ViewerInv, CursorInv
    <3>4. SliceInv(v)'
      BY <3>1 DEF SliceInv, Error, Kinds
    <3> QED BY <3>2, <3>3, <3>4 DEF ViewerInv
  <2>3. CASE stage[v] # "begun"
    <3>1. stage'[v] = stage[v] /\ answer'[v] = answer[v] /\ page'[v] = page[v]
      BY <1>1, <2>1, <2>3
    <3> QED BY <1>2, <2>1, <3>1, ViewerKept
  <2> QED BY <2>2, <2>3
<1> QED BY <1>5, <1>6

-----------------------------------------------------------------------------
(* Pipelines: triggering makes no duplicate.                               *)

\* Where an element stands in a sequence: a bag counts these places.
Places(s, x) == {i \in DOMAIN s : s[i] = x}

LEMMA BagIs ==
  ASSUME NEW s
  PROVE  ToBag(s) = [x \in {s[i] : i \in DOMAIN s} |-> Cardinality(Places(s, x))]
BY DEF ToBag, Range, Places

LEMMA PlacesFinite ==
  ASSUME NEW S, NEW s \in Seq(S), NEW x
  PROVE  IsFiniteSet(Places(s, x))
<1>1. Len(s) \in Nat /\ Places(s, x) \in SUBSET (1 .. Len(s))
  BY DEF Places
<1>2. IsFiniteSet(1 .. Len(s))
  BY <1>1, FS_Interval
<1> QED BY <1>1, <1>2, FS_Subset

\* One element more at the front.
LEMMA PlacesAfter ==
  ASSUME NEW S, NEW s \in Seq(S), NEW e \in S, NEW x
  PROVE  Cardinality(Places(<<e>> \o s, x)) =
           Cardinality(Places(s, x)) + (IF e = x THEN 1 ELSE 0)
<1> DEFINE u == <<e>> \o s
           n == Len(s)
           I == Places(s, x)
           J == {j \in 2 .. n + 1 : s[j - 1] = x}
<1>1. n \in Nat /\ DOMAIN s = 1 .. n
  OBVIOUS
<1>2. DOMAIN u = 1 .. n + 1 /\ u[1] = e /\ \A j \in 2 .. n + 1 : u[j] = s[j - 1]
  <2>1. <<e>> \in Seq(S) /\ Len(<<e>>) = 1 /\ <<e>>[1] = e
    OBVIOUS
  <2>2. ASSUME NEW a \in Seq(S)
        PROVE  /\ a \o s \in Seq(S) /\ Len(a \o s) = Len(a) + Len(s)
               /\ \A i \in 1 .. Len(a) + Len(s) :
                    (a \o s)[i] = IF i <= Len(a) THEN a[i] ELSE s[i - Len(a)]
    BY ConcatProperties
  <2>3. /\ u \in Seq(S) /\ Len(u) = n + 1
        /\ \A i \in 1 .. n + 1 : u[i] = IF i <= 1 THEN <<e>>[i] ELSE s[i - 1]
    BY <1>1, <2>1, <2>2
  <2> HIDE DEF u, n
  <2>4. DOMAIN u = 1 .. n + 1
    BY <2>3
  <2>5. u[1] = e
    BY <1>1, <2>1, <2>3
  <2>6. ASSUME NEW j \in 2 .. n + 1 PROVE u[j] = s[j - 1]
    BY <1>1, <2>3
  <2> QED BY <2>4, <2>5, <2>6
<1> HIDE DEF n, u
<1>3. IsFiniteSet(I)
  BY PlacesFinite
<1>4. IsFiniteSet(J) /\ Cardinality(J) = Cardinality(I)
  <2> DEFINE f == [i \in I |-> i + 1]
  <2>1. I = {i \in 1 .. n : s[i] = x}
    BY <1>1 DEF Places
  <2>2. f \in [I -> J]
    BY <1>1, <2>1
  <2>3. \A a, b \in I : f[a] = f[b] => a = b
    BY <1>1, <2>1
  <2>4. ASSUME NEW j \in J PROVE \E i \in I : f[i] = j
    <3>1. j - 1 \in I /\ f[j - 1] = j
      BY <1>1, <2>1
    <3> QED BY <3>1
  <2>5. f \in Bijection(I, J)
    <3> HIDE DEF f, I, J
    <3> QED BY <2>2, <2>3, <2>4 DEF Bijection, Injection, Surjection, IsInjective
  <2>6. ExistsBijection(I, J)
    BY <2>5 DEF ExistsBijection
  <2> QED BY <1>3, <2>6, FS_Bijection
<1>5. Places(u, x) = IF e = x THEN J \cup {1} ELSE J
  <2>1. Places(u, x) = {i \in 1 .. n + 1 : u[i] = x}
    BY <1>2 DEF Places
  <2>2. ASSUME NEW i PROVE i \in 1 .. n + 1 <=> i = 1 \/ i \in 2 .. n + 1
    BY <1>1
  <2>3. \A i : i \in Places(u, x) <=> (i = 1 /\ e = x) \/ i \in J
    BY <1>2, <2>1, <2>2
  <2> HIDE DEF J
  <2> QED BY <2>3
<1>6. 1 \notin J
  OBVIOUS
<1>7. Cardinality(I) \in Nat
  BY <1>3, FS_CardinalityType
<1>8. CASE e = x
  <2>1. Cardinality(J \cup {1}) = Cardinality(J) + 1
    <3> HIDE DEF J
    <3> QED BY <1>4, <1>6, FS_AddElement
  <2> QED BY <1>3, <1>4, <1>5, <1>8, <2>1 DEF u
<1>9. CASE e # x
  <2>1. Places(u, x) = J
    BY <1>5, <1>9
  <2> HIDE DEF J
  <2> QED BY <1>3, <1>4, <1>7, <1>9, <2>1 DEF u
<1> QED BY <1>8, <1>9

\* Two sequences with the same elements as often still have after the same one more.
LEMMA SameBagAfter ==
  ASSUME NEW S, NEW s \in Seq(S), NEW t \in Seq(S), ToBag(s) = ToBag(t), NEW e \in S
  PROVE  ToBag(<<e>> \o s) = ToBag(<<e>> \o t)
<1> DEFINE R(q) == {q[i] : i \in DOMAIN q}
<1>1. ASSUME NEW x PROVE Cardinality(Places(s, x)) = Cardinality(Places(t, x))
  <2>1. R(s) = R(t)
    <3>1. R(s) = DOMAIN ToBag(s) /\ R(t) = DOMAIN ToBag(t)
      BY BagIs
    <3> QED BY <3>1
  <2>2. CASE x \in R(s)
    <3>1. ToBag(s)[x] = Cardinality(Places(s, x)) /\ ToBag(t)[x] = Cardinality(Places(t, x))
      BY <2>1, <2>2, BagIs
    <3> QED BY <3>1
  <2>3. CASE x \notin R(s)
    <3>1. Places(s, x) = {} /\ Places(t, x) = {}
      BY <2>1, <2>3 DEF Places
    <3> QED BY <3>1
  <2> QED BY <2>2, <2>3
<1> DEFINE u == <<e>> \o s
           w == <<e>> \o t
<1>2. ASSUME NEW x PROVE Cardinality(Places(u, x)) = Cardinality(Places(w, x))
  BY <1>1, PlacesAfter
<1>3. R(u) = R(w)
  <2>1. u \in Seq(S) /\ w \in Seq(S)
    BY ConcatProperties
  <2>2. ASSUME NEW q \in Seq(S), NEW x PROVE x \in R(q) <=> Cardinality(Places(q, x)) # 0
    <3>1. x \in R(q) <=> Places(q, x) # {}
      BY DEF Places
    <3>2. IsFiniteSet(Places(q, x))
      BY PlacesFinite
    <3> QED BY <3>1, <3>2, FS_EmptySet
  <2> HIDE DEF u, w, R
  <2> QED BY <1>2, <2>1, <2>2
<1> HIDE DEF u, w
<1>4. ToBag(u) = ToBag(w)
  BY <1>2, <1>3, BagIs
<1> QED BY <1>4 DEF u, w

\* Orders with the same variables, in whatever order, are the same to Trigger.
LEMMA IdenticalIsSame ==
  ASSUME NEW a \in Orders, NEW b \in Orders, Identical(a, b)
  PROVE  Same(a, b)
<1> DEFINE e == <<"EXECUTION", a.action>>
           S == ToSet(a.variables) \cup ToSet(b.variables) \cup {e}
<1>1. a.variables \in Seq(S) /\ b.variables \in Seq(S) /\ e \in S
  <2>1. /\ a.variables \in Seq(ToSet(a.variables)) /\ ToSet(a.variables) \subseteq S
        /\ b.variables \in Seq(ToSet(b.variables)) /\ ToSet(b.variables) \subseteq S
    BY OrdersAssumption
  <2> QED BY <2>1, SeqMonotonic
<1>2. a.ref = b.ref /\ a.action = b.action /\ ToBag(a.variables) = ToBag(b.variables)
  BY DEF Identical
<1> HIDE DEF S, e
<1>3. ToBag(<<e>> \o a.variables) = ToBag(<<e>> \o b.variables)
  BY <1>1, <1>2, SameBagAfter
<1>4. Variables(a) = <<e>> \o a.variables /\ Variables(b) = <<e>> \o b.variables
  BY <1>2 DEF Variables, e
<1> QED BY <1>2, <1>3, <1>4 DEF Same

Pipeline == [order : Orders, retried : BOOLEAN, status : {"running", "success", "canceled"}]

PipelinesInv == pipelines \in Seq(Pipeline) /\ RetriedInv

LEMMA ChangePipeline ==
  ASSUME pipelines \in Seq(Pipeline), NEW id \in DOMAIN pipelines, NEW p \in Pipeline,
         pipelines' = [pipelines EXCEPT ![id] = p]
  PROVE  /\ pipelines' \in Seq(Pipeline) /\ DOMAIN pipelines' = DOMAIN pipelines
         /\ pipelines'[id] = p
         /\ \A i \in DOMAIN pipelines \ {id} : pipelines'[i] = pipelines[i]
<1> HIDE DEF Pipeline
<1> QED OBVIOUS

\* A pipeline that stays, or ends.
LEMMA SetStatusOK ==
  ASSUME PipelinesInv, NEW id, NEW from, NEW to \in {"success", "canceled"}, SetStatus(id, from, to)
  PROVE  PipelinesInv'
<1>1. CASE pipelines' = pipelines
  BY <1>1 DEF PipelinesInv, RetriedInv
<1>2. CASE id \in DOMAIN pipelines /\ pipelines' = [pipelines EXCEPT ![id].status = to]
  <2>1. /\ pipelines' \in Seq(Pipeline) /\ DOMAIN pipelines' = DOMAIN pipelines
        /\ \A i \in DOMAIN pipelines :
             /\ pipelines'[i].order = pipelines[i].order
             /\ pipelines'[i].retried = pipelines[i].retried
             /\ pipelines'[i].status \in Active => pipelines[i].status \in Active
    <3> DEFINE p == [pipelines[id] EXCEPT !.status = to]
    <3>1. pipelines \in Seq(Pipeline) /\ pipelines[id] \in Pipeline /\ id \in DOMAIN pipelines
      <4> HIDE DEF Pipeline
      <4> QED BY <1>2 DEF PipelinesInv
    <3>2. /\ p \in Pipeline /\ p.order = pipelines[id].order
          /\ p.retried = pipelines[id].retried /\ p.status \notin Active
      BY <3>1 DEF Pipeline, Active
    <3>3. pipelines' = [pipelines EXCEPT ![id] = p]
      BY <1>2, <3>1
    <3> HIDE DEF p
    <3> QED BY <3>1, <3>2, <3>3, ChangePipeline
  <2> QED BY <2>1 DEF PipelinesInv, RetriedInv
<1> QED BY <1>1, <1>2 DEF SetStatus

LEMMA RetryOK ==
  ASSUME PipelinesInv, NEW id, Retry(id)
  PROVE  PipelinesInv'
<1>1. CASE pipelines' = pipelines
  BY <1>1 DEF PipelinesInv, RetriedInv
<1>2. CASE /\ id \in DOMAIN pipelines
           /\ pipelines' = [pipelines EXCEPT ![id].status = "running", ![id].retried = TRUE]
  <2>1. /\ pipelines' \in Seq(Pipeline) /\ DOMAIN pipelines' = DOMAIN pipelines
        /\ \A i \in DOMAIN pipelines :
             /\ pipelines'[i].order = pipelines[i].order
             /\ pipelines'[i].retried <=> i = id \/ pipelines[i].retried
             /\ i # id => pipelines'[i].status = pipelines[i].status
    <3> DEFINE p == [pipelines[id] EXCEPT !.status = "running", !.retried = TRUE]
    <3>1. pipelines \in Seq(Pipeline) /\ pipelines[id] \in Pipeline /\ id \in DOMAIN pipelines
      <4> HIDE DEF Pipeline
      <4> QED BY <1>2 DEF PipelinesInv
    <3>2. p \in Pipeline /\ p.order = pipelines[id].order /\ p.retried
      BY <3>1 DEF Pipeline
    <3>3. pipelines' = [pipelines EXCEPT ![id] = p]
      BY <1>2, <3>1
    <3> HIDE DEF p
    <3> QED BY <3>1, <3>2, <3>3, ChangePipeline
  <2> QED BY <2>1 DEF PipelinesInv, RetriedInv
<1> QED BY <1>1, <1>2 DEF Retry

\* Whatever is triggered is identical to no pipeline that runs.
LEMMA TriggerOK ==
  ASSUME PipelinesInv, NEW order \in Orders, Trigger(order)
  PROVE  PipelinesInv'
<1>1. CASE pipelines' = pipelines
  BY <1>1 DEF PipelinesInv, RetriedInv
<1> DEFINE new == [order |-> order, status |-> "running", retried |-> FALSE]
           n == Len(pipelines)
<1>2. CASE Matching(order) = {} /\ pipelines' = Append(pipelines, new)
  <2>1. pipelines \in Seq(Pipeline) /\ new \in Pipeline /\ n \in Nat
    BY DEF PipelinesInv, Pipeline
  <2>2. /\ pipelines' \in Seq(Pipeline)
        /\ DOMAIN pipelines = 1 .. n /\ DOMAIN pipelines' = 1 .. n + 1
        /\ pipelines'[n + 1] = new
        /\ \A i \in 1 .. n : pipelines'[i] = pipelines[i]
    <3> HIDE DEF new
    <3> QED BY <1>2, <2>1
  <2>3. ASSUME NEW i \in DOMAIN pipelines', NEW j \in DOMAIN pipelines', i < j,
               pipelines'[i].status \in Active,
               Identical(pipelines'[i].order, pipelines'[j].order)
        PROVE  pipelines'[i].retried
    <3>1. i \in 1 .. n /\ pipelines'[i] = pipelines[i] /\ (j = n + 1 \/ j \in 1 .. n)
      BY <2>1, <2>2, <2>3
    <3>2. CASE j \in 1 .. n
      BY <2>2, <2>3, <3>1, <3>2 DEF PipelinesInv, RetriedInv
    <3>3. CASE j = n + 1
      <4>1. pipelines'[j].order = order /\ pipelines[i].order \in Orders
        <5>1. pipelines'[j] = new
          BY <2>2, <3>3
        <5>2. pipelines[i] \in Pipeline
          <6> HIDE DEF Pipeline
          <6> QED BY <2>1, <3>1
        <5> QED BY <5>1, <5>2 DEF Pipeline
      <4>2. Same(pipelines[i].order, order)
        BY <2>3, <3>1, <4>1, IdenticalIsSame
      <4>3. i \in Matching(order)
        BY <2>2, <2>3, <3>1, <4>2 DEF Matching
      <4> QED BY <1>2, <4>3
    <3> QED BY <3>1, <3>2, <3>3
  <2>4. RetriedInv'
    BY <2>3 DEF RetriedInv
  <2> QED BY <2>2, <2>4 DEF PipelinesInv
<1> QED BY <1>1, <1>2 DEF Trigger

-----------------------------------------------------------------------------
(* The invariant of the requests, and what follows.                        *)

IdsOK == forgotten \subseteq Executions /\ current \in Actors \cup {NoId}

RequestsInv == PagesInv /\ PipelinesInv /\ IdsOK

LEMMA RequestsInit == Init => RequestsInv
<1> SUFFICES ASSUME Init PROVE RequestsInv
  OBVIOUS
<1>1. ExecutionsOK
  BY ExecutionsInit
<1>2. /\ page = [v \in Viewers |-> Blank] /\ stage = [x \in Actors |-> "idle"]
      /\ answer = [v \in Viewers |-> NoAnswer]
  BY DEF Init, ViewersInit
<1>3. PagesOK
  <2>1. "idle" \in Stages
    BY DEF Stages
  <2> HIDE DEF Page, Blank, Stages
  <2> QED BY <1>2, <2>1, BlankOK DEF PagesOK
<1>4. ASSUME NEW v \in Viewers PROVE ViewerInv(v)
  <2>1. /\ page[v].offset = 0 /\ page[v].num = 1 /\ page[v].shown = <<>>
        /\ page[v].timer = "off" /\ page[v].notice = "connecting"
        /\ stage[v] = "idle" /\ answer[v] = NoAnswer
    BY <1>2 DEF Blank, Actors
  <2>2. TimerInv(v)
    BY <2>1 DEF TimerInv
  <2>3. CursorInv(v)
    <3> SUFFICES ASSUME page[v].of \in Executions PROVE Shows(page[v], executions[page[v].of])
      BY DEF CursorInv
    <3>1. Len(executions[page[v].of].log) \in Nat
      BY <1>1 DEF ExecutionsOK
    <3>2. Len(page[v].shown) = 0
      BY <2>1
    <3> QED BY <2>1, <3>1, <3>2 DEF Shows
  <2>4. SliceInv(v)
    BY <2>1 DEF SliceInv, NoAnswer
  <2> QED BY <2>2, <2>3, <2>4 DEF ViewerInv
<1>5. PipelinesInv
  BY DEF Init, PipelinesInit, PipelinesInv, RetriedInv
<1>6. IdsOK
  BY DEF Init, CommandsInit, IdsOK
<1> QED BY <1>1, <1>3, <1>4, <1>5, <1>6 DEF RequestsInv, PagesInv

LEMMA PagesNext ==
  ASSUME PagesInv, [Next]_vars
  PROVE  PagesInv'
<1>1. ExecutionsOK' /\ \A c \in Executions : Extends(c)
  BY ExecutionsNext DEF PagesInv
<1> SUFFICES PagesOK' /\ \A v \in Viewers : ViewerInv(v)'
  BY <1>1 DEF PagesInv
<1>2. CASE UNCHANGED <<page, stage, answer>>
  <2>1. stage' \in [Actors -> Stages]
    BY <1>2 DEF PagesInv, PagesOK
  <2> QED BY <1>1, <1>2, <2>1, NoViewerMoves
<1>3. CASE Upstream \/ UNCHANGED vars
  BY <1>2, <1>3 DEF Upstream, vars, requests
<1>4. CASE Restart
  BY <1>4, RestartOK
<1>5. ASSUME NEW x \in Callers, Begin(x) \/ Serve(x)
      PROVE  PagesOK' /\ \A v \in Viewers : ViewerInv(v)'
  BY <1>1, <1>5, BeginOK, ServeOK
<1>6. ASSUME NEW v \in Viewers, OpenPage(v) \/ ViewerStep(v)
      PROVE  PagesOK' /\ \A w \in Viewers : ViewerInv(w)'
  BY <1>1, <1>6, OpenPageOK, PollOK, BeginOK, ServeTraceOK, ReceiveOK DEF ViewerStep
<1> QED BY <1>3, <1>4, <1>5, <1>6 DEF Next

LEMMA PipelinesNext ==
  ASSUME PipelinesInv, [Next]_vars
  PROVE  PipelinesInv'
<1>1. CASE UNCHANGED pipelines
  BY <1>1 DEF PipelinesInv, RetriedInv
<1>2. CASE pipelines' = <<>>
  BY <1>2 DEF PipelinesInv, RetriedInv
<1>3. CASE PipelineOperation
  <2>1. CASE \E order \in Orders : Trigger(order)
    BY <2>1, TriggerOK
  <2>2. ASSUME NEW id, GetPipeline(id) \/ Cancel(id) \/ Retry(id) PROVE PipelinesInv'
    BY <2>2, SetStatusOK, RetryOK DEF GetPipeline, Cancel
  <2> QED BY <1>3, <2>1, <2>2 DEF PipelineOperation
<1>4. ASSUME NEW x, Serve(x) PROVE UNCHANGED pipelines \/ PipelineOperation
  BY <1>4 DEF Serve, CommandOperation, Forwarded
<1> QED
  BY <1>1, <1>2, <1>3, <1>4
  DEF Next, vars, Upstream, Restart, ViewerStep, OpenPage, Poll, Begin, ServeTrace, Receive

LEMMA IdsNext ==
  ASSUME ExecutionsOK, IdsOK, [Next]_vars
  PROVE  IdsOK'
<1>1. UNCHANGED forgotten \/ forgotten' \subseteq Executions
  <2>1. CASE Restart
    BY <2>1 DEF Restart, Forget, commands
  <2>2. ASSUME NEW x, Serve(x) PROVE UNCHANGED forgotten
    BY <2>2 DEF Serve, CommandOperation, PipelineOperation, Forwarded, commands
  <2>3. ASSUME NEW v, ServeTrace(v) PROVE UNCHANGED forgotten
    BY <2>3 DEF ServeTrace, Polled, Trace, commands
  <2> QED
    BY <2>1, <2>2, <2>3
    DEF Next, vars, Upstream, ViewerStep, OpenPage, Poll, Begin, Receive, commands
<1>2. UNCHANGED current \/ current' \in Actors \cup {NoId}
  BY DEF Next, vars, requests, Upstream, Restart, ViewerStep, OpenPage, Poll, Begin, Serve,
         ServeTrace, Receive, Actors
<1> QED BY <1>1, <1>2 DEF IdsOK

LEMMA RequestsStep == RequestsInv /\ [Next]_vars => RequestsInv'
BY PagesNext, PipelinesNext, IdsNext DEF RequestsInv, PagesInv

LEMMA RequestsImply == RequestsInv => TypeOK /\ ShowsTheLog /\ DuplicateOnlyByRetry
<1> SUFFICES ASSUME RequestsInv PROVE TypeOK /\ ShowsTheLog /\ DuplicateOnlyByRetry
  OBVIOUS
<1>1. TypeOK
  BY DEF TypeOK, RequestsInv, PagesInv, PagesOK, PipelinesInv, Pipeline, IdsOK, ExecutionsOK,
         Page, Row, Stages
<1>2. ShowsTheLog
  <2> SUFFICES ASSUME NEW v \in Viewers, page[v].of # "none"
               PROVE  Shows(page[v], executions[page[v].of])
    BY DEF ShowsTheLog, Shows
  <2>1. page[v].of \in Executions /\ CursorInv(v)
    BY DEF RequestsInv, PagesInv, PagesOK, ViewerInv, Page
  <2> QED BY <2>1 DEF CursorInv
<1>3. DuplicateOnlyByRetry
  BY DEF RequestsInv, PipelinesInv, RetriedInv, DuplicateOnlyByRetry
<1> QED BY <1>1, <1>2, <1>3

LEMMA RequestsInvariant == Spec => []RequestsInv
BY RequestsInit, RequestsStep, PTL DEF Spec

\* Executions, pipelines, pages and requests have their types in every state.
THEOREM RequestsTypeCorrect == Spec => []TypeOK
BY RequestsInvariant, RequestsImply, PTL

\* A page shows the log of its command from its start, each line once and in
\* order, whatever answers of polls were lost, and all of it once it says that
\* the command has finished.
THEOREM PagesShowTheLog == Spec => []ShowsTheLog
BY RequestsInvariant, RequestsImply, PTL

\* Of two identical pipelines that run together the older was retried: no
\* trigger makes a duplicate.
THEOREM TriggerMakesNoDuplicate == Spec => []DuplicateOnlyByRetry
BY RequestsInvariant, RequestsImply, PTL
=============================================================================
