---------------------------- MODULE AuthSessions ----------------------------
(***************************************************************************)
(* The sessions of ONE account: password logins, refresh tokens that are   *)
(* rotated at every use, access tokens (JWT), and the operations that end  *)
(* them - logout of one session, and logout-all, block, unblock, password  *)
(* reset and deletion, which end them all.                                 *)
(*                                                                         *)
(* Several processes share the database.  Each keeps in memory the         *)
(* revocations it knows of; it learns those of the others when it starts   *)
(* and at every reload.  A handler is a sequence of steps, one per         *)
(* statement on the database or access to the memory of its process; what  *)
(* it reads from the clock between two steps lies between their clocks.    *)
(*                                                                         *)
(* A login or a refresh hands out a pair, one access and one refresh       *)
(* token, that is named here by one id; a family has the id of its first   *)
(* pair.  Hashes and signatures are not modelled: a request presents a     *)
(* token that a process has handed out.                                    *)
(***************************************************************************)
EXTENDS Integers, FiniteSets

CONSTANTS
  Processes, NoProcess, \* the processes on the database; none of them
  Requests,             \* goroutines that serve a request
  Tokens, NoToken,      \* ids of pairs; no pair
  JwtTTL, RefreshTTL,   \* lifetimes of the two tokens of a pair
  Retention, Keep,      \* UserRevocationRetention, RefreshTokenRevokedRetention
  Closings,             \* which of the operations on all sessions are used
  MaxClock, MaxBegun    \* bounds of the checked instance

ClosingKinds == {"logoutAll", "block", "unblock", "reset", "delete"}

ASSUME SessionAssumption ==
  /\ NoToken \notin Tokens /\ NoProcess \notin Processes
  /\ JwtTTL \in Nat \ {0} /\ RefreshTTL \in Nat \ {0}
  /\ Retention \in Nat /\ Keep \in Nat
  /\ JwtTTL <= Retention
  /\ Closings \subseteq ClosingKinds
  /\ MaxClock \in Nat /\ MaxBegun \in Nat

VARIABLES
  clock,                \* milliseconds, the same for every process
  account,              \* the row of users: is it open, and the password epoch
  tok, revokedAt,       \* per pair: what was issued; revoked_at of its row
  userRevocation, revokedTokens,  \* the tables of the revocations
  userRevoked, tokenRevoked,      \* per process: their copies in memory
  fetched,              \* per process: what a reload has read
  pc, job,              \* per request: its stage and its local variables
  said, heard,          \* history: the revocations that were stored, and those
                        \* that a process has made, has read or started after
  begun                 \* requests served so far

accountVars == <<account, tok, revokedAt>>
storeVars == <<userRevocation, revokedTokens, said>>
cacheVars == <<userRevoked, tokenRevoked, heard>>
requestVars == <<pc, job, begun>>
vars == <<clock, accountVars, storeVars, cacheVars, fetched, requestVars>>

Pair == [fam : Tokens \union {NoToken}, pv : Nat, iat : Nat, at : Nat]
NotIssued == [fam |-> NoToken, pv |-> 0, iat |-> 0, at |-> 0]
Issued(k) == tok[k].fam # NoToken

(* revoked_at is NULL in the row of an active token.                        *)
NoRow  == -1
Active == 0

Stages == {"idle", "insert", "user", "check", "rotate", "kill",
           "endFamily", "endToken", "saveToken",
           "mark", "rows", "save", "cache", "cacheOnly", "final"}
Kinds == {"none", "both", "jwt", "refresh"} \union ClosingKinds
Job == [on : Processes \union {NoProcess}, kind : Kinds, old : Tokens \union {NoToken},
        pv : Nat, since : Nat, now : Nat]
NoJob == [on |-> NoProcess, kind |-> "none", old |-> NoToken,
          pv |-> 0, since |-> 0, now |-> 0]
Revocations == [user : Nat, toks : SUBSET Tokens]
Nothing == [user |-> 0, toks |-> {}]
Idle == [at |-> "none", got |-> Nothing]

Later(a, b) == IF a >= b THEN a ELSE b
Between(r) == job[r].since .. clock

-----------------------------------------------------------------------------
(* What the handlers ask of a token.                                       *)

JwtExpired(k, now) == tok[k].iat + JwtTTL <= now
RefreshExpired(k, now) == tok[k].at + RefreshTTL <= now

IsRevoked(p, k) == k \in tokenRevoked[p] \/ tok[k].iat <= userRevoked[p]
IsUserRevoked(p, k) == tok[k].at <= userRevoked[p]

(* RequireJWT lets a request with this access token pass on process p.      *)
Accepts(p, k) ==
  /\ Issued(k) /\ ~JwtExpired(k, clock)
  /\ account.st = "open" /\ tok[k].pv = account.pv
  /\ ~IsRevoked(p, k)

(* Refresh lets this refresh token pass on process p.                       *)
Renews(p, k) ==
  /\ Issued(k) /\ revokedAt[k] = Active /\ ~RefreshExpired(k, clock)
  /\ account.st = "open" /\ tok[k].pv = account.pv
  /\ ~IsUserRevoked(p, k)

-----------------------------------------------------------------------------
Init ==
  /\ clock = 1 /\ account = [st |-> "open", pv |-> 1]
  /\ tok = [k \in Tokens |-> NotIssued] /\ revokedAt = [k \in Tokens |-> NoRow]
  /\ userRevocation = 0 /\ revokedTokens = {} /\ said = Nothing
  /\ userRevoked = [p \in Processes |-> 0] /\ tokenRevoked = [p \in Processes |-> {}]
  /\ heard = [p \in Processes |-> Nothing]
  /\ fetched = [p \in Processes |-> Idle]
  /\ pc = [r \in Requests |-> "idle"] /\ job = [r \in Requests |-> NoJob] /\ begun = 0

Tick ==
  /\ clock < MaxClock /\ clock' = clock + 1
  /\ UNCHANGED <<accountVars, storeVars, cacheVars, fetched, requestVars>>

(* The request goes on to a stage, or its handler returns.                  *)
Set(r, stage, j) == pc' = [pc EXCEPT ![r] = stage] /\ job' = [job EXCEPT ![r] = j]
Goto(r, stage, j) == Set(r, stage, j) /\ UNCHANGED begun
Return(r) == Goto(r, "idle", NoJob)
Begin(r, stage, j) ==
  /\ pc[r] = "idle" /\ begun < MaxBegun /\ begun' = begun + 1
  /\ Set(r, stage, j)

(* A statement fails, or the client goes: the handler returns an error.     *)
Fail(r) ==
  /\ pc[r] \notin {"idle", "save", "cache", "cacheOnly", "endToken"}
  /\ Return(r)
  /\ UNCHANGED <<clock, accountVars, storeVars, cacheVars, fetched>>

-----------------------------------------------------------------------------
(* AuthHandler.Login                                                       *)

(* GetByUsername finds the account; the password is right, it is not blocked. *)
Login(r, p) ==
  /\ account.st = "open"
  /\ Begin(r, "insert", [NoJob EXCEPT !.on = p, !.pv = account.pv, !.since = clock])
  /\ UNCHANGED <<clock, accountVars, storeVars, cacheVars, fetched>>

(* createRefreshToken; GenerateToken has read its clock before.             *)
Insert(r, k, iat, at) ==
  /\ pc[r] = "insert" /\ ~Issued(k) /\ account.st # "deleted"
  /\ iat \in Between(r) /\ at \in Between(r) /\ iat <= at
  /\ tok' = [tok EXCEPT ![k] = [fam |-> k, pv |-> job[r].pv, iat |-> iat, at |-> at]]
  /\ revokedAt' = [revokedAt EXCEPT ![k] = Active]
  /\ Return(r)
  /\ UNCHANGED <<clock, account, storeVars, cacheVars, fetched>>

-----------------------------------------------------------------------------
(* AuthHandler.Refresh                                                     *)

GetByHash(r, p, k) ==
  /\ revokedAt[k] # NoRow
  /\ Begin(r, IF revokedAt[k] = Active THEN "user" ELSE "kill",
           [NoJob EXCEPT !.on = p, !.old = k, !.since = clock])
  /\ UNCHANGED <<clock, accountVars, storeVars, cacheVars, fetched>>

(* The clock is read, then the account.                                     *)
GetByID(r, now) ==
  /\ pc[r] = "user" /\ now \in Between(r)
  /\ Goto(r, IF RefreshExpired(job[r].old, now) \/ account.st # "open" THEN "kill" ELSE "check",
          [job[r] EXCEPT !.pv = account.pv, !.since = 0, !.now = now])
  /\ UNCHANGED <<clock, accountVars, storeVars, cacheVars, fetched>>

(* Mutant: the epoch of the token is not compared with the account's.       *)
StillGoodAnyEpoch(r) == ~IsUserRevoked(job[r].on, job[r].old)
StillGood(r) == ~IsUserRevoked(job[r].on, job[r].old) /\ tok[job[r].old].pv = job[r].pv

Check(r) ==
  /\ pc[r] = "check"
  /\ Goto(r, IF StillGood(r) THEN "rotate" ELSE "kill", [job[r] EXCEPT !.since = clock])
  /\ UNCHANGED <<clock, accountVars, storeVars, cacheVars, fetched>>

(* Mutant: the UPDATE of Rotate does not ask whether the row is active.     *)
RotatableIfThere(r) == revokedAt[job[r].old] # NoRow
Rotatable(r) ==
  revokedAt[job[r].old] = Active /\ ~RefreshExpired(job[r].old, job[r].now)

(* Rotate: the old row is revoked and the new one inserted, or neither.     *)
Rotate(r, k, iat) ==
  LET old == job[r].old
      now == job[r].now
  IN /\ pc[r] = "rotate" /\ Rotatable(r)
     /\ ~Issued(k) /\ iat \in Between(r)
     /\ tok' = [tok EXCEPT ![k] = [fam |-> tok[old].fam, pv |-> job[r].pv, iat |-> iat, at |-> now]]
     /\ revokedAt' = [revokedAt EXCEPT ![old] = now, ![k] = Active]
     /\ Return(r)
     /\ UNCHANGED <<clock, account, storeVars, cacheVars, fetched>>

RotateFails(r) ==
  /\ pc[r] = "rotate" /\ ~Rotatable(r)
  /\ Goto(r, "kill", job[r])
  /\ UNCHANGED <<clock, accountVars, storeVars, cacheVars, fetched>>

(* revoked_at is the clock of the statement: it only decides when the row   *)
(* is swept.                                                               *)
Revoked(S) ==
  [k \in Tokens |-> IF k \in S /\ revokedAt[k] = Active THEN clock ELSE revokedAt[k]]
Family(k) == {q \in Tokens : Issued(q) /\ tok[q].fam = tok[k].fam}

(* RevokeFamily, before the answer that refuses the token.                  *)
Kill(r) ==
  /\ pc[r] = "kill"
  /\ revokedAt' = Revoked(Family(job[r].old))
  /\ Return(r)
  /\ UNCHANGED <<clock, account, tok, storeVars, cacheVars, fetched>>

-----------------------------------------------------------------------------
(* AuthHandler.Logout, with either token of a pair or with both.           *)

Logout(r, p, k, kind) ==
  /\ Issued(k)
  /\ kind # "refresh" => ~JwtExpired(k, clock)
  /\ kind # "jwt" => revokedAt[k] # NoRow
  /\ Begin(r, IF kind = "jwt" THEN "endToken" ELSE "endFamily",
           [NoJob EXCEPT !.on = p, !.kind = kind, !.old = k])
  /\ UNCHANGED <<clock, accountVars, storeVars, cacheVars, fetched>>

EndFamily(r) ==
  /\ pc[r] = "endFamily"
  /\ revokedAt' = Revoked(Family(job[r].old))
  /\ IF job[r].kind = "both" THEN Goto(r, "endToken", job[r]) ELSE Return(r)
  /\ UNCHANGED <<clock, account, tok, storeVars, cacheVars, fetched>>

(* RevokeToken: first in memory, then in the table.                         *)
EndToken(r) ==
  LET p == job[r].on
      k == job[r].old
  IN /\ pc[r] = "endToken"
     /\ tokenRevoked' = [tokenRevoked EXCEPT ![p] = @ \union {k}]
     /\ heard' = [heard EXCEPT ![p].toks = @ \union {k}]
     /\ Goto(r, "saveToken", job[r])
     /\ UNCHANGED <<clock, accountVars, storeVars, userRevoked, fetched>>

SaveToken(r) ==
  /\ pc[r] = "saveToken"
  /\ revokedTokens' = revokedTokens \union {job[r].old}
  /\ said' = [said EXCEPT !.toks = @ \union {job[r].old}]
  /\ Return(r)
  /\ UNCHANGED <<clock, accountVars, userRevocation, cacheVars, fetched>>

-----------------------------------------------------------------------------
(* The end of all sessions: AuthHandler.LogoutAll; AdminHandler.            *)
(* SetUserBlocked, ResetPassword and DeleteUser.                            *)

Close(r, p, kind) ==
  /\ kind \in {"reset", "delete"} => account.st # "deleted"
  /\ kind = "logoutAll" => \E k \in Tokens : Accepts(p, k)
  /\ Begin(r, IF kind = "block" THEN "mark" ELSE "rows",
           [NoJob EXCEPT !.on = p, !.kind = kind])
  /\ UNCHANGED <<clock, accountVars, storeVars, cacheVars, fetched>>

(* SetBlocked(true); not when the account is gone.                          *)
Mark(r) ==
  /\ pc[r] = "mark" /\ account.st # "deleted"
  /\ account' = [account EXCEPT !.st = "blocked"]
  /\ Goto(r, "rows", job[r])
  /\ UNCHANGED <<clock, tok, revokedAt, storeVars, cacheVars, fetched>>

(* RevokeAllForUser                                                         *)
RevokeRows(r) ==
  /\ pc[r] = "rows"
  /\ revokedAt' = Revoked(Tokens)
  /\ Goto(r, "save", [job[r] EXCEPT !.since = clock])
  /\ UNCHANGED <<clock, account, tok, storeVars, cacheVars, fetched>>

(* RevokeUser: the clock, then the table, and the memory in any case.       *)
Save(r, now) ==
  /\ pc[r] = "save" /\ now \in Between(r)
  /\ userRevocation' = Later(userRevocation, now)
  /\ said' = [said EXCEPT !.user = Later(@, now)]
  /\ Goto(r, "cache", [job[r] EXCEPT !.since = 0, !.now = now])
  /\ UNCHANGED <<clock, accountVars, revokedTokens, cacheVars, fetched>>

SaveFails(r, now) ==
  /\ pc[r] = "save" /\ now \in Between(r)
  /\ Goto(r, "cacheOnly", [job[r] EXCEPT !.since = 0, !.now = now])
  /\ UNCHANGED <<clock, accountVars, storeVars, cacheVars, fetched>>

Cache(r) ==
  LET p == job[r].on
  IN /\ pc[r] \in {"cache", "cacheOnly"}
     /\ userRevoked' = [userRevoked EXCEPT ![p] = Later(@, job[r].now)]
     /\ heard' = [heard EXCEPT ![p].user = Later(@, job[r].now)]
     /\ IF pc[r] = "cache" /\ job[r].kind \in {"unblock", "reset", "delete"}
        THEN Goto(r, "final", job[r]) ELSE Return(r)
     /\ UNCHANGED <<clock, accountVars, storeVars, tokenRevoked, fetched>>

(* SetBlocked(false), UpdatePassword or Delete, whose foreign keys take the *)
(* rows of the tokens with the account.                                     *)
Final(r) ==
  /\ pc[r] = "final" /\ account.st # "deleted"
  /\ \/ /\ job[r].kind = "unblock" /\ account' = [account EXCEPT !.st = "open"]
        /\ UNCHANGED revokedAt
     \/ /\ job[r].kind = "reset" /\ account' = [account EXCEPT !.pv = @ + 1]
        /\ UNCHANGED revokedAt
     \/ /\ job[r].kind = "delete" /\ account' = [account EXCEPT !.st = "deleted"]
        /\ revokedAt' = [k \in Tokens |-> NoRow]
  /\ Return(r)
  /\ UNCHANGED <<clock, tok, storeVars, cacheVars, fetched>>

-----------------------------------------------------------------------------
(* The memory of the processes: TokenManager.                              *)

(* Mutant: a row without a jti is loaded too.                               *)
StoredWithEmpty == [user |-> userRevocation, toks |-> revokedTokens \union {NoToken}]
(* LoadActive                                                               *)
Stored == [user |-> userRevocation, toks |-> {k \in revokedTokens : ~JwtExpired(k, clock)}]

(* ReloadRevocations: one SELECT for each of the tables, then the merge,    *)
(* under the lock.  If the second fails, nothing is merged.                 *)
FetchUsers(p) ==
  /\ fetched[p].at = "none"
  /\ fetched' = [fetched EXCEPT ![p] =
       [at |-> "users", got |-> [user |-> Stored.user, toks |-> {}]]]
  /\ UNCHANGED <<clock, accountVars, storeVars, cacheVars, requestVars>>

FetchTokens(p) ==
  /\ fetched[p].at = "users"
  /\ \/ fetched' = [fetched EXCEPT ![p] =
            [at |-> "tokens", got |-> [user |-> @.got.user, toks |-> Stored.toks]]]
     \/ fetched' = [fetched EXCEPT ![p] = Idle]
  /\ UNCHANGED <<clock, accountVars, storeVars, cacheVars, requestVars>>

(* Mutant: what was read replaces what is in memory.                        *)
MergedByRead(old, new) == new
Merged(old, new) ==
  [user |-> Later(old.user, new.user), toks |-> old.toks \union new.toks]

Merge(p) ==
  LET new == Merged([user |-> userRevoked[p], toks |-> tokenRevoked[p]], fetched[p].got)
  IN /\ fetched[p].at = "tokens"
     /\ userRevoked' = [userRevoked EXCEPT ![p] = new.user]
     /\ tokenRevoked' = [tokenRevoked EXCEPT ![p] = new.toks]
     /\ heard' = [heard EXCEPT ![p] =
          [user |-> Later(@.user, fetched[p].got.user), toks |-> @.toks \union fetched[p].got.toks]]
     /\ fetched' = [fetched EXCEPT ![p] = Idle]
     /\ UNCHANGED <<clock, accountVars, storeVars, requestVars>>

(* The process stops at any point, and starts again with AttachStore.       *)
Restart(p) ==
  /\ userRevoked' = [userRevoked EXCEPT ![p] = Stored.user]
  /\ tokenRevoked' = [tokenRevoked EXCEPT ![p] = Stored.toks]
  /\ heard' = [heard EXCEPT ![p] = said]
  /\ fetched' = [fetched EXCEPT ![p] = Idle]
  /\ pc' = [r \in Requests |-> IF job[r].on = p THEN "idle" ELSE pc[r]]
  /\ job' = [r \in Requests |-> IF job[r].on = p THEN NoJob ELSE job[r]]
  /\ UNCHANGED <<clock, accountVars, storeVars, begun>>

-----------------------------------------------------------------------------
(* The sweep of expired tokens: one action per statement (a statement that  *)
(* uses a clock it has read earlier deletes less).                         *)

(* Mutant: a revocation of the user goes with the revoked refresh tokens.   *)
OldRevocationByKeep(at) == at < clock - Keep
OldRevocation(at) == at < clock - Retention

(* TokenManager.PurgeExpired: the memory of the process, then the tables.   *)
PurgeCache(p) ==
  /\ tokenRevoked' = [tokenRevoked EXCEPT ![p] = {k \in @ : ~JwtExpired(k, clock)}]
  /\ userRevoked' = [userRevoked EXCEPT ![p] = IF OldRevocation(@) THEN 0 ELSE @]
  /\ UNCHANGED <<clock, accountVars, storeVars, heard, fetched, requestVars>>

PurgeTokens ==
  /\ revokedTokens' = {k \in revokedTokens : ~JwtExpired(k, clock)}
  /\ UNCHANGED <<clock, accountVars, userRevocation, said, cacheVars, fetched, requestVars>>
PurgeUsers ==
  /\ userRevocation' = IF OldRevocation(userRevocation) THEN 0 ELSE userRevocation
  /\ UNCHANGED <<clock, accountVars, revokedTokens, said, cacheVars, fetched, requestVars>>

(* PurgeExpired and PurgeRevoked of the refresh tokens.                     *)
PurgeRows(S) ==
  /\ revokedAt' = [k \in Tokens |-> IF k \in S THEN NoRow ELSE revokedAt[k]]
  /\ UNCHANGED <<clock, account, tok, storeVars, cacheVars, fetched, requestVars>>
PurgeExpired == PurgeRows({k \in Tokens : RefreshExpired(k, clock)})
PurgeRevoked == PurgeRows({k \in Tokens : revokedAt[k] # Active /\ revokedAt[k] < clock - Keep})

-----------------------------------------------------------------------------
Arrive(r, p) ==
  \/ Login(r, p)
  \/ \E k \in Tokens : GetByHash(r, p, k)
  \/ \E k \in Tokens, kind \in {"both", "jwt", "refresh"} : Logout(r, p, k, kind)
  \/ \E kind \in Closings : Close(r, p, kind)

Continue(r) ==
  \/ Fail(r)
  \/ \E k \in Tokens, iat, at \in 1..clock : Insert(r, k, iat, at)
  \/ \E now \in 1..clock : GetByID(r, now)
  \/ Check(r)
  \/ \E k \in Tokens, iat \in 1..clock : Rotate(r, k, iat)
  \/ RotateFails(r)
  \/ Kill(r) \/ EndFamily(r) \/ RevokeRows(r)
  \/ EndToken(r)
  \/ SaveToken(r)
  \/ Mark(r)
  \/ \E now \in 1..clock : Save(r, now) \/ SaveFails(r, now)
  \/ Cache(r)
  \/ Final(r)

Sweep ==
  \/ \E p \in Processes : PurgeCache(p)
  \/ PurgeTokens \/ PurgeUsers
  \/ PurgeExpired \/ PurgeRevoked

Next ==
  \/ Tick
  \/ \E r \in Requests, p \in Processes : Arrive(r, p)
  \/ \E r \in Requests : Continue(r)
  \/ \E p \in Processes : FetchUsers(p) \/ FetchTokens(p) \/ Merge(p) \/ Restart(p)
  \/ Sweep

Spec == Init /\ [][Next]_vars

-----------------------------------------------------------------------------
(* Type correctness: rows, caches and the stage of every request.          *)
TypeOK ==
  /\ clock \in Nat
  /\ account \in [st : {"open", "blocked", "deleted"}, pv : Nat]
  /\ tok \in [Tokens -> Pair] /\ revokedAt \in [Tokens -> Nat \union {NoRow}]
  /\ userRevocation \in Nat /\ revokedTokens \in SUBSET Tokens /\ said \in Revocations
  /\ userRevoked \in [Processes -> Nat] /\ tokenRevoked \in [Processes -> SUBSET Tokens]
  /\ heard \in [Processes -> Revocations]
  /\ fetched \in [Processes -> [at : {"none", "users", "tokens"}, got : Revocations]]
  /\ pc \in [Requests -> Stages] /\ job \in [Requests -> Job]
  /\ begun \in Nat

(* Rotate ("la barriera contro due refresh concorrenti"): a family never    *)
(* has two refresh tokens that can be used.                                 *)
OneActivePerFamily ==
  \A j, k \in Tokens :
    Issued(j) /\ k \in Family(j) /\ revokedAt[j] = Active /\ revokedAt[k] = Active => j = k

(* RevokeFamily, Rotate: a family that has been revoked - by a logout, by   *)
(* the reuse of a token or with all sessions - never has a usable token     *)
(* again, whatever refresh was under way.                                   *)
DeadFamiliesStayDead ==
  [][\A f \in Tokens :
       Issued(f) /\ (\A k \in Family(f) : revokedAt[k] # Active)
         => \A k \in Family(f)' : revokedAt'[k] # Active]_vars

(* Refresh ("Epoch della password"), RequireJWT: no token passes whose      *)
(* session began with a login that had verified an earlier password.        *)
OnlyCurrentPassword ==
  \A p \in Processes, k \in Tokens :
    Accepts(p, k) \/ Renews(p, k) => tok[tok[k].fam].pv = account.pv

(* RevokeUser, UserRevocationRetention: no access token that was issued     *)
(* before the sessions were closed passes on a process that has closed them *)
(* or has read of it, whatever reload, sweep or restart came in between.    *)
ClosedSessionsStayClosed ==
  \A p \in Processes, k \in Tokens : tok[k].iat <= heard[p].user => ~Accepts(p, k)

(* RevokeToken: an access token that was logged out does not pass again.    *)
LoggedOutStaysOut ==
  \A p \in Processes : \A k \in heard[p].toks : ~Accepts(p, k)

(* Why: what a request remembers of a token it has looked up, a family has   *)
(* the epoch of its first pair, and a process has every revocation it has   *)
(* heard of, except those that no access token can need any more.           *)
RequestInv ==
  \A r \in Requests :
    /\ pc[r] # "idle" => job[r].on \in Processes
    /\ pc[r] \in {"user", "check", "rotate", "kill", "endFamily", "endToken", "saveToken"}
         => job[r].old \in Tokens /\ Issued(job[r].old)
    /\ pc[r] \in {"check", "rotate"} => job[r].now > 0
    /\ pc[r] = "rotate" => tok[job[r].old].pv = job[r].pv
FamilyInv ==
  \A k \in Tokens :
    IF Issued(k) THEN /\ Issued(tok[k].fam) /\ tok[tok[k].fam].fam = tok[k].fam
                      /\ tok[tok[k].fam].pv = tok[k].pv
    ELSE revokedAt[k] = NoRow
KeepsUser(user, h) == user >= h \/ h + Retention < clock
KeepsTokens(toks, h) == \A k \in h : Issued(k) /\ (k \in toks \/ JwtExpired(k, clock))
CacheInv ==
  /\ KeepsUser(userRevocation, said.user) /\ KeepsTokens(revokedTokens, said.toks)
  /\ \A p \in Processes :
       /\ KeepsUser(userRevoked[p], heard[p].user) /\ KeepsTokens(tokenRevoked[p], heard[p].toks)
       /\ \A k \in fetched[p].got.toks : Issued(k)
  /\ \A k \in revokedTokens : Issued(k)

SessionInv == clock > 0 /\ RequestInv /\ FamilyInv /\ OneActivePerFamily /\ CacheInv

(* RevocationRepo.PurgeExpired ("ogni token emesso prima di allora e'       *)
(* comunque scaduto"): the same of a refresh token.                         *)
ClosedRefreshesStayClosed ==
  \A p \in Processes, k \in Tokens : tok[k].at <= heard[p].user => ~Renews(p, k)

(* What PurgeExpired leaves of it, however long the refresh tokens live:    *)
(* one that was issued before the sessions were closed does not pass before *)
(* the revocation has reached its full age, whatever login or refresh it    *)
(* came from and whatever reload, sweep or restart came in between.         *)
ClosedRefreshesWait ==
  \A p \in Processes, k \in Tokens :
    tok[k].at <= heard[p].user /\ Renews(p, k) => clock > heard[p].user + Retention

(* AuthHandler.Login, Refresh: whatever requests of whatever processes      *)
(* race, and wherever they fail, a session is a chain of refresh tokens.    *)
Live(f) == {k \in Tokens : Issued(k) /\ tok[k].fam = f /\ revokedAt[k] = Active}
Families == INSTANCE SessionFamilies WITH
  live <- [f \in Tokens |-> Live(f)], used <- {k \in Tokens : Issued(k)}
FamiliesSpec == Families!Spec
=============================================================================
