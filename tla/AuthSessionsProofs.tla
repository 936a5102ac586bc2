------------------------- MODULE AuthSessionsProofs --------------------------
(***************************************************************************)
(* Theorems about AuthSessions, for every set of processes, requests and   *)
(* tokens and for all lifetimes that loadConfig accepts.                   *)
(***************************************************************************)
EXTENDS AuthSessions, TLAPS

USE SessionAssumption

-----------------------------------------------------------------------------
(* Types.                                                                  *)

LEMMA SetType ==
  ASSUME TypeOK, NEW r \in Requests, NEW stage \in Stages, NEW j \in Job, Set(r, stage, j)
  PROVE  pc' \in [Requests -> Stages] /\ job' \in [Requests -> Job]
  BY DEF TypeOK, Set

LEMMA NoJobType == NoJob \in Job /\ "idle" \in Stages
  BY DEF NoJob, Job, Kinds, Stages

LEMMA TypeInit == Init => TypeOK
  BY NoJobType DEF Init, TypeOK, Pair, NotIssued, NoRow, Nothing, Revocations, Idle

(* The steps on the data that no request takes.                             *)
LEMMA TypeSweep ==
  ASSUME TypeOK, UNCHANGED vars \/ Tick \/ Sweep
  PROVE  TypeOK'
  <1> USE DEF TypeOK
  <1>1. CASE UNCHANGED vars \/ Tick
    BY <1>1 DEF vars, Tick, accountVars, storeVars, cacheVars, requestVars
  <1>2. CASE \E q \in Processes : PurgeCache(q)
    BY <1>2 DEF PurgeCache, accountVars, storeVars, requestVars
  <1>3. CASE PurgeTokens
    BY <1>3 DEF PurgeTokens, accountVars, cacheVars, requestVars
  <1>4. CASE PurgeUsers
    BY <1>4 DEF PurgeUsers, accountVars, cacheVars, requestVars
  <1>5. CASE PurgeExpired \/ PurgeRevoked
    BY <1>5 DEF PurgeExpired, PurgeRevoked, PurgeRows, storeVars, cacheVars, requestVars
  <1> QED BY <1>1, <1>2, <1>3, <1>4, <1>5 DEF Sweep

LEMMA TypeCaches ==
  ASSUME TypeOK, NEW p \in Processes,
         FetchUsers(p) \/ FetchTokens(p) \/ Merge(p) \/ Restart(p)
  PROVE  TypeOK'
  <1> USE DEF TypeOK
  <1>1. Stored \in Revocations
    BY DEF Stored, Revocations
  <1>2. Idle \in [at : {"none", "users", "tokens"}, got : Revocations] /\ fetched[p].got \in Revocations
    BY DEF Idle, Nothing, Revocations
  <1>3. CASE FetchUsers(p) \/ FetchTokens(p)
    <2>1. /\ [user |-> Stored.user, toks |-> {}] \in Revocations
          /\ [user |-> fetched[p].got.user, toks |-> Stored.toks] \in Revocations
      BY <1>1, <1>2 DEF Revocations
    <2>2. fetched' \in [Processes -> [at : {"none", "users", "tokens"}, got : Revocations]]
      <3>1. PICK f \in [at : {"none", "users", "tokens"}, got : Revocations] :
                fetched' = [fetched EXCEPT ![p] = f]
        <4>1. \A at \in {"users", "tokens"}, got \in Revocations :
                [at |-> at, got |-> got] \in [at : {"none", "users", "tokens"}, got : Revocations]
          OBVIOUS
        <4>2. CASE FetchUsers(p)
          BY <2>1, <4>1, <4>2 DEF FetchUsers
        <4>3. CASE FetchTokens(p)
          BY <1>2, <2>1, <4>1, <4>3 DEF FetchTokens
        <4> QED BY <1>3, <4>2, <4>3
      <3> QED BY <3>1
    <2> QED BY <1>3, <2>2
            DEF FetchUsers, FetchTokens, accountVars, storeVars, cacheVars, requestVars
  <1>4. CASE Merge(p)
    <2>1. /\ userRevoked' \in [Processes -> Nat] /\ tokenRevoked' \in [Processes -> SUBSET Tokens]
      BY <1>2, <1>4 DEF Merge, Merged, Later, Revocations
    <2>2. heard' \in [Processes -> Revocations]
      BY <1>2, <1>4 DEF Merge, Later, Revocations
    <2>3. fetched' \in [Processes -> [at : {"none", "users", "tokens"}, got : Revocations]]
      BY <1>2, <1>4 DEF Merge
    <2> QED BY <1>4, <2>1, <2>2, <2>3 DEF Merge, accountVars, storeVars, requestVars
  <1>5. CASE Restart(p)
    <2>1. /\ userRevoked' \in [Processes -> Nat] /\ tokenRevoked' \in [Processes -> SUBSET Tokens]
      BY <1>1, <1>5 DEF Restart, Revocations
    <2>2. heard' \in [Processes -> Revocations]
      BY <1>5 DEF Restart
    <2>3. fetched' \in [Processes -> [at : {"none", "users", "tokens"}, got : Revocations]]
      BY <1>2, <1>5 DEF Restart
    <2>4. pc' \in [Requests -> Stages] /\ job' \in [Requests -> Job]
      BY <1>5, NoJobType DEF Restart
    <2> QED BY <1>5, <2>1, <2>2, <2>3, <2>4 DEF Restart, accountVars, storeVars
  <1> QED BY <1>3, <1>4, <1>5

LEMMA TypeArrive ==
  ASSUME TypeOK, NEW r \in Requests, NEW p \in Processes, Arrive(r, p)
  PROVE  TypeOK'
  <1> USE DEF TypeOK
  <1>1. \A stage \in Stages, j \in Job :
          Begin(r, stage, j) => /\ pc' \in [Requests -> Stages] /\ job' \in [Requests -> Job]
                                /\ begun' \in Nat
    BY SetType DEF Begin
  <1>2. CASE Login(r, p)
    <2>1. [NoJob EXCEPT !.on = p, !.pv = account.pv, !.since = clock] \in Job
      BY DEF NoJob, Job, Kinds
    <2>2. "insert" \in Stages
      BY DEF Stages
    <2> QED BY <1>1, <1>2, <2>1, <2>2 DEF Login, accountVars, storeVars, cacheVars
  <1>3. ASSUME NEW k \in Tokens, GetByHash(r, p, k) PROVE TypeOK'
    <2>1. [NoJob EXCEPT !.on = p, !.old = k, !.since = clock] \in Job
      BY DEF NoJob, Job, Kinds
    <2>2. "user" \in Stages /\ "kill" \in Stages
      BY DEF Stages
    <2> QED BY <1>1, <1>3, <2>1, <2>2 DEF GetByHash, accountVars, storeVars, cacheVars
  <1>4. ASSUME NEW k \in Tokens, NEW kind \in {"both", "jwt", "refresh"}, Logout(r, p, k, kind)
        PROVE  TypeOK'
    <2>1. [NoJob EXCEPT !.on = p, !.kind = kind, !.old = k] \in Job
      BY DEF NoJob, Job, Kinds
    <2>2. "endToken" \in Stages /\ "endFamily" \in Stages
      BY DEF Stages
    <2> QED BY <1>1, <1>4, <2>1, <2>2 DEF Logout, accountVars, storeVars, cacheVars
  <1>5. ASSUME NEW kind \in Closings, Close(r, p, kind) PROVE TypeOK'
    <2>1. [NoJob EXCEPT !.on = p, !.kind = kind] \in Job
      BY DEF NoJob, Job, Kinds
    <2>2. "mark" \in Stages /\ "rows" \in Stages
      BY DEF Stages
    <2> QED BY <1>1, <1>5, <2>1, <2>2 DEF Close, accountVars, storeVars, cacheVars
  <1> QED BY <1>2, <1>3, <1>4, <1>5 DEF Arrive

LEMMA TypeContinue ==
  ASSUME TypeOK, RequestInv, NEW r \in Requests, Continue(r)
  PROVE  TypeOK'
  <1> USE DEF TypeOK
  <1>1. \A stage \in Stages, j \in Job :
          Goto(r, stage, j) => /\ pc' \in [Requests -> Stages] /\ job' \in [Requests -> Job]
                               /\ begun' \in Nat
    BY SetType DEF Goto
  <1>2. Return(r) => /\ pc' \in [Requests -> Stages] /\ job' \in [Requests -> Job]
                     /\ begun' \in Nat
    BY <1>1, NoJobType DEF Return
  <1>3. /\ job[r] \in Job /\ clock \in Nat /\ job[r].now \in Nat
        /\ job[r].pv \in Nat /\ job[r].since \in Nat
    BY DEF Job
  <1>4. \A pv, since, now \in Nat :
          /\ [job[r] EXCEPT !.pv = pv, !.since = since, !.now = now] \in Job
          /\ [job[r] EXCEPT !.since = since] \in Job
          /\ [job[r] EXCEPT !.since = since, !.now = now] \in Job
    BY <1>3 DEF Job
  <1>5. CASE Fail(r)
    BY <1>2, <1>5 DEF Fail, accountVars, storeVars, cacheVars
  <1>6. ASSUME NEW k \in Tokens, NEW iat \in 1..clock, NEW at \in 1..clock, Insert(r, k, iat, at)
        PROVE  TypeOK'
    <2>1. [fam |-> k, pv |-> job[r].pv, iat |-> iat, at |-> at] \in Pair
      BY <1>3 DEF Pair
    <2> QED BY <1>2, <1>6, <2>1 DEF Insert, Active, storeVars, cacheVars
  <1>7. ASSUME NEW now \in 1..clock, GetByID(r, now) PROVE TypeOK'
    <2>1. "kill" \in Stages /\ "check" \in Stages
      BY DEF Stages
    <2>2. now \in Nat /\ account.pv \in Nat /\ 0 \in Nat
      OBVIOUS
    <2>3. [job[r] EXCEPT !.pv = account.pv, !.since = 0, !.now = now] \in Job
      BY <1>4, <2>2
    <2> QED BY <1>1, <1>7, <2>1, <2>3 DEF GetByID, accountVars, storeVars, cacheVars
  <1>8. CASE Check(r)
    <2>1. "kill" \in Stages /\ "rotate" \in Stages
      BY DEF Stages
    <2> QED BY <1>1, <1>3, <1>4, <1>8, <2>1 DEF Check, accountVars, storeVars, cacheVars
  <1>9. ASSUME NEW k \in Tokens, NEW iat \in 1..clock, Rotate(r, k, iat) PROVE TypeOK'
    <2>1. tok[job[r].old].fam \in Tokens \union {NoToken}
      BY <1>9 DEF Rotate, RequestInv, Pair
    <2>2. tok' \in [Tokens -> Pair]
      BY <1>3, <1>9, <2>1 DEF Rotate, Pair
    <2>3. revokedAt' \in [Tokens -> Nat \union {NoRow}]
      BY <1>3, <1>9 DEF Rotate, Active
    <2> QED BY <1>2, <1>9, <2>2, <2>3 DEF Rotate, storeVars, cacheVars
  <1>10. CASE RotateFails(r)
    <2>1. "kill" \in Stages
      BY DEF Stages
    <2> QED BY <1>1, <1>3, <1>10, <2>1 DEF RotateFails, accountVars, storeVars, cacheVars
  <1>11. \A S : Revoked(S) \in [Tokens -> Nat \union {NoRow}]
    BY DEF Revoked
  <1>12. CASE Kill(r)
    BY <1>2, <1>11, <1>12 DEF Kill, storeVars, cacheVars
  <1>13. CASE EndFamily(r)
    <2>1. "endToken" \in Stages
      BY DEF Stages
    <2> QED BY <1>1, <1>2, <1>3, <1>11, <1>13, <2>1 DEF EndFamily, storeVars, cacheVars
  <1>14. CASE RevokeRows(r)
    <2>1. "save" \in Stages
      BY DEF Stages
    <2> QED BY <1>1, <1>3, <1>4, <1>11, <1>14, <2>1 DEF RevokeRows, storeVars, cacheVars
  <1>15. CASE EndToken(r)
    <2>1. "saveToken" \in Stages
      BY DEF Stages
    <2>2. job[r].on \in Processes /\ job[r].old \in Tokens
      BY <1>15 DEF EndToken, RequestInv
    <2>3. tokenRevoked' \in [Processes -> SUBSET Tokens]
      BY <1>15, <2>2 DEF EndToken
    <2>4. heard' \in [Processes -> Revocations]
      BY <1>15, <2>2 DEF EndToken, Revocations
    <2> QED BY <1>1, <1>3, <1>15, <2>1, <2>3, <2>4 DEF EndToken, accountVars, storeVars
  <1>16. CASE SaveToken(r)
    <2>1. job[r].old \in Tokens
      BY <1>16 DEF SaveToken, RequestInv
    <2>2. revokedTokens' \in SUBSET Tokens /\ said' \in Revocations
      BY <1>16, <2>1 DEF SaveToken, Revocations
    <2> QED BY <1>2, <1>16, <2>2 DEF SaveToken, accountVars, cacheVars
  <1>17. CASE Mark(r)
    <2>1. "rows" \in Stages
      BY DEF Stages
    <2> QED BY <1>1, <1>3, <1>17, <2>1 DEF Mark, storeVars, cacheVars
  <1>18. ASSUME NEW now \in 1..clock, Save(r, now) \/ SaveFails(r, now) PROVE TypeOK'
    <2>1. "cache" \in Stages /\ "cacheOnly" \in Stages /\ now \in Nat
      BY DEF Stages
    <2>2. CASE Save(r, now)
      <3>1. userRevocation' \in Nat /\ said' \in Revocations
        BY <2>1, <2>2 DEF Save, Later, Revocations
      <3> QED BY <1>1, <1>4, <2>1, <2>2, <3>1 DEF Save, accountVars, cacheVars
    <2>3. CASE SaveFails(r, now)
      BY <1>1, <1>4, <2>1, <2>3 DEF SaveFails, accountVars, storeVars, cacheVars
    <2> QED BY <1>18, <2>2, <2>3
  <1>19. CASE Cache(r)
    <2>1. "final" \in Stages
      BY DEF Stages
    <2>2. userRevoked' \in [Processes -> Nat] /\ heard' \in [Processes -> Revocations]
      BY <1>3, <1>19 DEF Cache, Later, Revocations
    <2>3. pc' \in [Requests -> Stages] /\ job' \in [Requests -> Job] /\ begun' \in Nat
      BY <1>1, <1>2, <1>3, <1>19, <2>1 DEF Cache
    <2> QED BY <1>19, <2>2, <2>3 DEF Cache, accountVars, storeVars
  <1>20. CASE Final(r)
    BY <1>2, <1>20 DEF Final, storeVars, cacheVars
  <1> QED BY <1>5, <1>6, <1>7, <1>8, <1>9, <1>10, <1>12, <1>13, <1>14, <1>15, <1>16, <1>17,
             <1>18, <1>19, <1>20 DEF Continue

-----------------------------------------------------------------------------
(* The rows: a step ends tokens, or a login or a refresh issues one.       *)

Ending ==
  /\ tok' = tok
  /\ \A k \in Tokens : revokedAt'[k] # revokedAt[k]
       => revokedAt'[k] # Active /\ (revokedAt'[k] = NoRow \/ Issued(k))
Issuing(r) ==
  \/ \E k \in Tokens, iat, at \in 1..clock : Insert(r, k, iat, at)
  \/ \E k \in Tokens, iat \in 1..clock : Rotate(r, k, iat)

LEMMA RevokedRows ==
  ASSUME TypeOK, FamilyInv, clock > 0, NEW S, revokedAt' = Revoked(S), tok' = tok
  PROVE  Ending
  BY DEF Revoked, Ending, FamilyInv, TypeOK, Active, NoRow

LEMMA RowSteps ==
  ASSUME TypeOK, SessionInv, [Next]_vars
  PROVE  Ending \/ \E r \in Requests : Issuing(r)
  <1>1. UNCHANGED <<tok, revokedAt>> => Ending
    BY DEF Ending
  <1>2. CASE UNCHANGED vars
    BY <1>1, <1>2 DEF vars, accountVars
  <1>3. CASE Tick
    BY <1>1, <1>3 DEF Tick, accountVars
  <1>4. ASSUME NEW r \in Requests, NEW p \in Processes, Arrive(r, p) PROVE Ending
    BY <1>1, <1>4 DEF Arrive, Login, GetByHash, Logout, Close, accountVars
  <1>5. ASSUME NEW p \in Processes, FetchUsers(p) \/ FetchTokens(p) \/ Merge(p) \/ Restart(p)
        PROVE  Ending
    BY <1>1, <1>5 DEF FetchUsers, FetchTokens, Merge, Restart, accountVars
  <1>6. CASE Sweep
    <2>1. ASSUME NEW S, PurgeRows(S) PROVE Ending
      BY <2>1 DEF PurgeRows, Ending, NoRow, Active, TypeOK
    <2> QED BY <1>1, <1>6, <2>1 DEF Sweep, PurgeCache, PurgeTokens, PurgeUsers, PurgeExpired,
                                    PurgeRevoked, accountVars
  <1>7. ASSUME NEW r \in Requests, Continue(r) PROVE Ending \/ Issuing(r)
    <2>1. CASE Fail(r) \/ Check(r) \/ RotateFails(r) \/ EndToken(r) \/ SaveToken(r) \/ Mark(r) \/ Cache(r)
      BY <1>1, <2>1 DEF Fail, Check, RotateFails, EndToken, SaveToken, Mark, Cache, accountVars
    <2>2. ASSUME NEW now \in 1..clock, GetByID(r, now) \/ Save(r, now) \/ SaveFails(r, now)
          PROVE  Ending
      BY <1>1, <2>2 DEF GetByID, Save, SaveFails, accountVars
    <2>3. CASE Kill(r) \/ EndFamily(r) \/ RevokeRows(r)
      BY <2>3, RevokedRows DEF Kill, EndFamily, RevokeRows, SessionInv
    <2>4. CASE Final(r)
      BY <2>4 DEF Final, Ending, NoRow, Active, TypeOK
    <2> QED BY <1>7, <2>1, <2>2, <2>3, <2>4 DEF Continue, Issuing
  <1> QED BY <1>2, <1>3, <1>4, <1>5, <1>6, <1>7 DEF Next

(* What was issued does not change.                                        *)
Kept == \A k \in Tokens : Issued(k) => tok'[k] = tok[k]

LEMMA IssuedIsKept ==
  ASSUME TypeOK, SessionInv, [Next]_vars
  PROVE  Kept
  <1>1. CASE Ending
    BY <1>1 DEF Ending, Kept
  <1>2. ASSUME NEW r \in Requests, Issuing(r) PROVE Kept
    BY <1>2 DEF Issuing, Insert, Rotate, Kept, TypeOK, Issued
  <1> QED BY <1>1, <1>2, RowSteps

LEMMA FamilyStep ==
  ASSUME TypeOK, SessionInv, [Next]_vars
  PROVE  FamilyInv' /\ OneActivePerFamily'
  <1>0. \A q \in Tokens : Issued(q) => tok[q].fam \in Tokens
    BY DEF TypeOK, Pair, Issued
  <1>1. CASE Ending
    <2>1. FamilyInv'
      BY <1>1 DEF Ending, SessionInv, FamilyInv, Issued
    <2>2. \A k : Family(k)' = Family(k)
      BY <1>1 DEF Ending, Family, Issued
    <2>3. OneActivePerFamily'
      BY <1>1, <2>2 DEF Ending, SessionInv, OneActivePerFamily, Issued
    <2> QED BY <2>1, <2>3
  <1>2. ASSUME NEW r \in Requests, NEW k \in Tokens, NEW iat \in 1..clock, NEW at \in 1..clock,
               Insert(r, k, iat, at)
        PROVE  FamilyInv' /\ OneActivePerFamily'
    <2>1. /\ \A q \in Tokens \ {k} : tok'[q] = tok[q] /\ revokedAt'[q] = revokedAt[q]
          /\ tok'[k].fam = k /\ ~Issued(k)
      BY <1>2 DEF Insert, TypeOK
    <2>2. \A q \in Tokens : tok[q].fam # k
      BY <1>2 DEF Insert, SessionInv, FamilyInv, Issued
    <2>3. FamilyInv'
      BY <1>0, <2>1, <2>2 DEF SessionInv, FamilyInv, Issued
    <2>4. \A q \in Tokens : tok'[q].fam = k => q = k
      BY <2>1, <2>2
    <2>5. OneActivePerFamily'
      <3> SUFFICES ASSUME NEW i \in Tokens, NEW j \in Tokens, Issued(i)', (j \in Family(i))',
                          revokedAt'[i] = Active, revokedAt'[j] = Active
                   PROVE  i = j
        BY DEF OneActivePerFamily, Active
      <3>1. Issued(j)' /\ tok'[j].fam = tok'[i].fam
        BY DEF Family
      <3>2. CASE i = k \/ j = k
        BY <2>1, <2>4, <3>1, <3>2
      <3>3. CASE i # k /\ j # k
        <4>1. j \in Family(i) /\ Issued(i) /\ revokedAt[i] = Active /\ revokedAt[j] = Active
          BY <2>1, <3>1, <3>3 DEF Family, Issued
        <4> QED BY <4>1 DEF SessionInv, OneActivePerFamily
      <3> QED BY <3>2, <3>3
    <2> QED BY <2>3, <2>5
  <1>3. ASSUME NEW r \in Requests, NEW k \in Tokens, NEW iat \in 1..clock, Rotate(r, k, iat)
        PROVE  FamilyInv' /\ OneActivePerFamily'
    <2> DEFINE old == job[r].old
    <2>1. /\ old \in Tokens /\ Issued(old) /\ job[r].now > 0 /\ tok[old].pv = job[r].pv
          /\ job[r].now \in Nat
      BY <1>3 DEF Rotate, SessionInv, RequestInv, TypeOK, Job
    <2>2. /\ \A q \in Tokens \ {k} : tok'[q] = tok[q]
          /\ tok'[k].fam = tok[old].fam /\ tok'[k].pv = tok[old].pv /\ ~Issued(k)
          /\ \A q \in Tokens \ {k, old} : revokedAt'[q] = revokedAt[q]
          /\ revokedAt[old] = Active /\ revokedAt'[old] # Active
      BY <1>3, <2>1 DEF Rotate, Rotatable, TypeOK, Active
    <2>3. \A q \in Tokens : tok[q].fam # k
      BY <2>2 DEF SessionInv, FamilyInv, Issued
    <2>4. FamilyInv'
      BY <1>0, <2>1, <2>2, <2>3 DEF SessionInv, FamilyInv, Issued
    <2>5. \A q \in Tokens \ {k} : q \in Family(old) /\ revokedAt[q] = Active => q = old
      BY <2>1, <2>2 DEF SessionInv, OneActivePerFamily
    <2>6. OneActivePerFamily'
      <3> SUFFICES ASSUME NEW i \in Tokens, NEW j \in Tokens, Issued(i)', (j \in Family(i))',
                          revokedAt'[i] = Active, revokedAt'[j] = Active
                   PROVE  i = j
        BY DEF OneActivePerFamily, Active
      <3>1. Issued(j)' /\ tok'[j].fam = tok'[i].fam
        BY DEF Family
      <3>2. i # old /\ j # old
        BY <2>2
      <3>3. CASE i = k /\ j # k
        <4>1. j \in Family(old) /\ revokedAt[j] = Active
          BY <2>2, <3>1, <3>2, <3>3 DEF Family, Issued
        <4> QED BY <2>5, <3>2, <3>3, <4>1
      <3>4. CASE j = k /\ i # k
        <4>1. i \in Family(old) /\ revokedAt[i] = Active
          BY <2>2, <3>1, <3>2, <3>4 DEF Family, Issued
        <4> QED BY <2>5, <3>2, <3>4, <4>1
      <3>5. CASE i # k /\ j # k
        <4>1. j \in Family(i) /\ Issued(i) /\ revokedAt[i] = Active /\ revokedAt[j] = Active
          BY <2>2, <3>1, <3>2, <3>5 DEF Family, Issued
        <4> QED BY <4>1 DEF SessionInv, OneActivePerFamily
      <3> QED BY <3>3, <3>4, <3>5
    <2> QED BY <2>4, <2>6
  <1> QED BY <1>1, <1>2, <1>3, RowSteps DEF Issuing

-----------------------------------------------------------------------------
(* The requests.                                                           *)

GoodJob(stage, j) ==
  /\ stage # "idle" => j.on \in Processes
  /\ stage \in {"user", "check", "rotate", "kill", "endFamily", "endToken", "saveToken"}
       => j.old \in Tokens /\ Issued(j.old)
  /\ stage \in {"check", "rotate"} => j.now > 0
  /\ stage = "rotate" => tok[j.old].pv = j.pv

LEMMA GoodJobs == RequestInv <=> \A r \in Requests : GoodJob(pc[r], job[r])
  BY DEF RequestInv, GoodJob

LEMMA GoodJobsNext == RequestInv' <=> \A r \in Requests : GoodJob(pc[r], job[r])'
  BY DEF RequestInv, GoodJob

(* A job that is good, good for a request that moves to it, stays so.       *)
LEMMA OthersStayGood ==
  ASSUME TypeOK, RequestInv, Kept, NEW q \in Requests, pc'[q] = pc[q], job'[q] = job[q]
  PROVE  GoodJob(pc[q], job[q])'
  BY DEF RequestInv, GoodJob, Kept, Issued

LEMMA Moves ==
  ASSUME TypeOK, RequestInv, Kept, NEW r \in Requests, NEW stage, NEW j,
         GoodJob(stage, j), Set(r, stage, j)
  PROVE  RequestInv'
  <1>1. pc'[r] = stage /\ job'[r] = j
    BY DEF Set, TypeOK
  <1>2. \A q \in Requests \ {r} : pc'[q] = pc[q] /\ job'[q] = job[q]
    BY DEF Set, TypeOK
  <1>3. GoodJob(pc[r], job[r])'
    BY <1>1 DEF GoodJob, Kept, Issued
  <1> QED BY <1>2, <1>3, OthersStayGood, GoodJobsNext

LEMMA Returns ==
  ASSUME TypeOK, RequestInv, Kept, NEW r \in Requests, Return(r)
  PROVE  RequestInv'
  BY Moves DEF Return, Goto, GoodJob

LEMMA RequestStep ==
  ASSUME TypeOK, SessionInv, [Next]_vars
  PROVE  RequestInv'
  <1>1. Kept /\ RequestInv /\ \A r \in Requests : GoodJob(pc[r], job[r])
    BY IssuedIsKept, GoodJobs DEF SessionInv
  <1>2. UNCHANGED <<pc, job>> => RequestInv'
    BY <1>1, OthersStayGood, GoodJobsNext
  <1>3. CASE UNCHANGED vars \/ Tick \/ Sweep
    BY <1>2, <1>3 DEF vars, requestVars, Tick, Sweep, PurgeCache, PurgeTokens, PurgeUsers,
                      PurgeExpired, PurgeRevoked, PurgeRows
  <1>4. ASSUME NEW p \in Processes, FetchUsers(p) \/ FetchTokens(p) \/ Merge(p) PROVE RequestInv'
    BY <1>2, <1>4 DEF FetchUsers, FetchTokens, Merge, requestVars
  <1>5. ASSUME NEW p \in Processes, Restart(p) PROVE RequestInv'
    <2>1. ASSUME NEW q \in Requests, job[q].on = p PROVE GoodJob(pc[q], job[q])'
      BY <1>5, <2>1 DEF Restart, GoodJob, TypeOK
    <2>2. ASSUME NEW q \in Requests, job[q].on # p PROVE GoodJob(pc[q], job[q])'
      BY <1>1, <1>5, <2>2, OthersStayGood DEF Restart
    <2> QED BY <2>1, <2>2, GoodJobsNext
  <1>6. ASSUME NEW r \in Requests, NEW p \in Processes, Arrive(r, p) PROVE RequestInv'
    <2>1. CASE Login(r, p)
      <3>1. GoodJob("insert", [NoJob EXCEPT !.on = p, !.pv = account.pv, !.since = clock])
        BY DEF GoodJob, NoJob
      <3> QED BY <1>1, <2>1, <3>1, Moves DEF Login, Begin
    <2>2. ASSUME NEW k \in Tokens, GetByHash(r, p, k) PROVE RequestInv'
      <3>1. Issued(k)
        BY <2>2 DEF GetByHash, SessionInv, FamilyInv
      <3>2. \A stage \in {"user", "kill"} :
              GoodJob(stage, [NoJob EXCEPT !.on = p, !.old = k, !.since = clock])
        BY <3>1 DEF GoodJob, NoJob
      <3> QED BY <1>1, <2>2, <3>2, Moves DEF GetByHash, Begin
    <2>3. ASSUME NEW k \in Tokens, NEW kind \in {"both", "jwt", "refresh"}, Logout(r, p, k, kind)
          PROVE  RequestInv'
      <3>1. \A stage \in {"endToken", "endFamily"} :
              GoodJob(stage, [NoJob EXCEPT !.on = p, !.kind = kind, !.old = k])
        BY <2>3 DEF Logout, GoodJob, NoJob
      <3> QED BY <1>1, <2>3, <3>1, Moves DEF Logout, Begin
    <2>4. ASSUME NEW kind \in Closings, Close(r, p, kind) PROVE RequestInv'
      <3>1. \A stage \in {"mark", "rows"} : GoodJob(stage, [NoJob EXCEPT !.on = p, !.kind = kind])
        BY DEF GoodJob, NoJob
      <3> QED BY <1>1, <2>4, <3>1, Moves DEF Close, Begin
    <2> QED BY <1>6, <2>1, <2>2, <2>3, <2>4 DEF Arrive
  <1>7. ASSUME NEW r \in Requests, Continue(r) PROVE RequestInv'
    <2>1. CASE \/ Fail(r) \/ Kill(r) \/ SaveToken(r) \/ Final(r)
               \/ \E k \in Tokens, iat, at \in 1..clock : Insert(r, k, iat, at)
               \/ \E k \in Tokens, iat \in 1..clock : Rotate(r, k, iat)
      BY <1>1, <2>1, Returns DEF Fail, Kill, SaveToken, Final, Insert, Rotate
    <2>2. ASSUME NEW now \in 1..clock, GetByID(r, now) PROVE RequestInv'
      <3>1. \A stage \in {"kill", "check"} :
              GoodJob(stage, [job[r] EXCEPT !.pv = account.pv, !.since = 0, !.now = now])
        BY <1>1, <2>2 DEF GetByID, GoodJob, TypeOK, Job
      <3> QED BY <1>1, <2>2, <3>1, Moves DEF GetByID, Goto
    <2>3. CASE Check(r)
      <3>1. GoodJob("kill", [job[r] EXCEPT !.since = clock])
        BY <1>1, <2>3 DEF Check, GoodJob, TypeOK, Job
      <3>2. StillGood(r) => GoodJob("rotate", [job[r] EXCEPT !.since = clock])
        BY <1>1, <2>3 DEF Check, StillGood, GoodJob, TypeOK, Job
      <3> QED BY <1>1, <2>3, <3>1, <3>2, Moves DEF Check, Goto
    <2>4. CASE RotateFails(r)
      <3>1. GoodJob("kill", job[r])
        BY <1>1, <2>4 DEF RotateFails, GoodJob
      <3> QED BY <1>1, <2>4, <3>1, Moves DEF RotateFails, Goto
    <2>5. CASE EndFamily(r)
      <3>1. GoodJob("endToken", job[r])
        BY <1>1, <2>5 DEF EndFamily, GoodJob
      <3> QED BY <1>1, <2>5, <3>1, Moves, Returns DEF EndFamily, Goto
    <2>6. CASE EndToken(r)
      <3>1. GoodJob("saveToken", job[r])
        BY <1>1, <2>6 DEF EndToken, GoodJob
      <3> QED BY <1>1, <2>6, <3>1, Moves DEF EndToken, Goto
    <2>7. CASE Mark(r)
      <3>1. GoodJob("rows", job[r])
        BY <1>1, <2>7 DEF Mark, GoodJob
      <3> QED BY <1>1, <2>7, <3>1, Moves DEF Mark, Goto
    <2>8. CASE RevokeRows(r)
      <3>1. GoodJob("save", [job[r] EXCEPT !.since = clock])
        BY <1>1, <2>8 DEF RevokeRows, GoodJob, TypeOK, Job
      <3> QED BY <1>1, <2>8, <3>1, Moves DEF RevokeRows, Goto
    <2>9. ASSUME NEW now \in 1..clock, Save(r, now) \/ SaveFails(r, now) PROVE RequestInv'
      <3>1. \A stage \in {"cache", "cacheOnly"} :
              GoodJob(stage, [job[r] EXCEPT !.since = 0, !.now = now])
        BY <1>1, <2>9 DEF Save, SaveFails, GoodJob, TypeOK, Job
      <3> QED BY <1>1, <2>9, <3>1, Moves DEF Save, SaveFails, Goto
    <2>10. CASE Cache(r)
      <3>1. GoodJob("final", job[r])
        BY <1>1, <2>10 DEF Cache, GoodJob
      <3> QED BY <1>1, <2>10, <3>1, Moves, Returns DEF Cache, Goto
    <2> QED BY <1>7, <2>1, <2>2, <2>3, <2>4, <2>5, <2>6, <2>7, <2>8, <2>9, <2>10 DEF Continue
  <1> QED BY <1>3, <1>4, <1>5, <1>6, <1>7 DEF Next

-----------------------------------------------------------------------------
(* The revocations that a process has heard of.                            *)

LEMMA ClockGrows ==
  ASSUME TypeOK, [Next]_vars
  PROVE  clock' \in Nat /\ clock' >= clock
  <1>1. CASE UNCHANGED vars \/ Tick \/ Sweep
    BY <1>1 DEF vars, TypeOK, Tick, Sweep, PurgeCache, PurgeTokens, PurgeUsers,
                PurgeExpired, PurgeRevoked, PurgeRows
  <1>2. ASSUME NEW p \in Processes, FetchUsers(p) \/ FetchTokens(p) \/ Merge(p) \/ Restart(p)
        PROVE  clock' = clock
    BY <1>2 DEF FetchUsers, FetchTokens, Merge, Restart
  <1>3. ASSUME NEW r \in Requests, NEW p \in Processes, Arrive(r, p) PROVE clock' = clock
    BY <1>3 DEF Arrive, Login, GetByHash, Logout, Close
  <1>4. ASSUME NEW r \in Requests, Continue(r) PROVE clock' = clock
    BY <1>4 DEF Continue, Fail, Insert, GetByID, Check, Rotate, RotateFails, Kill, EndFamily,
                RevokeRows, EndToken, SaveToken, Mark, Save, SaveFails, Cache, Final
  <1> QED BY <1>1, <1>2, <1>3, <1>4 DEF Next, TypeOK

(* The two clauses of CacheInv, for the clock and the tokens after a step.  *)
UserAfter(user, h) == user >= h \/ h + Retention < clock'
TokensAfter(toks, h) == \A k \in h : Issued(k)' /\ (k \in toks \/ JwtExpired(k, clock)')

(* What a purge drops or a later step adds does not lose a revocation.      *)
LEMMA UserStays ==
  ASSUME TypeOK, clock' \in Nat, clock' >= clock, NEW user \in Nat, NEW h \in Nat, KeepsUser(user, h)
  PROVE  /\ UserAfter(user, h)
         /\ \A now \in Nat : UserAfter(Later(user, now), Later(h, now))
         /\ OldRevocation(user) => UserAfter(0, h)
  BY DEF KeepsUser, UserAfter, Later, OldRevocation, TypeOK

LEMMA IssuedStays ==
  ASSUME TypeOK, Kept, clock' \in Nat, clock' >= clock, NEW k \in Tokens, Issued(k)
  PROVE  Issued(k)' /\ (JwtExpired(k, clock) => JwtExpired(k, clock)')
  BY DEF Kept, Issued, JwtExpired, TypeOK, Pair

LEMMA TokensStay ==
  ASSUME TypeOK, Kept, clock' \in Nat, clock' >= clock,
         NEW toks, NEW h \in SUBSET Tokens, KeepsTokens(toks, h)
  PROVE  /\ TokensAfter(toks, h)
         /\ \A S \in SUBSET Tokens :
              (\A k \in S : Issued(k)) => TokensAfter(toks \union S, h \union S)
         /\ TokensAfter({k \in toks : ~JwtExpired(k, clock)}, h)
  BY IssuedStays DEF KeepsTokens, TokensAfter

GoodCache(p) ==
  /\ KeepsUser(userRevoked[p], heard[p].user) /\ KeepsTokens(tokenRevoked[p], heard[p].toks)
  /\ \A k \in fetched[p].got.toks : Issued(k)
GoodStore ==
  /\ KeepsUser(userRevocation, said.user) /\ KeepsTokens(revokedTokens, said.toks)
  /\ \A k \in revokedTokens : Issued(k)
CacheAfter(p) ==
  /\ UserAfter(userRevoked'[p], heard'[p].user) /\ TokensAfter(tokenRevoked'[p], heard'[p].toks)
  /\ \A k \in fetched'[p].got.toks : Issued(k)'
StoreAfter ==
  /\ UserAfter(userRevocation', said'.user) /\ TokensAfter(revokedTokens', said'.toks)
  /\ \A k \in revokedTokens' : Issued(k)'

LEMMA GoodCaches == CacheInv <=> GoodStore /\ \A p \in Processes : GoodCache(p)
  BY DEF CacheInv, GoodStore, GoodCache

LEMMA GoodCachesNext == CacheInv' <=> StoreAfter /\ \A p \in Processes : CacheAfter(p)
  BY DEF CacheInv, StoreAfter, CacheAfter, KeepsUser, KeepsTokens, UserAfter, TokensAfter

LEMMA CacheTypes ==
  ASSUME TypeOK, NEW p \in Processes
  PROVE  /\ userRevoked[p] \in Nat /\ heard[p].user \in Nat
         /\ tokenRevoked[p] \in SUBSET Tokens /\ heard[p].toks \in SUBSET Tokens
         /\ fetched[p].got.user \in Nat /\ fetched[p].got.toks \in SUBSET Tokens
  BY DEF TypeOK, Revocations

LEMMA StoreTypes ==
  ASSUME TypeOK
  PROVE  /\ userRevocation \in Nat /\ said.user \in Nat
         /\ revokedTokens \in SUBSET Tokens /\ said.toks \in SUBSET Tokens
  BY DEF TypeOK, Revocations

LEMMA SameStore ==
  ASSUME TypeOK, GoodStore, Kept, clock' \in Nat, clock' >= clock, UNCHANGED storeVars
  PROVE  StoreAfter
  <1>1. UserAfter(userRevocation, said.user)
    BY StoreTypes, UserStays DEF GoodStore
  <1>2. TokensAfter(revokedTokens, said.toks)
    BY StoreTypes, TokensStay DEF GoodStore
  <1>3. \A k \in revokedTokens : Issued(k)'
    BY StoreTypes, IssuedStays DEF GoodStore
  <1> QED BY <1>1, <1>2, <1>3 DEF StoreAfter, storeVars

LEMMA SameCache ==
  ASSUME TypeOK, Kept, clock' \in Nat, clock' >= clock, NEW p \in Processes, GoodCache(p),
         userRevoked'[p] = userRevoked[p], tokenRevoked'[p] = tokenRevoked[p],
         heard'[p] = heard[p], fetched'[p] = fetched[p]
  PROVE  CacheAfter(p)
  <1>1. UserAfter(userRevoked[p], heard[p].user)
    BY CacheTypes, UserStays DEF GoodCache
  <1>2. TokensAfter(tokenRevoked[p], heard[p].toks)
    BY CacheTypes, TokensStay DEF GoodCache
  <1>3. \A k \in fetched[p].got.toks : Issued(k)'
    BY CacheTypes, IssuedStays DEF GoodCache
  <1> QED BY <1>1, <1>2, <1>3 DEF CacheAfter

LEMMA CacheStep ==
  ASSUME TypeOK, SessionInv, [Next]_vars
  PROVE  CacheInv'
  <1>1. /\ Kept /\ clock' \in Nat /\ clock' >= clock
        /\ GoodStore /\ \A p \in Processes : GoodCache(p)
    BY IssuedIsKept, ClockGrows, GoodCaches DEF SessionInv
  <1>2. UNCHANGED storeVars => StoreAfter
    BY <1>1, SameStore
  <1>3. UNCHANGED <<cacheVars, fetched>> => \A p \in Processes : CacheAfter(p)
    BY <1>1, SameCache DEF cacheVars
  <1>4. CASE UNCHANGED vars \/ Tick \/ PurgeExpired \/ PurgeRevoked
    BY <1>2, <1>3, <1>4, GoodCachesNext DEF vars, Tick, PurgeExpired, PurgeRevoked, PurgeRows
  <1>5. ASSUME NEW r \in Requests, NEW p \in Processes, Arrive(r, p) PROVE CacheInv'
    BY <1>2, <1>3, <1>5, GoodCachesNext DEF Arrive, Login, GetByHash, Logout, Close
  <1>6. ASSUME NEW p \in Processes, FetchUsers(p) \/ FetchTokens(p) PROVE CacheInv'
    <2>1. \A q \in Processes \ {p} : CacheAfter(q)
      BY <1>1, <1>6, SameCache DEF FetchUsers, FetchTokens, cacheVars, TypeOK
    <2>2. /\ userRevoked' = userRevoked /\ tokenRevoked' = tokenRevoked /\ heard' = heard
          /\ fetched'[p].got.toks \subseteq revokedTokens
      BY <1>6 DEF FetchUsers, FetchTokens, cacheVars, Stored, Idle, Nothing, TypeOK
    <2>3. UserAfter(userRevoked[p], heard[p].user)
      BY <1>1, CacheTypes, UserStays DEF GoodCache
    <2>4. TokensAfter(tokenRevoked[p], heard[p].toks)
      BY <1>1, CacheTypes, TokensStay DEF GoodCache
    <2>5. \A k \in revokedTokens : Issued(k)'
      BY <1>1, StoreTypes, IssuedStays DEF GoodStore
    <2>6. CacheAfter(p)
      BY <2>2, <2>3, <2>4, <2>5 DEF CacheAfter
    <2> QED BY <1>2, <1>6, <2>1, <2>6, GoodCachesNext DEF FetchUsers, FetchTokens
  <1>7. ASSUME NEW p \in Processes, Merge(p) PROVE CacheInv'
    <2> DEFINE got == fetched[p].got
    <2>1. \A q \in Processes \ {p} : CacheAfter(q)
      BY <1>1, <1>7, SameCache DEF Merge, TypeOK
    <2>2. /\ userRevoked'[p] = Later(userRevoked[p], got.user)
          /\ heard'[p].user = Later(heard[p].user, got.user)
          /\ tokenRevoked'[p] = tokenRevoked[p] \union got.toks
          /\ heard'[p].toks = heard[p].toks \union got.toks
          /\ fetched'[p].got.toks = {}
      BY <1>7 DEF Merge, Merged, TypeOK, Idle, Nothing
    <2>3. UserAfter(Later(userRevoked[p], got.user), Later(heard[p].user, got.user))
      BY <1>1, CacheTypes, UserStays DEF GoodCache
    <2>4. TokensAfter(tokenRevoked[p] \union got.toks, heard[p].toks \union got.toks)
      BY <1>1, CacheTypes, TokensStay DEF GoodCache
    <2>5. CacheAfter(p)
      BY <2>2, <2>3, <2>4 DEF CacheAfter
    <2> QED BY <1>2, <1>7, <2>1, <2>5, GoodCachesNext DEF Merge
  <1>8. ASSUME NEW p \in Processes, Restart(p) PROVE CacheInv'
    <2>1. \A q \in Processes \ {p} : CacheAfter(q)
      BY <1>1, <1>8, SameCache DEF Restart, TypeOK
    <2>2. /\ userRevoked'[p] = userRevocation /\ heard'[p] = said
          /\ tokenRevoked'[p] = {k \in revokedTokens : ~JwtExpired(k, clock)}
          /\ fetched'[p].got.toks = {}
      BY <1>8 DEF Restart, TypeOK, Idle, Nothing, Stored
    <2>3. UserAfter(userRevocation, said.user)
      BY <1>1, StoreTypes, UserStays DEF GoodStore
    <2>4. TokensAfter({k \in revokedTokens : ~JwtExpired(k, clock)}, said.toks)
      BY <1>1, StoreTypes, TokensStay DEF GoodStore
    <2>5. CacheAfter(p)
      BY <2>2, <2>3, <2>4 DEF CacheAfter
    <2> QED BY <1>2, <1>8, <2>1, <2>5, GoodCachesNext DEF Restart
  <1>9. ASSUME NEW p \in Processes, PurgeCache(p) PROVE CacheInv'
    <2>1. \A q \in Processes \ {p} : CacheAfter(q)
      BY <1>1, <1>9, SameCache DEF PurgeCache, TypeOK
    <2>2. /\ userRevoked'[p] = IF OldRevocation(userRevoked[p]) THEN 0 ELSE userRevoked[p]
          /\ tokenRevoked'[p] = {k \in tokenRevoked[p] : ~JwtExpired(k, clock)}
          /\ heard' = heard /\ fetched' = fetched /\ clock' = clock
      BY <1>9 DEF PurgeCache, TypeOK
    <2>3. UserAfter(userRevoked'[p], heard[p].user)
      BY <1>1, <2>2, CacheTypes, UserStays DEF GoodCache
    <2>4. TokensAfter({k \in tokenRevoked[p] : ~JwtExpired(k, clock)}, heard[p].toks)
      BY <1>1, CacheTypes, TokensStay DEF GoodCache
    <2>5. \A k \in fetched[p].got.toks : Issued(k)'
      BY <1>1, CacheTypes, IssuedStays DEF GoodCache
    <2>6. CacheAfter(p)
      BY <2>2, <2>3, <2>4, <2>5 DEF CacheAfter
    <2> QED BY <1>2, <1>9, <2>1, <2>6, GoodCachesNext DEF PurgeCache
  <1>10. CASE PurgeTokens
    <2>1. UserAfter(userRevocation, said.user)
      BY <1>1, StoreTypes, UserStays DEF GoodStore
    <2>2. TokensAfter({k \in revokedTokens : ~JwtExpired(k, clock)}, said.toks)
      BY <1>1, StoreTypes, TokensStay DEF GoodStore
    <2>3. \A k \in revokedTokens : Issued(k)'
      BY <1>1, StoreTypes, IssuedStays DEF GoodStore
    <2>4. StoreAfter
      BY <1>10, <2>1, <2>2, <2>3 DEF PurgeTokens, StoreAfter
    <2> QED BY <1>3, <1>10, <2>4, GoodCachesNext DEF PurgeTokens
  <1>11. CASE PurgeUsers
    <2>1. UserAfter(userRevocation', said.user)
      BY <1>1, <1>11, StoreTypes, UserStays DEF PurgeUsers, GoodStore
    <2>2. TokensAfter(revokedTokens, said.toks)
      BY <1>1, StoreTypes, TokensStay DEF GoodStore
    <2>3. \A k \in revokedTokens : Issued(k)'
      BY <1>1, StoreTypes, IssuedStays DEF GoodStore
    <2>4. StoreAfter
      BY <1>11, <2>1, <2>2, <2>3 DEF PurgeUsers, StoreAfter
    <2> QED BY <1>3, <1>11, <2>4, GoodCachesNext DEF PurgeUsers
  <1>12. ASSUME NEW r \in Requests, Continue(r) PROVE CacheInv'
    <2>1. CASE UNCHANGED <<storeVars, cacheVars, fetched>>
      BY <1>2, <1>3, <2>1, GoodCachesNext
    <2>2. CASE EndToken(r)
      <3> DEFINE p == job[r].on
                 k == job[r].old
      <3>1. p \in Processes /\ k \in Tokens /\ Issued(k)
        BY <2>2 DEF EndToken, SessionInv, RequestInv
      <3>2. \A q \in Processes \ {p} : CacheAfter(q)
        BY <1>1, <2>2, SameCache DEF EndToken, TypeOK
      <3>3. /\ userRevoked' = userRevoked /\ tokenRevoked'[p] = tokenRevoked[p] \union {k}
            /\ heard'[p].user = heard[p].user /\ heard'[p].toks = heard[p].toks \union {k}
            /\ fetched' = fetched /\ clock' = clock
        BY <2>2, <3>1 DEF EndToken, TypeOK, Revocations
      <3> HIDE DEF p, k
      <3>4. TokensAfter(tokenRevoked[p] \union {k}, heard[p].toks \union {k})
        BY <1>1, <3>1, CacheTypes, TokensStay DEF GoodCache
      <3>5. UserAfter(userRevoked[p], heard[p].user) /\ \A q \in fetched[p].got.toks : Issued(q)'
        BY <1>1, <3>1, CacheTypes, UserStays, IssuedStays DEF GoodCache
      <3>6. CacheAfter(p)
        BY <3>3, <3>4, <3>5 DEF CacheAfter
      <3> QED BY <1>2, <2>2, <3>2, <3>6, GoodCachesNext DEF EndToken
    <2>3. CASE SaveToken(r)
      <3>1. job[r].old \in Tokens /\ Issued(job[r].old)
        BY <2>3 DEF SaveToken, SessionInv, RequestInv
      <3>2. /\ said'.toks = said.toks \union {job[r].old} /\ said'.user = said.user
            /\ revokedTokens' = revokedTokens \union {job[r].old}
            /\ userRevocation' = userRevocation /\ clock' = clock
        BY <2>3 DEF SaveToken, TypeOK, Revocations
      <3>3. TokensAfter(revokedTokens \union {job[r].old}, said.toks \union {job[r].old})
        BY <1>1, <3>1, StoreTypes, TokensStay DEF GoodStore
      <3>4. UserAfter(userRevocation, said.user) /\ \A q \in revokedTokens' : Issued(q)'
        BY <1>1, <3>1, <3>2, StoreTypes, UserStays, IssuedStays DEF GoodStore
      <3>5. StoreAfter
        BY <3>2, <3>3, <3>4 DEF StoreAfter
      <3> QED BY <1>3, <2>3, <3>5, GoodCachesNext DEF SaveToken
    <2>4. ASSUME NEW now \in 1..clock, Save(r, now) PROVE CacheInv'
      <3>1. /\ said'.toks = said.toks /\ said'.user = Later(said.user, now)
            /\ revokedTokens' = revokedTokens
            /\ userRevocation' = Later(userRevocation, now) /\ clock' = clock
        BY <2>4 DEF Save, TypeOK, Revocations
      <3>2. UserAfter(Later(userRevocation, now), Later(said.user, now))
        BY <1>1, StoreTypes, UserStays DEF GoodStore, TypeOK
      <3>3. TokensAfter(revokedTokens, said.toks) /\ \A q \in revokedTokens : Issued(q)'
        BY <1>1, StoreTypes, TokensStay, IssuedStays DEF GoodStore
      <3>4. StoreAfter
        BY <3>1, <3>2, <3>3 DEF StoreAfter
      <3> QED BY <1>3, <2>4, <3>4, GoodCachesNext DEF Save
    <2>5. CASE Cache(r)
      <3> DEFINE p == job[r].on
                 now == job[r].now
      <3>1. p \in Processes /\ now \in Nat
        BY <2>5 DEF Cache, SessionInv, RequestInv, TypeOK, Job
      <3>2. \A q \in Processes \ {p} : CacheAfter(q)
        BY <1>1, <2>5, SameCache DEF Cache, TypeOK
      <3>3. /\ userRevoked'[p] = Later(userRevoked[p], now)
            /\ heard'[p].user = Later(heard[p].user, now) /\ heard'[p].toks = heard[p].toks
            /\ tokenRevoked' = tokenRevoked /\ fetched' = fetched /\ clock' = clock
        BY <2>5, <3>1 DEF Cache, TypeOK, Revocations
      <3> HIDE DEF p, now
      <3>4. UserAfter(Later(userRevoked[p], now), Later(heard[p].user, now))
        BY <1>1, <3>1, CacheTypes, UserStays DEF GoodCache
      <3>5. /\ TokensAfter(tokenRevoked[p], heard[p].toks)
            /\ \A q \in fetched[p].got.toks : Issued(q)'
        BY <1>1, <3>1, CacheTypes, TokensStay, IssuedStays DEF GoodCache
      <3>6. CacheAfter(p)
        BY <3>3, <3>4, <3>5 DEF CacheAfter
      <3> QED BY <1>2, <2>5, <3>2, <3>6, GoodCachesNext DEF Cache, p
    <2> QED BY <1>12, <2>1, <2>2, <2>3, <2>4, <2>5
            DEF Continue, Fail, Insert, GetByID, Check, Rotate, RotateFails, Kill, EndFamily,
                RevokeRows, Mark, SaveFails, Final
  <1> QED BY <1>4, <1>5, <1>6, <1>7, <1>8, <1>9, <1>10, <1>11, <1>12 DEF Next, Sweep

-----------------------------------------------------------------------------
(* The theorems.                                                           *)

LEMMA InvInit == Init => SessionInv
  BY DEF Init, SessionInv, RequestInv, FamilyInv, OneActivePerFamily, CacheInv, KeepsUser,
         KeepsTokens, Issued, NotIssued, Nothing, Idle, NoJob, Pair, NoRow

LEMMA InvStep == TypeOK /\ SessionInv /\ [Next]_vars => TypeOK' /\ SessionInv'
  <1> SUFFICES ASSUME TypeOK, SessionInv, [Next]_vars PROVE TypeOK' /\ SessionInv'
    OBVIOUS
  <1>1. TypeOK'
    BY TypeSweep, TypeCaches, TypeArrive, TypeContinue DEF Next, SessionInv
  <1>2. clock' > 0
    BY ClockGrows DEF SessionInv, TypeOK
  <1> QED BY <1>1, <1>2, RequestStep, FamilyStep, CacheStep DEF SessionInv

LEMMA SessionCorrect == Spec => [](TypeOK /\ SessionInv)
  <1>1. Init => TypeOK /\ SessionInv
    BY TypeInit, InvInit
  <1> QED BY <1>1, InvStep, PTL DEF Spec

(* Every variable keeps its type: no handler stores a revocation without a  *)
(* token, or continues with a token it has not looked up.                   *)
THEOREM TypeCorrect == Spec => []TypeOK
  BY SessionCorrect, PTL

(* The inductive invariant: a family has the epoch of its first pair, and   *)
(* the caches and the tables hold every revocation that was made, except    *)
(* those that no access token can need any more.                            *)
THEOREM InvariantCorrect == Spec => []SessionInv
  BY SessionCorrect, PTL

(* Of two refreshes with one token at most one succeeds: a family never has *)
(* two refresh tokens that can be used.                                     *)
THEOREM OneActive == Spec => []OneActivePerFamily
  <1>1. SessionInv => OneActivePerFamily
    BY DEF SessionInv
  <1> QED BY <1>1, SessionCorrect, PTL

(* After a change of the password, no token passes whose session began with *)
(* a login under an earlier one.                                            *)
THEOREM CurrentPassword == Spec => []OnlyCurrentPassword
  <1>1. SessionInv => OnlyCurrentPassword
    BY DEF SessionInv, FamilyInv, OnlyCurrentPassword, Accepts, Renews
  <1> QED BY <1>1, SessionCorrect, PTL

(* Once a process has closed the sessions of the account, or has read that  *)
(* another has, no access token issued before passes on it.                 *)
THEOREM ClosedStaysClosed == Spec => []ClosedSessionsStayClosed
  <1>1. TypeOK /\ SessionInv => ClosedSessionsStayClosed
    <2> SUFFICES ASSUME TypeOK, SessionInv, NEW p \in Processes, NEW k \in Tokens,
                        tok[k].iat <= heard[p].user, Accepts(p, k)
                 PROVE  FALSE
      BY DEF ClosedSessionsStayClosed
    <2>1. tok[k].iat \in Nat /\ clock \in Nat
      BY DEF TypeOK, Pair
    <2>2. userRevoked[p] >= heard[p].user \/ heard[p].user + Retention < clock
      BY DEF SessionInv, CacheInv, KeepsUser
    <2>3. tok[k].iat > userRevoked[p] /\ clock < tok[k].iat + JwtTTL
      BY <2>1, CacheTypes DEF Accepts, IsRevoked, JwtExpired
    <2> QED BY <2>1, <2>2, <2>3, CacheTypes
  <1> QED BY <1>1, SessionCorrect, PTL

(* Once a process has logged an access token out, or has read that another  *)
(* has, the token does not pass on it again.                                *)
THEOREM LoggedOut == Spec => []LoggedOutStaysOut
  <1>1. SessionInv => LoggedOutStaysOut
    BY DEF SessionInv, CacheInv, KeepsTokens, LoggedOutStaysOut, Accepts, IsRevoked
  <1> QED BY <1>1, SessionCorrect, PTL

(* A family that was revoked never has a usable refresh token again,        *)
(* whatever refresh was under way when it was.                              *)
THEOREM DeadFamilies == Spec => DeadFamiliesStayDead
  <1> DEFINE Dead(f) == Issued(f) /\ \A k \in Family(f) : revokedAt[k] # Active
             Stays == \A f \in Tokens : Dead(f) => \A k \in Family(f)' : revokedAt'[k] # Active
  <1>1. TypeOK /\ SessionInv /\ [Next]_vars => Stays
    <2> SUFFICES ASSUME TypeOK, SessionInv, [Next]_vars, NEW f \in Tokens, Dead(f),
                        NEW k \in Tokens, (k \in Family(f))', revokedAt'[k] = Active
                 PROVE  FALSE
      BY DEF Family
    <2>1. tok'[f] = tok[f] /\ Issued(k)' /\ tok'[k].fam = tok[f].fam
      BY IssuedIsKept DEF Kept, Family
    <2>2. CASE Ending
      BY <2>1, <2>2 DEF Ending, Family, Issued
    <2>3. ASSUME NEW r \in Requests, NEW n \in Tokens, NEW iat \in 1..clock, NEW at \in 1..clock,
                 Insert(r, n, iat, at)
          PROVE  FALSE
      <3>1. /\ \A q \in Tokens \ {n} : tok'[q] = tok[q] /\ revokedAt'[q] = revokedAt[q]
            /\ tok'[n].fam = n /\ ~Issued(n)
        BY <2>3 DEF Insert, TypeOK
      <3>2. CASE k = n
        BY <2>1, <3>1, <3>2 DEF SessionInv, FamilyInv
      <3>3. CASE k # n
        BY <2>1, <3>1, <3>3 DEF Family, Issued
      <3> QED BY <3>2, <3>3
    <2>4. ASSUME NEW r \in Requests, NEW n \in Tokens, NEW iat \in 1..clock, Rotate(r, n, iat)
          PROVE  FALSE
      <3> DEFINE old == job[r].old
      <3>1. old \in Tokens /\ Issued(old) /\ revokedAt[old] = Active /\ job[r].now > 0
        BY <2>4 DEF Rotate, Rotatable, SessionInv, RequestInv
      <3>2. /\ \A q \in Tokens \ {n} : tok'[q] = tok[q]
            /\ \A q \in Tokens \ {n, old} : revokedAt'[q] = revokedAt[q]
            /\ tok'[n].fam = tok[old].fam /\ ~Issued(n) /\ revokedAt'[old] # Active
        BY <2>4, <3>1 DEF Rotate, TypeOK, Active
      <3>3. CASE k = n
        BY <2>1, <3>1, <3>2, <3>3 DEF Family, Issued
      <3>4. CASE k # n
        BY <2>1, <3>1, <3>2, <3>4 DEF Family, Issued
      <3> QED BY <3>3, <3>4
    <2> QED BY <2>2, <2>3, <2>4, RowSteps DEF Issuing
  <1>2. Stays => [\A f \in Tokens :
           Issued(f) /\ (\A k \in Family(f) : revokedAt[k] # Active)
             => \A k \in Family(f)' : revokedAt'[k] # Active]_vars
    OBVIOUS
  <1> HIDE DEF Stays
  <1> QED BY <1>1, <1>2, SessionCorrect, PTL DEF Spec, DeadFamiliesStayDead

(* RevocationRepo.PurgeExpired, for any lifetimes of the tokens: until a    *)
(* revocation of the account has reached the age at which it is purged, no  *)
(* refresh token passes that is older, on a process that has heard of it.   *)
THEOREM RefreshesWait == Spec => []ClosedRefreshesWait
  <1>1. TypeOK /\ SessionInv => ClosedRefreshesWait
    <2> SUFFICES ASSUME TypeOK, SessionInv, NEW p \in Processes, NEW k \in Tokens,
                        tok[k].at <= heard[p].user, Renews(p, k)
                 PROVE  clock > heard[p].user + Retention
      BY DEF ClosedRefreshesWait
    <2>1. tok[k].at \in Nat /\ clock \in Nat /\ Retention \in Nat
      BY SessionAssumption DEF TypeOK, Pair
    <2>2. userRevoked[p] >= heard[p].user \/ heard[p].user + Retention < clock
      BY DEF SessionInv, CacheInv, KeepsUser
    <2>3. tok[k].at > userRevoked[p]
      BY <2>1, CacheTypes DEF Renews, IsUserRevoked
    <2> QED BY <2>1, <2>2, <2>3, CacheTypes
  <1> QED BY <1>1, SessionCorrect, PTL

-----------------------------------------------------------------------------
(* The implementation of SessionFamilies.                                  *)

LEMMA FamiliesInit == Init => Families!Init
  BY DEF Init, Families!Init, Live, Issued, NotIssued

(* What the families become, as the functions that SessionFamilies is given. *)
LEMMA LiveChanges ==
  ASSUME NEW f \in Tokens, NEW S, Live(f)' = S,
         \A g \in Tokens \ {f} : Live(g)' = Live(g)
  PROVE  [g \in Tokens |-> Live(g)]' = [[g \in Tokens |-> Live(g)] EXCEPT ![f] = S]
  OBVIOUS

LEMMA UsedChanges ==
  ASSUME TypeOK, NEW k \in Tokens, ~Issued(k), Issued(k)',
         \A q \in Tokens \ {k} : tok'[q] = tok[q]
  PROVE  Families!HandOut(k)
  <1>1. \A q \in Tokens \ {k} : Issued(q)' <=> Issued(q)
    BY DEF Issued
  <1> QED BY <1>1 DEF Families!HandOut

LEMMA FamiliesStep == TypeOK /\ SessionInv /\ [Next]_vars => [Families!Next]_(Families!familyVars)
  <1> SUFFICES ASSUME TypeOK, SessionInv, [Next]_vars PROVE Families!Next
    OBVIOUS
  <1>1. CASE Ending
    <2>1. \A f \in Tokens : Live(f)' \subseteq Live(f)
      BY <1>1 DEF Ending, Live, Issued
    <2>2. \A f \in Tokens : \A i, j \in Live(f) : i = j
      BY DEF Live, SessionInv, OneActivePerFamily, Family
    <2>3. \A f \in Tokens : Live(f)' \in {Live(f), {}}
      BY <2>1, <2>2
    <2>4. {k \in Tokens : Issued(k)}' = {k \in Tokens : Issued(k)}
      BY <1>1 DEF Ending, Issued
    <2>5. \A f \in Tokens : Live(f)' \in SUBSET Tokens
      BY DEF Live
    <2>6. Families!End
      BY <2>3, <2>4, <2>5 DEF Families!End
    <2> QED BY <2>6 DEF Families!Next
  <1>2. ASSUME NEW r \in Requests, NEW k \in Tokens, NEW iat \in 1..clock, NEW at \in 1..clock,
               Insert(r, k, iat, at)
        PROVE  Families!Next
    <2>1. /\ \A q \in Tokens \ {k} : tok'[q] = tok[q] /\ revokedAt'[q] = revokedAt[q]
          /\ tok'[k].fam = k /\ ~Issued(k) /\ Issued(k)' /\ revokedAt'[k] = Active
      BY <1>2, SessionAssumption DEF Insert, TypeOK, Issued
    <2>2. \A q \in Tokens : tok[q].fam # k
      BY <2>1 DEF SessionInv, FamilyInv, Issued
    <2>3. Live(k) = {} /\ Live(k)' = {k}
      BY <2>1, <2>2 DEF Live
    <2>4. \A f \in Tokens \ {k} : Live(f)' = Live(f)
      BY <2>1 DEF Live, Issued
    <2>5. Families!Begin(k)
      BY <2>1, <2>3, <2>4, LiveChanges, UsedChanges DEF Families!Begin
    <2> QED BY <2>5 DEF Families!Next
  <1>3. ASSUME NEW r \in Requests, NEW k \in Tokens, NEW iat \in 1..clock, Rotate(r, k, iat)
        PROVE  Families!Next
    <2>1. PICK old \in Tokens : old = job[r].old /\ Issued(old) /\ job[r].now > 0
      BY <1>3 DEF Rotate, SessionInv, RequestInv
    <2>2. PICK f \in Tokens : f = tok[old].fam
      BY <2>1 DEF TypeOK, Pair, Issued
    <2>3. /\ \A q \in Tokens \ {k} : tok'[q] = tok[q]
          /\ \A q \in Tokens \ {k, old} : revokedAt'[q] = revokedAt[q]
          /\ tok'[k].fam = f /\ ~Issued(k) /\ revokedAt'[k] = Active
          /\ revokedAt[old] = Active /\ revokedAt'[old] # Active
      BY <1>3, <2>1, <2>2 DEF Rotate, Rotatable, TypeOK, Active, Issued
    <2>4. Issued(k)'
      BY <2>2, <2>3, SessionAssumption DEF Issued
    <2>5. Live(f) = {old}
      BY <2>1, <2>2, <2>3 DEF Live, SessionInv, OneActivePerFamily, Family
    <2>6. \A q \in Live(f)' : q = k
      <3> SUFFICES ASSUME NEW q \in Live(f)', q # k PROVE FALSE
        OBVIOUS
      <3>1. q \in Tokens \ {k} /\ Issued(q) /\ tok[q].fam = f /\ revokedAt'[q] = Active
        BY <2>3 DEF Live, Issued, Active
      <3>2. q # old
        BY <2>3, <3>1
      <3>3. q \in Live(f)
        BY <2>3, <3>1, <3>2 DEF Live
      <3> QED BY <2>5, <3>2, <3>3
    <2>7. Live(f)' = {k}
      BY <2>3, <2>4, <2>6 DEF Live, Active
    <2>8. \A g \in Tokens \ {f} : Live(g)' = Live(g)
      BY <2>1, <2>2, <2>3 DEF Live, Issued, Active
    <2>9. Families!Renew(f, k)
      BY <2>2, <2>3, <2>4, <2>5, <2>7, <2>8, LiveChanges, UsedChanges DEF Families!Renew
    <2> QED BY <2>2, <2>9 DEF Families!Next
  <1> QED BY <1>1, <1>2, <1>3, RowSteps DEF Issuing

(* FamiliesSpec: however requests race, fail and are cut off by restarts,   *)
(* the refresh tokens of a session are a chain of which one can be used.    *)
THEOREM ImplementsFamilies == Spec => FamiliesSpec
  <1>1. Spec => Families!Init /\ [][Families!Next]_(Families!familyVars)
    BY SessionCorrect, FamiliesInit, FamiliesStep, PTL DEF Spec
  <1> QED BY <1>1 DEF FamiliesSpec, Families!Spec
=============================================================================
