-------------------------- MODULE RateLimiterProofs ---------------------------
(***************************************************************************)
(* Theorems about RateLimiter, for any requests, keys and entries, and any *)
(* burst, cost and staleness with StaleAfter >= Burst.                     *)
(***************************************************************************)
EXTENDS RateLimiter, TLAPS

IInv == TypeOK /\ LimiterInv

USE DEF Stages

-----------------------------------------------------------------------------
(* The arithmetic of a bucket.                                             *)

LEMMA RefilledFacts ==
  ASSUME TypeOK, TimeInv, NEW e \in Entries
  PROVE  /\ Refilled(e) \in 0..Burst
         /\ lastSeen[e] + Burst <= clock => Refilled(e) = Burst
  BY LimiterAssumption DEF TypeOK, TimeInv, Refilled, Capped

LEMMA LevelFacts ==
  ASSUME TypeOK, TimeInv, NEW k \in Keys
  PROVE  Level(k) \in 0..Burst
  BY RefilledFacts, LimiterAssumption DEF TypeOK, Level

(* A tick adds one unit to a bucket that is not full.                      *)
LEMMA LevelTick ==
  ASSUME TypeOK, TimeInv, Tick, NEW k \in Keys
  PROVE  Level(k)' = IF Level(k) < Burst THEN Level(k) + 1 ELSE Burst
  <1>1. /\ clock' = clock + 1 /\ clock \in Nat
        /\ UNCHANGED <<entries, tokens, lastSeen, doomed>>
    BY DEF Tick, TypeOK, bucketVars, sweepVars
  <1>2. CASE entries[k] = NoEntry \/ doomed = k
    BY <1>1, <1>2, LimiterAssumption DEF Level
  <1>3. CASE ~(entries[k] = NoEntry \/ doomed = k)
    <2> DEFINE e == entries[k]
    <2>1. e \in Entries
      BY <1>3 DEF TypeOK
    <2>2. tokens[e] \in 0..Burst /\ lastSeen[e] \in Nat /\ lastSeen[e] <= clock
      BY <2>1 DEF TypeOK, TimeInv
    <2>3. Level(k) = Capped(tokens[e] + (clock - lastSeen[e]))
      BY <1>3 DEF Level, Refilled
    <2>4. Level(k)' = Capped(tokens[e] + (clock + 1 - lastSeen[e]))
      <3>1. Level(k)' = Refilled(e)'
        BY <1>1, <1>3 DEF Level
      <3>2. e' = e /\ tokens'[e] = tokens[e] /\ lastSeen'[e] = lastSeen[e]
        BY <1>1
      <3>3. Refilled(e)' = Capped(tokens[e] + (clock + 1 - lastSeen[e]))
        BY <1>1, <3>2, <2>2 DEF Refilled, Capped
      <3> QED BY <3>1, <3>3
    <2> QED BY <1>1, <2>2, <2>3, <2>4, LimiterAssumption DEF Capped
  <1> QED BY <1>2, <1>3

(* A bucket whose entry, clock and doom stay as they are stays as it is.    *)
LEMMA LevelSame ==
  ASSUME NEW k \in Keys, clock' = clock, entries'[k] = entries[k],
         (doomed' = k) <=> (doomed = k),
         entries[k] # NoEntry =>
           (tokens'[entries[k]] = tokens[entries[k]] /\ lastSeen'[entries[k]] = lastSeen[entries[k]])
  PROVE  Level(k)' = Level(k)
  BY DEF Level, Refilled, Capped

-----------------------------------------------------------------------------
LEMMA IInvInit == Init => IInv
  <1> SUFFICES ASSUME Init PROVE IInv
    OBVIOUS
  <1>1. TypeOK
    BY LimiterAssumption DEF Init, TypeOK
  <1>2. EntriesInv /\ SweepInv /\ TimeInv /\ SwitchInv
    BY LimiterAssumption DEF Init, EntriesInv, SweepInv, TimeInv, SwitchInv
  <1>3. WithinBudget
    BY LimiterAssumption DEF Init, WithinBudget, Level
  <1> QED BY <1>1, <1>2, <1>3 DEF IInv, LimiterInv

LEMMA TypeStep == IInv /\ [Next]_vars => TypeOK'
  <1> SUFFICES ASSUME IInv, [Next]_vars PROVE TypeOK'
    OBVIOUS
  <1> USE DEF settingVars, bucketVars, requestVars, sweepVars, Goto
  <1>1. TypeOK /\ EntriesInv /\ SweepInv /\ TimeInv /\ Burst \in Nat
    BY LimiterAssumption DEF IInv, LimiterInv
  <1>2. CASE Tick
    BY <1>1, <1>2 DEF Tick, TypeOK
  <1>3. ASSUME NEW on \in BOOLEAN, SetEnabled(on) PROVE TypeOK'
    BY <1>1, <1>3 DEF SetEnabled, TypeOK
  <1>4. ASSUME NEW on \in BOOLEAN, NEW k \in Keys, SetExempt(k, on) PROVE TypeOK'
    BY <1>1, <1>4 DEF SetExempt, TypeOK
  <1>5. ASSUME NEW r \in Requests, NEW k \in Keys, Arrive(r, k) PROVE TypeOK'
    BY <1>1, <1>5 DEF Arrive, TypeOK
  <1>6. ASSUME NEW r \in Requests, NEW read \in BOOLEAN, RateLimitApplies(r, read) PROVE TypeOK'
    BY <1>1, <1>6 DEF RateLimitApplies, TypeOK
  <1>7. ASSUME NEW r \in Requests, Lookup(r) PROVE TypeOK'
    <2>1. PICK e \in Entries : (Find(r, e) \/ Create(r, e)) /\ entry' = [entry EXCEPT ![r] = e]
      BY <1>7 DEF Lookup
    <2> QED BY <1>1, <1>7, <2>1 DEF Lookup, Find, Create, TypeOK
  <1>8. ASSUME NEW r \in Requests, Take(r) PROVE TypeOK'
    <2>1. entry[r] \in Entries
      BY <1>1, <1>8 DEF Take, TypeOK, EntriesInv
    <2>2. Refilled(entry[r]) \in 0..Burst
      BY <1>1, <2>1, RefilledFacts
    <2>3. (IF Refilled(entry[r]) >= Cost THEN Refilled(entry[r]) - Cost ELSE Refilled(entry[r])) \in 0..Burst
      BY <2>2, LimiterAssumption
    <2>4. of[r] \in Keys
      BY <1>1, <1>8 DEF Take, TypeOK, EntriesInv
    <2>5. budget' \in [Keys -> Int]
      BY <1>1, <1>8, <2>4, LimiterAssumption DEF Take, TypeOK
    <2> QED BY <1>1, <1>8, <2>1, <2>3, <2>5 DEF Take, TypeOK
  <1>9. ASSUME NEW r \in Requests, Leave(r) PROVE TypeOK'
    BY <1>1, <1>9 DEF Leave, TypeOK
  <1>10. CASE PruneWake \/ Prune
    BY <1>1, <1>10 DEF PruneWake, Prune, PruneLock, PruneRead, PruneDelete, PruneUnlock, TypeOK
  <1>11. ASSUME NEW k \in Keys, Watch(k) PROVE TypeOK'
    BY <1>1, <1>11 DEF Watch, TypeOK
  <1>12. CASE UNCHANGED vars
    BY <1>1, <1>12 DEF vars, TypeOK
  <1> QED BY <1>2, <1>3, <1>4, <1>5, <1>6, <1>7, <1>8, <1>9, <1>10, <1>11, <1>12 DEF Next, RequestStep

-----------------------------------------------------------------------------
(* The entries, the sweep and the switches.                                *)

LEMMA EntriesStep == IInv /\ [Next]_vars => EntriesInv'
  <1> SUFFICES ASSUME IInv, [Next]_vars PROVE EntriesInv'
    OBVIOUS
  <1> USE DEF settingVars, bucketVars, requestVars, sweepVars, Goto
  <1>1. TypeOK /\ EntriesInv /\ SweepInv /\ NoKey \notin Keys /\ NoEntry \notin Entries
    BY LimiterAssumption DEF IInv, LimiterInv
  <1>2. ASSUME NEW r \in Requests, NEW k \in Keys, Arrive(r, k) PROVE EntriesInv'
    BY <1>1, <1>2 DEF Arrive, TypeOK, EntriesInv
  <1>3. ASSUME NEW r \in Requests, NEW read \in BOOLEAN, RateLimitApplies(r, read) PROVE EntriesInv'
    BY <1>1, <1>3 DEF RateLimitApplies, TypeOK, EntriesInv
  <1>4. ASSUME NEW r \in Requests, Lookup(r) PROVE EntriesInv'
    <2>1. PICK e \in Entries : (Find(r, e) \/ Create(r, e)) /\ entry' = [entry EXCEPT ![r] = e]
      BY <1>4 DEF Lookup
    <2>2. stage[r] = "limited" /\ stage' = [stage EXCEPT ![r] = "found"] /\ of' = of /\ of[r] \in Keys
      BY <1>1, <1>4 DEF Lookup, TypeOK, EntriesInv
    <2>3. CASE Find(r, e)
      BY <1>1, <2>1, <2>2, <2>3 DEF Find, TypeOK, EntriesInv
    <2>4. CASE Create(r, e)
      BY <1>1, <2>1, <2>2, <2>4 DEF Create, Fresh, TypeOK, EntriesInv
    <2> QED BY <2>1, <2>3, <2>4
  <1>5. ASSUME NEW r \in Requests, Take(r) PROVE EntriesInv'
    BY <1>1, <1>5 DEF Take, TypeOK, EntriesInv
  <1>6. ASSUME NEW r \in Requests, Leave(r) PROVE EntriesInv'
    BY <1>1, <1>6 DEF Leave, TypeOK, EntriesInv
  <1>7. CASE PruneDelete
    BY <1>1, <1>7 DEF PruneDelete, TypeOK, EntriesInv
  <1>8. CASE UNCHANGED <<entries, stage, of, entry>>
    BY <1>1, <1>8 DEF EntriesInv
  <1> QED BY <1>2, <1>3, <1>4, <1>5, <1>6, <1>7, <1>8
          DEF Next, RequestStep, Tick, SetEnabled, SetExempt, PruneWake, Prune, PruneLock,
              PruneRead, PruneUnlock, Watch, vars

LEMMA SweepStep == IInv /\ [Next]_vars => SweepInv'
  <1> SUFFICES ASSUME IInv, [Next]_vars PROVE SweepInv'
    OBVIOUS
  <1> USE DEF settingVars, bucketVars, requestVars, sweepVars
  <1>1. TypeOK /\ SweepInv /\ NoKey \notin Keys /\ NoEntry \notin Entries
    BY LimiterAssumption DEF IInv, LimiterInv
  <1>2. ASSUME NEW r \in Requests, Lookup(r) PROVE SweepInv'
    BY <1>1, <1>2 DEF Lookup, MapFree, SweepInv
  <1>3. CASE PruneWake \/ PruneLock \/ PruneUnlock
    BY <1>1, <1>3 DEF PruneWake, PruneLock, PruneUnlock, SweepInv, TypeOK
  <1>4. ASSUME NEW k \in Keys, PruneRead(k) PROVE SweepInv'
    BY <1>1, <1>4 DEF PruneRead, SweepInv, TypeOK
  <1>5. CASE PruneDelete
    BY <1>1, <1>5 DEF PruneDelete, SweepInv, TypeOK
  <1>6. CASE UNCHANGED <<entries, sweep, unseen, doomed>>
    BY <1>1, <1>6 DEF SweepInv
  <1> QED BY <1>2, <1>3, <1>4, <1>5, <1>6
          DEF Next, RequestStep, Tick, SetEnabled, SetExempt, Arrive, RateLimitApplies, Take, Leave,
              Prune, Watch, vars

LEMMA TimeStep == IInv /\ [Next]_vars => TimeInv'
  <1> SUFFICES ASSUME IInv, [Next]_vars PROVE TimeInv'
    OBVIOUS
  <1> USE DEF settingVars, bucketVars, requestVars, sweepVars
  <1>1. TypeOK /\ TimeInv
    BY DEF IInv, LimiterInv
  <1>2. CASE Tick
    BY <1>1, <1>2 DEF Tick, TimeInv, TypeOK
  <1>3. ASSUME NEW r \in Requests, Lookup(r) PROVE TimeInv'
    BY <1>1, <1>3 DEF Lookup, Find, Create, TimeInv, TypeOK
  <1>4. ASSUME NEW r \in Requests, Take(r) PROVE TimeInv'
    BY <1>1, <1>4 DEF Take, TimeInv, TypeOK
  <1>5. CASE PruneWake \/ PruneUnlock
    BY <1>1, <1>5 DEF PruneWake, PruneUnlock, TimeInv, TypeOK
  <1>6. CASE UNCHANGED <<clock, lastSeen, cutoff>>
    BY <1>1, <1>6 DEF TimeInv
  <1> QED BY <1>2, <1>3, <1>4, <1>5, <1>6
          DEF Next, RequestStep, SetEnabled, SetExempt, Arrive, RateLimitApplies, Leave, Prune,
              PruneLock, PruneRead, PruneDelete, Watch, vars

LEMMA SwitchStep == IInv /\ [Next]_vars => SwitchInv'
  <1> SUFFICES ASSUME IInv, [Next]_vars PROVE SwitchInv'
    OBVIOUS
  <1> USE DEF settingVars, bucketVars, requestVars, sweepVars, Goto
  <1>1. TypeOK /\ SwitchInv
    BY DEF IInv, LimiterInv
  <1>2. ASSUME NEW on \in BOOLEAN, SetEnabled(on) PROVE SwitchInv'
    BY <1>1, <1>2 DEF SetEnabled, SwitchInv, TypeOK
  <1>3. ASSUME NEW on \in BOOLEAN, NEW k \in Keys, SetExempt(k, on) PROVE SwitchInv'
    BY <1>1, <1>3 DEF SetExempt, SwitchInv, TypeOK
  <1>4. ASSUME NEW r \in Requests, NEW k \in Keys, Arrive(r, k) PROVE SwitchInv'
    <2>1. stage' = [stage EXCEPT ![r] = IF exempt[k] THEN "unlimited" ELSE "reading"]
      BY <1>4 DEF Arrive
    <2>2. CASE exempt[k] \/ ~enabled
      BY <1>1, <1>4, <2>1, <2>2 DEF Arrive, SwitchInv, TypeOK
    <2>3. CASE ~exempt[k] /\ enabled
      BY <1>1, <1>4, <2>1, <2>3 DEF Arrive, SwitchInv, TypeOK
    <2> QED BY <2>2, <2>3
  <1>5. ASSUME NEW r \in Requests, NEW read \in BOOLEAN, RateLimitApplies(r, read) PROVE SwitchInv'
    <2>1. CASE Applies(read)
      BY <1>1, <1>5, <2>1 DEF RateLimitApplies, SwitchInv, TypeOK
    <2>2. CASE ~Applies(read)
      <3>1. ~enabled /\ r \in excused
        BY <1>1, <1>5, <2>2 DEF RateLimitApplies, Applies, SwitchInv
      <3> QED BY <1>1, <1>5, <2>2, <3>1 DEF RateLimitApplies, SwitchInv, TypeOK
    <2> QED BY <2>1, <2>2
  <1>6. ASSUME NEW r \in Requests, Lookup(r) \/ Take(r) \/ Leave(r) PROVE SwitchInv'
    <2>1. CASE Lookup(r)
      BY <1>1, <2>1 DEF Lookup, SwitchInv, TypeOK
    <2>2. CASE Take(r)
      BY <1>1, <2>2 DEF Take, SwitchInv, TypeOK
    <2>3. CASE Leave(r)
      BY <1>1, <2>3 DEF Leave, SwitchInv, TypeOK
    <2> QED BY <1>6, <2>1, <2>2, <2>3
  <1>7. CASE UNCHANGED <<enabled, stage, excused>>
    BY <1>1, <1>7 DEF SwitchInv
  <1> QED BY <1>2, <1>3, <1>4, <1>5, <1>6, <1>7
          DEF Next, RequestStep, Tick, PruneWake, Prune, PruneLock, PruneRead, PruneDelete,
              PruneUnlock, Watch, vars

-----------------------------------------------------------------------------
(* What each step does to the buckets, and to the requests it overtakes.   *)

Steady == /\ \A k \in Keys : Level(k)' = Level(k)
          /\ \A q \in Requests : Overtaken(q)' <=> Overtaken(q)

LEMMA LookupLevels ==
  ASSUME IInv, NEW r \in Requests, Lookup(r)
  PROVE  Steady
  <1> USE DEF bucketVars, sweepVars, Goto
  <1>1. TypeOK /\ EntriesInv /\ SweepInv /\ TimeInv
        /\ NoKey \notin Keys /\ NoEntry \notin Entries /\ Burst \in Nat
    BY LimiterAssumption DEF IInv, LimiterInv
  <1>2. PICK e \in Entries : (Find(r, e) \/ Create(r, e)) /\ entry' = [entry EXCEPT ![r] = e]
    BY DEF Lookup
  <1>3. /\ stage[r] = "limited" /\ stage' = [stage EXCEPT ![r] = "found"]
        /\ of' = of /\ of[r] \in Keys /\ doomed' = doomed /\ doomed = NoKey /\ clock' = clock
    BY <1>1 DEF Lookup, MapFree, TypeOK, EntriesInv, SweepInv
  <1>4. entries'[of[r]] = e /\ \A k \in Keys : k # of[r] => entries'[k] = entries[k]
    BY <1>1, <1>2, <1>3 DEF Find, Create, TypeOK
  <1>5. ASSUME NEW k \in Keys PROVE Level(k)' = Level(k)
    <2>1. CASE Find(r, e)
      BY <1>3, <2>1, LevelSame DEF Find
    <2>2. CASE Create(r, e) /\ k = of[r]
      <3>1. Level(k) = Burst
        BY <2>2 DEF Create, Level
      <3>2. Level(k)' = Refilled(e)'
        BY <1>1, <1>3, <1>4, <2>2 DEF Level
      <3>3. tokens'[e] = Burst /\ lastSeen'[e] = clock /\ clock \in Nat
        BY <1>1, <2>2 DEF Create, TypeOK
      <3>4. Refilled(e)' = Burst
        BY <1>1, <1>3, <3>3 DEF Refilled, Capped
      <3> QED BY <3>1, <3>2, <3>4
    <2>3. CASE Create(r, e) /\ k # of[r]
      <3>1. entries[k] # e
        BY <2>3 DEF Create, Fresh
      <3>2. entries[k] # NoEntry => tokens'[entries[k]] = tokens[entries[k]] /\ lastSeen'[entries[k]] = lastSeen[entries[k]]
        BY <1>1, <2>3, <3>1 DEF Create, TypeOK
      <3> QED BY <1>3, <1>4, <2>3, <3>2, LevelSame
    <2> QED BY <1>2, <2>1, <2>2, <2>3
  <1>6. ASSUME NEW q \in Requests PROVE Overtaken(q)' <=> Overtaken(q)
    <2>1. CASE q = r
      BY <1>1, <1>2, <1>3, <1>4, <2>1 DEF Overtaken, TypeOK
    <2>2. CASE q # r
      <3>1. stage'[q] = stage[q] /\ entry'[q] = entry[q]
        BY <1>1, <1>2, <1>3, <2>2 DEF TypeOK
      <3>2. CASE stage[q] # "found"
        BY <3>1, <3>2 DEF Overtaken
      <3>3. CASE stage[q] = "found"
        <4>1. of[q] \in Keys /\ entry[q] # NoEntry
          BY <1>1, <3>3 DEF EntriesInv, TypeOK
        <4>2. (entries'[of[q]] = entry[q]) <=> (entries[of[q]] = entry[q])
          BY <1>1, <1>2, <1>3, <1>4, <4>1 DEF Find, Create, Fresh, EntriesInv
        <4> QED BY <1>3, <3>1, <4>2 DEF Overtaken
      <3> QED BY <3>2, <3>3
    <2> QED BY <2>1, <2>2
  <1> QED BY <1>5, <1>6 DEF Steady

LEMMA TakeLevels ==
  ASSUME IInv, NEW r \in Requests, Take(r)
  PROVE  /\ of[r] \in Keys
         /\ \A k \in Keys : Level(k)' =
              IF ~Overtaken(r) /\ k = of[r] /\ Level(k) >= Cost THEN Level(k) - Cost ELSE Level(k)
         /\ ~Overtaken(r) => stage' = [stage EXCEPT ![r] = IF Level(of[r]) >= Cost THEN "passed" ELSE "refused"]
         /\ \A q \in Requests : Overtaken(q)' <=> Overtaken(q) /\ q # r
  <1> USE DEF bucketVars, sweepVars, Goto
  <1>1. TypeOK /\ EntriesInv /\ SweepInv /\ TimeInv /\ NoEntry \notin Entries
        /\ Burst \in Nat /\ Cost \in Nat
    BY LimiterAssumption DEF IInv, LimiterInv
  <1>2. /\ stage[r] = "found" /\ entry[r] \in Entries /\ of[r] \in Keys
        /\ UNCHANGED <<clock, entries, of, doomed>>
    BY <1>1 DEF Take, TypeOK, EntriesInv
  <1>3. PICK e \in Entries : e = entry[r]
    BY <1>2
  <1>4. PICK old \in 0..Burst : old = Refilled(e)
    BY <1>1, RefilledFacts
  <1>5. PICK new \in 0..Burst : new = IF old >= Cost THEN old - Cost ELSE old
    <2>1. (IF old >= Cost THEN old - Cost ELSE old) \in 0..Burst
      BY <1>1
    <2> QED BY <2>1
  <1>6. /\ tokens' = [tokens EXCEPT ![e] = new] /\ lastSeen' = [lastSeen EXCEPT ![e] = clock]
        /\ stage' = [stage EXCEPT ![r] = IF old >= Cost THEN "passed" ELSE "refused"]
        /\ entry' = [entry EXCEPT ![r] = NoEntry]
    BY <1>3, <1>4, <1>5 DEF Take
  <1>7. Refilled(e)' = new
    <2>1. tokens'[e] = new /\ lastSeen'[e] = clock /\ clock' = clock /\ clock \in Nat
      BY <1>1, <1>2, <1>6 DEF TypeOK
    <2>2. Refilled(e)' = Capped(tokens'[e] + (clock' - lastSeen'[e]))
      BY DEF Refilled, Capped
    <2> QED BY <1>1, <2>1, <2>2 DEF Capped
  <1>8. \A q \in Requests \ {r} : stage'[q] = stage[q] /\ entry'[q] = entry[q]
    BY <1>1, <1>6 DEF TypeOK
  <1>9. \A q \in Requests : Overtaken(q)' <=> Overtaken(q) /\ q # r
    BY <1>1, <1>2, <1>6, <1>8 DEF Overtaken, TypeOK
  <1>10. \A k \in Keys : entries[k] = e => k = of[r]
    BY <1>1, <1>2, <1>3 DEF EntriesInv
  <1>11. ASSUME NEW k \in Keys, entries[k] # e \/ doomed = k PROVE Level(k)' = Level(k)
    <2>1. CASE doomed = k
      BY <1>2, <2>1 DEF Level
    <2>2. CASE entries[k] # e
      BY <1>1, <1>2, <1>6, <2>2, LevelSame DEF TypeOK
    <2> QED BY <1>11, <2>1, <2>2
  <1>12. CASE Overtaken(r)
    <2>1. \A k \in Keys : entries[k] # e \/ doomed = k
      BY <1>3, <1>10, <1>12 DEF Overtaken
    <2> QED BY <1>2, <1>9, <1>11, <1>12, <2>1
  <1>13. CASE ~Overtaken(r)
    <2>1. PICK k \in Keys : k = of[r]
      BY <1>2
    <2>2. entries[k] = e /\ doomed # k /\ e # NoEntry
      BY <1>1, <1>2, <1>3, <1>13, <2>1 DEF Overtaken
    <2>3. Level(k) = old /\ Level(k)' = new
      BY <1>2, <1>4, <1>7, <2>2 DEF Level
    <2>4. \A j \in Keys : j # k => Level(j)' = Level(j)
      BY <1>10, <1>11, <2>1
    <2>5. \A j \in Keys : Level(j)' =
              IF j = k /\ Level(j) >= Cost THEN Level(j) - Cost ELSE Level(j)
      <3>1. Level(k)' = IF Level(k) >= Cost THEN Level(k) - Cost ELSE Level(k)
        BY <1>5, <2>3
      <3> QED BY <2>4, <3>1
    <2> QED BY <1>2, <1>6, <1>9, <1>13, <2>1, <2>3, <2>5
  <1> QED BY <1>12, <1>13

LEMMA PruneReadLevels ==
  ASSUME IInv, NEW k \in Keys, PruneRead(k)
  PROVE  /\ \A j \in Keys : Level(j)' = Level(j)
         /\ Stale(entries[k]) => Level(k) = Burst
         /\ \A q \in Requests : Overtaken(q)' <=>
              Overtaken(q) \/ (Stale(entries[k]) /\ stage[q] = "found" /\ of[q] = k)
  <1> USE DEF bucketVars, requestVars
  <1>1. TypeOK /\ EntriesInv /\ SweepInv /\ TimeInv /\ NoKey \notin Keys /\ NoEntry \notin Entries
        /\ Burst \in Nat /\ StaleAfter \in Nat /\ StaleAfter >= Burst
    BY LimiterAssumption DEF IInv, LimiterInv
  <1>2. /\ doomed = NoKey /\ doomed' = (IF Stale(entries[k]) THEN k ELSE NoKey)
        /\ UNCHANGED <<clock, entries, tokens, lastSeen, stage, of, entry>>
        /\ entries[k] \in Entries
    BY <1>1 DEF PruneRead, SweepInv, TypeOK
  <1>3. Stale(entries[k]) => Refilled(entries[k]) = Burst
    <2>1. lastSeen[entries[k]] \in Nat /\ cutoff \in Nat /\ clock \in Nat /\ cutoff <= clock
      BY <1>1, <1>2 DEF TypeOK, TimeInv
    <2>2. Stale(entries[k]) => lastSeen[entries[k]] + Burst <= clock
      BY <1>1, <2>1 DEF Stale
    <2> QED BY <1>1, <1>2, <2>2, RefilledFacts
  <1>4. Stale(entries[k]) => Level(k) = Burst
    BY <1>1, <1>2, <1>3 DEF Level
  <1>5. \A j \in Keys : Level(j)' = Level(j)
    <2>1. ASSUME NEW j \in Keys, j # k \/ ~Stale(entries[k]) PROVE Level(j)' = Level(j)
      BY <1>1, <1>2, <2>1, LevelSame
    <2>2. ASSUME Stale(entries[k]) PROVE Level(k)' = Level(k)
      BY <1>2, <1>4, <2>2 DEF Level
    <2> QED BY <2>1, <2>2
  <1>6. \A q \in Requests : Overtaken(q)' <=>
              Overtaken(q) \/ (Stale(entries[k]) /\ stage[q] = "found" /\ of[q] = k)
    BY <1>1, <1>2 DEF Overtaken, EntriesInv, TypeOK
  <1> QED BY <1>4, <1>5, <1>6

LEMMA PruneDeleteLevels ==
  ASSUME IInv, PruneDelete
  PROVE  Steady
  <1> USE DEF requestVars
  <1>1. TypeOK /\ EntriesInv /\ NoKey \notin Keys /\ NoEntry \notin Entries
    BY LimiterAssumption DEF IInv, LimiterInv
  <1>2. /\ doomed \in Keys /\ doomed' = NoKey /\ entries' = [entries EXCEPT ![doomed] = NoEntry]
        /\ UNCHANGED <<clock, tokens, lastSeen, stage, of, entry>>
    BY <1>1 DEF PruneDelete, TypeOK
  <1>3. ASSUME NEW k \in Keys PROVE Level(k)' = Level(k)
    <2>1. CASE k = doomed
      BY <1>1, <1>2, <2>1 DEF Level, TypeOK
    <2>2. CASE k # doomed
      <3>1. entries'[k] = entries[k]
        BY <1>1, <1>2, <2>2 DEF TypeOK
      <3> QED BY <1>1, <1>2, <2>2, <3>1, LevelSame
    <2> QED BY <2>1, <2>2
  <1>4. ASSUME NEW q \in Requests PROVE Overtaken(q)' <=> Overtaken(q)
    <2>1. CASE stage[q] # "found"
      BY <1>2, <2>1 DEF Overtaken
    <2>2. CASE stage[q] = "found"
      <3>1. of[q] \in Keys /\ entry[q] # NoEntry
        BY <1>1, <2>2 DEF EntriesInv, TypeOK
      <3>2. of[q] # doomed => entries'[of[q]] = entries[of[q]]
        BY <1>1, <1>2, <3>1 DEF TypeOK
      <3>3. of[q] = doomed => entries'[of[q]] = NoEntry
        BY <1>1, <1>2, <3>1 DEF TypeOK
      <3> QED BY <1>1, <1>2, <2>2, <3>1, <3>2, <3>3 DEF Overtaken
    <2> QED BY <2>1, <2>2
  <1> QED BY <1>3, <1>4 DEF Steady

(* The other steps of requests, switches and sweep leave the buckets alone. *)
Aside ==
  \/ \E on \in BOOLEAN : SetEnabled(on) \/ \E k \in Keys : SetExempt(k, on)
  \/ \E r \in Requests : \/ \E read \in BOOLEAN : RateLimitApplies(r, read)
                         \/ Leave(r) \/ \E k \in Keys : Arrive(r, k)
  \/ PruneWake \/ PruneLock \/ PruneUnlock \/ (\E k \in Keys : Watch(k)) \/ UNCHANGED vars

LEMMA AsideLevels ==
  ASSUME IInv, Aside
  PROVE  /\ Steady
         /\ (\E k \in Keys : Watch(k)) \/ budget' = budget
  <1> USE DEF settingVars, bucketVars, requestVars, sweepVars, Goto
  <1>1. TypeOK /\ EntriesInv
    BY DEF IInv, LimiterInv
  <1>2. UNCHANGED <<clock, entries, tokens, lastSeen, entry, doomed>>
    BY DEF Aside, SetEnabled, SetExempt, RateLimitApplies, Leave, Arrive, PruneWake, PruneLock,
           PruneUnlock, Watch, vars
  <1>3. \A k \in Keys : Level(k)' = Level(k)
    BY <1>2, LevelSame
  <1>4. ASSUME NEW q \in Requests
        PROVE  /\ (stage'[q] = "found") <=> (stage[q] = "found")
               /\ stage[q] = "found" => of'[q] = of[q]
    <2>1. ASSUME NEW r \in Requests, NEW k \in Keys, Arrive(r, k)
          PROVE  /\ (stage'[q] = "found") <=> (stage[q] = "found")
                 /\ stage[q] = "found" => of'[q] = of[q]
      BY <1>1, <2>1 DEF Arrive, TypeOK
    <2>2. ASSUME NEW r \in Requests, NEW read \in BOOLEAN, RateLimitApplies(r, read) \/ Leave(r)
          PROVE  /\ (stage'[q] = "found") <=> (stage[q] = "found")
                 /\ stage[q] = "found" => of'[q] = of[q]
      BY <1>1, <2>2 DEF RateLimitApplies, Leave, TypeOK
    <2>3. CASE UNCHANGED <<stage, of>>
      BY <2>3
    <2> QED BY <2>1, <2>2, <2>3 DEF Aside, SetEnabled, SetExempt, PruneWake, PruneLock, PruneUnlock, Watch, vars
  <1>5. \A q \in Requests : Overtaken(q)' <=> Overtaken(q)
    BY <1>2, <1>4 DEF Overtaken
  <1>6. (\E k \in Keys : Watch(k)) \/ budget' = budget
    BY DEF Aside, SetEnabled, SetExempt, RateLimitApplies, Leave, Arrive, PruneWake, PruneLock,
           PruneUnlock, vars
  <1> QED BY <1>3, <1>5, <1>6 DEF Steady

-----------------------------------------------------------------------------
(* The budget.                                                             *)

LEMMA BudgetStep == IInv /\ [Next]_vars => WithinBudget'
  <1> SUFFICES ASSUME IInv, [Next]_vars PROVE WithinBudget'
    OBVIOUS
  <1>1. TypeOK /\ TimeInv /\ WithinBudget /\ budget \in [Keys -> Int] /\ Burst \in Nat /\ Cost \in Nat
    BY LimiterAssumption DEF IInv, LimiterInv, TypeOK
  <1>2. \A k \in Keys : Level(k) \in 0..Burst
    BY <1>1, LevelFacts
  <1>3. CASE Tick
    <2>1. budget' = [k \in Keys |-> budget[k] + 1]
      BY <1>3 DEF Tick
    <2>2. ASSUME NEW k \in Keys PROVE 0 <= Level(k)' /\ Level(k)' <= budget'[k]
      <3>1. Level(k)' = IF Level(k) < Burst THEN Level(k) + 1 ELSE Burst
        BY <1>1, <1>3, LevelTick
      <3>2. budget'[k] = budget[k] + 1 /\ Level(k) <= budget[k]
        BY <1>1, <2>1 DEF WithinBudget
      <3> QED BY <1>1, <1>2, <3>1, <3>2
    <2> QED BY <2>2 DEF WithinBudget
  <1>4. ASSUME NEW r \in Requests, Lookup(r) PROVE WithinBudget'
    BY <1>1, <1>4, LookupLevels DEF Lookup, Steady, WithinBudget
  <1>5. ASSUME NEW r \in Requests, Take(r) PROVE WithinBudget'
    <2>1. PICK j \in Keys : j = of[r]
      BY <1>5, TakeLevels
    <2>2. \A k \in Keys : Level(k)' =
            IF ~Overtaken(r) /\ k = j /\ Level(k) >= Cost THEN Level(k) - Cost ELSE Level(k)
      BY <1>5, <2>1, TakeLevels
    <2>3. CASE Overtaken(r)
      <3>1. budget' = budget
        BY <1>5, <2>3 DEF Take
      <3> QED BY <1>1, <2>2, <2>3, <3>1 DEF WithinBudget
    <2>4. CASE ~Overtaken(r) /\ Level(j) >= Cost
      <3>1. stage' = [stage EXCEPT ![r] = "passed"] /\ stage \in [Requests -> Stages]
        BY <1>1, <1>5, <2>1, <2>4, TakeLevels DEF TypeOK
      <3>2. Refilled(entry[r]) >= Cost
        BY <1>5, <3>1 DEF Take, Goto
      <3>3. budget' = [budget EXCEPT ![j] = @ - Cost]
        BY <1>5, <2>1, <2>4, <3>2 DEF Take
      <3>4. ASSUME NEW k \in Keys PROVE 0 <= Level(k)' /\ Level(k)' <= budget'[k]
        BY <1>1, <1>2, <2>2, <2>4, <3>3, <3>4 DEF WithinBudget
      <3> QED BY <3>4 DEF WithinBudget
    <2>5. CASE ~Overtaken(r) /\ ~(Level(j) >= Cost)
      <3>1. stage' = [stage EXCEPT ![r] = "refused"] /\ stage \in [Requests -> Stages]
        BY <1>1, <1>5, <2>1, <2>5, TakeLevels DEF TypeOK
      <3>2. ~(Refilled(entry[r]) >= Cost)
        BY <1>5, <3>1 DEF Take, Goto
      <3>3. budget' = budget
        BY <1>5, <3>2 DEF Take
      <3> QED BY <1>1, <2>2, <2>5, <3>3 DEF WithinBudget
    <2> QED BY <2>3, <2>4, <2>5
  <1>6. ASSUME NEW k \in Keys, PruneRead(k) PROVE WithinBudget'
    BY <1>1, <1>6, PruneReadLevels DEF PruneRead, WithinBudget
  <1>7. CASE PruneDelete
    BY <1>1, <1>7, PruneDeleteLevels DEF PruneDelete, Steady, WithinBudget
  <1>8. CASE Aside
    <2>1. \A k \in Keys : Level(k)' = Level(k)
      BY <1>8, AsideLevels DEF Steady
    <2>2. CASE budget' = budget
      BY <1>1, <2>1, <2>2 DEF WithinBudget
    <2>3. ASSUME NEW k \in Keys, Watch(k) PROVE WithinBudget'
      <3>1. budget' = [budget EXCEPT ![k] = Burst]
        BY <2>3 DEF Watch
      <3> QED BY <1>1, <1>2, <2>1, <3>1 DEF WithinBudget
    <2> QED BY <1>8, <2>2, <2>3, AsideLevels
  <1> QED BY <1>3, <1>4, <1>5, <1>6, <1>7, <1>8 DEF Next, RequestStep, Prune, Aside

LEMMA Inductive == Spec => []IInv
  <1>1. IInv /\ [Next]_vars => IInv'
    BY TypeStep, EntriesStep, SweepStep, TimeStep, SwitchStep, BudgetStep DEF IInv, LimiterInv
  <1> QED BY IInvInit, <1>1, PTL DEF Spec

(* TypeOK: every variable keeps its type; an entry never holds more than    *)
(* the burst, nor less than nothing.                                        *)
THEOREM TypeCorrect == Spec => []TypeOK
  <1>1. IInv => TypeOK
    BY DEF IInv
  <1> QED BY Inductive, <1>1, PTL

(* LimiterInv: what the pruning of the map relies on (entries, sweep, time) *)
(* holds in every reachable state.                                          *)
THEOREM InvariantCorrect == Spec => []LimiterInv
  <1>1. IInv => LimiterInv
    BY DEF IInv
  <1> QED BY Inductive, <1>1, PTL

(* WithinBudget: in any window of time a key takes no more than a burst and *)
(* what its bucket is refilled by (keyedRateLimiter).                       *)
THEOREM BudgetsHold == Spec => []WithinBudget
  <1>1. IInv => WithinBudget
    BY DEF IInv, LimiterInv
  <1> QED BY Inductive, <1>1, PTL

(* NoSilentBypass: only an exempt account, or a limit that is off, lets a   *)
(* request through uncounted (rateLimitApplies).                            *)
THEOREM NoBypass == Spec => []NoSilentBypass
  <1>1. IInv => NoSilentBypass
    BY DEF IInv, LimiterInv, SwitchInv, NoSilentBypass
  <1> QED BY Inductive, <1>1, PTL

-----------------------------------------------------------------------------
(* The refinement.                                                         *)

LEMMA BucketInit == Init => Bucket!Init
  BY LimiterAssumption DEF Init, Bucket!Init, Level, Overtaken

Asks(r) == IF stage[r] \in {"limited", "found"} THEN of[r] ELSE NoKey
Passed == {r \in Requests : stage[r] = "passed"}
Adrift == {r \in Requests : Overtaken(r)}

(* A step that changes no level, asks nothing and answers nothing.          *)
LEMMA BucketStutter ==
  ASSUME Steady, \A q \in Requests : Asks(q)' = Asks(q), Passed' = Passed
  PROVE  UNCHANGED Bucket!bucketVars
  BY DEF Steady, Asks, Passed, Bucket!bucketVars

LEMMA BucketStep == IInv /\ [Next]_vars => [Bucket!Next]_(Bucket!bucketVars)
  <1> SUFFICES ASSUME IInv, [Next]_vars PROVE Bucket!Next \/ UNCHANGED Bucket!bucketVars
    OBVIOUS
  <1> USE DEF settingVars, bucketVars, requestVars, sweepVars, Goto
  <1>1. TypeOK /\ EntriesInv /\ SweepInv /\ TimeInv /\ NoKey \notin Keys
        /\ Burst \in Nat /\ Cost \in Nat
    BY LimiterAssumption DEF IInv, LimiterInv
  <1>2. CASE Tick
    <2>1. UNCHANGED <<stage, of, entry, entries, doomed>>
      BY <1>2 DEF Tick
    <2>2. \A k \in Keys : Level(k)' = IF Level(k) < Burst THEN Level(k) + 1 ELSE Burst
      BY <1>1, <1>2, LevelTick
    <2>3. \A q \in Requests : Overtaken(q)' <=> Overtaken(q)
      BY <2>1 DEF Overtaken
    <2>4. Bucket!Fill
      BY <2>1, <2>2, <2>3 DEF Bucket!Fill
    <2> QED BY <2>4 DEF Bucket!Next
  <1>3. ASSUME NEW r \in Requests, Lookup(r) PROVE UNCHANGED Bucket!bucketVars
    <2>1. stage[r] = "limited" /\ stage' = [stage EXCEPT ![r] = "found"] /\ of' = of
      BY <1>3 DEF Lookup
    <2>2. \A q \in Requests : Asks(q)' = Asks(q)
      BY <1>1, <2>1 DEF Asks, TypeOK
    <2>3. Passed' = Passed
      BY <1>1, <2>1 DEF Passed, TypeOK
    <2> QED BY <1>3, <2>2, <2>3, LookupLevels, BucketStutter
  <1>4. ASSUME NEW r \in Requests, Take(r) PROVE Bucket!Next
    <2>1. PICK k \in Keys : k = of[r]
      BY <1>4, TakeLevels
    <2>2. /\ stage[r] = "found" /\ of' = of
          /\ \/ stage' = [stage EXCEPT ![r] = "passed"]
             \/ stage' = [stage EXCEPT ![r] = "refused"]
      BY <1>4 DEF Take
    <2>3. /\ [q \in Requests |-> Asks(q)]' = [[q \in Requests |-> Asks(q)] EXCEPT ![r] = NoKey]
          /\ Asks(r) = k
      BY <1>1, <2>1, <2>2 DEF Asks, TypeOK
    <2>4. \/ stage' = [stage EXCEPT ![r] = "passed"] /\ Passed' = Passed \union {r}
          \/ stage' = [stage EXCEPT ![r] = "refused"] /\ Passed' = Passed
      BY <1>1, <2>2 DEF Passed, TypeOK
    <2>5. Adrift' = Adrift \ {r}
      BY <1>4, TakeLevels DEF Adrift
    <2>6. CASE Overtaken(r)
      <3>1. [j \in Keys |-> Level(j)]' = [j \in Keys |-> Level(j)]
        BY <1>4, <2>6, TakeLevels
      <3>2. Bucket!AnswerAdrift(r)
        BY <2>1, <2>3, <2>4, <2>5, <2>6, <3>1 DEF Bucket!AnswerAdrift, Asks, Passed, Adrift
      <3> QED BY <3>2 DEF Bucket!Next
    <2>7. CASE ~Overtaken(r)
      <3>1. Adrift' = Adrift /\ r \notin Adrift
        BY <2>5, <2>7 DEF Adrift
      <3>2. \A j \in Keys : Level(j)' = IF j = k /\ Level(j) >= Cost THEN Level(j) - Cost ELSE Level(j)
        BY <1>4, <2>1, <2>7, TakeLevels
      <3>3. stage' = [stage EXCEPT ![r] = IF Level(k) >= Cost THEN "passed" ELSE "refused"]
        BY <1>4, <2>1, <2>7, TakeLevels
      <3>4. CASE Level(k) >= Cost
        <4>1. Passed' = Passed \union {r}
          BY <1>1, <2>4, <3>3, <3>4 DEF TypeOK
        <4>2. [j \in Keys |-> Level(j)]' = [[j \in Keys |-> Level(j)] EXCEPT ![k] = @ - Cost]
          BY <3>2, <3>4
        <4>3. Bucket!Pass(r)
          BY <2>1, <2>3, <3>1, <3>4, <4>1, <4>2 DEF Bucket!Pass, Asks, Passed, Adrift
        <4> QED BY <4>3 DEF Bucket!Next
      <3>5. CASE ~(Level(k) >= Cost)
        <4>1. Passed' = Passed
          BY <1>1, <2>4, <3>3, <3>5 DEF TypeOK
        <4>2. [j \in Keys |-> Level(j)]' = [j \in Keys |-> Level(j)]
          BY <3>2, <3>5
        <4>3. Level(k) < Cost
          BY <1>1, <3>5, LevelFacts
        <4>4. Bucket!Refuse(r)
          BY <2>1, <2>3, <3>1, <4>1, <4>2, <4>3 DEF Bucket!Refuse, Asks, Passed, Adrift
        <4> QED BY <4>4 DEF Bucket!Next
      <3> QED BY <3>4, <3>5
    <2> QED BY <2>6, <2>7
  <1>5. ASSUME NEW k \in Keys, PruneRead(k) PROVE Bucket!Next \/ UNCHANGED Bucket!bucketVars
    <2>1. UNCHANGED <<stage, of>>
      BY <1>5 DEF PruneRead
    <2>2. CASE ~Stale(entries[k])
      <3>1. Steady
        BY <1>5, <2>2, PruneReadLevels DEF Steady
      <3> QED BY <2>1, <3>1, BucketStutter DEF Asks, Passed
    <2>3. CASE Stale(entries[k])
      <3>1. Level(k) = Burst /\ \A j \in Keys : Level(j)' = Level(j)
        BY <1>5, <2>3, PruneReadLevels
      <3> DEFINE S == {q \in Requests : stage[q] = "found" /\ of[q] = k}
      <3>2. Adrift' = Adrift \union S
        BY <1>5, <2>3, PruneReadLevels DEF Adrift
      <3>3. S \in SUBSET {q \in Requests : Asks(q) = k}
        BY DEF Asks
      <3>4. Bucket!Forget(k)
        BY <2>1, <3>1, <3>2, <3>3 DEF Bucket!Forget, Asks, Passed, Adrift
      <3> QED BY <3>4 DEF Bucket!Next
    <2> QED BY <2>2, <2>3
  <1>6. CASE PruneDelete
    BY <1>6, PruneDeleteLevels, BucketStutter DEF PruneDelete, Asks, Passed
  <1>7. ASSUME NEW r \in Requests, NEW k \in Keys, Arrive(r, k) PROVE UNCHANGED Bucket!bucketVars
    <2>1. Steady
      BY <1>7, AsideLevels DEF Aside
    <2>2. \A q \in Requests : Asks(q)' = Asks(q)
      BY <1>1, <1>7 DEF Arrive, Asks, TypeOK
    <2>3. Passed' = Passed
      BY <1>1, <1>7 DEF Arrive, Passed, TypeOK
    <2> QED BY <2>1, <2>2, <2>3, BucketStutter
  <1>8. ASSUME NEW r \in Requests, NEW read \in BOOLEAN, RateLimitApplies(r, read)
        PROVE  Bucket!Next \/ UNCHANGED Bucket!bucketVars
    <2>1. Steady
      BY <1>8, AsideLevels DEF Aside
    <2>2. Passed' = Passed
      BY <1>1, <1>8 DEF RateLimitApplies, Passed, TypeOK
    <2>3. CASE Applies(read)
      <3>1. PICK k \in Keys : k = of[r]
        BY <1>1, <1>8 DEF RateLimitApplies, EntriesInv, TypeOK
      <3>2. Asks(r) = NoKey /\ r \notin Passed
        BY <1>8 DEF RateLimitApplies, Asks, Passed
      <3>3. [q \in Requests |-> Asks(q)]' = [[q \in Requests |-> Asks(q)] EXCEPT ![r] = k]
        BY <1>1, <1>8, <2>3, <3>1 DEF RateLimitApplies, Asks, TypeOK
      <3>4. Bucket!Ask(r, k)
        BY <2>1, <2>2, <3>2, <3>3 DEF Bucket!Ask, Steady, Asks, Passed
      <3> QED BY <3>4 DEF Bucket!Next
    <2>4. CASE ~Applies(read)
      <3>1. \A q \in Requests : Asks(q)' = Asks(q)
        BY <1>1, <1>8, <2>4 DEF RateLimitApplies, Asks, TypeOK
      <3> QED BY <2>1, <2>2, <3>1, BucketStutter
    <2> QED BY <2>3, <2>4
  <1>9. ASSUME NEW r \in Requests, Leave(r) PROVE Bucket!Next \/ UNCHANGED Bucket!bucketVars
    <2>1. Steady
      BY <1>9, AsideLevels DEF Aside
    <2>2. \A q \in Requests : Asks(q)' = Asks(q)
      BY <1>1, <1>9 DEF Leave, Asks, TypeOK
    <2>3. Passed' = Passed \ {r}
      BY <1>1, <1>9 DEF Leave, Passed, TypeOK
    <2>4. CASE r \in Passed
      <3>1. Bucket!Leave(r)
        BY <2>1, <2>2, <2>3, <2>4 DEF Bucket!Leave, Steady, Asks, Passed
      <3> QED BY <3>1 DEF Bucket!Next
    <2>5. CASE r \notin Passed
      <3>1. Passed' = Passed
        BY <2>3, <2>5
      <3> QED BY <2>1, <2>2, <3>1, BucketStutter
    <2> QED BY <2>4, <2>5
  <1>10. ASSUME Aside, UNCHANGED <<stage, of>> PROVE UNCHANGED Bucket!bucketVars
    BY <1>10, AsideLevels, BucketStutter DEF Asks, Passed
  <1>11. ASSUME Aside
         PROVE  \/ UNCHANGED <<stage, of>>
                \/ \E r \in Requests : \/ \E read \in BOOLEAN : RateLimitApplies(r, read)
                                       \/ Leave(r) \/ \E k \in Keys : Arrive(r, k)
    BY <1>11 DEF Aside, SetEnabled, SetExempt, PruneWake, PruneLock, PruneUnlock, Watch, vars
  <1>12. CASE Aside
    BY <1>7, <1>8, <1>9, <1>10, <1>11, <1>12
  <1> QED BY <1>2, <1>3, <1>4, <1>5, <1>6, <1>12 DEF Next, RequestStep, Prune, Aside

(* BucketSpec: the limiter implements TokenBucket; what its pruning forgets *)
(* is only ever a full bucket.                                              *)
THEOREM ImplementsBucket == Spec => BucketSpec
  <1>1. Spec => Bucket!Init /\ [][Bucket!Next]_(Bucket!bucketVars)
    BY Inductive, BucketInit, BucketStep, PTL DEF Spec
  <1> QED BY <1>1 DEF BucketSpec, Bucket!Spec
=============================================================================
