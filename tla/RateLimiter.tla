----------------------------- MODULE RateLimiter -----------------------------
(***************************************************************************)
(* The limit on the syncs of an account: keyedRateLimiter, a token bucket  *)
(* for each key behind a map with a mutex, the loop that prunes the map,   *)
(* and what decides whether a request is limited at all (the exemption of  *)
(* the account, read by the middleware, and the global toggle, read by the *)
(* handler).  The limits by address of login, admin login and refresh are  *)
(* the same keyedRateLimiter without the two switches.                     *)
(*                                                                         *)
(* A tick of the clock (time.Now is monotonic) refills one unit; a request *)
(* costs Cost units, so that a bucket may hold a fraction of a token.  A   *)
(* step of a request is what happens under one lock.                       *)
(***************************************************************************)
EXTENDS Integers, FiniteSets

CONSTANTS
  Requests,           \* goroutines that serve syncs
  Keys, NoKey,        \* accounts; no account
  Entries, NoEntry,   \* rateLimitEntry values; no entry
  Cost, Burst,        \* one token, the burst, in units of one tick's refill
  StaleAfter,         \* staleAfter, in ticks
  MaxClock            \* bound: the clock of a behaviour

(* main.go gives 30 minutes to limits that refill within 30 seconds.       *)
ASSUME LimiterAssumption ==
  /\ NoKey \notin Keys /\ NoEntry \notin Entries
  /\ Cost \in Nat \ {0} /\ Burst \in Nat /\ StaleAfter \in Nat
  /\ StaleAfter >= Burst

VARIABLES
  clock,
  enabled, exempt,    \* server_settings; users.rate_limit_exempt
  entries,            \* keyedRateLimiter.entries
  tokens, lastSeen,   \* of an entry
  stage, of, entry,   \* of a request: its stage, its key, the entry it has found
  sweep, cutoff,      \* pruneLoop: its stage; the time it was woken
  unseen, doomed,     \* the keys it has not reached; the stale one it deletes next
  excused,            \* history: requests that were not limited at some moment
  budget              \* history: what a window of time still allows a key

settingVars == <<enabled, exempt>>
bucketVars == <<entries, tokens, lastSeen>>
requestVars == <<stage, of, entry>>
sweepVars == <<sweep, cutoff, unseen, doomed>>
vars == <<clock, settingVars, bucketVars, requestVars, sweepVars, excused, budget>>

Stages == {"idle", "reading", "limited", "found", "passed", "refused", "unlimited"}

Goto(r, s) == stage' = [stage EXCEPT ![r] = s]

(* l.mu is free: the prune loop holds it from its first key to its last.    *)
MapFree == sweep # "locked"

-----------------------------------------------------------------------------
Init ==
  /\ clock = 0
  /\ enabled = TRUE /\ exempt = [k \in Keys |-> FALSE]
  /\ entries = [k \in Keys |-> NoEntry]
  /\ tokens = [e \in Entries |-> 0] /\ lastSeen = [e \in Entries |-> 0]
  /\ stage = [r \in Requests |-> "idle"] /\ of = [r \in Requests |-> NoKey]
  /\ entry = [r \in Requests |-> NoEntry]
  /\ sweep = "waiting" /\ cutoff = 0 /\ unseen = {} /\ doomed = NoKey
  /\ excused = {}
  /\ budget = [k \in Keys |-> Burst]

Tick ==
  /\ clock < MaxClock /\ clock' = clock + 1
  /\ budget' = [k \in Keys |-> budget[k] + 1]
  /\ UNCHANGED <<settingVars, bucketVars, requestVars, sweepVars, excused>>

(* The administrator's two switches.  What the requests in flight have read *)
(* stays read.                                                             *)
SetEnabled(on) ==
  /\ enabled' = on
  /\ excused' = IF on THEN excused ELSE {r \in Requests : stage[r] # "idle"}
  /\ UNCHANGED <<clock, exempt, bucketVars, requestVars, sweepVars, budget>>

SetExempt(k, on) ==
  /\ exempt' = [exempt EXCEPT ![k] = on]
  /\ excused' = IF on THEN excused \union {r \in Requests : of[r] = k} ELSE excused
  /\ UNCHANGED <<clock, enabled, bucketVars, requestVars, sweepVars, budget>>

(* The middleware has read the status of the account with its session.     *)
Arrive(r, k) ==
  /\ stage[r] = "idle"
  /\ of' = [of EXCEPT ![r] = k]
  /\ Goto(r, IF exempt[k] THEN "unlimited" ELSE "reading")
  /\ excused' = IF exempt[k] \/ ~enabled THEN excused \union {r} ELSE excused
  /\ UNCHANGED <<clock, settingVars, bucketVars, entry, sweepVars, budget>>

(* Mutant: a toggle that cannot be read is off.                             *)
AppliesIfRead(read) == read /\ enabled

(* rateLimitApplies: a toggle that cannot be read is on.                    *)
Applies(read) == ~read \/ enabled

RateLimitApplies(r, read) ==
  /\ stage[r] = "reading"
  /\ Goto(r, IF Applies(read) THEN "limited" ELSE "unlimited")
  /\ UNCHANGED <<clock, settingVars, bucketVars, of, entry, sweepVars, excused, budget>>

-----------------------------------------------------------------------------
(* allow, under l.mu.  A new entry is one that nothing points to.           *)
Fresh(e) == (\A k \in Keys : entries[k] # e) /\ (\A r \in Requests : entry[r] # e)

Find(r, e) == entries[of[r]] = e /\ UNCHANGED bucketVars

Create(r, e) ==
  /\ entries[of[r]] = NoEntry /\ Fresh(e)
  /\ entries' = [entries EXCEPT ![of[r]] = e]
  /\ tokens' = [tokens EXCEPT ![e] = Burst]
  /\ lastSeen' = [lastSeen EXCEPT ![e] = clock]

Lookup(r) ==
  /\ stage[r] = "limited" /\ MapFree
  /\ \E e \in Entries :
       /\ Find(r, e) \/ Create(r, e)
       /\ entry' = [entry EXCEPT ![r] = e]
  /\ Goto(r, "found")
  /\ UNCHANGED <<clock, settingVars, of, sweepVars, excused, budget>>

Capped(x) == IF x > Burst THEN Burst ELSE x

(* Mutants: the refill is not capped; an entry holds no fraction of a token. *)
RefilledUncapped(e) == tokens[e] + (clock - lastSeen[e])
RefilledWhole(e) == Capped(tokens[e] + Cost * ((clock - lastSeen[e]) \div Cost))

(* allow, under e.mu.                                                       *)
Refilled(e) == Capped(tokens[e] + (clock - lastSeen[e]))

(* The entry a request has found is no longer, or is about to be no longer, *)
(* the entry of its key.                                                    *)
Overtaken(r) ==
  stage[r] = "found" /\ (entries[of[r]] # entry[r] \/ doomed = of[r])

Take(r) ==
  /\ stage[r] = "found"
  /\ LET e == entry[r]
         passes == Refilled(e) >= Cost
     IN  /\ tokens' = [tokens EXCEPT ![e] = IF passes THEN Refilled(e) - Cost ELSE Refilled(e)]
         /\ lastSeen' = [lastSeen EXCEPT ![e] = clock]
         /\ Goto(r, IF passes THEN "passed" ELSE "refused")
         /\ budget' = IF passes /\ ~Overtaken(r)
                      THEN [budget EXCEPT ![of[r]] = @ - Cost] ELSE budget
  /\ entry' = [entry EXCEPT ![r] = NoEntry]
  /\ UNCHANGED <<clock, settingVars, entries, of, sweepVars, excused>>

(* The handler goes on, or answers 429: nothing below reads these stages.   *)
Leave(r) ==
  /\ stage[r] \in {"passed", "refused", "unlimited"}
  /\ Goto(r, "idle") /\ of' = [of EXCEPT ![r] = NoKey]
  /\ excused' = excused \ {r}
  /\ UNCHANGED <<clock, settingVars, bucketVars, entry, sweepVars, budget>>

-----------------------------------------------------------------------------
(* pruneLoop: the cutoff is computed before the loop waits for l.mu.        *)
PruneWake ==
  /\ sweep = "waiting"
  /\ sweep' = "woken" /\ cutoff' = clock
  /\ UNCHANGED <<clock, settingVars, bucketVars, requestVars, unseen, doomed, excused, budget>>

PruneLock ==
  /\ sweep = "woken"
  /\ sweep' = "locked" /\ unseen' = {k \in Keys : entries[k] # NoEntry}
  /\ UNCHANGED <<clock, settingVars, bucketVars, requestVars, cutoff, doomed, excused, budget>>

(* Mutant: an entry is stale as soon as it is idle.                         *)
StaleWhenIdle(e) == lastSeen[e] < cutoff

Stale(e) == lastSeen[e] + StaleAfter < cutoff

(* Mutant: the loop goes back to the entries that it keeps.                 *)
PruneReadAgain(k) ==
  /\ sweep = "locked" /\ doomed = NoKey /\ k \in unseen
  /\ unseen' = IF Stale(entries[k]) THEN unseen \ {k} ELSE unseen
  /\ doomed' = IF Stale(entries[k]) THEN k ELSE NoKey
  /\ UNCHANGED <<clock, settingVars, bucketVars, requestVars, sweep, cutoff, excused, budget>>

(* lastSeen is read under e.mu, which is given back before the deletion.    *)
PruneRead(k) ==
  /\ sweep = "locked" /\ doomed = NoKey /\ k \in unseen
  /\ unseen' = unseen \ {k}
  /\ doomed' = IF Stale(entries[k]) THEN k ELSE NoKey
  /\ UNCHANGED <<clock, settingVars, bucketVars, requestVars, sweep, cutoff, excused, budget>>

PruneDelete ==
  /\ doomed # NoKey
  /\ entries' = [entries EXCEPT ![doomed] = NoEntry]
  /\ doomed' = NoKey
  /\ UNCHANGED <<clock, settingVars, tokens, lastSeen, requestVars, sweep, cutoff, unseen, excused, budget>>

PruneUnlock ==
  /\ sweep = "locked" /\ doomed = NoKey /\ unseen = {}
  /\ sweep' = "waiting" /\ cutoff' = 0
  /\ UNCHANGED <<clock, settingVars, bucketVars, requestVars, unseen, doomed, excused, budget>>

Prune == PruneLock \/ (\E k \in Keys : PruneRead(k)) \/ PruneDelete \/ PruneUnlock

(* History: a window opens at any moment.  It allows a burst, what the      *)
(* bucket is refilled by from then on, and no more.                         *)
Watch(k) ==
  /\ budget' = [budget EXCEPT ![k] = Burst]
  /\ UNCHANGED <<clock, settingVars, bucketVars, requestVars, sweepVars, excused>>

RequestStep(r) ==
  \/ \E read \in BOOLEAN : RateLimitApplies(r, read)
  \/ Lookup(r) \/ Take(r)

Next ==
  \/ Tick
  \/ \E on \in BOOLEAN : SetEnabled(on) \/ \E k \in Keys : SetExempt(k, on)
  \/ \E r \in Requests : RequestStep(r) \/ Leave(r) \/ \E k \in Keys : Arrive(r, k)
  \/ PruneWake \/ Prune
  \/ \E k \in Keys : Watch(k)

Spec == Init /\ [][Next]_vars

(* Go's mutex hands itself to a waiter that has waited for a millisecond:   *)
(* Lookup, which the prune loop disables, is strongly fair.                 *)
FairSpec ==
  /\ Spec /\ WF_vars(Prune)
  /\ \A r \in Requests : WF_vars(RequestStep(r)) /\ SF_vars(Lookup(r))

-----------------------------------------------------------------------------
(* Type correctness; no bucket holds more than the burst.                  *)
TypeOK ==
  /\ clock \in Nat
  /\ enabled \in BOOLEAN /\ exempt \in [Keys -> BOOLEAN]
  /\ entries \in [Keys -> Entries \union {NoEntry}]
  /\ tokens \in [Entries -> 0..Burst] /\ lastSeen \in [Entries -> Nat]
  /\ stage \in [Requests -> Stages] /\ of \in [Requests -> Keys \union {NoKey}]
  /\ entry \in [Requests -> Entries \union {NoEntry}]
  /\ sweep \in {"waiting", "woken", "locked"} /\ cutoff \in Nat
  /\ unseen \subseteq Keys /\ doomed \in Keys \union {NoKey}
  /\ excused \subseteq Requests
  /\ budget \in [Keys -> Int]

(* What the bucket of a key holds now: a key without an entry, or whose     *)
(* entry is about to be deleted, has a full one.                            *)
Level(k) ==
  IF entries[k] = NoEntry \/ doomed = k THEN Burst ELSE Refilled(entries[k])

(* keyedRateLimiter ("il contatore di una chiave sotto attacco attivo non   *)
(* viene mai azzerato a metà", and no "doppio burst"): in any window of     *)
(* time the requests of a key take no more than the burst and what has been *)
(* refilled since, whatever the prune loop deletes meanwhile; a request     *)
(* that was overtaken by a deletion is not counted.                         *)
WithinBudget == \A k \in Keys : 0 <= Level(k) /\ Level(k) <= budget[k]

(* The entries of two keys are never one, no request uses an entry of       *)
(* another key, and the sweep deletes only while it holds the map.          *)
EntriesInv ==
  /\ \A k, l \in Keys : entries[k] # NoEntry /\ entries[k] = entries[l] => k = l
  /\ \A r \in Requests, k \in Keys :
       entry[r] # NoEntry /\ entry[r] = entries[k] => of[r] = k
  /\ \A r \in Requests :
       /\ entry[r] # NoEntry <=> stage[r] = "found"
       /\ of[r] = NoKey <=> stage[r] = "idle"
  /\ \A r, q \in Requests : entry[r] # NoEntry /\ entry[r] = entry[q] => of[r] = of[q]
SweepInv ==
  /\ doomed # NoKey => sweep = "locked" /\ doomed \notin unseen
  /\ sweep # "locked" => unseen = {}
  /\ \A k \in unseen \union ({doomed} \ {NoKey}) : entries[k] # NoEntry
TimeInv ==
  /\ cutoff <= clock
  /\ \A e \in Entries : lastSeen[e] <= clock

(* The switches as the requests in flight have known them.                  *)
SwitchInv ==
  /\ ~enabled => {r \in Requests : stage[r] # "idle"} \subseteq excused
  /\ \A r \in Requests : stage[r] = "unlimited" => r \in excused

LimiterInv == EntriesInv /\ SweepInv /\ TimeInv /\ SwitchInv /\ WithinBudget

(* rateLimitApplies ("un errore DB non deve trasformarsi in un bypass       *)
(* silenzioso"): a request escapes the limit only if, at some moment since  *)
(* it arrived, its account was exempt or the limit was off.                 *)
NoSilentBypass == \A r \in Requests : stage[r] = "unlimited" => r \in excused

(* The limiter is a token bucket for each key that may forget a full one    *)
(* under the requests that were asking.                                     *)
Bucket == INSTANCE TokenBucket WITH
  level  <- [k \in Keys |-> Level(k)],
  asks   <- [r \in Requests |-> IF stage[r] \in {"limited", "found"} THEN of[r] ELSE NoKey],
  passed <- {r \in Requests : stage[r] = "passed"},
  adrift <- {r \in Requests : Overtaken(r)}
BucketSpec == Bucket!Spec

(* Every request that consults the limiter is answered, although the prune  *)
(* loop takes the map again and again.                                      *)
EveryRequestDecided ==
  \A r \in Requests : stage[r] \in {"reading", "limited", "found"}
                        ~> stage[r] \in {"passed", "refused", "unlimited"}
=============================================================================
