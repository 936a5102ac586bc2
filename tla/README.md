# A verification project for Scripta-backend

TLA+ models of the server of Scripta, a notes application that synchronises
devices through one Go process (or several) on a SQLite/libSQL database; TLC
configurations that check the models on small instances; and theorems about
them that TLAPS proves for every value of the constants.

All names of functions and files below are those of `src/`.

## 1. The system

| Component | State it keeps | Operations | Interacts with |
|---|---|---|---|
| **Delta synchronisation** (`handlers/api_sync.go`, `db/notes_repo.go`, `db/folders_repo.go`, `db/sync_state_repo.go`) | tables `notes`, `folders` (contents, `updated_at`, `synced_at`, `deleted`), `sync_state` (`stamp_last`, `stamp_hwm`) | push (clamp, LWW upsert, cascade, touch), stamp allocation, commit, two pull queries, full resync | admission before it, retention behind it, the devices |
| **Folder tree and batches** (`api_sync.go` from `applyFolders`, triggers of `db/db.go`) | `folders.parent_id`, `notes.folder_id` | two-pass application, deferral, cascade, ownership and cycle triggers, repair at start | the transaction of a sync, the sweep |
| **Admission** (`userLockSet`, `syncSlots` in `api_sync.go`) | locks by user with reference counts, a semaphore over decoded bodies | `acquire`, `Release`, `dropRef`, refusals | wraps `Sync` and `ResetOrdering` |
| **Sessions and tokens** (`handlers/api_auth.go`, `auth/jwt.go`, `db/refresh_tokens_repo.go`, `db/revocations_repo.go`, `middleware/auth.go`) | `refresh_tokens`, `user_token_revocations`, `revoked_tokens`, and their copies in the memory of every process | login, refresh with rotation, logout, logout-all, reload, restart, purge | `users` and its `password_version`, administration |
| **Tombstone retention** (`main.go` purge loop, `db/repo_shared.go`) | none of its own | sweep by a cutoff derived from `stamp_last` | delta, tree |
| **Server process and maintenance** (`main.go`, `db/maintenance.go`, pool of `db/db.go`) | the pool of connections, the two loops, the free pages of the file | start, requests, rounds of the maintenance, vacuum in steps, reload, signal, orderly stop, crash | everything uses the pool |
| **Administration** (`handlers/admin.go`, `auth/admin_session.go`) | `users`, admin sessions | block, unblock, reset, delete; settings, quota | sessions |
| **Note ordering** (`db/ordering_repo.go`) | `user_ordering` with a version | apply if the version is current, reset | transaction of a sync |
| **Storage quota** (`db/storage_repo.go`) | computed | usage before and after a batch | transaction of a sync |
| **Rate limiting** (`middleware/ratelimit.go`, `rateLimitApplies` in `api_sync.go`) | token buckets by key, the two switches | allow, prune, toggle, exempt | syncs by account; login, refresh, admin login by address |
| **Opening and migrating the database** (`db/db.go`) | schema | migrations, triggers, repair of cycles | tree |
| **HTTP shell** (`main.go`, `httpx`, the other middlewares) | none | routing, headers, timeouts | its timeouts justify fairness |

What is hard here:

* stamps are taken by several processes in any order, commits come later, and
  the pull of a sync runs *outside* its transaction; devices send requests
  again after lost answers, with cursors that are old by then;
* a tombstone may only be forgotten when no cursor can still need it, while
  clocks step in both directions;
* a batch is a sequence of rows whose order the client chooses, and the
  cascade, the triggers and the deferral all depend on it;
* a lock that is created, waited for, given up and dropped by reference count,
  with `select`s that may take the lock of a client that has gone;
* revocations that live in a table and in the memory of several processes, and
  logins and refreshes that overtake or are overtaken by the operation that
  ends all sessions;
* one connection in local mode for the requests, the maintenance and the
  reload, a vacuum that gives it back between its steps, and a stop whose
  deferred calls must wait for what still uses it;
* a map of buckets that is pruned while requests hold the buckets.

`PROJECT.json` lists these one by one under `hazards`, each at its line.

### What would make each component correct

* **Delta**: a cursor that a device has saved never passes an active row, or a
  tombstone, that the device does not have; stamps follow the order of the
  commits; the sweep forgets nothing that a device does not resync for.
* **Tree**: what is below a deleted folder is deleted, nothing else is; a batch
  never closes a cycle; the order inside a batch does not matter; sending a
  batch again changes nothing; a repaired folder is pulled by every client.
* **Admission**: one request of an account at a time; slots neither lost nor
  duplicated; entries do not leak; slow clients keep nobody out.
* **Sessions**: one usable refresh token per family; a revoked family stays so;
  what was closed or logged out does not pass again; only sessions of the
  current password pass.
* **Ordering**: a version stands for one state, whoever holds it; a device that
  has been away does not undo a reset.
* **Quota**: what grows stays within the limit, what shrinks is never refused,
  a limit stays a limit.
* **Rate limiting**: no window of time gives a key more than a burst and the
  refill, although entries are deleted; a failure to read the toggle does not
  lift the limit.
* **Server process**: the pool outlives its users; nobody waits for a
  connection for ever; the vacuum and the stop come to an end.

## 2. Modules

| Module | Models |
|---|---|
| `DeltaSync` | the protocol of `POST /api/v1/sync` for one account, several processes, devices, the sweep |
| `DeltaSyncInv`, `DeltaSyncProofs` | its inductive invariant; six theorems |
| `FolderTree` | one account's tree and the batches applied to it |
| `FolderTreeProofs`, `FolderOrderProofs` | forest, cascade and repair, six theorems; the order of a batch, one theorem |
| `AccountGate` | abstract specification: what the handlers rely on |
| `SyncAdmission`, `SyncAdmissionProofs` | lock set and slots, step by step; six theorems, among them that it implements `AccountGate` |
| `SessionFamilies` | abstract specification: a session is a chain of refresh tokens |
| `AuthSessions`, `AuthSessionsProofs` | login, refresh, logout, the closing of all sessions, the caches; nine theorems, among them that it implements `SessionFamilies` |
| `OrderingRegister` | abstract specification: the ordering is one register with a version |
| `OrderingQuota`, `OrderingQuotaProofs` | the placement of an account with its version, resets, and the space it may use; eight theorems, among them that it implements `OrderingRegister` |
| `TokenBucket` | abstract specification: a rate limit by key |
| `RateLimiter`, `RateLimiterProofs` | the limiter, its prune loop and the two switches; five theorems, among them that it implements `TokenBucket` |
| `ServerProcess`, `ServerProcessProofs` | `main`, the pool, the two loops, the vacuum; four theorems |
| `MC_Delta`, `MC_Tree`, `MC_Admission`, `MC_Sessions`, `MC_Ordering`, `MC_Limiter`, `MC_Server` | instances for TLC (constraints, symmetry, batches, which request belongs to whom) |

### DeltaSync

One account. A row is its status, its LWW time and an opaque body; the tree is
reduced to the folder a note lives in. `tab`/`synced` are the two tables,
`last`/`hwm` the two keys of `sync_state`. Each process has one request in
hand (the account is serialised within a process: `SyncAdmission`), with the
stages of `processLocked`:

    Reserve (BEGIN, AllocateStamp)  ->  Commit (clamp, LWW, cascade, touch, COMMIT)
      ->  PullFolders  ->  PullNotes (and the answer is sent)
    Abort at any stage of the transaction, Finish when the answer is out

Because the first write of a transaction takes SQLite's write lock, the push is
one action after the stamp; the pull is two actions after the commit, with
anything in between. `OtherSync` is a sync of another account: it advances the
stamps. `SweepStart`, `SweepNotes`, `SweepFolders`, `SweepFail` are the loop of
`main.go`. Requests are lost, delayed, processed after their device has given
up (`GiveUp`) and sent again; answers are lost with their process.

The devices (`Edit`, `Send`, `GiveUp`, `Answered`, `Apply`) are not in the
repository: they are modelled from what `README.md` tells clients to do - keep
`server_time` as the cursor, apply what comes, replace everything on
`full_resync`, send unsent rows again - and are marked external.

`DeltaSyncInv` has the inductive invariant `DeliveryInv`: `StampInv` (a stamp
under way is above everything committed, saved or in flight), `DriftInv` (how
far stamps run ahead of a pull, which is what the safety margin is for),
`RequestInv` (a request its device still waits for carries what the device has),
`LandedInv`, `SavedInv`, `AnswerInv` and `FolderInv` (what a cursor promises,
stated for the cursor saved, for the cursor in an answer, and for the half of
an answer that a pull has collected so far).

### FolderTree

A batch is a sequence of folder changes and one of notes. `Begin` opens the
transaction, `ApplyFolder` is one step of the first pass (upsert; the trigger
aborts; a folder whose parent is missing is put off), `FirstPassEnds` is
`orderDeferredFolders` (`Orders`: what waits for nothing first, then what hangs
from the first of these, from the second, and so on; what waits for itself is
rejected), `ApplyDeferred` the second pass, `ApplyNote` one note,
then `Commit` or `Rollback`. `Purge` forgets tombstones, `Repair` is
`repairFolderCycles` at a restart. Simplifications: ids are distinct within a
batch; stamps are consecutive; `Repair` is declarative (one folder of every
cycle becomes a root, whichever); a stamp's distance stands for age in `Keep`.

### SyncAdmission and AccountGate

A step is what happens between two operations on a channel or on the mutex of
the lock set: `Join`/`Create` (map lookup), `PassGate`/`LeaveGate` (the two
branches of the select), `TakeSlot`/`LeaveSlot`, `FreeSlot`/`OpenGate`/`Drop`
(the parts of `Release`, in their order), `Refuse`, `Finish`, `Respond`,
`Return` (the deferred release, a no-op after the first because of
`sync.Once`). An entry that no goroutine points to is garbage and may be used
again. `Cancel` is the client's disconnection, at any point.

`AccountGate` says what a handler relies on: `Enter`, `TakeBody`, `GiveBody`,
`Leave`, one request of an account inside, at most `MaxSlots` bodies.
`Gate == INSTANCE AccountGate WITH ...` is the refinement mapping.

### AuthSessions and SessionFamilies

One account. A pair (access token, refresh token) has one id; the family of a
pair has the id of its first pair. Requests are sequences of stages, one per
statement on the database or access to the memory of the process:

    Login -> Insert
    GetByHash -> GetByID -> Check -> Rotate | RotateFails -> Kill
    Logout -> EndFamily -> EndToken -> SaveToken
    Close -> Mark (block) -> RevokeRows -> Save | SaveFails -> Cache -> Final (unblock, reset, delete)

Any issued token may be presented at any time, which covers lost answers,
stolen tokens and retries. `FetchUsers`, `FetchTokens` and `Merge` are the steps
of a reload: the two SELECTs of `LoadActive`, the second of which may fail and
then nothing is merged, and the merge under the lock of the cache. `Restart` stops a process anywhere and runs `AttachStore`; `PurgeCache`,
`PurgeTokens`, `PurgeUsers`, `PurgeExpired`, `PurgeRevoked` are the statements
of the sweep. `Accepts` and `Renews` are the conditions of `RequireJWT` and
`Refresh` evaluated at one instant. `said` and `heard` are history variables:
the revocations that reached the tables, and those that a process has made,
read, or was started after.

Simplifications: one clock for all processes, which does not step back; the two
queries of `LoadActive` are one read at a start only, when the process serves
nothing yet; `revoked_at` is the clock of the statement
(it only decides when a row is swept); a JWT expires at the millisecond; a write
that fails has written nothing; tokens from before `iat_ms` and `pv` do not
exist; the minimum response time of a login, hashes and signatures play no part.

`SessionFamilies` knows nothing of requests, caches or clocks: `live` says which
refresh tokens of a session can be used, `used` which have been handed out.
`Begin` is an insert after a login, `Renew` a rotation, `End` whatever revokes or
deletes rows - a logout, a reuse, a closing, a statement of the sweep - for any
number of sessions at once. The other steps of `AuthSessions` change neither.

### OrderingQuota and OrderingRegister

One account, several processes (`Host` says which one serves a request). `tab`
is `user_ordering` and the notes, `quota` is `users.storage_quota_bytes`. The
server does not read the blob, so a blob is its length, and a row the length of
its text; notes stand for folders too, which count in the same way. A request
goes through

    Arrive (the middleware reads the quota)
      sync:   OpenSync (BEGIN, the stamp takes the write lock) -> Apply (rows, then Accepts)
      reset:  ReadReset (Reset's SELECT, no lock yet) -> WriteReset
      -> Commit | Refuse (409) | Fail,  and the device Receives the answer

`MayWrite` is SQLite's rule, external to the repository, that a transaction
which has read writes only on the state it has read; `fresh` is lost by every
commit of anybody. It is what makes `Reset` safe across processes, where the
lock of `userLockSet` does not reach. `Accepts` is the condition of
`OrderingRepo.Apply`, `OverQuota` that of `processLocked`, evaluated after rows
and ordering against the usage before them. Which rows win is `DeltaSync`'s
matter: here any may, a cascade being one more way for rows to become empty.
`SetQuota` takes what the form sends in quarters of a byte, so that a quota can
round to 0, and what is above `MaxBytes` (`math.MaxInt64`) converts to either
end of the range, as processors differ.

The devices are external. They push their ordering when they have changed it,
from the version they know, as `OrderingPush` says; answers may reach them late
or out of order, and they may keep an edit of their own over what came.

`OrderingRegister` is what is left for a device when the transactions are taken
away: a call is asked (`Arrive`), takes effect at one moment (`Commit`), and ends
(`Receive`, a refusal, a failure, a lost answer), possibly without effect. The
answer of a call is the register as it was just after its effect: for a push
that won what it pushed, for one that lost what somebody else had written. That
the read of `Get`, the write of `Apply` or `Reset`, and the second `Get` for the
answer are one moment is not visible in the code: it follows from the lock and
from `MayWrite`.

### RateLimiter and TokenBucket

The limiter of the syncs of an account. A request that has passed the middleware
(`Arrive`, which reads the exemption) reads the toggle (`RateLimitApplies`; the
read may fail), finds or creates its entry under the lock of the map (`Lookup`),
takes a token under the lock of the entry (`Take`) and leaves. The loop computes
its cutoff before it has the lock (`PruneWake`, `PruneLock`), reads one entry
after the other (`PruneRead`), deletes after it has let go of the entry
(`PruneDelete`), and gives the map back (`PruneUnlock`). `SetEnabled` and
`SetExempt` are the forms of the administrator. A tick refills one unit and a
request costs `Cost` of them, so that a bucket holds fractions of a token.

A request that has found an entry, and is overtaken by its deletion, takes a
token from an entry that nobody else will see: one request more than the budget
may pass for each request in that position. The code accepts it, and the model
says it: `Overtaken` requests are not counted in `budget`, and are `adrift` in
`TokenBucket`. That needs an idle entry of 30 minutes and a request in flight
across the deletion. `StaleAfter >= Burst` (30 minutes against the seconds a
bucket needs to fill) is what makes a deleted entry a full one.

### ServerProcess

What the statements do to rows is the matter of the other modules; here a
statement takes a connection (`Ask`), may wait for it, may fail or be cut off,
and may free or use pages. `MaxOpen = 1` is local mode. A connection that is
given back goes to a waiting statement at once (`GiveBack`), as in
`database/sql`, where the choice is random. `job` is the program counter of the
two loops:

    Maint:  stamp -> notes -> folders -> (freelist -> vacuum)* -> checkpoint
              -> revokedTokens -> userRevocations -> expired -> revoked;   checkpointOnly
    Reload: users -> tokens -> adminUsers -> adminTokens

`AfterError` says where each goes after a failed statement. `main` goes from
`serving` through `Shutdown` (waits for the handlers, 30 seconds at the most;
a handler may still start on a connection that was accepted before, `Arrive`),
`StopMaintenance` and `StopReload` (the deferred calls, last first) to `closed`.
`Crash` is a kill or `log.Fatalf`, in any state. `select` may prefer a ticker to
a cancelled context, so `Wake` has no guard on it.

## 3. Runs

| Run | Question | Instance |
|---|---|---|
| `Delta` | are rows delivered, are stamps in commit order, do cascaded deletions arrive, does the sweep force a resync? | a note in a folder, 2 devices, 2 processes, 3 requests, 2 edits |
| `DeltaFirstSync` | *violation*: README's promise that a loser is sent the winner | a note, 2 devices, 1 process |
| `TreeBatches` | what a deletion reaches and what it leaves; does the order of a batch matter, does a batch close a cycle? | 3 folders, a note; batches of up to 2 rows of any kind and of 3 active folders, 4 rows in all |
| `TreeResend` | *violation*: README's idempotence | 1 folder and 1 note are enough |
| `TreeCycle` | *violation*: the comment that an INSERT cannot close a cycle | 2 folders |
| `TreeRepair` | *violation*: the comment that a repair is always pulled | 2 folders |
| `Admission` | exclusion, slots, leaks, refinement of `AccountGate`, admission under fairness | a sync and a reset of one account, a sync of another, 1 slot |
| `Ordering` | do versions name states, do resets hold, is the quota kept, and never in the way of a deletion, is `OrderingRegister` implemented? | 2 devices, 2 requests in 2 processes, 3 requests in all, a note, quotas of none, tiny and overflowing |
| `Sessions` | rotation races, password resets, closings; caches, reloads, restarts, failing writes, purge; is `SessionFamilies` implemented? | 2 requests at a time, up to 3 pairs, 2 processes, clock to 4 |
| `SessionsRefresh` | *violation*: the comment on the retention of revocations, for refresh tokens | 1 process, 1 pair |
| `Limiter` | is a budget kept although entries are deleted, does a failed read lift the limit, is `TokenBucket` implemented, is every request answered? | 2 requests of an account, 2 entries, a burst of one and a half tokens, clock to 5 |
| `Server` | is the pool closed last, does every statement get its connection, is one ever lost, do vacuum and stop end? | 1 request, one connection, a local file with up to 2 free pages, steps of 1 page |

**Bounds.** `MaxStamp`, `MaxSends`, `MaxEdits`, `MaxRows`, `MaxClock`,
`MaxBegun`, `MaxSent`, `MaxFree` cap counters that grow for ever; they appear
only in guards and in the range of `freelist'`. The bounds are chosen so that
the case in question happens, and the mutants recorded in `PROJECT.json` show
that it does: each of them is caught within the bounds of its run.

* `Delta`: `MaxStamp = 7` with a retention of 2 and a margin of 1 lets a
  tombstone age past the cutoff while a device holds a cursor below it. The
  constraint `Focus` leaves out only combinations: behaviours with two processes
  at work, late requests and two edit times on the folder alone without the
  sweep, and behaviours with one process at a time and one edit time on both
  rows with cascade and sweep.
* `Sessions`: a revocation of clock 1 is purged at 4. `Focus` keeps rotation and
  closings with three pairs on one process until clock 2, and two processes with
  reloads, restarts and the purge on one pair until clock 4, where the last
  request does not overlap a reload.
* `TreeBatches`: three folders and a note are the shortest chain, cycle and
  deferral that differ from their one-step versions; a mutant trigger that looks
  at one level only is caught.
* `Ordering`: a row costs 1 (`Overhead`, 256 in the code), the largest integer is
  5, and three requests are a push, a reset and the push of a device that has
  missed the reset; each request has a process of its own there, which is the
  harder case, so the gate of a process (`GateFree`) never closes: what it does
  is `SyncAdmission`'s matter, and the theorems hold for any `Host`.
* `Limiter`: `StaleAfter = Burst = 3` and a clock of 5 let an entry be used,
  go stale, be deleted under a request and be created again. `Focus` explores
  the switches while the clock shows 0: nothing but the stage of a request
  depends on them. It does not weaken `EveryRequestDecided`: a request never
  waits for a switch, only for the map, which the prune loop takes at any clock.
* `Server`: two free pages are two steps of the vacuum, one more than a first
  step that cannot know whether it made progress; three actors share one
  connection.

Larger instances add more of the same actors: two devices or requests of one
account are enough for one to overtake the other, a third for a bystander. The
safety properties are also proved, for any instance (section 5).
`CHECK_DEADLOCK FALSE` is set where the bounds end the run (delta, tree); a
deadlock of any other module would be reported.

The inductive invariants of the proofs (`DeliveryInv`, `AdmissionInv`,
`SessionInv`, `OrderingInv`, ...) were checked on these instances before they
were proved; being theorems, they are not invariants of the runs any more.
`DeadFamiliesStayDead` is not a property of a run either: it is a theorem, and
part of what `FamiliesSpec` says.

**Symmetry** is used for safety only, on devices, processes, requests, folders,
notes and tokens, which the modules never order.

**Fairness.**

* `SyncAdmission` (`FairSpec`): strong on `PassGate` and `TakeSlot`: goroutines
  blocked on a Go channel are queued in order, so one that waits again and again
  is served. Weak on the steps of a handler: nothing in it waits for ever -
  `ReadTimeout`/`WriteTimeout` of the server bound the client, `busy_timeout`
  the database. None on `Arrive`, `Cancel`, on leaving a queue, or on a client
  reading the answer of a sync that has already released.
* `RateLimiter` (`FairSpec`): weak on the steps of a request and on a round of
  the prune loop once it is under way; strong on `Lookup`, which the loop
  disables while it holds the map: a Go mutex is handed to a waiter that has
  waited for a millisecond. None on the clock, on the switches, or on the loop
  waking up.
* `ServerProcess` (`Fairness`): weak on the end of a statement, on the work of
  the loops and on `main`; strong on `Served`, because a connection that is given
  back goes to one of the waiting statements chosen at random, so that none is
  passed over for ever; strong on a handler's return (its timeouts) and on `Quit`
  (a `select` with a cancelled context does not choose the ticker for ever). No
  timeout of a statement and no client that gives up is counted on, except that
  a cancelled context is noticed, and the 30 seconds of `Shutdown`
  (`MainStep \/ DrainTimeout`): handlers that keep starting on connections
  accepted before must not hold up the stop.

## 4. What the violations show

1. **First sync** (`DeltaFirstSync`). A device that pushes rows in its very first sync
   (cursor 0) and loses against a tombstone gets no row back, because a pull
   from 0 leaves tombstones out; it keeps the row as active and no later
   incremental pull returns the tombstone. README.md:203-205 says the winner
   is returned.
2. **Resending a batch** (`TreeResend`). Deleting a folder and adding a note to it in one
   body leaves the note active; the same body again deletes it. README.md:256
   says that the sync is idempotent.
3. **A cycle by INSERT** (`TreeCycle`). After the sweep has forgotten the tombstone of a
   folder that an active folder still names as its parent, inserting it again
   below that folder closes a cycle. db.go:762-764 says it cannot.
4. **The stamp of a repair** (`TreeRepair`) is computed from the clock and
   `MAX(folders.synced_at)`, not from `stamp_last`; after the clock has stepped
   back, clients may have passed it. db.go:815-818 says that they will pull it.
5. **Refresh tokens and the retention of revocations** (`SessionsRefresh`).
   revocations_repo.go:106-108 says that every token issued before a purged
   revocation has expired. That is so of access tokens (`loadConfig` refuses a
   longer `JWT_TTL`), not of refresh tokens, which live 90 days by default
   against 30. The rows present when the sessions are closed are revoked
   themselves; a login that was under way inserts its row afterwards, and only
   the purged revocation covered it. `RefreshesWait` proves, for any lifetimes,
   how far the promise goes: for `Retention` the revocation refuses every older
   refresh token; afterwards nothing does.

The other properties hold.

## 5. Proofs

All the constants are arbitrary: any sets of rows, devices, processes, requests,
tokens; any lifetimes that satisfy the named assumptions.

**`DeltaSyncProofs`.** `TypeCorrect`, then `DeliveryInv` is inductive
(`DeliveryCorrect`), then
`CommitsInOrder` (an action property), `ActiveDelivered`, `DeletionsDelivered`
and `PurgeIsSafe`. What the cursor of a device promises is not inductive by
itself: the promise has to be stated also for the answer in flight, for the
folders already pulled while the notes are not, and for the request a device
repeats. `PurgeIsSafe` assumes `Drift <= Margin`: stamps do not run ahead of a
pull in flight by more than `TombstonePurgeSafetyMargin`; that is the fact the
margin stands for, and `Drift` names it. First syncs that lost against a
tombstone are exempt (`unechoed`), as the first violation requires.

**`SyncAdmissionProofs`.** `AdmissionInv`: the count of an entry is the number
of the requests that refer to it; a request past `acquire` refers to the entry
of its account; the channel of an entry is full exactly while one is inside.
From it `MutualExclusion`, `SlotsCorrect`, `EntriesCorrect`, and
`ImplementsGate`, a step simulation under the mapping.

**`AuthSessionsProofs`.** `SessionInv` has three parts. `RequestInv` is what a
request remembers of its token between its stages; types need it, because a
rotation copies the family of a token looked up earlier. `FamilyInv` says that
every pair has the password epoch of the first of its family, which makes
`CurrentPassword` a one-line consequence. `CacheInv` says that tables and caches
hold every revocation said or heard, except those too old to matter: for one
of the account, older than `Retention`; for a token, expired. With
`JwtTTL <= Retention`, which `loadConfig` enforces (main.go:168), nothing that
still lives is lost: `ClosedStaysClosed` and `LoggedOut`. Refresh tokens have no
such bound; for them `RefreshesWait` says what `CacheInv` gives by itself, that
nothing older than a revocation is renewed before `Retention` is over. `OneActive` and
`DeadFamilies` rest on `RowSteps`: every step ends tokens, or issues one by an
insert (a family of its own) or by a rotation, whose condition on the old row
is evaluated in the same transaction. `ImplementsFamilies` uses it once more: an
insert is a `Begin`, a rotation a `Renew` of a family that was alive, and a
step that ends tokens an `End`, because by `OneActivePerFamily` a family that
loses its token has none left.

**`OrderingQuotaProofs`.** `OrderingInv` says of `VersionNamesOneState` what
induction needs: a transaction that holds the lock works on the committed
tables, one that has read them and is still fresh too (`TransactionInv`), and
nobody holds a version that the server does not have yet (`HandedOutInv`), so
that the next version is new to everybody. `ResetsHold`, `QuotasKept` and
`CleanupIsAllowed` follow from it. For `ImplementsRegister` it also says what a
transaction that has done its work leads to: the version it started from plus
one and its own blob if it reset or its push was built on that version, the same
state otherwise. A commit is then one `TakeEffect`, and a step before it changes
nothing that the mapping shows. `QuotasKept` is about the quota a request
arrived with: a limit that is lowered while a request waits binds the next one.
`Usage` is a fold, whose value is out of the prover's reach (induction); the
theorems only compare it.

**`FolderTreeProofs`.** Reachability is defined by closed sets of folders (`y` is
in every set that holds `x` and the parents of its members), so nothing is
recursive and no induction is needed: to show that a step changes no path one
exhibits the closed set that separates the two folders. `TreeInv` says of the
transaction under way that a sound committed table (no dangling parent, no
cycle) leaves a sound working table (`ForestInv`); that below a deleted folder
of the batch that has been applied nothing is active, but below rows the batch
pushes too (`CascadeDone`); that rows not yet applied are where they were
(`Unmoved`); and that each row the batch has deleted without pushing it was, or
has come to be, below a deleted folder of the batch (`CascadeReason`).
`ForestKept`, `CascadeComplete` and `CascadeOnlyBelow` are action properties and
hold for batches of any length, provided ids are distinct within a batch.
`RepairEndsCycles` is an action property of `Repair`: a cycle that were left
would have been one before, so that a folder it reaches was detached; but the
folders that still reach it kept their parents, hence are a closed set of the
old table too, without a detached folder in it.

**`FolderOrderProofs`.** `AcceptedHowever`: both directions rest on sets of
folders that hang from nothing. What has been applied hangs (`DoneInv`); what is
put off has no row (`WaitInv`); in the second pass a parent comes before its
children (`TurnInv`, from `Orders`); and a rejection always shows a set of
folders of the batch none of which hangs from outside it (`RejectInv`): for a
folder rejected in the first pass the set is the folder itself, for those that
`orderDeferredFolders` returns as cyclic it is what it could not order. If no
folder is rejected all have a row at the end, and `DoneInv` says that every set
hangs.

**`RateLimiterProofs`.** `WithinBudget` is inductive only together with who holds
which entry (`EntriesInv`), what the loop may delete (`SweepInv`), and times in
the past (`TimeInv`). The arithmetic is small: a bucket at `lastSeen` is full
after `Burst` ticks, hence after `StaleAfter`. `ImplementsBucket` maps each step
to one of `TokenBucket` or a stutter: a deletion becomes visible when the loop
has decided it (`Forget`), and a request that finds its entry gone answers
adrift.

**`ServerProcessProofs`.** `ProcessInv`: a loop at rest has no statement in the
pool, and what `main` has waited for stays done because nothing starts a loop
again before the process ends. `ClosedLast` follows. `NoneLost` is about the pool
alone: `PoolInv` adds to `NoConnectionLost` that those who hold a connection are a
finite set, so that they can be counted; the lemmas `AskKeeps`, `GiveBackKeeps` and `StopWaitingKeeps` show
it for the three things a statement can do with a connection, whoever the actor
is, and every action is one of them or leaves the pool alone.

**Only model-checked**: the five liveness properties - `EveryRequestAdmitted`,
`EveryRequestDecided`, `EveryQueryServed`, `VacuumEnds`, `ShutdownEnds` (fairness
and ENABLED are out of the prover's reach). Every invariant and every safety
property of a passing run is also a theorem. The five violations are behaviours
that TLC shows.

## 6. Not modelled, and why

* **Sessions of the administrator**: one signed cookie, a cache of revoked ids,
  and a lookup in the table at each use, so that they need less than the access
  tokens of `AuthSessions`, whose reload, restart and failing write are the same
  code pattern. Their reload is a part of `ServerProcess`.
* **Migrations** from old schemas: SQL that one connection runs in sequence before
  the server listens; their triggers and the repair are modelled.
* A reset may create a row of two bytes without looking at the quota: `QuotaKept`
  speaks of syncs.
* A retry of the vacuum. The message of main.go:492 says that a failed
  maintenance "verrà ritentata al prossimo giro" (will be tried again in the
  next round). The checkpoint is; the vacuum is not unless that round deletes
  rows itself, because `reclaimPages` is `nDeleted+fDeleted > 0` (main.go:491).
  In `ServerProcess` this is `Maintenance(deleted \/ found)`: pages left by a
  vacuum that failed stay free until a later purge finds something. SQLite uses
  them again for new rows, so that only the size of the file is concerned.
* That no handler queries the pool inside its own transaction, which with one
  connection would wait for itself, is a property of the text of each handler; in
  `ServerProcess` a statement stands for the whole transaction.
* Settings, downloads, templates, compression, headers, logging: input/output.
* Names and contents of rows, hashes, signatures, JSON.
* The clients, beyond what README.md asks of them.

## 7. Plan

Done: delta, tree, admission, sessions, ordering and quota, rate limiter, server
process, with the proofs of their safety properties, and an abstract
specification of four of them. Left, in the order of use:

1. The search of `repairFolderCycles`, folder by folder, against its declarative
   form in `FolderTree`, whose result `RepairEndsCycles` is about.
2. The sessions of the administrator across processes.
