---------------------------- MODULE OrderingQuota ----------------------------
(***************************************************************************)
(* The placement of the folders and notes of ONE account - a blob that the *)
(* server does not read, and its version - and the space the account may   *)
(* use.  Syncs and resets of several devices run in several processes on   *)
(* one database: a sync takes the write lock with its first statement, a   *)
(* reset reads first and writes then, and the administrator changes the    *)
(* quota at any time.  Which pushed rows win is the matter of DeltaSync:   *)
(* here any of them may.  A blob is its length, a note the length of its   *)
(* text.                                                                   *)
(***************************************************************************)
EXTENDS Integers, FiniteSetsExt

CONSTANTS
  Devices, Notes,
  Requests, Host,    \* requests in flight; the process that serves each
  Blobs, Texts,      \* lengths of the blobs and of the texts that clients send
  Overhead,          \* storageRowOverheadBytes
  Forms, MaxBytes,   \* quotas asked for, in quarters of a byte; math.MaxInt64
  Nobody,            \* no request holds the write lock
  MaxSent            \* bound of the checked instance: requests sent

Unset  == 0          \* the account has no row in user_ordering
Empty  == 2          \* the length of {}
NoPush == -1
Absent == -1         \* the note has no row; a tombstone has a text of 0 bytes

ASSUME OrderingAssumption ==
  /\ Blobs \subseteq Nat \ {Unset} /\ Texts \subseteq Nat \ {0}
  /\ Overhead \in Nat \ {0} /\ Forms \subseteq Nat /\ MaxBytes \in Nat \ {0}
  /\ Devices # {} /\ Nobody \notin Requests

VARIABLES
  tab,          \* committed: version and blob of the ordering, the notes
  quota,        \* users.storage_quota_bytes; 0: no limit
  reset,        \* the version of the last reset
  writer,       \* the request that holds the write lock of the database
  dev,          \* the ordering as each device has it
  stage, job,   \* of every request: how far it has come, what it asks for
  work, before, \* of its transaction: the tables it sees, and saw at first
  fresh,        \* nothing has been committed since it read
  sent

vars == <<tab, quota, reset, writer, dev, stage, job, work, before, fresh, sent>>
dbVars == <<tab, quota, reset>>
txVars == <<writer, work, before, fresh>>

Table   == [ver : Nat, blob : Blobs \union {Unset, Empty}, rows : [Notes -> Texts \union {0, Absent}]]
Local   == [ver : Nat, blob : Blobs \union {Empty}, dirty : BOOLEAN]
Batches == UNION {[S -> Texts \union {0}] : S \in SUBSET Notes}
Job     == [dev : Devices, kind : {"sync", "reset"}, base : Nat,
            push : Blobs \union {Empty, NoPush}, batch : Batches, quota : 0..MaxBytes]

NoBatch == [n \in {} |-> 0]
FirstTable == [ver |-> 0, blob |-> Unset, rows |-> [n \in Notes |-> Absent]]
NoJob == [dev |-> CHOOSE d \in Devices : TRUE, kind |-> "reset", base |-> 0,
          push |-> NoPush, batch |-> NoBatch, quota |-> 0]

(* OrderingRepo.Get: an account without a row has version 0 and {}.         *)
Data(t) == IF t.blob = Unset THEN Empty ELSE t.blob

(* storageUsageSQL.                                                         *)
Usage(t) == t.blob + MapThenSumSet(LAMBDA n : Overhead + t.rows[n],
                                   {n \in Notes : t.rows[n] # Absent})

-----------------------------------------------------------------------------
Init ==
  /\ tab = FirstTable /\ quota = 0 /\ reset = 0
  /\ dev = [d \in Devices |-> [ver |-> 0, blob |-> Empty, dirty |-> FALSE]]
  /\ stage = [r \in Requests |-> "free"] /\ job = [r \in Requests |-> NoJob]
  /\ writer = Nobody /\ work = [r \in Requests |-> FirstTable]
  /\ before = work /\ fresh = [r \in Requests |-> FALSE]
  /\ sent = 0

(* The devices.                                                            *)
Edit(d) ==
  /\ \E b \in Blobs :
       dev' = [dev EXCEPT ![d] = [ver |-> dev[d].ver, blob |-> b, dirty |-> TRUE]]
  /\ UNCHANGED <<dbVars, txVars, stage, job, sent>>

(* The middleware reads the quota with the status of the account, before    *)
(* the request waits for the gate.                                          *)
Arrive(r, j) ==
  /\ stage[r] = "free" /\ sent < MaxSent /\ sent' = sent + 1
  /\ stage' = [stage EXCEPT ![r] = "arrived"]
  /\ job' = [job EXCEPT ![r] = j]
  /\ UNCHANGED <<dbVars, txVars, dev>>

(* The ordering goes along only when it has local changes.                  *)
SendSync(d, r) ==
  \E c \in Batches :
    Arrive(r, [dev |-> d, kind |-> "sync", base |-> dev[d].ver, quota |-> quota, batch |-> c,
               push |-> IF dev[d].dirty THEN dev[d].blob ELSE NoPush])

SendReset(d, r) == Arrive(r, [NoJob EXCEPT !.dev = d])

(* The device takes what the answer says; it keeps an edit that it has made *)
(* since it sent the request, or any other.                                 *)
Receive(r) ==
  LET d == job[r].dev
  IN /\ stage[r] = "answered"
     /\ \E keep \in BOOLEAN :
          /\ keep => dev[d].dirty
          /\ dev' = [dev EXCEPT ![d] =
               [ver |-> work[r].ver, blob |-> IF keep THEN dev[d].blob ELSE Data(work[r]),
                dirty |-> keep]]
     /\ stage' = [stage EXCEPT ![r] = "free"] /\ job' = [job EXCEPT ![r] = NoJob]
     /\ work' = [work EXCEPT ![r] = FirstTable]
     /\ UNCHANGED <<dbVars, writer, before, fresh, sent>>

-----------------------------------------------------------------------------
(* The server.                                                             *)

InProcess(r) == stage[r] \in {"read", "open", "applied"}
GateFree(r) == \A q \in Requests : InProcess(q) => Host[q] # Host[r]

(* The end of request r, in the way s; the lock is released.                *)
End(r, s) ==
  /\ stage' = [stage EXCEPT ![r] = s]
  /\ writer' = (IF writer = r THEN Nobody ELSE writer)
  /\ before' = [before EXCEPT ![r] = FirstTable]

(* Mutant: whoever has the latest version or an earlier one may push.       *)
AcceptsOlder(r) == job[r].push # NoPush /\ job[r].base <= work[r].ver
(* OrderingRepo.Apply: the push was built on the current version.           *)
Accepts(r) == job[r].push # NoPush /\ job[r].base = work[r].ver

(* The transaction of a sync: reserveStampTx writes, which takes the lock.  *)
OpenSync(r) ==
  /\ stage[r] = "arrived" /\ job[r].kind = "sync" /\ GateFree(r) /\ writer = Nobody
  /\ stage' = [stage EXCEPT ![r] = "open"] /\ writer' = r
  /\ work' = [work EXCEPT ![r] = tab] /\ before' = [before EXCEPT ![r] = tab]
  /\ UNCHANGED <<dbVars, dev, job, fresh, sent>>

(* What the rows become when those of batch b that are in won win.          *)
Merged(rows, b, won) == [n \in Notes |-> IF n \in won THEN b[n] ELSE rows[n]]

(* The rows, then the ordering.                                             *)
Apply(r) ==
  \E won \in SUBSET DOMAIN job[r].batch :
    /\ stage[r] = "open" /\ stage' = [stage EXCEPT ![r] = "applied"]
    /\ work' = [work EXCEPT ![r] =
         [ver  |-> IF Accepts(r) THEN work[r].ver + 1 ELSE work[r].ver,
          blob |-> IF Accepts(r) THEN job[r].push ELSE work[r].blob,
          rows |-> Merged(work[r].rows, job[r].batch, won)]]
    /\ UNCHANGED <<dbVars, writer, dev, job, before, fresh, sent>>

(* The transaction of a reset: it reads, without the lock.                  *)
ReadReset(r) ==
  /\ stage[r] = "arrived" /\ job[r].kind = "reset" /\ GateFree(r)
  /\ stage' = [stage EXCEPT ![r] = "read"]
  /\ work' = [work EXCEPT ![r] = tab] /\ fresh' = [fresh EXCEPT ![r] = TRUE]
  /\ UNCHANGED <<dbVars, writer, dev, job, before, sent>>

(* Mutant: the version is read outside the transaction that writes it.      *)
MayWriteAnyway(r) == writer = Nobody
(* A transaction that has read may write only what it has read last.        *)
MayWrite(r) == writer = Nobody /\ fresh[r]

(* OrderingRepo.Reset.                                                      *)
Emptied(t) == [ver |-> t.ver + 1, blob |-> Empty, rows |-> t.rows]

WriteReset(r) ==
  /\ stage[r] = "read" /\ MayWrite(r)
  /\ stage' = [stage EXCEPT ![r] = "applied"] /\ writer' = r
  /\ work' = [work EXCEPT ![r] = Emptied(work[r])]
  /\ UNCHANGED <<dbVars, dev, job, before, fresh, sent>>

(* Mutant: the ordering is written after the space has been counted.        *)
OverQuotaByRows(r) ==
  LET after == Usage([work[r] EXCEPT !.blob = tab.blob])
  IN job[r].quota > 0 /\ after > job[r].quota /\ after > Usage(before[r])
(* Mutant: whoever is above the quota can only write nothing.               *)
OverQuotaAtAll(r) == job[r].quota > 0 /\ Usage(work[r]) > job[r].quota
OverQuota(r) ==
  /\ job[r].kind = "sync" /\ job[r].quota > 0
  /\ Usage(work[r]) > job[r].quota /\ Usage(work[r]) > Usage(before[r])

(* The answer names the version and the blob that the transaction has left. *)
Commit(r) ==
  /\ stage[r] = "applied" /\ ~OverQuota(r)
  /\ tab' = work[r] /\ reset' = (IF job[r].kind = "reset" THEN work[r].ver ELSE reset)
  /\ End(r, "answered") /\ fresh' = [q \in Requests |-> FALSE]
  /\ job' = [job EXCEPT ![r] = [NoJob EXCEPT !.dev = job[r].dev]]
  /\ work' = [work EXCEPT ![r] = [FirstTable EXCEPT !.ver = tab'.ver, !.blob = tab'.blob]]
  /\ UNCHANGED <<quota, dev, sent>>

(* 409 quota_exceeded.                                                      *)
Refuse(r) ==
  /\ stage[r] = "applied" /\ OverQuota(r)
  /\ End(r, "free") /\ job' = [job EXCEPT ![r] = NoJob]
  /\ work' = [work EXCEPT ![r] = FirstTable]
  /\ UNCHANGED <<dbVars, dev, fresh, sent>>

(* The client has gone, rows are rejected, the database is busy, the        *)
(* process dies; or the answer of what has been committed is lost.          *)
Fail(r) ==
  /\ stage[r] # "free"
  /\ End(r, "free") /\ job' = [job EXCEPT ![r] = NoJob]
  /\ work' = [work EXCEPT ![r] = FirstTable] /\ fresh' = [fresh EXCEPT ![r] = FALSE]
  /\ UNCHANGED <<dbVars, dev, sent>>

(* The sweep of the tombstones.                                             *)
Purge ==
  /\ writer = Nobody /\ \E n \in Notes : tab.rows[n] = 0
  /\ tab' = [tab EXCEPT !.rows = [n \in Notes |-> IF @[n] = 0 THEN Absent ELSE @[n]]]
  /\ fresh' = [r \in Requests |-> FALSE]
  /\ UNCHANGED <<quota, reset, writer, dev, stage, job, work, before, sent>>

(* UpdateUserStorageQuota, from the number in the form.  What converting a  *)
(* float64 to an int64 gives beyond MaxBytes is the machine's choice.       *)
Rounded(q) == (q + 2) \div 4
Converted(q) == IF Rounded(q) > MaxBytes THEN {MaxBytes, -MaxBytes - 1} ELSE {Rounded(q)}
(* Mutant: the result of the conversion is what is stored.                  *)
UncheckedBytes(q, b) == b
QuotaBytes(q, b) ==
  IF q > 0 /\ b <= 0 THEN (IF Rounded(q) > MaxBytes THEN MaxBytes ELSE 1) ELSE b

SetQuota(q) ==
  /\ writer = Nobody
  /\ \E b \in Converted(q) : quota' = QuotaBytes(q, b)
  /\ fresh' = [r \in Requests |-> FALSE]
  /\ UNCHANGED <<tab, reset, writer, dev, stage, job, work, before, sent>>

ServerStep(r) ==
  OpenSync(r) \/ Apply(r) \/ ReadReset(r) \/ WriteReset(r) \/ Commit(r) \/ Refuse(r) \/ Fail(r)

Next ==
  \/ \E d \in Devices : Edit(d) \/ \E r \in Requests : SendSync(d, r) \/ SendReset(d, r)
  \/ \E r \in Requests : Receive(r) \/ ServerStep(r)
  \/ Purge
  \/ \E q \in Forms : SetQuota(q)

Spec == Init /\ [][Next]_vars

-----------------------------------------------------------------------------
(* Type correctness: tables, requests, answers and the quota.              *)
TypeOK ==
  /\ tab \in Table /\ quota \in 0..MaxBytes /\ reset \in Nat
  /\ writer \in Requests \union {Nobody} /\ dev \in [Devices -> Local]
  /\ stage \in [Requests -> {"free", "arrived", "read", "open", "applied", "answered"}]
  /\ job \in [Requests -> Job] /\ {work, before} \subseteq [Requests -> Table]
  /\ fresh \in [Requests -> BOOLEAN] /\ sent \in Nat

(* OrderingPush: a version stands for one state of the ordering.  Devices   *)
(* without local changes, answers under way and the server, whenever they   *)
(* name the same version, hold the same blob - or a device would push over  *)
(* a state that it has never seen.                                          *)
Held ==
  {[ver |-> dev[d].ver, blob |-> dev[d].blob] : d \in {e \in Devices : ~dev[e].dirty}}
    \union {[ver |-> work[r].ver, blob |-> Data(work[r])] :
              r \in {q \in Requests : stage[q] = "answered"}}
    \union {[ver |-> tab.ver, blob |-> Data(tab)]}
VersionNamesOneState == \A x, y \in Held : x.ver = y.ver => x.blob = y.blob

(* What the transactions know of the committed tables.                      *)
TransactionInv ==
  \A r \in Requests :
    /\ writer = r <=> stage[r] \in {"open", "applied"}
    /\ stage[r] = "open" => job[r].kind = "sync" /\ work[r] = tab /\ before[r] = tab
    /\ stage[r] = "read" => job[r].kind = "reset" /\ (fresh[r] => work[r] = tab)
    /\ stage[r] = "applied" /\ job[r].kind = "reset" => work[r] = Emptied(tab)
    /\ stage[r] = "applied" /\ job[r].kind = "sync" =>
         /\ before[r] = tab
         /\ IF job[r].push # NoPush /\ job[r].base = tab.ver
            THEN work[r].ver = tab.ver + 1 /\ work[r].blob = job[r].push
            ELSE work[r].ver = tab.ver /\ work[r].blob = tab.blob

(* No version is handed out before the server has it.                       *)
HandedOutInv ==
  /\ \A r \in Requests : stage[r] = "answered" => work[r].ver <= tab.ver
  /\ \A d \in Devices : dev[d].ver <= tab.ver
  /\ reset <= tab.ver

(* Together, and with the versions, what every step preserves.              *)
OrderingInv == TransactionInv /\ HandedOutInv /\ VersionNamesOneState

(* OrderingPush: a device that has been away does not undo a reset.  After  *)
(* a reset the blob changes only to what a device sends that has seen the   *)
(* version of the reset, or a later one.                                    *)
ResetHolds ==
  [][\A r \in Requests :
       Commit(r) /\ job[r].kind = "sync" /\ tab'.blob # tab.blob => job[r].base >= reset]_vars

(* processLocked: a sync that takes more space than was in use when it      *)
(* commits leaves the account within the quota it arrived with, rows and    *)
(* ordering together, whatever other devices and the administrator do.      *)
QuotaKept ==
  [][\A r \in Requests :
       Commit(r) /\ job[r].kind = "sync" /\ job[r].quota > 0 /\ Usage(tab') > Usage(tab)
         => ~(Usage(tab') > job[r].quota)]_vars

(* processLocked: what frees space, or takes no more, is never refused, not *)
(* even above the quota.                                                    *)
CleanupAllowed == [][\A r \in Requests : Refuse(r) => Usage(work[r]) > Usage(tab)]_vars

(* UpdateUserStorageQuota: a limit, however small or large, stays a limit.  *)
LimitStaysLimit == [][\A q \in Forms : SetQuota(q) /\ q > 0 => quota' > 0]_vars

(* What a request looks like from outside: how far it is, what it asks and  *)
(* what it has been told.                                                   *)
Phase(r) ==
  IF stage[r] = "free" THEN "none" ELSE IF stage[r] = "answered" THEN "done" ELSE "asked"
CallOf(j) == [kind |-> j.kind, base |-> j.base, push |-> j.push]
State(t) == [ver |-> t.ver, blob |-> Data(t)]

(* OrderingRepo: the ordering is one register.  However the transactions of *)
(* the processes overlap, and wherever they fail, a push or a reset takes   *)
(* effect at one moment or not at all, on the state that its answer names.  *)
Register == INSTANCE OrderingRegister WITH
  reg <- State(tab),
  phase <- [r \in Requests |-> Phase(r)],
  call <- [r \in Requests |-> CallOf(IF Phase(r) = "asked" THEN job[r] ELSE NoJob)],
  answer <- [r \in Requests |-> State(IF Phase(r) = "done" THEN work[r] ELSE FirstTable)]
RegisterSpec == Register!Spec
=============================================================================
