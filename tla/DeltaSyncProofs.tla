--------------------------- MODULE DeltaSyncProofs ---------------------------
(***************************************************************************)
(* Theorems about DeltaSync, for every value of its constants.             *)
(***************************************************************************)
EXTENDS DeltaSyncInv, TLAPS

-----------------------------------------------------------------------------
(* Types.                                                                  *)

LEMMA EditsAreDocs == Edits \subseteq Doc
  BY TimeAssumption DEF Edits, Doc, Tombstone, Status

LEMMA BlankBatch == Gone \in Doc /\ [r \in Ids |-> Gone] \in Batch
  BY DEF Gone, Doc, Batch, Status

(* A stamp is a positive number above the last one.                         *)
LEMMA StampType ==
  ASSUME TypeOK, NEW reading \in Readings \union OtherReadings
  PROVE  NextStamp(reading) \in Nat /\ NextStamp(reading) > last
  BY TimeAssumption DEF TypeOK, NextStamp, Larger

LEMMA HwmType ==
  ASSUME TypeOK, NEW now \in Nat
  PROVE  RaisedHwm(now) \in Nat
  BY TimeAssumption DEF TypeOK, RaisedHwm

LEMMA ClampedType ==
  ASSUME NEW doc \in Doc, NEW now \in Nat
  PROVE  Clamped(doc, now) \in Doc /\ Clamped(doc, now).st = doc.st
  BY DEF Clamped, ClampTime, Doc

LEMMA MergedType ==
  ASSUME TypeOK, NEW push \in Batch, NEW r \in Ids, NEW now \in Nat
  PROVE  /\ Merged(push, r, now) \in Doc
         /\ InBatch(push, r) => Merged(push, r, now).st # "absent"
         /\ ~InBatch(push, r) => Merged(push, r, now) = tab[r]
  <1>1. push[r] \in Doc /\ tab[r] \in Doc
    BY DEF TypeOK, Batch
  <1>2. Clamped(push[r], now) \in Doc /\ Clamped(push[r], now).st = push[r].st
    BY <1>1, ClampedType
  <1> QED BY <1>1, <1>2 DEF Merged, InBatch, Wins

LEMMA PushedType ==
  ASSUME TypeOK, NEW push \in Batch, NEW r \in Ids, NEW now \in Nat
  PROVE  /\ Pushed(push, r, now) \in Doc
         /\ Stamped(push, r, now) => Pushed(push, r, now).st # "absent"
         /\ ~Stamped(push, r, now) => Pushed(push, r, now) = tab[r]
  <1>1. push[r] \in Doc
    BY DEF Batch
  <1>2. /\ Clamped(push[r], now) \in Doc
        /\ Clamped(push[r], now).st = push[r].st
    BY <1>1, ClampedType
  <1>3. Tombstone(now) \in Doc /\ Tombstone(now).st # "absent"
    BY DEF Tombstone, Doc, Status
  <1>4. CASE Cascaded(push, r, now)
    BY <1>2, <1>3, <1>4 DEF Pushed, Stamped, InBatch
  <1>5. CASE ~Cascaded(push, r, now)
    BY <1>5, MergedType DEF Pushed, Stamped
  <1> QED BY <1>4, <1>5

LEMMA TypeInit == Init => TypeOK
  BY BlankBatch, TimeAssumption
  DEF Init, TypeOK, NoRequest, NoAnswer, Answer

LEMMA TypeDevice ==
  ASSUME TypeOK, NEW d \in Devices, DeviceStep(d)
  PROVE  TypeOK'
  <1>1. ASSUME NEW r \in Ids, NEW doc \in Edits, Edit(d, r, doc) PROVE TypeOK'
    <2>1. doc \in Doc
      BY EditsAreDocs
    <2>2. copy' \in [Devices -> Batch] /\ dirty' \in [Devices -> SUBSET Ids]
      BY <1>1, <2>1 DEF Edit, TypeOK, Batch
    <2> QED BY <1>1, <2>2 DEF Edit, TypeOK, dbVars, serverVars, sweepVars, deviceVars
  <1>2. CASE Send(d)
    <2> DEFINE q == [dev |-> d, att |-> sent + 1, since |-> cursor[d],
                     push |-> [r \in Ids |-> IF r \in dirty[d] THEN copy[d][r] ELSE Gone]]
    <2>1. q.push \in Batch
      BY BlankBatch DEF TypeOK, Batch
    <2>2. q \in Request
      BY <2>1 DEF TypeOK, Request
    <2>3. net' = net \union {q}
      BY <1>2 DEF Send
    <2> HIDE DEF q
    <2> QED BY <1>2, <2>2, <2>3
            DEF Send, TypeOK, dbVars, serverVars, sweepVars, localVars
  <1>3. CASE GiveUp(d)
    <2>1. NoAnswer \in Answer
      BY BlankBatch DEF NoAnswer, Answer
    <2> QED BY <1>3, <2>1
            DEF GiveUp, TypeOK, dbVars, serverVars, sweepVars, localVars, counters
  <1>4. CASE Apply(d)
    <2>1. NoAnswer \in Answer
      BY BlankBatch DEF NoAnswer, Answer
    <2>2. inbox[d] \in Answer /\ copy[d] \in Batch
      BY DEF TypeOK
    <2>3. [r \in Ids |-> Answered(d, r)] \in Batch
      BY <2>2, BlankBatch DEF Answered, Answer, Batch
    <2>4. inbox[d].time \in Nat
      BY <2>2 DEF Answer
    <2> QED BY <1>4, <2>1, <2>3, <2>4
            DEF Apply, TypeOK, dbVars, serverVars, sweepVars, counters
  <1> QED BY <1>1, <1>2, <1>3, <1>4 DEF DeviceStep

LEMMA TypeServer ==
  ASSUME TypeOK, NEW s \in Servers, ServerStep(s)
  PROVE  TypeOK'
  <1>1. ASSUME NEW q \in net, NEW reading \in Readings, Reserve(s, q, reading)
        PROVE TypeOK'
    <2>1. q \in Request /\ NextStamp(reading) \in Nat
      BY StampType DEF TypeOK
    <2> QED BY <1>1, <2>1
            DEF Reserve, TypeOK, dbVars, sweepVars, localVars, deviceVars, counters
  <1>2. CASE Commit(s)
    <2>1. stamp[s] \in Nat /\ job[s].push \in Batch
      BY BlankBatch DEF TypeOK, Request, NoRequest
    <2>2. \A r \in Ids : Pushed(job[s].push, r, stamp[s]) \in Doc
      BY <2>1, PushedType
    <2>3. tab' \in Batch /\ synced' \in [Ids -> Nat]
      BY <1>2, <2>1, <2>2 DEF Commit, TypeOK, Batch
    <2>4. last' \in Nat /\ hwm' \in Nat
      BY <1>2, <2>1, HwmType DEF Commit
    <2> QED BY <1>2, <2>3, <2>4
            DEF Commit, TypeOK, sweepVars, localVars, deviceVars, counters
  <1>3. ASSUME Finish(s)
        PROVE  /\ pc' \in [Servers -> {"idle", "tx", "committed", "folders"}]
               /\ job' \in [Servers -> Request \union {NoRequest}]
               /\ stamp' \in [Servers -> Nat] /\ got' \in [Servers -> Batch]
    BY <1>3, BlankBatch DEF Finish, TypeOK
  <1>4. CASE Abort(s)
    BY <1>3, <1>4 DEF Abort, TypeOK, dbVars, sweepVars, localVars, deviceVars, counters
  <1>5. CASE PullFolders(s)
    <2>1. [r \in Ids |-> IF r \in Folders /\ Selected(s, r) THEN tab[r] ELSE Gone] \in Batch
      BY BlankBatch DEF TypeOK, Batch
    <2> QED BY <1>5, <2>1
            DEF PullFolders, TypeOK, dbVars, sweepVars, localVars, deviceVars, counters
  <1>6. CASE PullNotes(s)
    <2>1. [r \in Ids |-> IF r \in Notes /\ Selected(s, r) THEN tab[r] ELSE got[s][r]] \in Batch
      BY DEF TypeOK, Batch
    <2>2. stamp[s] \in Nat /\ FullResync(job[s].since, stamp[s]) \in BOOLEAN
      BY DEF TypeOK, FullResync
    <2>3. inbox' \in [Devices -> Answer]
      BY <1>6, <2>1, <2>2 DEF PullNotes, TypeOK, Answer
    <2> QED BY <1>3, <1>6, <2>3
            DEF PullNotes, TypeOK, dbVars, sweepVars, localVars, counters
  <1> QED BY <1>1, <1>2, <1>4, <1>5, <1>6 DEF ServerStep

LEMMA TypePurge ==
  ASSUME TypeOK, NEW S \in SUBSET Ids, Purge(S)
  PROVE  tab' \in Batch /\ synced' \in [Ids -> Nat]
  BY BlankBatch DEF TypeOK, Purge, Batch

LEMMA TypeStep == TypeOK /\ [Next]_vars => TypeOK'
  <1> SUFFICES ASSUME TypeOK, [Next]_vars PROVE TypeOK'
    OBVIOUS
  <1>1. ASSUME NEW reading \in OtherReadings, OtherSync(reading) PROVE TypeOK'
    BY <1>1, StampType, HwmType
    DEF OtherSync, TypeOK, serverVars, sweepVars, localVars, deviceVars, counters
  <1>2. CASE SweepStart
    BY <1>2, TimeAssumption
    DEF SweepStart, TypeOK, dbVars, serverVars, localVars, deviceVars, counters
  <1>3. CASE SweepNotes
    <2>1. tab' \in Batch /\ synced' \in [Ids -> Nat]
      BY <1>3, TypePurge DEF SweepNotes, Ids
    <2> QED BY <1>3, <2>1
            DEF SweepNotes, Purge, TypeOK, serverVars, localVars, deviceVars, counters
  <1>4. CASE SweepFolders
    <2>1. tab' \in Batch /\ synced' \in [Ids -> Nat]
      BY <1>4, TypePurge DEF SweepFolders, Ids
    <2> QED BY <1>4, <2>1
            DEF SweepFolders, Purge, TypeOK, serverVars, localVars, deviceVars, counters
  <1>5. CASE SweepFail
    BY <1>5
    DEF SweepFail, TypeOK, dbVars, serverVars, localVars, deviceVars, counters
  <1>6. CASE UNCHANGED vars
    BY <1>6 DEF vars, TypeOK, dbVars, serverVars, sweepVars, localVars, deviceVars, counters
  <1> QED BY <1>1, <1>2, <1>3, <1>4, <1>5, <1>6, TypeDevice, TypeServer DEF Next

(* The account's tables, the stages of its requests and what its devices    *)
(* hold keep their shape: a tombstone has no text, a cursor is never negative. *)
THEOREM TypeCorrect == Spec => []TypeOK
  BY TypeInit, TypeStep, PTL DEF Spec

-----------------------------------------------------------------------------
(* What a step does to a row.                                              *)

LEMMA CommitEffect ==
  ASSUME TypeOK, NEW s \in Servers, Commit(s), NEW r \in Ids
  PROVE  /\ last' = stamp[s]
         /\ \/ synced'[r] = stamp[s] /\ tab'[r].st # "absent"
            \/ synced'[r] = synced[r] /\ tab'[r] = tab[r]
         /\ InBatch(job[s].push, r) => synced'[r] = stamp[s] /\ tab'[r].st # "absent"
  <1>1. stamp[s] \in Nat /\ job[s].push \in Batch
    BY BlankBatch DEF TypeOK, Request, NoRequest
  <1>2. /\ Stamped(job[s].push, r, stamp[s]) => Pushed(job[s].push, r, stamp[s]).st # "absent"
        /\ ~Stamped(job[s].push, r, stamp[s]) => Pushed(job[s].push, r, stamp[s]) = tab[r]
    BY <1>1, PushedType
  <1>3. tab'[r] = Pushed(job[s].push, r, stamp[s])
    BY DEF Commit
  <1>4. synced'[r] = IF Stamped(job[s].push, r, stamp[s]) THEN stamp[s] ELSE synced[r]
    BY DEF Commit
  <1>5. InBatch(job[s].push, r) => Stamped(job[s].push, r, stamp[s])
    BY DEF Stamped
  <1> QED BY <1>2, <1>3, <1>4, <1>5 DEF Commit

LEMMA PurgeEffect ==
  ASSUME TypeOK, NEW S \in SUBSET Ids, Purge(S), NEW r \in Ids
  PROVE  /\ last' = last
         /\ \/ synced'[r] = synced[r] /\ tab'[r] = tab[r]
            \/ /\ tab[r].st = "deleted" /\ synced[r] < cutoff
               /\ synced'[r] = 0 /\ tab'[r] = Gone
  BY DEF Purge, Expired

-----------------------------------------------------------------------------
(* Stamps.                                                                 *)

LEMMA StampInit == Init => StampInv
  BY DEF Init, StampInv, InFlight, NoAnswer, Gone

(* A step that leaves the database and the processes alone keeps StampInv   *)
(* when it leaves no cursor and no answer above last.                       *)
LEMMA StampDevice ==
  ASSUME TypeOK, StampInv, NEW d \in Devices, DeviceStep(d)
  PROVE  StampInv'
  <1>1. UNCHANGED <<dbVars, serverVars>>
    BY DEF DeviceStep, Edit, Send, GiveUp, Apply
  <1>2. \A e \in Devices : cursor'[e] <= last /\ inbox'[e].time <= last
    <2>1. \A e \in Devices : cursor[e] <= last /\ inbox[e].time <= last
      BY DEF StampInv
    <2>2. NoAnswer.time <= last
      BY DEF NoAnswer, TypeOK
    <2> QED BY <2>1, <2>2
            DEF DeviceStep, Edit, Send, GiveUp, Apply, TypeOK, localVars, deviceVars
  <1> QED BY <1>1, <1>2 DEF StampInv, InFlight, dbVars, serverVars

LEMMA StampServer ==
  ASSUME TypeOK, StampInv, NEW s \in Servers, ServerStep(s)
  PROVE  StampInv'
  <1> USE DEF InFlight
  <1>1. ASSUME NEW q \in net, NEW reading \in Readings, Reserve(s, q, reading)
        PROVE  StampInv'
    <2>1. NextStamp(reading) > last
      BY StampType
    <2>2. WriterFree
      BY <1>1 DEF Reserve, Allocatable
    <2> QED BY <1>1, <2>1, <2>2
            DEF Reserve, StampInv, WriterFree, TypeOK, dbVars, localVars, deviceVars
  <1>2. CASE Commit(s)
    <2>1. last' = stamp[s] /\ stamp[s] > last /\ stamp[s] > 0
      BY <1>2 DEF Commit, StampInv, TypeOK
    <2>2. \A r \in Ids : /\ synced'[r] <= last'
                         /\ tab'[r].st # "absent" => synced'[r] > 0
      BY <1>2, <2>1, CommitEffect DEF StampInv, TypeOK
    <2>3. \A d \in Devices : cursor'[d] <= last' /\ inbox'[d].time <= last'
      <3>1. \A d \in Devices : cursor[d] \in Nat /\ inbox[d].time \in Nat
        BY DEF TypeOK, Answer
      <3> QED BY <1>2, <2>1, <3>1 DEF Commit, StampInv, TypeOK, localVars, deviceVars
    <2>4. \A t \in Servers : pc'[t] # "tx"
      BY <1>2 DEF Commit, StampInv, TypeOK
    <2>5. \A t \in Servers : pc'[t] \in {"committed", "folders"}
                               => stamp'[t] > 0 /\ stamp'[t] <= last'
      BY <1>2, <2>1 DEF Commit, StampInv, TypeOK
    <2> QED BY <2>2, <2>3, <2>4, <2>5 DEF StampInv
  <1>3. CASE Abort(s)
    BY <1>3 DEF Abort, Finish, StampInv, TypeOK, dbVars, localVars, deviceVars
  <1>4. CASE PullFolders(s)
    BY <1>4 DEF PullFolders, StampInv, TypeOK, dbVars, localVars, deviceVars
  <1>5. CASE PullNotes(s)
    <2>1. \A d \in Devices : inbox'[d].time <= last
      BY <1>5 DEF PullNotes, StampInv, TypeOK
    <2> QED BY <1>5, <2>1 DEF PullNotes, Finish, StampInv, TypeOK, dbVars, localVars
  <1> QED BY <1>1, <1>2, <1>3, <1>4, <1>5 DEF ServerStep

LEMMA StampStep == TypeOK /\ StampInv /\ [Next]_vars => StampInv'
  <1> SUFFICES ASSUME TypeOK, StampInv, [Next]_vars PROVE StampInv'
    OBVIOUS
  <1> USE DEF InFlight
  <1>1. ASSUME NEW reading \in OtherReadings, OtherSync(reading) PROVE StampInv'
    <2>1. last' \in Nat /\ last' > last
      BY <1>1, StampType DEF OtherSync
    <2>2. WriterFree
      BY <1>1 DEF OtherSync, Allocatable
    <2>3. \A d \in Devices : inbox[d].time \in Nat
      BY DEF TypeOK, Answer
    <2> QED BY <1>1, <2>1, <2>2, <2>3
            DEF OtherSync, WriterFree, StampInv, TypeOK, serverVars, localVars, deviceVars
  <1>2. ASSUME NEW S \in SUBSET Ids, Purge(S) PROVE StampInv'
    <2>1. \A r \in Ids : /\ synced'[r] <= last'
                         /\ tab'[r].st # "absent" => synced'[r] > 0
      BY <1>2, PurgeEffect DEF StampInv, TypeOK, Gone
    <2> QED BY <1>2, <2>1
            DEF Purge, WriterFree, StampInv, serverVars, localVars, deviceVars
  <1>3. CASE SweepStart \/ SweepFail \/ UNCHANGED vars
    BY <1>3 DEF SweepStart, SweepFail, vars, StampInv, dbVars, serverVars, localVars, deviceVars
  <1>4. CASE SweepNotes \/ SweepFolders
    BY <1>2, <1>4 DEF SweepNotes, SweepFolders, Ids
  <1> QED BY <1>1, <1>3, <1>4, StampDevice, StampServer DEF Next

LEMMA StampCorrect == Spec => [](TypeOK /\ StampInv)
  BY TypeInit, TypeStep, StampInit, StampStep, PTL DEF Spec

(* The stamps follow the order of the commits: a row is never re-stamped at *)
(* or below a stamp that has been committed, and perhaps pulled, before.    *)
THEOREM CommitsInOrder == Spec => CommitOrder
  <1> DEFINE Ordered == \A r \in Ids : synced'[r] # synced[r] /\ tab'[r].st # "absent"
                                         => synced'[r] > last
  <1>1. TypeOK /\ StampInv /\ [Next]_vars => [Ordered]_vars
    <2> SUFFICES ASSUME TypeOK, StampInv, Next, NEW r \in Ids,
                        synced'[r] # synced[r], tab'[r].st # "absent"
                 PROVE  synced'[r] > last
      BY DEF vars, dbVars
    <2>1. CASE \E s \in Servers : Commit(s)
      <3>1. PICK s \in Servers : Commit(s)
        BY <2>1
      <3>2. pc[s] = "tx"
        BY <3>1 DEF Commit
      <3> QED BY <3>1, <3>2, CommitEffect DEF StampInv
    <2>2. CASE \E S \in SUBSET Ids : Purge(S)
      BY <2>2, PurgeEffect DEF Gone
    <2>3. CASE UNCHANGED synced
      BY <2>3
    <2> QED BY <2>1, <2>2, <2>3
            DEF Next, DeviceStep, Edit, Send, GiveUp, Apply, ServerStep, Reserve, Abort,
                PullFolders, PullNotes, OtherSync, SweepStart, SweepNotes, SweepFolders,
                SweepFail, Ids, dbVars
  <1> HIDE DEF Ordered
  <1>2. Spec => [][Ordered]_vars
    BY <1>1, StampCorrect, PTL DEF Spec
  <1> QED BY <1>2 DEF CommitOrder, Ordered

-----------------------------------------------------------------------------
(* How far stamps run ahead of a pull.                                     *)

LEMMA DriftInit == Init => DriftInv
  BY DEF Init, DriftInv, InFlight

LEMMA DriftServer ==
  ASSUME TypeOK, StampInv, DriftInv, NEW s \in Servers, ServerStep(s)
  PROVE  DriftInv'
  <1> USE DEF InFlight
  <1>1. ASSUME NEW q \in net, NEW reading \in Readings, Reserve(s, q, reading)
        PROVE  DriftInv'
    <2>1. WithinDrift(NextStamp(reading)) /\ WriterFree
      BY <1>1 DEF Reserve, Allocatable
    <2> QED BY <1>1, <2>1
            DEF Reserve, DriftInv, WithinDrift, WriterFree, TypeOK, dbVars, sweepVars
  <1>2. CASE Commit(s)
    <2>1. pc[s] = "tx" /\ last' = stamp[s] /\ stamp[s] > last
      BY <1>2 DEF Commit, StampInv
    <2>2. /\ stamp[s] \in Nat /\ last \in Nat /\ cutoff \in Int /\ Drift \in Nat
          /\ Retention \in Nat /\ Margin \in Nat
      BY TimeAssumption DEF TypeOK
    <2>3. \A t \in Servers : pc'[t] \in {"committed", "folders"}
                               => last' <= stamp'[t] + Drift
      BY <1>2, <2>1, <2>2 DEF Commit, DriftInv, TypeOK
    <2>4. \A t \in Servers : pc'[t] # "tx"
      BY <1>2, <2>1 DEF Commit, StampInv, TypeOK
    <2>5. sweep' # "idle" => cutoff' <= last' - (Retention + Margin)
      BY <1>2, <2>1, <2>2 DEF Commit, DriftInv, sweepVars
    <2> QED BY <2>3, <2>4, <2>5 DEF DriftInv
  <1>3. CASE Abort(s)
    BY <1>3 DEF Abort, Finish, DriftInv, TypeOK, dbVars, sweepVars
  <1>4. CASE PullFolders(s)
    BY <1>4 DEF PullFolders, DriftInv, TypeOK, dbVars, sweepVars
  <1>5. CASE PullNotes(s)
    BY <1>5 DEF PullNotes, Finish, DriftInv, TypeOK, dbVars, sweepVars
  <1> QED BY <1>1, <1>2, <1>3, <1>4, <1>5 DEF ServerStep

LEMMA DriftStep == TypeOK /\ StampInv /\ DriftInv /\ [Next]_vars => DriftInv'
  <1> SUFFICES ASSUME TypeOK, StampInv, DriftInv, [Next]_vars PROVE DriftInv'
    OBVIOUS
  <1> USE DEF InFlight
  <1>1. ASSUME NEW d \in Devices, DeviceStep(d) PROVE DriftInv'
    BY <1>1 DEF DeviceStep, Edit, Send, GiveUp, Apply, DriftInv,
                dbVars, serverVars, sweepVars
  <1>2. ASSUME NEW reading \in OtherReadings, OtherSync(reading) PROVE DriftInv'
    <2>1. /\ last' > last /\ last' \in Nat
          /\ \A s \in Servers : pc[s] \in {"committed", "folders"} => last' <= stamp[s] + Drift
      BY <1>2, StampType DEF OtherSync, Allocatable, WithinDrift
    <2>2. \A s \in Servers : pc[s] # "tx"
      BY <1>2 DEF OtherSync, Allocatable, WriterFree
    <2> QED BY <1>2, <2>1, <2>2, TimeAssumption
            DEF OtherSync, DriftInv, TypeOK, serverVars, sweepVars
  <1>3. CASE SweepStart
    BY <1>3 DEF SweepStart, DriftInv, dbVars, serverVars
  <1>4. ASSUME NEW S \in SUBSET Ids, Purge(S), UNCHANGED cutoff \/ sweep' = "idle",
               sweep # "idle"
        PROVE  DriftInv'
    BY <1>4 DEF Purge, DriftInv, serverVars
  <1>5. CASE SweepNotes \/ SweepFolders
    BY <1>4, <1>5 DEF SweepNotes, SweepFolders, Ids
  <1>6. CASE SweepFail \/ UNCHANGED vars
    BY <1>6 DEF SweepFail, vars, DriftInv, dbVars, serverVars, sweepVars
  <1> QED BY <1>1, <1>2, <1>3, <1>5, <1>6, DriftServer DEF Next

-----------------------------------------------------------------------------
(* Requests.                                                               *)

LEMMA RequestInit == Init => RequestInv
  BY DEF Init, RequestInv, InFlight, NoAnswer, Gone

(* A step of device d touches no other device, and no request that a device *)
(* still waits for afterwards comes from d, but for the one it may send.    *)
LEMMA DeviceIsolation ==
  ASSUME TypeOK, RequestInv, NEW d \in Devices, DeviceStep(d)
  PROVE  /\ UNCHANGED <<dbVars, serverVars, sweepVars>>
         /\ sent' \in Nat /\ sent <= sent'
         /\ \A e \in Devices : e # d => /\ cursor'[e] = cursor[e] /\ copy'[e] = copy[e]
                                        /\ dirty'[e] = dirty[e] /\ inbox'[e] = inbox[e]
                                        /\ unechoed'[e] = unechoed[e]
                                        /\ waiting'[e] = waiting[e]
         /\ \A q \in Request : q.att > 0 /\ q.att <= sent /\ Live(q)'
                                 => Live(q) /\ q.dev # d
  <1>1. \A q \in Request : q.dev \in Devices /\ q.att \in Nat
    BY DEF Request
  <1>2. waiting'[d] \in {0, sent + 1}
    BY DEF DeviceStep, Edit, Send, GiveUp, Apply, TypeOK, deviceVars
  <1>3. \A e \in Devices : e # d => waiting'[e] = waiting[e]
    BY DEF DeviceStep, Edit, Send, GiveUp, Apply, TypeOK, deviceVars
  <1>4. \A q \in Request : q.att > 0 /\ q.att <= sent /\ Live(q)' => Live(q) /\ q.dev # d
    BY <1>1, <1>2, <1>3 DEF Live, TypeOK
  <1>5. sent' \in Nat /\ sent <= sent'
    BY DEF DeviceStep, Edit, Send, GiveUp, Apply, TypeOK, counters
  <1>6. UNCHANGED <<dbVars, serverVars, sweepVars>>
    BY DEF DeviceStep, Edit, Send, GiveUp, Apply
  <1>7. \A e \in Devices : e # d => /\ cursor'[e] = cursor[e] /\ copy'[e] = copy[e]
                                    /\ dirty'[e] = dirty[e] /\ inbox'[e] = inbox[e]
                                    /\ unechoed'[e] = unechoed[e]
    BY DEF DeviceStep, Edit, Send, GiveUp, Apply, TypeOK, localVars, deviceVars
  <1> QED BY <1>3, <1>4, <1>5, <1>6, <1>7

LEMMA StillFaithful ==
  ASSUME TypeOK, RequestInv, NEW d \in Devices, DeviceStep(d), NEW q, Faithful(q)
  PROVE  Faithful(q)'
  <1>1. /\ q \in Request /\ q.att > 0 /\ q.att <= sent /\ q.att \in Nat /\ q.dev \in Devices
        /\ sent \in Nat /\ sent' \in Nat /\ sent <= sent'
    BY DeviceIsolation DEF Faithful, Request, TypeOK
  <1>2. ASSUME Live(q)' PROVE Live(q) /\ q.dev # d
    BY <1>1, <1>2, DeviceIsolation
  <1>3. q.dev # d => /\ cursor'[q.dev] = cursor[q.dev] /\ copy'[q.dev] = copy[q.dev]
                     /\ dirty'[q.dev] = dirty[q.dev]
    BY <1>1, DeviceIsolation
  <1> QED BY <1>1, <1>2, <1>3 DEF Faithful

LEMMA RequestDevice ==
  ASSUME TypeOK, StampInv, RequestInv, NEW d \in Devices, DeviceStep(d)
  PROVE  RequestInv'
  <1>1. UNCHANGED serverVars
    BY DeviceIsolation
  <1>2. \A q \in net' : Faithful(q)'
    <2>1. CASE Send(d)
      <3>1. [r \in Ids |-> IF r \in dirty[d] THEN copy[d][r] ELSE Gone] \in Batch
        BY BlankBatch DEF TypeOK, Batch
      <3> DEFINE rec == [dev |-> d, att |-> sent + 1, since |-> cursor[d],
                         push |-> [r \in Ids |-> IF r \in dirty[d] THEN copy[d][r] ELSE Gone]]
      <3>2. rec \in Request
        BY <3>1 DEF TypeOK, Request
      <3>3. net' = net \union {rec}
        BY <2>1 DEF Send
      <3>4. PICK new \in Request :
              /\ new.dev = d /\ new.att = sent + 1 /\ new.since = cursor[d]
              /\ new.push = [r \in Ids |-> IF r \in dirty[d] THEN copy[d][r] ELSE Gone]
              /\ net' = net \union {new}
        <4> WITNESS rec \in Request
        <4> QED BY <3>3
      <3>5. sent' = sent + 1 /\ UNCHANGED localVars
        BY <2>1 DEF Send
      <3>6. Faithful(new)'
        BY <3>4, <3>5 DEF Faithful, localVars, TypeOK
      <3> QED BY <3>4, <3>6, StillFaithful DEF RequestInv
    <2>2. CASE ~Send(d)
      <3>1. net' = net
        BY <2>2 DEF DeviceStep, Edit, GiveUp, Apply
      <3> QED BY <3>1, StillFaithful DEF RequestInv
    <2> QED BY <2>1, <2>2
  <1>3. \A s \in Servers : pc'[s] # "idle" => Faithful(job[s])' 
    BY <1>1, StillFaithful DEF RequestInv, serverVars, Faithful
  <1>4. ASSUME NEW s \in Servers, InFlight(s)', Live(job[s])'
        PROVE  cursor'[job'[s].dev] < stamp'[s]
    <2>1. Faithful(job[s]) /\ InFlight(s) /\ job'[s] = job[s] /\ stamp'[s] = stamp[s]
      BY <1>1, <1>4 DEF RequestInv, InFlight, serverVars
    <2>2. job[s].dev \in Devices /\ job[s].dev # d /\ Live(job[s])
      BY <1>4, <2>1, DeviceIsolation DEF Faithful, Request, Live
    <2> QED BY <2>1, <2>2, DeviceIsolation DEF RequestInv
  <1>5. \A e \in Devices : waiting'[e] <= sent' /\ (inbox'[e].time > 0 => waiting'[e] > 0)
    <2>1. NoAnswer.time = 0
      BY DEF NoAnswer
    <2>2. waiting'[d] <= sent' /\ (inbox'[d].time > 0 => waiting'[d] > 0)
      BY <2>1 DEF DeviceStep, Edit, Send, GiveUp, Apply, RequestInv, TypeOK, deviceVars, counters
    <2> QED BY <2>2, DeviceIsolation DEF RequestInv, TypeOK
  <1>6. \A r \in Ids : IF r \in dirty'[d] THEN copy'[d][r].st # "absent"
                       ELSE cursor'[d] = 0 => copy'[d][r].st = "absent"
    <2>1. \A doc \in Edits : doc.st # "absent"
      BY DEF Edits, Tombstone
    <2>2. CASE Send(d) \/ GiveUp(d)
      BY <2>2 DEF Send, GiveUp, RequestInv, localVars
    <2>3. CASE Apply(d)
      <3>1. cursor'[d] > 0 /\ dirty'[d] = {}
        BY <2>3 DEF Apply, TypeOK
      <3> QED BY <3>1
    <2>4. CASE \E r \in Ids, doc \in Edits : Edit(d, r, doc)
      BY <2>1, <2>4 DEF Edit, RequestInv, TypeOK, Batch
    <2> QED BY <2>2, <2>3, <2>4 DEF DeviceStep
  <1> QED BY <1>2, <1>3, <1>4, <1>5, <1>6, DeviceIsolation DEF RequestInv

LEMMA RequestServer ==
  ASSUME TypeOK, StampInv, RequestInv, NEW s \in Servers, ServerStep(s)
  PROVE  RequestInv'
  <1>1. UNCHANGED <<localVars, waiting, sent>>
    BY DEF ServerStep, Reserve, Commit, Abort, PullFolders, PullNotes, deviceVars, counters
  <1>2. \A q : Faithful(q) => Faithful(q)'
    BY <1>1 DEF Faithful, Live, localVars
  <1>3. /\ net' \subseteq net
        /\ \A t \in Servers : pc'[t] # "idle"
             => job'[t] \in net \/ (job'[t] = job[t] /\ pc[t] # "idle")
    BY DEF ServerStep, Reserve, Commit, Abort, PullFolders, PullNotes, Finish, TypeOK
  <1>4. \A t \in Servers : pc'[t] # "idle" => Faithful(job[t])'
    <2> SUFFICES ASSUME NEW t \in Servers, pc'[t] # "idle" PROVE Faithful(job[t])'
      OBVIOUS
    <2>1. Faithful(job'[t])
      BY <1>3 DEF RequestInv
    <2> QED BY <1>1, <2>1 DEF Faithful, Live, localVars
  <1>5. ASSUME NEW t \in Servers, InFlight(t)', Live(job[t])'
        PROVE  cursor'[job'[t].dev] < stamp'[t]
    <2>1. CASE t = s /\ Commit(s)
      <3>1. job[s].dev \in Devices /\ stamp[s] > last
        BY <2>1 DEF Commit, RequestInv, Faithful, Request, StampInv
      <3> QED BY <1>1, <2>1, <3>1 DEF Commit, StampInv, TypeOK, localVars
    <2>2. CASE ~(t = s /\ Commit(s))
      <3>1. InFlight(t) /\ job'[t] = job[t] /\ stamp'[t] = stamp[t]
        BY <1>5, <2>2
        DEF ServerStep, Reserve, Commit, Abort, PullFolders, PullNotes, Finish, InFlight, TypeOK
      <3> QED BY <1>1, <1>5, <3>1 DEF RequestInv, Live, localVars
    <2> QED BY <2>1, <2>2
  <1>6. \A d \in Devices : inbox'[d].time > 0 => waiting'[d] > 0
    <2>1. CASE PullNotes(s)
      <3>1. Faithful(job[s]) /\ job[s].dev \in Devices
        BY <2>1 DEF PullNotes, RequestInv, Faithful, Request
      <3> QED BY <1>1, <2>1, <3>1 DEF PullNotes, RequestInv, Faithful, Live, TypeOK
    <2>2. CASE ~PullNotes(s)
      BY <1>1, <2>2 DEF ServerStep, Reserve, Commit, Abort, PullFolders, RequestInv, deviceVars
    <2> QED BY <2>1, <2>2
  <1> QED BY <1>1, <1>2, <1>3, <1>4, <1>5, <1>6 DEF RequestInv, localVars

LEMMA RequestStep == TypeOK /\ StampInv /\ RequestInv /\ [Next]_vars => RequestInv'
  <1> SUFFICES ASSUME TypeOK, StampInv, RequestInv, [Next]_vars PROVE RequestInv'
    OBVIOUS
  <1>1. ASSUME UNCHANGED <<serverVars, net, localVars, deviceVars, counters>> PROVE RequestInv'
    BY <1>1 DEF RequestInv, Faithful, Live, InFlight, serverVars, localVars, deviceVars, counters
  <1>2. ASSUME NEW reading \in OtherReadings, OtherSync(reading) PROVE RequestInv'
    BY <1>1, <1>2 DEF OtherSync
  <1>3. CASE SweepStart \/ SweepNotes \/ SweepFolders \/ SweepFail \/ UNCHANGED vars
    BY <1>1, <1>3 DEF SweepStart, SweepNotes, SweepFolders, Purge, SweepFail, vars
  <1> QED BY <1>2, <1>3, RequestDevice, RequestServer DEF Next

-----------------------------------------------------------------------------
(* Rows.                                                                   *)

LEMMA RowStep ==
  ASSUME TypeOK, StampInv, DriftInv, [Next]_vars, NEW r \in Ids
  PROVE  /\ tab[r] \in Doc /\ tab'[r] \in Doc /\ synced[r] \in Nat /\ synced'[r] \in Nat
         /\ last \in Nat /\ last' \in Nat /\ last <= last'
         /\ \/ tab'[r] = tab[r] /\ synced'[r] = synced[r]
            \/ synced'[r] > last /\ tab'[r].st # "absent"
            \/ /\ tab[r].st = "deleted" /\ tab'[r].st = "absent"
               /\ synced[r] < last' - (Retention + Margin)
               /\ last' = last /\ UNCHANGED <<serverVars, net, localVars, deviceVars>>
  <1>1. TypeOK'
    BY TypeStep
  <1>2. /\ tab[r] \in Doc /\ tab'[r] \in Doc /\ synced[r] \in Nat /\ synced'[r] \in Nat
        /\ last \in Nat /\ last' \in Nat
    BY <1>1 DEF TypeOK, Batch
  <1>3. CASE \E s \in Servers : Commit(s)
    <2>1. PICK s \in Servers : Commit(s)
      BY <1>3
    <2>2. stamp[s] > last
      BY <2>1 DEF Commit, StampInv
    <2> QED BY <1>2, <2>1, <2>2, CommitEffect
  <1>4. CASE SweepNotes \/ SweepFolders
    <2>1. PICK S \in SUBSET Ids : Purge(S) /\ sweep # "idle"
      BY <1>4 DEF SweepNotes, SweepFolders, Ids
    <2>2. cutoff <= last - (Retention + Margin) /\ cutoff \in Int
      BY <2>1 DEF DriftInv, TypeOK
    <2>3. UNCHANGED <<last, serverVars, net, localVars, deviceVars>>
      BY <2>1 DEF Purge
    <2> QED BY <1>2, <2>1, <2>2, <2>3, PurgeEffect, TimeAssumption DEF Gone
  <1>5. CASE \E reading \in OtherReadings : OtherSync(reading)
    BY <1>2, <1>5, StampType DEF OtherSync
  <1>6. CASE UNCHANGED dbVars
    BY <1>2, <1>6 DEF dbVars
  <1> QED BY <1>3, <1>4, <1>5, <1>6
          DEF Next, DeviceStep, Edit, Send, GiveUp, Apply, ServerStep, Reserve, Abort,
              PullFolders, PullNotes, SweepStart, SweepFail, vars

(* A promise survives whatever happens to the row: a commit puts it above   *)
(* the cursor, and a purge takes only what the cursor has long passed or    *)
(* is far from reaching.                                                    *)
LEMMA PromiseStep ==
  ASSUME TypeOK, StampInv, DriftInv, [Next]_vars, NEW r \in Ids,
         NEW c \in Nat, c <= last, NEW cp, NEW exempt \in BOOLEAN, Promise(r, c, cp, exempt)
  PROVE  Promised(tab'[r], synced'[r], last', c, cp, exempt)
  <1>1. Promised(tab[r], synced[r], last, c, cp, exempt)
    BY DEF Promise
  <1> DEFINE row == tab[r]
             at == synced[r]
             row2 == tab'[r]
             at2 == synced'[r]
             now2 == last'
             Kept == Promised(row2, at2, now2, c, cp, exempt)
  <1>2. at \in Nat /\ at2 \in Nat /\ last \in Nat /\ now2 \in Nat /\ last <= now2
    BY RowStep
  <1>3. \/ row2 = row /\ at2 = at
        \/ at2 > last /\ row2.st # "absent"
        \/ row.st = "deleted" /\ row2.st = "absent" /\ at < now2 - (Retention + Margin)
    BY RowStep
  <1>4. Promised(row, at, last, c, cp, exempt)
    BY <1>1
  <1> HIDE DEF row, at, row2, at2, now2
  <1>5. ASSUME row2 = row /\ at2 = at PROVE Kept
    BY <1>2, <1>4, <1>5, TimeAssumption DEF Promised
  <1>6. ASSUME at2 > last /\ row2.st # "absent" PROVE Kept
    BY <1>2, <1>6 DEF Promised
  <1>7. ASSUME row.st = "deleted" /\ row2.st = "absent" /\ at < now2 - (Retention + Margin) PROVE Kept
    BY <1>2, <1>4, <1>7, TimeAssumption DEF Promised
  <1>8. Kept
    BY <1>3, <1>5, <1>6, <1>7
  <1> QED BY <1>8 DEF row2, at2, now2

(* What the pull of s leaves its device with, for one row.                  *)
LEMMA PullPromise ==
  ASSUME TypeOK, StampInv, DriftInv, RequestInv, LandedInv, SavedInv,
         NEW s \in Servers, InFlight(s), Live(job[s]), NEW r \in Ids,
         NEW doc, doc = IF Selected(s, r) THEN tab[r] ELSE Gone
  PROVE  LET d    == job[s].dev
             full == FullResync(job[s].since, stamp[s])
         IN Promise(r, stamp[s], After(d, full, doc, r), Exempt(d, full, doc, r))
  <1> DEFINE d == job[s].dev
             full == FullResync(job[s].since, stamp[s])
             c == cursor[d]
             now == stamp[s]
  <1>1. /\ d \in Devices /\ job[s].since = c /\ c \in Nat /\ now \in Nat /\ last \in Nat
        /\ c < now /\ now > 0 /\ now <= last /\ last <= now + Drift
        /\ synced[r] \in Nat /\ synced[r] <= last
        /\ tab[r].st \in Status /\ (tab[r].st # "absent" => synced[r] > 0)
    <2>1. Faithful(job[s])
      BY DEF RequestInv, InFlight
    <2> QED BY <2>1 DEF Faithful, Request, TypeOK, StampInv, DriftInv, RequestInv, Batch, Doc
  <1>2. full <=> c > 0 /\ c < now - Retention
    BY <1>1, TimeAssumption DEF FullResync
  <1>3. From(job[s].since, now) = IF full THEN 0 ELSE c
    BY <1>1 DEF From
  <1>4. CASE Selected(s, r)
    <2>1. doc = tab[r] /\ tab[r].st # "absent"
      BY <1>4 DEF Selected
    <2> QED BY <2>1 DEF Promise, Promised, After
  <1>5. CASE ~Selected(s, r)
    <2>1. doc = Gone /\ doc.st = "absent"
      BY <1>5 DEF Gone
    <2>2. CASE full
      <3>1. tab[r].st = "active" => synced[r] > now
        BY <1>1, <1>3, <1>5, <2>2 DEF Selected
      <3>2. After(d, full, doc, r) = Gone /\ Gone.st = "absent"
        BY <2>1, <2>2 DEF After
      <3> QED BY <1>1, <3>1, <3>2 DEF Promise, Promised
    <2>3. CASE ~full
      <3>1. After(d, full, doc, r) = copy[d][r]
            /\ (Exempt(d, full, doc, r) <=> r \in unechoed[d] \/ (c = 0 /\ r \in dirty[d]))
        BY <2>1, <2>3 DEF After, Exempt
      <3>2. CASE r \in dirty[d]
        <4>1. IF tab[r].st = "absent" THEN Drift > Margin ELSE synced[r] >= now
          BY <3>2 DEF LandedInv
        <4>2. CASE c = 0
          <5>1. ~(tab[r].st = "active" /\ synced[r] <= now)
            BY <1>1, <1>3, <1>5, <2>3, <4>2 DEF Selected
          <5> QED BY <3>1, <3>2, <4>2, <5>1 DEF Promise, Promised
        <4>3. CASE c # 0
          <5>1. ~(tab[r].st # "absent" /\ synced[r] <= now)
            BY <1>1, <1>3, <1>5, <2>3, <4>1, <4>3 DEF Selected
          <5> QED BY <1>1, <3>1, <4>1, <5>1, TimeAssumption DEF Promise, Promised, Status
        <4> QED BY <4>2, <4>3
      <3>3. CASE r \notin dirty[d] /\ c = 0
        <4>1. copy[d][r].st = "absent"
          BY <1>1, <3>3 DEF RequestInv
        <4>2. ~(tab[r].st = "active" /\ synced[r] <= now)
          BY <1>1, <1>3, <1>5, <2>3, <3>3 DEF Selected
        <4> QED BY <3>1, <4>1, <4>2 DEF Promise, Promised
      <3>4. CASE r \notin dirty[d] /\ c # 0
        <4>1. Promise(r, c, copy[d][r], r \in unechoed[d])
          BY <1>1, <3>4 DEF SavedInv, Clean
        <4>2. tab[r].st = "absent" \/ synced[r] > now \/ synced[r] <= c
          BY <1>1, <1>3, <1>5, <2>3, <3>4 DEF Selected
        <4>3. c >= now - Retention
          BY <1>1, <1>2, <2>3, <3>4, TimeAssumption
        <4>4. Drift <= Margin => ~(c < last - (Retention + Margin))
          BY <1>1, <4>3, TimeAssumption
        <4> QED BY <1>1, <3>1, <3>4, <4>1, <4>2, <4>4 DEF Promise, Promised
      <3> QED BY <3>2, <3>3, <3>4
    <2> QED BY <2>2, <2>3
  <1> QED BY <1>4, <1>5

-----------------------------------------------------------------------------
(* Delivery.                                                               *)

Before == TypeOK /\ StampInv /\ DriftInv /\ RequestInv

LEMMA ServerIsolation ==
  ASSUME TypeOK, NEW s \in Servers, ServerStep(s)
  PROVE  /\ UNCHANGED <<localVars, waiting>>
         /\ \A t \in Servers : t # s => /\ pc'[t] = pc[t] /\ job'[t] = job[t]
                                        /\ stamp'[t] = stamp[t] /\ got'[t] = got[t]
         /\ InFlight(s)' /\ ~Commit(s)
              => InFlight(s) /\ job'[s] = job[s] /\ stamp'[s] = stamp[s]
  BY DEF ServerStep, Reserve, Commit, Abort, PullFolders, PullNotes, Finish, InFlight,
         TypeOK, deviceVars

LEMMA StepKinds ==
  ASSUME [Next]_vars
  PROVE  \/ \E d \in Devices : DeviceStep(d)
         \/ \E s \in Servers : ServerStep(s)
         \/ UNCHANGED <<serverVars, net, localVars, deviceVars>>
  BY DEF Next, OtherSync, SweepStart, SweepNotes, SweepFolders, SweepFail, Purge, vars

LEMMA DeliveryInit == Init => LandedInv /\ SavedInv /\ AnswerInv /\ FolderInv
  BY DEF Init, LandedInv, SavedInv, AnswerInv, FolderInv, Clean, InFlight, NoAnswer

LEMMA LandedStep == Before /\ LandedInv /\ [Next]_vars => LandedInv'
  <1> SUFFICES ASSUME Before, LandedInv, [Next]_vars, NEW s \in Servers, NEW r \in Ids,
                      InFlight(s)', Live(job[s])', r \in dirty'[job'[s].dev]
               PROVE  IF tab'[r].st = "absent" THEN Drift > Margin ELSE synced'[r] >= stamp'[s]
    BY DEF LandedInv
  <1> USE DEF Before
  <1>1. CASE Commit(s)
    <2>1. Faithful(job[s]) /\ job'[s] = job[s] /\ UNCHANGED <<localVars, waiting, stamp>>
      BY <1>1 DEF Commit, RequestInv, deviceVars
    <2>2. Live(job[s]) /\ job[s].dev \in Devices /\ r \in dirty[job[s].dev]
      BY <2>1 DEF Live, localVars, Faithful, Request
    <2>3. InBatch(job[s].push, r)
      BY <2>1, <2>2 DEF InBatch, Faithful, RequestInv
    <2> QED BY <1>1, <2>1, <2>3, CommitEffect DEF TypeOK
  <1>2. ASSUME InFlight(s), Live(job[s]), r \in dirty[job[s].dev], stamp'[s] = stamp[s]
        PROVE  IF tab'[r].st = "absent" THEN Drift > Margin ELSE synced'[r] >= stamp'[s]
    <2>1. IF tab[r].st = "absent" THEN Drift > Margin ELSE synced[r] >= stamp[s]
      BY <1>2 DEF LandedInv
    <2>2. stamp[s] \in Nat /\ stamp[s] <= last /\ last <= stamp[s] + Drift
      BY <1>2 DEF TypeOK, StampInv, DriftInv
    <2> QED BY <1>2, <2>1, <2>2, RowStep, TimeAssumption
  <1>3. CASE \E d \in Devices : DeviceStep(d)
    <2>1. PICK d \in Devices : DeviceStep(d)
      BY <1>3
    <2>2. UNCHANGED serverVars /\ InFlight(s)
      BY <2>1, DeviceIsolation DEF InFlight, serverVars
    <2>3. Faithful(job[s]) /\ Live(job[s])'
      BY <2>2 DEF RequestInv, InFlight, serverVars, Live
    <2>4. Live(job[s]) /\ job[s].dev # d /\ job[s].dev \in Devices
      BY <2>1, <2>2, <2>3, DeviceIsolation DEF Faithful, Request, Live, serverVars
    <2>5. dirty'[job[s].dev] = dirty[job[s].dev]
      BY <2>1, <2>4, DeviceIsolation
    <2> QED BY <1>2, <2>2, <2>4, <2>5 DEF serverVars
  <1>4. CASE ~Commit(s) /\ ~\E d \in Devices : DeviceStep(d)
    <2>1. /\ UNCHANGED <<localVars, waiting>>
          /\ InFlight(s) /\ job'[s] = job[s] /\ stamp'[s] = stamp[s]
      BY <1>4, StepKinds, ServerIsolation DEF InFlight, serverVars, deviceVars
    <2> QED BY <1>2, <2>1 DEF Live, localVars
  <1> QED BY <1>1, <1>3, <1>4

LEMMA SavedStep == Before /\ SavedInv /\ AnswerInv /\ [Next]_vars => SavedInv'
  <1> SUFFICES ASSUME Before, SavedInv, AnswerInv, [Next]_vars,
                      NEW d \in Devices, NEW r \in Ids, Clean(d, r)'
               PROVE  Promised(tab'[r], synced'[r], last', cursor'[d], copy'[d][r],
                               r \in unechoed'[d])
    BY DEF SavedInv, Promise
  <1> USE DEF Before
  <1>1. CASE Apply(d)
    <2> DEFINE full == inbox[d].full
               doc  == inbox[d].docs[r]
    <2>1. Promise(r, inbox[d].time, After(d, full, doc, r), Exempt(d, full, doc, r))
      BY <1>1 DEF Apply, AnswerInv
    <2>2. /\ cursor'[d] = inbox[d].time
          /\ copy'[d][r] = After(d, full, doc, r)
          /\ r \in unechoed'[d] <=> Exempt(d, full, doc, r)
          /\ UNCHANGED dbVars
      BY <1>1 DEF Apply, TypeOK, After, Answered, Exempt
    <2> QED BY <2>1, <2>2 DEF Promise, Promised, dbVars
  <1>2. CASE ~Apply(d)
    <2>1. /\ cursor'[d] = cursor[d] /\ unechoed'[d] = unechoed[d]
          /\ r \notin dirty[d] /\ copy'[d][r] = copy[d][r]
      <3>1. CASE UNCHANGED localVars
        BY <3>1 DEF localVars, Clean
      <3>2. CASE \E e \in Devices : DeviceStep(e)
        <4>1. PICK e \in Devices : DeviceStep(e)
          BY <3>2
        <4>2. CASE e # d
          BY <4>1, <4>2, DeviceIsolation DEF Clean
        <4>3. ASSUME NEW x \in Ids, NEW doc \in Edits, Edit(d, x, doc)
              PROVE  /\ cursor'[d] = cursor[d] /\ unechoed'[d] = unechoed[d]
                     /\ r \notin dirty[d] /\ copy'[d][r] = copy[d][r]
          <5>1. dirty'[d] = dirty[d] \union {x} /\ UNCHANGED <<cursor, unechoed>>
            BY <4>3 DEF Edit, TypeOK
          <5>2. r \notin dirty[d] /\ r # x
            BY <5>1 DEF Clean
          <5> QED BY <4>3, <5>1, <5>2 DEF Edit, TypeOK, Batch
        <4>4. CASE Send(d) \/ GiveUp(d)
          BY <4>4 DEF Send, GiveUp, localVars, Clean
        <4> QED BY <1>2, <4>1, <4>2, <4>3, <4>4 DEF DeviceStep
      <3> QED BY <3>1, <3>2, StepKinds, ServerIsolation
    <2> DEFINE c  == cursor[d]
               cp == copy[d][r]
               exempt == r \in unechoed[d]
    <2>2. c \in Nat /\ c <= last /\ exempt \in BOOLEAN /\ Promise(r, c, cp, exempt)
      BY <2>1 DEF TypeOK, StampInv, SavedInv, Clean
    <2> HIDE DEF c, cp, exempt
    <2>3. Promised(tab'[r], synced'[r], last', c, cp, exempt)
      BY <2>2, PromiseStep
    <2> QED BY <2>1, <2>3 DEF c, cp, exempt
  <1> QED BY <1>1, <1>2

LEMMA AnswerStep ==
  Before /\ LandedInv /\ SavedInv /\ AnswerInv /\ FolderInv /\ [Next]_vars => AnswerInv'
  <1> SUFFICES ASSUME Before, LandedInv, SavedInv, AnswerInv, FolderInv, [Next]_vars,
                      NEW d \in Devices, NEW r \in Ids, inbox'[d].time > 0
               PROVE  Promised(tab'[r], synced'[r], last', inbox'[d].time,
                               After(d, inbox[d].full, inbox[d].docs[r], r)',
                               Exempt(d, inbox[d].full, inbox[d].docs[r], r)')
    BY DEF AnswerInv, Promise
  <1> USE DEF Before
  (* The answer was there before, and the device has not changed.           *)
  <1>1. ASSUME inbox'[d] = inbox[d], cursor'[d] = cursor[d], dirty'[d] = dirty[d],
               copy'[d] = copy[d], unechoed'[d] = unechoed[d]
        PROVE  Promised(tab'[r], synced'[r], last', inbox'[d].time,
                        After(d, inbox[d].full, inbox[d].docs[r], r)',
                        Exempt(d, inbox[d].full, inbox[d].docs[r], r)')
    <2> DEFINE c  == inbox[d].time
               cp == After(d, inbox[d].full, inbox[d].docs[r], r)
               exempt == Exempt(d, inbox[d].full, inbox[d].docs[r], r)
    <2>1. c \in Nat /\ c <= last /\ Promise(r, c, cp, exempt)
      BY <1>1 DEF TypeOK, Answer, StampInv, AnswerInv
    <2>2. exempt \in BOOLEAN
      BY DEF Exempt
    <2>3. /\ cp = After(d, inbox[d].full, inbox[d].docs[r], r)'
          /\ exempt = Exempt(d, inbox[d].full, inbox[d].docs[r], r)'
          /\ c = inbox'[d].time
      BY <1>1 DEF After, Exempt
    <2> HIDE DEF c, cp, exempt
    <2>4. Promised(tab'[r], synced'[r], last', c, cp, exempt)
      BY <2>1, <2>2, PromiseStep
    <2> QED BY <2>3, <2>4
  <1>2. CASE \E e \in Devices : DeviceStep(e)
    <2>1. PICK e \in Devices : DeviceStep(e)
      BY <1>2
    <2>2. CASE e # d
      BY <1>1, <2>1, <2>2, DeviceIsolation
    <2>3. inbox[d].time \in Nat /\ (inbox[d].time > 0 => waiting[d] > 0)
      BY DEF TypeOK, Answer, RequestInv
    <2>4. CASE e = d
      BY <2>1, <2>3, <2>4 DEF DeviceStep, Edit, Send, GiveUp, Apply, NoAnswer, TypeOK, deviceVars
    <2> QED BY <2>2, <2>4
  <1>3. ASSUME NEW s \in Servers, PullNotes(s), Live(job[s]), job[s].dev = d
        PROVE  Promised(tab'[r], synced'[r], last', inbox'[d].time,
                        After(d, inbox[d].full, inbox[d].docs[r], r)',
                        Exempt(d, inbox[d].full, inbox[d].docs[r], r)')
    <2> DEFINE full == FullResync(job[s].since, stamp[s])
               doc  == IF r \in Notes /\ Selected(s, r) THEN tab[r] ELSE got[s][r]
    <2>1. /\ inbox'[d].full = full /\ inbox'[d].time = stamp[s] /\ inbox'[d].docs[r] = doc
          /\ UNCHANGED <<dbVars, localVars>>
      BY <1>3 DEF PullNotes, TypeOK
    <2>2. Promise(r, stamp[s], After(d, full, doc, r), Exempt(d, full, doc, r))
      <3>1. CASE r \in Folders
        <4>1. doc = got[s][r]
          BY <3>1, IdsAssumption
        <4> QED BY <1>3, <3>1, <4>1 DEF FolderInv, PullNotes
      <3>2. CASE r \in Notes
        <4>1. doc = IF Selected(s, r) THEN tab[r] ELSE Gone
          BY <1>3, <3>2 DEF FolderInv, PullNotes
        <4>2. InFlight(s)
          BY <1>3 DEF PullNotes, InFlight
        <4> HIDE DEF doc
        <4> QED BY <1>3, <4>1, <4>2, PullPromise
      <3> QED BY <3>1, <3>2 DEF Ids
    <2>3. /\ After(d, inbox[d].full, inbox[d].docs[r], r)' = After(d, full, doc, r)
          /\ Exempt(d, inbox[d].full, inbox[d].docs[r], r)' = Exempt(d, full, doc, r)
      BY <2>1 DEF After, Exempt, localVars
    <2> HIDE DEF full, doc
    <2> QED BY <2>1, <2>2, <2>3 DEF Promise, dbVars
  <1>4. CASE \E s \in Servers : ServerStep(s)
    <2>1. PICK s \in Servers : ServerStep(s)
      BY <1>4
    <2>2. UNCHANGED localVars
      BY <2>1, ServerIsolation
    <2>3. CASE inbox'[d] = inbox[d]
      BY <1>1, <2>2, <2>3 DEF localVars
    <2>4. CASE inbox'[d] # inbox[d]
      <3>1. PullNotes(s) /\ Live(job[s]) /\ job[s].dev = d
        BY <2>1, <2>4 DEF ServerStep, Reserve, Commit, Abort, PullFolders, PullNotes,
                          TypeOK, deviceVars
      <3> QED BY <1>3, <3>1
    <2> QED BY <2>3, <2>4
  <1>5. CASE UNCHANGED <<serverVars, net, localVars, deviceVars>>
    BY <1>1, <1>5 DEF localVars, deviceVars
  <1> QED BY <1>2, <1>4, <1>5, StepKinds

LEMMA FolderStep ==
  Before /\ LandedInv /\ SavedInv /\ FolderInv /\ [Next]_vars => FolderInv'
  <1> SUFFICES ASSUME Before, LandedInv, SavedInv, FolderInv, [Next]_vars PROVE FolderInv'
    OBVIOUS
  <1> USE DEF Before
  <1>1. ASSUME NEW s \in Servers, pc'[s] = "folders", ~PullFolders(s)
        PROVE  pc[s] = "folders" /\ got'[s] = got[s]
    <2>1. ASSUME NEW t \in Servers, ServerStep(t) PROVE pc[s] = "folders" /\ got'[s] = got[s]
      BY <1>1, <2>1
      DEF ServerStep, Reserve, Commit, Abort, PullFolders, PullNotes, Finish, TypeOK
    <2>2. ASSUME NEW d \in Devices, DeviceStep(d) PROVE UNCHANGED serverVars
      BY <2>2, DeviceIsolation
    <2> QED BY <1>1, <2>1, <2>2, StepKinds DEF serverVars
  <1>2. ASSUME NEW s \in Servers, NEW n \in Notes, pc'[s] = "folders"
        PROVE  got'[s][n] = Gone
    <2>1. CASE PullFolders(s)
      BY <1>2, <2>1, IdsAssumption DEF PullFolders, TypeOK, Ids
    <2>2. CASE ~PullFolders(s)
      BY <1>1, <1>2, <2>2 DEF FolderInv
    <2> QED BY <2>1, <2>2
  <1>3. ASSUME NEW s \in Servers, pc'[s] = "folders", Live(job[s])'
        PROVE  /\ job'[s] = job[s] /\ stamp'[s] = stamp[s] /\ InFlight(s) /\ Live(job[s])
               /\ job[s].dev \in Devices
               /\ cursor'[job[s].dev] = cursor[job[s].dev] /\ copy'[job[s].dev] = copy[job[s].dev]
               /\ dirty'[job[s].dev] = dirty[job[s].dev]
               /\ unechoed'[job[s].dev] = unechoed[job[s].dev]
    <2>1. ASSUME NEW d \in Devices, DeviceStep(d)
          PROVE  job'[s] = job[s] /\ stamp'[s] = stamp[s] /\ InFlight(s) /\ job[s].dev # d
                 /\ Live(job[s])
      <3>1. UNCHANGED serverVars
        BY <2>1, DeviceIsolation
      <3>2. Faithful(job[s]) /\ Live(job[s])'
        BY <1>3, <3>1 DEF RequestInv, serverVars, Live
      <3>3. Live(job[s]) /\ job[s].dev # d
        BY <1>3, <2>1, <3>1, <3>2, DeviceIsolation DEF Faithful, Live, serverVars
      <3> QED BY <1>3, <3>1, <3>3 DEF serverVars, InFlight
    <2>2. ASSUME NEW t \in Servers, ServerStep(t)
          PROVE  job'[s] = job[s] /\ stamp'[s] = stamp[s] /\ InFlight(s) /\ Live(job[s])
      <3>1. job'[s] = job[s] /\ stamp'[s] = stamp[s] /\ InFlight(s)
        BY <1>3, <2>2, ServerIsolation DEF InFlight, Commit, TypeOK
      <3> QED BY <1>3, <2>2, <3>1, ServerIsolation DEF Live
    <2>3. job'[s] = job[s] /\ stamp'[s] = stamp[s] /\ InFlight(s) /\ Live(job[s])
      BY <1>3, <2>1, <2>2, StepKinds DEF serverVars, deviceVars, InFlight, Live
    <2>4. job[s].dev \in Devices
      BY <2>3 DEF RequestInv, InFlight, Faithful, Request
    <2> QED BY <2>1, <2>3, <2>4, StepKinds, DeviceIsolation, ServerIsolation DEF localVars
  <1>4. ASSUME NEW s \in Servers, NEW r \in Folders, pc'[s] = "folders", Live(job[s])',
               NEW d, d = job[s].dev, NEW full, full = FullResync(job[s].since, stamp[s]),
               NEW doc, doc = got'[s][r]
        PROVE  Promised(tab'[r], synced'[r], last', stamp[s],
                        After(d, full, doc, r), Exempt(d, full, doc, r))
    <2> DEFINE c  == stamp[s]
               cp == After(d, full, doc, r)
               exempt == Exempt(d, full, doc, r)
    <2>1. InFlight(s) /\ Live(job[s]) /\ r \in Ids
      BY <1>3, <1>4 DEF Ids
    <2>2. CASE PullFolders(s)
      <3>1. doc = (IF Selected(s, r) THEN tab[r] ELSE Gone) /\ UNCHANGED dbVars
        BY <1>4, <2>1, <2>2 DEF PullFolders, TypeOK
      <3>2. Promise(r, c, cp, exempt)
        BY <1>4, <2>1, <3>1, PullPromise
      <3> QED BY <3>1, <3>2 DEF Promise, dbVars
    <2>3. CASE ~PullFolders(s)
      <3>1. Promise(r, c, cp, exempt)
        BY <1>1, <1>4, <2>1, <2>3 DEF FolderInv
      <3>2. c \in Nat /\ c <= last /\ exempt \in BOOLEAN
        BY <2>1 DEF TypeOK, StampInv, Exempt
      <3> HIDE DEF c, cp, exempt
      <3>3. Promised(tab'[r], synced'[r], last', c, cp, exempt)
        BY <2>1, <3>1, <3>2, PromiseStep
      <3> QED BY <3>3 DEF c, cp, exempt
    <2> QED BY <2>2, <2>3
  <1>5. ASSUME NEW s \in Servers, NEW r \in Folders, pc'[s] = "folders", Live(job[s])'
        PROVE  (LET d    == job[s].dev
                    full == FullResync(job[s].since, stamp[s])
                    doc  == got[s][r]
                IN Promise(r, stamp[s], After(d, full, doc, r), Exempt(d, full, doc, r)))'
    <2>1. /\ job'[s] = job[s] /\ stamp'[s] = stamp[s]
          /\ cursor'[job[s].dev] = cursor[job[s].dev] /\ copy'[job[s].dev] = copy[job[s].dev]
          /\ dirty'[job[s].dev] = dirty[job[s].dev]
          /\ unechoed'[job[s].dev] = unechoed[job[s].dev]
      BY <1>3, <1>5
    <2>2. Promised(tab'[r], synced'[r], last', stamp[s],
                   After(job[s].dev, FullResync(job[s].since, stamp[s]), got'[s][r], r),
                   Exempt(job[s].dev, FullResync(job[s].since, stamp[s]), got'[s][r], r))
      BY <1>4, <1>5
    <2> QED BY <2>1, <2>2 DEF Promise, After, Exempt, FullResync
  <1> QED BY <1>2, <1>5 DEF FolderInv

(* The promise of the delta to every device, in each of its parts, is       *)
(* inductive with type correctness.                                         *)
THEOREM DeliveryCorrect == Spec => [](TypeOK /\ DeliveryInv)
  <1>1. Init => TypeOK /\ DeliveryInv
    BY TypeInit, StampInit, DriftInit, RequestInit, DeliveryInit DEF DeliveryInv
  <1>2. TypeOK /\ DeliveryInv /\ [Next]_vars => TypeOK' /\ DeliveryInv'
    BY TypeStep, StampStep, DriftStep, RequestStep, LandedStep, SavedStep, AnswerStep, FolderStep
    DEF DeliveryInv, Before
  <1> QED BY <1>1, <1>2, PTL DEF Spec

(* Whatever is lost, retried, committed by another process or pulled late,  *)
(* a device holds the current version of every active row that is not newer *)
(* than its cursor.                                                         *)
THEOREM ActiveDelivered == Spec => []ActiveRowsReachDevices
  <1>1. TypeOK /\ DeliveryInv => ActiveRowsReachDevices
    BY DEF DeliveryInv, SavedInv, Promise, Promised, ActiveRowsReachDevices, HasActive
  <1> QED BY <1>1, DeliveryCorrect, PTL

(* A deletion that is not newer than the cursor has reached the device, but *)
(* for the rows that its first sync pushed and was answered without.        *)
THEOREM DeletionsDelivered == Spec => []DeletionsReachDevices
  <1>1. TypeOK /\ DeliveryInv => DeletionsReachDevices
    BY DEF DeliveryInv, SavedInv, Promise, Promised, DeletionsReachDevices, HasDeletion
  <1> QED BY <1>1, DeliveryCorrect, PTL

(* The safety margin is what makes the sweep safe: when stamps advance by   *)
(* at most Margin while a sync is in flight, whoever has missed a deletion  *)
(* that the sweep has forgotten resynchronises in full.                     *)
THEOREM PurgeIsSafe ==
  ASSUME Drift <= Margin
  PROVE  Spec => []PurgedRowsForceResync
  <1>1. TypeOK /\ DeliveryInv => PurgedRowsForceResync
    <2> SUFFICES ASSUME TypeOK, DeliveryInv, NEW d \in Devices, NEW r \in Ids,
                        Clean(d, r), r \notin unechoed[d]
                 PROVE  WillResync(r, cursor[d], copy[d][r])
      BY DEF PurgedRowsForceResync
    <2>1. Promise(r, cursor[d], copy[d][r], r \in unechoed[d])
      BY DEF DeliveryInv, SavedInv
    <2>2. cursor[d] \in Nat /\ cursor[d] > 0 /\ last \in Nat
      BY DEF TypeOK, Clean
    <2> QED BY <2>1, <2>2, TimeAssumption DEF Promise, Promised, WillResync, FullResync
  <1> QED BY <1>1, DeliveryCorrect, PTL
=============================================================================
