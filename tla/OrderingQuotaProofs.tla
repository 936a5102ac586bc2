------------------------- MODULE OrderingQuotaProofs --------------------------
(***************************************************************************)
(* Theorems about OrderingQuota, for every set of devices, requests and    *)
(* notes, however the requests are spread over processes.                  *)
(***************************************************************************)
EXTENDS OrderingQuota, TLAPS

IInv == TypeOK /\ OrderingInv

-----------------------------------------------------------------------------
(* Types.                                                                  *)

LEMMA ConstantTypes == FirstTable \in Table /\ NoJob \in Job
  <1>1. FirstTable \in Table
    BY DEF FirstTable, Table
  <1>2. (CHOOSE d \in Devices : TRUE) \in Devices
    BY OrderingAssumption
  <1>3. NoBatch \in [{} -> Texts \union {0}]
    BY DEF NoBatch
  <1>4. NoBatch \in Batches
    BY <1>3 DEF Batches
  <1>5. 0 \in 0..MaxBytes
    BY OrderingAssumption
  <1>6. NoJob \in Job
    BY <1>2, <1>4, <1>5 DEF NoJob, Job
  <1> QED BY <1>1, <1>6

LEMMA QuotaType ==
  ASSUME NEW q \in Forms, NEW b \in Converted(q)
  PROVE  QuotaBytes(q, b) \in 0..MaxBytes /\ (q > 0 => QuotaBytes(q, b) > 0)
  <1>1. q \in Nat /\ MaxBytes \in Nat \ {0}
    BY OrderingAssumption
  <1>2. Rounded(q) \in Nat /\ (q = 0 => Rounded(q) = 0)
    BY <1>1 DEF Rounded
  <1>3. \/ b = Rounded(q) /\ b <= MaxBytes
        \/ Rounded(q) > MaxBytes /\ b \in {MaxBytes, -MaxBytes - 1}
    BY <1>1, <1>2 DEF Converted
  <1> QED BY <1>1, <1>2, <1>3 DEF QuotaBytes

LEMMA TypeInit == Init => TypeOK
  BY ConstantTypes, OrderingAssumption DEF Init, TypeOK, Local

LEMMA TypeStep == TypeOK /\ [Next]_vars => TypeOK'
  <1> SUFFICES ASSUME TypeOK, [Next]_vars PROVE TypeOK'
    OBVIOUS
  <1> USE DEF TypeOK
  <1>1. ASSUME NEW d \in Devices, Edit(d) PROVE TypeOK'
    <2>1. PICK b \in Blobs :
            dev' = [dev EXCEPT ![d] = [ver |-> dev[d].ver, blob |-> b, dirty |-> TRUE]]
      BY <1>1 DEF Edit
    <2>2. [ver |-> dev[d].ver, blob |-> b, dirty |-> TRUE] \in Local
      BY DEF Local
    <2>3. dev' \in [Devices -> Local]
      BY <2>1, <2>2
    <2> QED BY <1>1, <2>3 DEF Edit, dbVars, txVars
  <1>2. ASSUME NEW r \in Requests, NEW j \in Job, Arrive(r, j) PROVE TypeOK'
    BY <1>2 DEF Arrive, dbVars, txVars
  <1>3. ASSUME NEW d \in Devices, NEW r \in Requests, SendSync(d, r) PROVE TypeOK'
    <2>1. dev[d].ver \in Nat /\ (IF dev[d].dirty THEN dev[d].blob ELSE NoPush) \in Blobs \union {NoPush, Empty}
      BY DEF Local
    <2> QED BY <2>1, <1>2, <1>3 DEF SendSync, Job
  <1>4. ASSUME NEW d \in Devices, NEW r \in Requests, SendReset(d, r) PROVE TypeOK'
    <2>1. [NoJob EXCEPT !.dev = d] \in Job
      BY ConstantTypes DEF Job
    <2> QED BY <2>1, <1>2, <1>4 DEF SendReset
  <1>5. ASSUME NEW r \in Requests, Receive(r) PROVE TypeOK'
    <2>1. work[r].ver \in Nat /\ Data(work[r]) \in Blobs \union {Empty}
      BY DEF Table, Data
    <2> DEFINE d == job[r].dev
    <2>2. d \in Devices /\ dev[d] \in Local
      BY DEF Job
    <2>3. \A keep \in BOOLEAN :
            [ver |-> work[r].ver, blob |-> IF keep THEN dev[d].blob ELSE Data(work[r]), dirty |-> keep]
              \in Local
      BY <2>1, <2>2 DEF Local
    <2>5. dev' \in [Devices -> Local]
      BY <1>5, <2>2, <2>3 DEF Receive
    <2> QED BY <1>5, <2>5, ConstantTypes DEF Receive, dbVars
  <1>6. ASSUME NEW r \in Requests, OpenSync(r) PROVE TypeOK'
    BY <1>6 DEF OpenSync, dbVars
  <1>7. ASSUME NEW r \in Requests, Apply(r) PROVE TypeOK'
    <2>1. PICK won \in SUBSET DOMAIN job[r].batch :
            work' = [work EXCEPT ![r] =
              [ver  |-> IF Accepts(r) THEN work[r].ver + 1 ELSE work[r].ver,
               blob |-> IF Accepts(r) THEN job[r].push ELSE work[r].blob,
               rows |-> Merged(work[r].rows, job[r].batch, won)]]
      BY <1>7 DEF Apply
    <2>2. job[r].batch \in Batches /\ work[r] \in Table
      BY DEF Job
    <2>3. PICK S \in SUBSET Notes : job[r].batch \in [S -> Texts \union {0}]
      BY <2>2 DEF Batches
    <2>4. Merged(work[r].rows, job[r].batch, won) \in [Notes -> Texts \union {0, Absent}]
      BY <2>2, <2>3 DEF Merged, Table
    <2>5. Accepts(r) => job[r].push \in Blobs \union {Empty}
      BY DEF Accepts, Job
    <2>6. work' \in [Requests -> Table]
      BY <2>1, <2>2, <2>4, <2>5 DEF Table
    <2> QED BY <1>7, <2>6 DEF Apply, dbVars
  <1>8. ASSUME NEW r \in Requests, ReadReset(r) PROVE TypeOK'
    BY <1>8 DEF ReadReset, dbVars
  <1>9. ASSUME NEW r \in Requests, WriteReset(r) PROVE TypeOK'
    <2>1. Emptied(work[r]) \in Table
      BY DEF Emptied, Table
    <2> QED BY <1>9, <2>1 DEF WriteReset, dbVars
  <1>10. ASSUME NEW r \in Requests, NEW s \in {"free", "answered"}, End(r, s)
         PROVE  /\ stage' \in [Requests -> {"free", "arrived", "read", "open", "applied", "answered"}]
                /\ writer' \in Requests \union {Nobody} /\ before' \in [Requests -> Table]
    BY <1>10, ConstantTypes DEF End
  <1>11. ASSUME NEW r \in Requests, Commit(r) PROVE TypeOK'
    <2>1. tab' \in Table /\ tab'.ver \in Nat /\ reset' \in Nat
      BY <1>11 DEF Commit, Table
    <2>2. [NoJob EXCEPT !.dev = job[r].dev] \in Job
      BY ConstantTypes DEF Job
    <2>3. [FirstTable EXCEPT !.ver = tab'.ver, !.blob = tab'.blob] \in Table
      BY <2>1, ConstantTypes DEF Table
    <2>4. End(r, "answered")
      BY <1>11 DEF Commit
    <2> QED BY <1>10, <1>11, <2>1, <2>2, <2>3, <2>4 DEF Commit
  <1>12. ASSUME NEW r \in Requests, Refuse(r) PROVE TypeOK'
    <2>1. End(r, "free")
      BY <1>12 DEF Refuse
    <2> QED BY <1>10, <1>12, <2>1, ConstantTypes DEF Refuse, dbVars
  <1>13. ASSUME NEW r \in Requests, Fail(r) PROVE TypeOK'
    <2>1. End(r, "free")
      BY <1>13 DEF Fail
    <2> QED BY <1>10, <1>13, <2>1, ConstantTypes DEF Fail, dbVars
  <1>14. ASSUME Purge PROVE TypeOK'
    <2>1. tab' \in Table
      BY <1>14 DEF Purge, Table
    <2> QED BY <1>14, <2>1 DEF Purge
  <1>15. ASSUME NEW q \in Forms, SetQuota(q) PROVE TypeOK'
    <2>1. quota' \in 0..MaxBytes
      BY <1>15, QuotaType DEF SetQuota
    <2> QED BY <1>15, <2>1 DEF SetQuota
  <1>16. CASE UNCHANGED vars
    BY <1>16 DEF vars
  <1> QED BY <1>1, <1>3, <1>4, <1>5, <1>6, <1>7, <1>8, <1>9, <1>11, <1>12, <1>13, <1>14, <1>15, <1>16
          DEF Next, ServerStep

(* Type correctness, for any devices, requests, notes and quotas.            *)
THEOREM TypeCorrect == Spec => []TypeOK
  BY TypeInit, TypeStep, PTL DEF Spec

-----------------------------------------------------------------------------
(* The transactions.                                                       *)

LEMMA InvInit == Init => OrderingInv
  <1> SUFFICES ASSUME Init PROVE OrderingInv
    OBVIOUS
  <1>1. TransactionInv
    BY OrderingAssumption DEF Init, TransactionInv
  <1>2. HandedOutInv
    BY DEF Init, HandedOutInv, FirstTable
  <1>3. VersionNamesOneState
    BY DEF Init, VersionNamesOneState, Held, FirstTable, Data
  <1> QED BY <1>1, <1>2, <1>3 DEF OrderingInv

(* Whoever has the lock, nobody else has an open transaction that writes.   *)
LEMMA OneWriter ==
  ASSUME TransactionInv, NEW r \in Requests, stage[r] \in {"open", "applied"},
         NEW q \in Requests, q # r
  PROVE  writer = r /\ stage[q] \notin {"open", "applied"}
  BY DEF TransactionInv

LEMMA TransactionStep == IInv /\ [Next]_vars => TransactionInv'
  <1> SUFFICES ASSUME IInv, [Next]_vars PROVE TransactionInv'
    OBVIOUS
  <1> USE DEF IInv, OrderingInv
  <1>1. ASSUME NEW d \in Devices, Edit(d) PROVE TransactionInv'
    BY <1>1 DEF Edit, TransactionInv, dbVars, txVars
  <1>2. ASSUME NEW d \in Devices, NEW r \in Requests, SendSync(d, r) PROVE TransactionInv'
    BY <1>2 DEF SendSync, Arrive, TransactionInv, TypeOK, dbVars, txVars
  <1>3. ASSUME NEW d \in Devices, NEW r \in Requests, SendReset(d, r) PROVE TransactionInv'
    BY <1>3 DEF SendReset, Arrive, TransactionInv, TypeOK, dbVars, txVars
  <1>4. ASSUME NEW r \in Requests, Receive(r) PROVE TransactionInv'
    BY <1>4 DEF Receive, TransactionInv, TypeOK, dbVars
  <1>5. ASSUME NEW r \in Requests, OpenSync(r) PROVE TransactionInv'
    BY <1>5, OrderingAssumption DEF OpenSync, TransactionInv, TypeOK, dbVars
  <1>6. ASSUME NEW r \in Requests, Apply(r) PROVE TransactionInv'
    <2>1. stage[r] = "open" /\ work[r] = tab /\ before[r] = tab /\ job[r].kind = "sync"
      BY <1>6 DEF Apply, TransactionInv
    <2>2. work'[r].ver = (IF Accepts(r) THEN work[r].ver + 1 ELSE work[r].ver)
          /\ work'[r].blob = (IF Accepts(r) THEN job[r].push ELSE work[r].blob)
      BY <1>6 DEF Apply, TypeOK
    <2>3. IF job[r].push # NoPush /\ job[r].base = tab.ver
          THEN work'[r].ver = tab.ver + 1 /\ work'[r].blob = job[r].push
          ELSE work'[r].ver = tab.ver /\ work'[r].blob = tab.blob
      BY <2>1, <2>2 DEF Accepts
    <2>4. ASSUME NEW q \in Requests, q # r
          PROVE  work'[q] = work[q] /\ stage'[q] = stage[q]
      BY <1>6, <2>4 DEF Apply, TypeOK
    <2>5. stage'[r] = "applied"
      BY <1>6 DEF Apply, TypeOK
    <2> QED BY <1>6, <2>1, <2>2, <2>3, <2>4, <2>5 DEF Apply, TransactionInv, dbVars
  <1>7. ASSUME NEW r \in Requests, ReadReset(r) PROVE TransactionInv'
    BY <1>7 DEF ReadReset, TransactionInv, TypeOK, dbVars
  <1>8. ASSUME NEW r \in Requests, WriteReset(r) PROVE TransactionInv'
    BY <1>8, OrderingAssumption DEF WriteReset, MayWrite, TransactionInv, TypeOK, dbVars
  <1>9. ASSUME NEW r \in Requests, Commit(r) PROVE TransactionInv'
    <2>1. stage[r] = "applied" /\ writer = r
      BY <1>9 DEF Commit, TransactionInv
    <2>2. \A q \in Requests : q # r => stage[q] \notin {"open", "applied"}
      BY <2>1, OneWriter
    <2>3. \A q \in Requests : q # r => stage'[q] = stage[q] /\ job'[q] = job[q] /\ fresh'[q] = FALSE
      BY <1>9 DEF Commit, End, TypeOK
    <2>4. stage'[r] = "answered" /\ writer' = Nobody
      BY <1>9, <2>1 DEF Commit, End, TypeOK
    <2> QED BY <2>2, <2>3, <2>4, OrderingAssumption DEF TransactionInv
  <1>10. ASSUME NEW r \in Requests, Refuse(r) \/ Fail(r) PROVE TransactionInv'
    <2>1. /\ stage'[r] = "free" /\ writer' = (IF writer = r THEN Nobody ELSE writer)
          /\ tab' = tab
          /\ \A q \in Requests : q # r =>
               /\ stage'[q] = stage[q] /\ job'[q] = job[q] /\ work'[q] = work[q]
               /\ before'[q] = before[q] /\ fresh'[q] = fresh[q]
      BY <1>10 DEF Refuse, Fail, End, TypeOK, dbVars
    <2> QED BY <2>1, OrderingAssumption DEF TransactionInv
  <1>11. ASSUME Purge PROVE TransactionInv'
    BY <1>11, OrderingAssumption DEF Purge, TransactionInv
  <1>12. ASSUME NEW q \in Forms, SetQuota(q) PROVE TransactionInv'
    BY <1>12 DEF SetQuota, TransactionInv
  <1>13. CASE UNCHANGED vars
    BY <1>13 DEF vars, TransactionInv
  <1> QED BY <1>1, <1>2, <1>3, <1>4, <1>5, <1>6, <1>7, <1>8, <1>9, <1>10, <1>11, <1>12, <1>13
          DEF Next, ServerStep

-----------------------------------------------------------------------------
(* The versions.                                                           *)

(* Commits add at most one version, and a version that is not new leaves    *)
(* the blob alone.                                                          *)
LEMMA CommitVersion ==
  ASSUME IInv, NEW r \in Requests, Commit(r)
  PROVE  \/ tab'.ver = tab.ver /\ tab'.blob = tab.blob
         \/ tab'.ver = tab.ver + 1
  <1>1. job[r].kind = "sync" \/ job[r].kind = "reset"
    BY DEF IInv, TypeOK, Job
  <1>2. stage[r] = "applied" /\ tab' = work[r]
    BY DEF Commit
  <1> QED BY <1>1, <1>2 DEF IInv, OrderingInv, TransactionInv, Emptied

LEMMA HandedOutStep == IInv /\ [Next]_vars => HandedOutInv'
  <1> SUFFICES ASSUME IInv, [Next]_vars PROVE HandedOutInv'
    OBVIOUS
  <1> USE DEF IInv, OrderingInv
  <1>1. ASSUME NEW d \in Devices, Edit(d) PROVE HandedOutInv'
    <2>1. \A e \in Devices : dev'[e].ver = dev[e].ver
      BY <1>1 DEF Edit, TypeOK
    <2> QED BY <1>1, <2>1 DEF Edit, HandedOutInv, dbVars, txVars
  <1>2. ASSUME NEW d \in Devices, NEW r \in Requests, SendSync(d, r) PROVE HandedOutInv'
    BY <1>2 DEF SendSync, Arrive, HandedOutInv, TypeOK, dbVars, txVars
  <1>3. ASSUME NEW d \in Devices, NEW r \in Requests, SendReset(d, r) PROVE HandedOutInv'
    BY <1>3 DEF SendReset, Arrive, HandedOutInv, TypeOK, dbVars, txVars
  <1>4. ASSUME NEW r \in Requests, Receive(r) PROVE HandedOutInv'
    <2> DEFINE d == job[r].dev
    <2>1. d \in Devices /\ dev[d] \in Local
      BY DEF TypeOK, Job
    <2>3. \A e \in Devices : dev'[e].ver = dev[e].ver \/ dev'[e].ver = work[r].ver
      BY <1>4, <2>1 DEF Receive, TypeOK
    <2>4. work[r].ver <= tab.ver
      BY <1>4 DEF Receive, HandedOutInv
    <2>5. \A q \in Requests : stage'[q] = "answered" => stage[q] = "answered" /\ work'[q] = work[q]
      BY <1>4 DEF Receive, TypeOK
    <2> QED BY <1>4, <2>3, <2>4, <2>5 DEF Receive, HandedOutInv, dbVars
  <1>5. ASSUME NEW r \in Requests,
               OpenSync(r) \/ Apply(r) \/ ReadReset(r) \/ WriteReset(r) \/ Refuse(r) \/ Fail(r)
        PROVE  HandedOutInv'
    <2>1. \A q \in Requests : stage'[q] = "answered" => stage[q] = "answered" /\ work'[q] = work[q]
      BY <1>5 DEF OpenSync, Apply, ReadReset, WriteReset, Refuse, Fail, End, TypeOK
    <2>2. UNCHANGED <<tab, dev, reset>>
      BY <1>5 DEF OpenSync, Apply, ReadReset, WriteReset, Refuse, Fail, dbVars
    <2> QED BY <2>1, <2>2 DEF HandedOutInv
  <1>6. ASSUME NEW r \in Requests, Commit(r) PROVE HandedOutInv'
    <2>1. tab.ver \in Nat /\ tab'.ver \in Nat /\ tab.ver <= tab'.ver
      <3>1. tab \in Table /\ work[r] \in Table /\ tab' = work[r]
        BY <1>6 DEF Commit, TypeOK
      <3> QED BY <1>6, <3>1, CommitVersion DEF Table
    <2>2. \A q \in Requests : q # r => stage'[q] = stage[q] /\ work'[q] = work[q]
      BY <1>6 DEF Commit, End, TypeOK
    <2>6. work'[r].ver = tab'.ver
      <3>1. work'[r] = [FirstTable EXCEPT !.ver = tab'.ver, !.blob = tab'.blob]
        BY <1>6 DEF Commit, TypeOK
      <3> QED BY <3>1 DEF FirstTable
    <2>3. \A q \in Requests : work[q].ver \in Nat
      BY DEF TypeOK, Table
    <2>4. \A d \in Devices : dev[d].ver \in Nat /\ dev'[d] = dev[d]
      BY <1>6 DEF Commit, TypeOK, Local
    <2>5. reset' \in Nat /\ reset' <= tab'.ver
      BY <1>6, <2>1 DEF Commit, HandedOutInv, TypeOK
    <2> QED BY <2>1, <2>2, <2>3, <2>4, <2>5, <2>6 DEF HandedOutInv
  <1>7. ASSUME Purge PROVE HandedOutInv'
    BY <1>7 DEF Purge, HandedOutInv, TypeOK, Table
  <1>8. ASSUME NEW q \in Forms, SetQuota(q) PROVE HandedOutInv'
    BY <1>8 DEF SetQuota, HandedOutInv
  <1>9. CASE UNCHANGED vars
    BY <1>9 DEF vars, HandedOutInv
  <1> QED BY <1>1, <1>2, <1>3, <1>4, <1>5, <1>6, <1>7, <1>8, <1>9 DEF Next, ServerStep

(* What is held has a version that the server has had.                      *)
LEMMA HeldVersions ==
  ASSUME IInv, NEW x \in Held
  PROVE  x.ver \in Nat /\ x.ver <= tab.ver
  <1> USE DEF IInv, OrderingInv
  <1>1. CASE \E d \in Devices : x = [ver |-> dev[d].ver, blob |-> dev[d].blob]
    BY <1>1 DEF HandedOutInv, TypeOK, Local
  <1>2. CASE \E r \in Requests : stage[r] = "answered" /\ x = [ver |-> work[r].ver, blob |-> Data(work[r])]
    BY <1>2 DEF HandedOutInv, TypeOK, Table
  <1>3. CASE x = [ver |-> tab.ver, blob |-> Data(tab)]
    BY <1>3 DEF TypeOK, Table
  <1> QED BY <1>1, <1>2, <1>3 DEF Held

(* A step that lets nobody hold anything new.                               *)
LEMMA NothingNew ==
  ASSUME VersionNamesOneState, Held' \subseteq Held
  PROVE  VersionNamesOneState'
  BY DEF VersionNamesOneState

LEMMA NamesStep == IInv /\ [Next]_vars => VersionNamesOneState'
  <1> SUFFICES ASSUME IInv, [Next]_vars PROVE VersionNamesOneState'
    OBVIOUS
  <1> USE DEF IInv, OrderingInv
  <1>1. ASSUME NEW d \in Devices, Edit(d) PROVE Held' \subseteq Held
    <2>1. \A e \in Devices : ~dev'[e].dirty => dev'[e] = dev[e]
      BY <1>1 DEF Edit, TypeOK
    <2> QED BY <1>1, <2>1 DEF Edit, Held, Data, dbVars, txVars
  <1>2. ASSUME NEW r \in Requests, Receive(r) PROVE Held' \subseteq Held
    <2>1. [ver |-> work[r].ver, blob |-> Data(work[r])] \in Held
      BY <1>2 DEF Receive, Held
    <2>2. \A e \in Devices : ~dev'[e].dirty =>
            \/ dev'[e] = dev[e]
            \/ dev'[e].ver = work[r].ver /\ dev'[e].blob = Data(work[r])
      BY <1>2 DEF Receive, TypeOK
    <2>3. \A q \in Requests : stage'[q] = "answered" => stage[q] = "answered" /\ work'[q] = work[q]
      BY <1>2 DEF Receive, TypeOK
    <2>4. tab' = tab
      BY <1>2 DEF Receive, dbVars
    <2>5. \A d \in Devices : ~dev'[d].dirty => [ver |-> dev'[d].ver, blob |-> dev'[d].blob] \in Held
      BY <2>1, <2>2 DEF Held
    <2>6. \A q \in Requests : stage'[q] = "answered"
                             => [ver |-> work'[q].ver, blob |-> Data(work'[q])] \in Held
      BY <2>3 DEF Held
    <2>7. ASSUME NEW x \in Held' PROVE x \in Held
      <3>1. CASE x = [ver |-> tab'.ver, blob |-> Data(tab')]
        BY <2>4, <3>1 DEF Held
      <3>2. CASE \E d \in Devices : ~dev'[d].dirty /\ x = [ver |-> dev'[d].ver, blob |-> dev'[d].blob]
        BY <2>5, <3>2
      <3>3. CASE \E q \in Requests : /\ stage'[q] = "answered"
                                   /\ x = [ver |-> work'[q].ver, blob |-> Data(work'[q])]
        BY <2>6, <3>3
      <3> QED BY <2>7, <3>1, <3>2, <3>3 DEF Held, Data
    <2> QED BY <2>7
  <1>3. ASSUME NEW r \in Requests,
               \/ \E d \in Devices : SendSync(d, r) \/ SendReset(d, r)
               \/ OpenSync(r) \/ Apply(r) \/ ReadReset(r) \/ WriteReset(r) \/ Refuse(r) \/ Fail(r)
        PROVE  Held' \subseteq Held
    <2>1. \A q \in Requests : stage'[q] = "answered" => stage[q] = "answered" /\ work'[q] = work[q]
      BY <1>3 DEF SendSync, SendReset, Arrive, OpenSync, Apply, ReadReset, WriteReset, Refuse, Fail,
                  End, TypeOK, txVars
    <2>2. UNCHANGED <<tab, dev>>
      BY <1>3 DEF SendSync, SendReset, Arrive, OpenSync, Apply, ReadReset, WriteReset, Refuse, Fail, dbVars
    <2> QED BY <2>1, <2>2 DEF Held, Data
  <1>4. ASSUME NEW r \in Requests, Commit(r) PROVE VersionNamesOneState'
    <2> DEFINE new == [ver |-> tab'.ver, blob |-> Data(tab')]
    <2>1. work'[r].ver = tab'.ver /\ work'[r].blob = tab'.blob
      <3>1. work'[r] = [FirstTable EXCEPT !.ver = tab'.ver, !.blob = tab'.blob]
        BY <1>4 DEF Commit, TypeOK
      <3> QED BY <3>1 DEF FirstTable
    <2>2. Held' \subseteq Held \union {new}
      <3>1. \A q \in Requests : q # r => stage'[q] = stage[q] /\ work'[q] = work[q]
        BY <1>4 DEF Commit, End, TypeOK
      <3> QED BY <1>4, <2>1, <3>1 DEF Commit, Held, Data
    <2>3. CASE tab'.ver = tab.ver /\ tab'.blob = tab.blob
      <3>1. new \in Held
        BY <2>3 DEF Held, Data
      <3> QED BY <2>2, <3>1, NothingNew
    <2>4. CASE tab'.ver = tab.ver + 1
      <3>1. tab.ver \in Nat
        BY DEF TypeOK, Table
      <3>2. \A x \in Held : x.ver # new.ver
        BY <2>4, <3>1, HeldVersions
      <3> QED BY <2>2, <3>2 DEF VersionNamesOneState
    <2> QED BY <1>4, <2>3, <2>4, CommitVersion
  <1>5. ASSUME Purge PROVE Held' \subseteq Held
    <2>1. tab'.ver = tab.ver /\ tab'.blob = tab.blob
      BY <1>5 DEF Purge, TypeOK, Table
    <2> QED BY <1>5, <2>1 DEF Purge, Held, Data
  <1>6. ASSUME NEW q \in Forms, SetQuota(q) PROVE Held' \subseteq Held
    BY <1>6 DEF SetQuota, Held, Data
  <1>7. CASE UNCHANGED vars
    BY <1>7 DEF vars, VersionNamesOneState, Held, Data
  <1> QED BY <1>1, <1>2, <1>3, <1>4, <1>5, <1>6, <1>7, NothingNew DEF Next, ServerStep

LEMMA IInvStep == IInv /\ [Next]_vars => IInv'
  BY TypeStep, TransactionStep, HandedOutStep, NamesStep DEF IInv, OrderingInv

-----------------------------------------------------------------------------
(* What every step preserves, OrderingQuota's types and invariant, holds.   *)
LEMMA Inductive == Spec => []IInv
  <1>1. Init => IInv
    BY TypeInit, InvInit DEF IInv
  <1> QED BY <1>1, IInvStep, PTL DEF Spec

(* OrderingInv holds: transactions that write see the committed tables, and *)
(* no version is handed out that the server does not have.                  *)
THEOREM InvariantCorrect == Spec => []OrderingInv
  <1>1. IInv => OrderingInv
    BY DEF IInv
  <1> QED BY <1>1, Inductive, PTL

(* A version names one state of the ordering, on the server, in the answers *)
(* under way and on the devices.                                            *)
THEOREM OneStatePerVersion == Spec => []VersionNamesOneState
  <1>1. IInv => VersionNamesOneState
    BY DEF IInv, OrderingInv
  <1> QED BY <1>1, Inductive, PTL

(* No device that has not seen a reset changes the ordering after it.       *)
THEOREM ResetsHold == Spec => ResetHolds
  <1>1. IInv /\ [Next]_vars =>
          [\A r \in Requests :
             Commit(r) /\ job[r].kind = "sync" /\ tab'.blob # tab.blob => job[r].base >= reset]_vars
    <2> SUFFICES ASSUME IInv, NEW r \in Requests, Commit(r), job[r].kind = "sync", tab'.blob # tab.blob
                 PROVE  job[r].base >= reset
      OBVIOUS
    <2>1. stage[r] = "applied" /\ tab' = work[r]
      BY DEF Commit
    <2>2. job[r].base = tab.ver
      BY <2>1 DEF IInv, OrderingInv, TransactionInv
    <2>3. reset <= tab.ver /\ reset \in Nat /\ tab.ver \in Nat
      BY DEF IInv, OrderingInv, HandedOutInv, TypeOK, Table
    <2> QED BY <2>2, <2>3
  <1> QED BY <1>1, Inductive, PTL DEF Spec, ResetHolds

(* A sync that takes more space than is in use stays within the quota it    *)
(* arrived with.                                                            *)
THEOREM QuotasKept == Spec => QuotaKept
  <1>1. IInv /\ [Next]_vars =>
          [\A r \in Requests :
             Commit(r) /\ job[r].kind = "sync" /\ job[r].quota > 0 /\ Usage(tab') > Usage(tab)
               => ~(Usage(tab') > job[r].quota)]_vars
    <2> SUFFICES ASSUME IInv, NEW r \in Requests, Commit(r), job[r].kind = "sync", job[r].quota > 0,
                        Usage(tab') > Usage(tab)
                 PROVE  ~(Usage(tab') > job[r].quota)
      OBVIOUS
    <2>1. stage[r] = "applied" /\ tab' = work[r] /\ ~OverQuota(r)
      BY DEF Commit
    <2>2. before[r] = tab
      BY <2>1 DEF IInv, OrderingInv, TransactionInv
    <2>3. Usage(tab') = Usage(work[r]) /\ Usage(tab) = Usage(before[r])
      BY <2>1, <2>2
    <2> QED BY <2>1, <2>3 DEF OverQuota
  <1> QED BY <1>1, Inductive, PTL DEF Spec, QuotaKept

(* A sync is refused for the quota only when it takes more than is in use.  *)
THEOREM CleanupIsAllowed == Spec => CleanupAllowed
  <1>1. IInv /\ [Next]_vars =>
          [\A r \in Requests : Refuse(r) => Usage(work[r]) > Usage(tab)]_vars
    <2> SUFFICES ASSUME IInv, NEW r \in Requests, Refuse(r)
                 PROVE  Usage(work[r]) > Usage(tab)
      OBVIOUS
    <2>1. stage[r] = "applied" /\ job[r].kind = "sync" /\ Usage(work[r]) > Usage(before[r])
      BY DEF Refuse, OverQuota
    <2>2. before[r] = tab
      BY <2>1 DEF IInv, OrderingInv, TransactionInv
    <2> QED BY <2>1, <2>2
  <1> QED BY <1>1, Inductive, PTL DEF Spec, CleanupAllowed

(* No conversion turns a limit into no limit.                               *)
THEOREM LimitsStayLimits == Spec => LimitStaysLimit
  <1>1. [Next]_vars => [\A q \in Forms : SetQuota(q) /\ q > 0 => quota' > 0]_vars
    BY QuotaType DEF SetQuota
  <1> QED BY <1>1, PTL DEF Spec, LimitStaysLimit

-----------------------------------------------------------------------------
(* The implementation of OrderingRegister.                                 *)

(* What the register, and the view of request q, keep in a step.            *)
RegisterKept == State(tab)' = State(tab)
ViewKept(q) ==
  /\ Phase(q)' = Phase(q)
  /\ Phase(q) = "asked" => CallOf(job'[q]) = CallOf(job[q])
  /\ Phase(q) = "done" => State(work'[q]) = State(work[q])

LEMMA RegisterInit == Init => Register!Init
  BY DEF Init, Register!Init, Register!First, Register!NoCall, Phase, CallOf, State, Data,
         FirstTable, NoJob

LEMMA RegisterStutters ==
  ASSUME RegisterKept, \A q \in Requests : ViewKept(q)
  PROVE  UNCHANGED Register!registerVars
  <1>1. [q \in Requests |-> Phase(q)]' = [q \in Requests |-> Phase(q)]
    BY DEF ViewKept
  <1>2. \A q \in Requests : CallOf(IF Phase(q) = "asked" THEN job[q] ELSE NoJob)'
                             = CallOf(IF Phase(q) = "asked" THEN job[q] ELSE NoJob)
    BY DEF ViewKept, CallOf, NoJob
  <1>3. \A q \in Requests : State(IF Phase(q) = "done" THEN work[q] ELSE FirstTable)'
                             = State(IF Phase(q) = "done" THEN work[q] ELSE FirstTable)
    BY DEF ViewKept, State, Data
  <1> QED BY <1>1, <1>2, <1>3 DEF RegisterKept, Register!registerVars

LEMMA RegisterCommits ==
  ASSUME IInv, NEW r \in Requests, Commit(r)
  PROVE  /\ Phase(r) = "asked" /\ Phase(r)' = "done"
         /\ State(tab)' = Register!After(State(tab), CallOf(job[r]))
         /\ State(work'[r]) = State(tab)'
  <1>1. stage[r] = "applied" /\ tab' = work[r] /\ tab' \in Table
    BY DEF Commit, IInv, TypeOK
  <1>2. work'[r] = [FirstTable EXCEPT !.ver = tab'.ver, !.blob = tab'.blob] /\ stage'[r] = "answered"
    BY DEF Commit, End, IInv, TypeOK
  <1>3. State(work'[r]) = State(tab)'
    BY <1>2 DEF State, Data, FirstTable
  <1>4. job[r].kind \in {"sync", "reset"} /\ (job[r].push # NoPush => job[r].push # Unset)
    BY OrderingAssumption DEF IInv, TypeOK, Job, Unset, Empty, NoPush
  <1>5. TransactionInv
    BY DEF IInv, OrderingInv
  <1>6. ASSUME job[r].kind = "reset"
        PROVE  State(tab)' = Register!After(State(tab), CallOf(job[r]))
    <2>1. tab'.ver = tab.ver + 1 /\ tab'.blob = Empty
      BY <1>1, <1>5, <1>6 DEF TransactionInv, Emptied
    <2>2. State(tab)' = [ver |-> tab.ver + 1, blob |-> Empty]
      BY <2>1 DEF State, Data, Unset, Empty
    <2> QED BY <1>6, <2>2 DEF Register!After, CallOf, State
  <1>7. ASSUME job[r].kind = "sync" /\ job[r].push # NoPush /\ job[r].base = tab.ver
        PROVE  State(tab)' = Register!After(State(tab), CallOf(job[r]))
    <2>1. tab'.ver = tab.ver + 1 /\ tab'.blob = job[r].push
      BY <1>1, <1>5, <1>7 DEF TransactionInv
    <2>2. State(tab)' = [ver |-> tab.ver + 1, blob |-> job[r].push]
      BY <1>4, <1>7, <2>1 DEF State, Data
    <2> QED BY <1>7, <2>2 DEF Register!After, CallOf, State
  <1>8. ASSUME job[r].kind = "sync" /\ ~(job[r].push # NoPush /\ job[r].base = tab.ver)
        PROVE  State(tab)' = Register!After(State(tab), CallOf(job[r]))
    <2>1. tab'.ver = tab.ver /\ tab'.blob = tab.blob
      BY <1>1, <1>5, <1>8 DEF TransactionInv
    <2>2. State(tab)' = State(tab)
      BY <2>1 DEF State, Data
    <2> QED BY <1>8, <2>2 DEF Register!After, CallOf, State
  <1>9. State(tab)' = Register!After(State(tab), CallOf(job[r]))
    BY <1>4, <1>6, <1>7, <1>8
  <1> QED BY <1>1, <1>2, <1>3, <1>9 DEF Phase

(* The views as functions, which the register is given.                     *)
LEMMA ViewChanges ==
  ASSUME NEW r \in Requests, \A q \in Requests \ {r} : ViewKept(q)
  PROVE  LET phases  == [q \in Requests |-> Phase(q)]
             calls   == [q \in Requests |-> CallOf(IF Phase(q) = "asked" THEN job[q] ELSE NoJob)]
             answers == [q \in Requests |-> State(IF Phase(q) = "done" THEN work[q] ELSE FirstTable)]
         IN /\ phases' = [phases EXCEPT ![r] = Phase(r)']
            /\ calls' = [calls EXCEPT ![r] = CallOf(IF Phase(r) = "asked" THEN job[r] ELSE NoJob)']
            /\ answers' = [answers EXCEPT ![r] = State(IF Phase(r) = "done" THEN work[r] ELSE FirstTable)']
  <1>1. ASSUME NEW q \in Requests \ {r}
        PROVE  /\ Phase(q)' = Phase(q)
               /\ CallOf(IF Phase(q) = "asked" THEN job[q] ELSE NoJob)'
                    = CallOf(IF Phase(q) = "asked" THEN job[q] ELSE NoJob)
               /\ State(IF Phase(q) = "done" THEN work[q] ELSE FirstTable)'
                    = State(IF Phase(q) = "done" THEN work[q] ELSE FirstTable)
    BY DEF ViewKept, CallOf, NoJob, State, Data
  <1> QED BY <1>1

LEMMA RegisterStep == IInv /\ [Next]_vars => [Register!Next]_(Register!registerVars)
  <1> SUFFICES ASSUME IInv, [Next]_vars
               PROVE  Register!Next \/ UNCHANGED Register!registerVars
    OBVIOUS
  <1>1. TypeOK /\ TransactionInv
    BY DEF IInv, OrderingInv
  <1>2. ASSUME UNCHANGED <<tab, stage, job, work>> PROVE UNCHANGED Register!registerVars
    BY <1>2, RegisterStutters DEF RegisterKept, ViewKept, Phase
  <1>3. ASSUME NEW d \in Devices, Edit(d) PROVE UNCHANGED Register!registerVars
    BY <1>2, <1>3 DEF Edit, dbVars, txVars
  <1>4. ASSUME NEW r \in Requests, NEW j \in Job, Arrive(r, j) PROVE Register!Next
    <2>1. /\ stage[r] = "free" /\ stage'[r] = "arrived" /\ job'[r] = j
          /\ \A q \in Requests \ {r} : stage'[q] = stage[q] /\ job'[q] = job[q] /\ work'[q] = work[q]
          /\ RegisterKept
      BY <1>1, <1>4 DEF Arrive, TypeOK, dbVars, txVars, RegisterKept
    <2>2. Phase(r) = "none" /\ Phase(r)' = "asked"
      BY <2>1 DEF Phase
    <2>3. \A q \in Requests \ {r} : ViewKept(q)
      BY <2>1 DEF ViewKept, Phase
    <2>4. \A q \in Requests : CallOf(IF Phase(q) = "asked" THEN job[q] ELSE NoJob)' \in Register!Call
      <3>1. \A q \in Requests : (IF Phase(q) = "asked" THEN job[q] ELSE NoJob)' \in Job
        BY ConstantTypes, TypeStep, <1>1 DEF TypeOK, NoJob
      <3> QED BY <3>1 DEF CallOf, Job, Register!Call
    <2>5. Register!Ask(r)
      BY <2>1, <2>2, <2>3, <2>4, ViewChanges DEF Register!Ask, RegisterKept
    <2> QED BY <2>5 DEF Register!Next
  <1>5. ASSUME NEW d \in Devices, NEW r \in Requests, SendSync(d, r) \/ SendReset(d, r)
        PROVE  Register!Next
    <2>1. CASE SendSync(d, r)
      <3>1. dev[d].ver \in Nat /\ (IF dev[d].dirty THEN dev[d].blob ELSE NoPush) \in Blobs \union {NoPush, Empty}
        BY <1>1 DEF TypeOK, Local
      <3> QED BY <1>1, <1>4, <2>1, <3>1 DEF SendSync, TypeOK, Job
    <2>2. CASE SendReset(d, r)
      <3>1. [NoJob EXCEPT !.dev = d] \in Job
        BY ConstantTypes DEF Job
      <3> QED BY <1>4, <2>2, <3>1 DEF SendReset
    <2> QED BY <1>5, <2>1, <2>2
  <1>6. ASSUME NEW r \in Requests,
               Phase(r) # "none", stage'[r] = "free",
               \A q \in Requests \ {r} : stage'[q] = stage[q] /\ job'[q] = job[q] /\ work'[q] = work[q],
               tab' = tab
        PROVE  Register!Next
    <2>1. Phase(r)' = "none" /\ RegisterKept /\ \A q \in Requests \ {r} : ViewKept(q)
      BY <1>6 DEF Phase, RegisterKept, ViewKept
    <2>2. /\ CallOf(IF Phase(r) = "asked" THEN job[r] ELSE NoJob)' = Register!NoCall
          /\ State(IF Phase(r) = "done" THEN work[r] ELSE FirstTable)' = Register!First
      BY <2>1 DEF CallOf, NoJob, State, Data, FirstTable, Register!NoCall, Register!First
    <2>3. Register!End(r)
      BY <1>6, <2>1, <2>2, ViewChanges DEF Register!End, RegisterKept
    <2> QED BY <2>3 DEF Register!Next
  <1>7. ASSUME NEW r \in Requests, Receive(r) \/ Refuse(r) \/ Fail(r) PROVE Register!Next
    <2>1. /\ Phase(r) # "none" /\ stage'[r] = "free" /\ tab' = tab
          /\ \A q \in Requests \ {r} : stage'[q] = stage[q] /\ job'[q] = job[q] /\ work'[q] = work[q]
      BY <1>1, <1>7 DEF Receive, Refuse, Fail, End, TypeOK, Phase, dbVars
    <2> QED BY <1>6, <2>1
  <1>8. ASSUME NEW r \in Requests, OpenSync(r) \/ Apply(r) \/ ReadReset(r) \/ WriteReset(r)
        PROVE  UNCHANGED Register!registerVars
    <2>1. /\ Phase(r) = "asked" /\ Phase(r)' = "asked" /\ job' = job /\ tab' = tab
          /\ \A q \in Requests \ {r} : stage'[q] = stage[q] /\ work'[q] = work[q]
      BY <1>1, <1>8 DEF OpenSync, Apply, ReadReset, WriteReset, TypeOK, Phase, dbVars
    <2>2. RegisterKept /\ \A q \in Requests : ViewKept(q)
      BY <2>1 DEF RegisterKept, ViewKept, Phase
    <2> QED BY <2>2, RegisterStutters
  <1>9. ASSUME NEW r \in Requests, Commit(r) PROVE Register!Next
    <2>1. /\ Phase(r) = "asked" /\ Phase(r)' = "done"
          /\ State(tab)' = Register!After(State(tab), CallOf(job[r])) /\ State(work'[r]) = State(tab)'
      BY <1>9, RegisterCommits
    <2>2. \A q \in Requests \ {r} : ViewKept(q)
      BY <1>1, <1>9 DEF Commit, End, TypeOK, ViewKept, Phase
    <2>3. /\ CallOf(IF Phase(r) = "asked" THEN job[r] ELSE NoJob) = CallOf(job[r])
          /\ CallOf(IF Phase(r) = "asked" THEN job[r] ELSE NoJob)' = Register!NoCall
          /\ State(IF Phase(r) = "done" THEN work[r] ELSE FirstTable)' = State(tab)'
      BY <2>1 DEF CallOf, NoJob, State, Register!NoCall
    <2>4. Register!TakeEffect(r)
      BY <2>1, <2>2, <2>3, ViewChanges DEF Register!TakeEffect
    <2> QED BY <2>4 DEF Register!Next
  <1>10. ASSUME Purge PROVE UNCHANGED Register!registerVars
    <2>1. tab'.ver = tab.ver /\ tab'.blob = tab.blob /\ UNCHANGED <<stage, job, work>>
      BY <1>1, <1>10 DEF Purge, TypeOK, Table
    <2> QED BY <2>1, RegisterStutters DEF RegisterKept, ViewKept, Phase, State, Data
  <1>11. ASSUME NEW q \in Forms, SetQuota(q) PROVE UNCHANGED Register!registerVars
    BY <1>2, <1>11 DEF SetQuota
  <1>12. CASE UNCHANGED vars
    BY <1>2, <1>12 DEF vars
  <1> QED BY <1>3, <1>5, <1>7, <1>8, <1>9, <1>10, <1>11, <1>12 DEF Next, ServerStep

(* RegisterSpec: whatever transactions overlap, fail or are refused, the    *)
(* ordering behaves as one register on which every call takes effect at one *)
(* moment, or not at all.                                                   *)
THEOREM ImplementsRegister == Spec => RegisterSpec
  <1>1. Spec => Register!Init /\ [][Register!Next]_(Register!registerVars)
    BY Inductive, RegisterInit, RegisterStep, PTL DEF Spec
  <1> QED BY <1>1 DEF RegisterSpec, Register!Spec
=============================================================================
