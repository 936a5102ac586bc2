---------------------------- MODULE DeltaSyncInv -----------------------------
(***************************************************************************)
(* The inductive invariant of DeltaSync: what has to hold of the requests, *)
(* stamps, rows and answers that are under way for the properties of       *)
(* DeltaSync to survive every step.  DeltaSyncProofs proves it.            *)
(***************************************************************************)
EXTENDS DeltaSync

(* Stamps follow the order of the commits: a transaction is alone and its   *)
(* stamp is above everything committed, in flight or saved by a device.     *)
StampInv ==
  /\ \A s, t \in Servers : pc[s] = "tx" /\ pc[t] = "tx" => s = t
  /\ \A s \in Servers : pc[s] = "tx" => stamp[s] > last
  /\ \A s \in Servers : InFlight(s) => stamp[s] > 0 /\ stamp[s] <= last
  /\ \A r \in Ids : /\ synced[r] <= last
                    /\ tab[r].st # "absent" => synced[r] > 0
  /\ \A d \in Devices : cursor[d] <= last /\ inbox[d].time <= last

(* How far the stamps run ahead of a pull, and the sweep stays behind.      *)
DriftInv ==
  /\ \A s \in Servers : InFlight(s) => last <= stamp[s] + Drift
  /\ \A s, t \in Servers : pc[s] = "tx" /\ InFlight(t) => stamp[s] <= stamp[t] + Drift
  /\ sweep # "idle" => cutoff <= last - (Retention + Margin)

(* A request that its device still waits for carries what the device has.   *)
Faithful(q) ==
  /\ q \in Request /\ q.att > 0 /\ q.att <= sent
  /\ Live(q) => /\ q.since = cursor[q.dev]
                /\ \A r \in Ids : q.push[r] = IF r \in dirty[q.dev]
                                              THEN copy[q.dev][r] ELSE Gone
RequestInv ==
  /\ \A q \in net : Faithful(q)
  /\ \A s \in Servers : pc[s] # "idle" => Faithful(job[s])
  /\ \A s \in Servers : InFlight(s) /\ Live(job[s]) => cursor[job[s].dev] < stamp[s]
  /\ \A d \in Devices : waiting[d] <= sent /\ (inbox[d].time > 0 => waiting[d] > 0)
  /\ \A d \in Devices, r \in Ids :
       IF r \in dirty[d] THEN copy[d][r].st # "absent"
       ELSE cursor[d] = 0 => copy[d][r].st = "absent"

(* What cursor c promises, at stamp now, about a local row cp when the      *)
(* server has row with stamp at; exempt rows may have missed a deletion.    *)
Promised(row, at, now, c, cp, exempt) ==
  /\ row.st = "active" /\ at <= c => cp = row
  /\ exempt \/ /\ row.st = "deleted" /\ at <= c => cp.st # "active"
               /\ Drift <= Margin /\ row.st = "absent" /\ cp.st = "active"
                    => c < now - (Retention + Margin)
Promise(r, c, cp, exempt) == Promised(tab[r], synced[r], last, c, cp, exempt)

(* The row a device will have, and whether it will be exempt, once it       *)
(* applies an answer with this doc.                                         *)
After(d, full, doc, r) == IF doc.st # "absent" THEN doc
                          ELSE IF full THEN Gone ELSE copy[d][r]
Exempt(d, full, doc, r) == /\ ~full /\ doc.st = "absent"
                           /\ r \in unechoed[d] \/ (cursor[d] = 0 /\ r \in dirty[d])

(* The rows that a sync has pushed keep its stamp until the pull is over.   *)
LandedInv ==
  \A s \in Servers, r \in Ids :
    InFlight(s) /\ Live(job[s]) /\ r \in dirty[job[s].dev]
      => IF tab[r].st = "absent" THEN Drift > Margin ELSE synced[r] >= stamp[s]

SavedInv ==
  \A d \in Devices, r \in Ids :
    Clean(d, r) => Promise(r, cursor[d], copy[d][r], r \in unechoed[d])
AnswerInv ==
  \A d \in Devices, r \in Ids : inbox[d].time > 0
    => LET full == inbox[d].full
           doc  == inbox[d].docs[r]
       IN Promise(r, inbox[d].time, After(d, full, doc, r), Exempt(d, full, doc, r))
FolderInv ==
  /\ \A s \in Servers, n \in Notes : pc[s] = "folders" => got[s][n] = Gone
  /\ \A s \in Servers, r \in Folders : pc[s] = "folders" /\ Live(job[s])
       => LET d    == job[s].dev
              full == FullResync(job[s].since, stamp[s])
              doc  == got[s][r]
          IN Promise(r, stamp[s], After(d, full, doc, r), Exempt(d, full, doc, r))

DeliveryInv ==
  /\ StampInv /\ DriftInv /\ RequestInv
  /\ LandedInv /\ SavedInv /\ AnswerInv /\ FolderInv
=============================================================================
