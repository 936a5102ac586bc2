------------------------- MODULE SyncAdmissionProofs --------------------------
(***************************************************************************)
(* Theorems about SyncAdmission, for every set of requests, accounts and   *)
(* slots.                                                                  *)
(***************************************************************************)
EXTENDS SyncAdmission, FiniteSetTheorems, TLAPS

IInv == TypeOK /\ AdmissionInv

USE DEF Stages

-----------------------------------------------------------------------------
(* Counting.                                                               *)

LEMMA CountAdd ==
  ASSUME NEW S, NEW x, IsFiniteSet(S), x \notin S
  PROVE  Cardinality(S \union {x}) = Cardinality(S) + 1
  BY FS_AddElement

LEMMA CountRemove ==
  ASSUME NEW S, NEW x, IsFiniteSet(S), x \in S
  PROVE  Cardinality(S \ {x}) = Cardinality(S) - 1
  BY FS_RemoveElement

LEMMA FiniteSets ==
  /\ \A e : IsFiniteSet(Referring(e)) /\ Cardinality(Referring(e)) \in Nat
  /\ LET B == {r \in Requests : HasBody(r)}
     IN IsFiniteSet(B) /\ Cardinality(B) \in Nat
  <1>1. \A S \in SUBSET Requests : IsFiniteSet(S) /\ Cardinality(S) \in Nat
    BY AdmissionAssumption, FS_Subset, FS_CardinalityType
  <1>2. \A e : Referring(e) \in SUBSET Requests
    BY DEF Referring
  <1>3. {r \in Requests : HasBody(r)} \in SUBSET Requests
    OBVIOUS
  <1> QED BY <1>1, <1>2, <1>3

-----------------------------------------------------------------------------
LEMMA IInvInit == Init => IInv
  <1> SUFFICES ASSUME Init PROVE IInv
    OBVIOUS
  <1>1. TypeOK
    BY AdmissionAssumption DEF Init, TypeOK
  <1>2. \A r \in Requests : ~Inside(r) /\ ~Pointing(r) /\ ~HasBody(r)
    BY DEF Init, Inside, Pointing, HasBody, Answering
  <1>3. RefsInv
    <2>1. \A e \in Entries : Referring(e) = {}
      BY AdmissionAssumption DEF Init, Referring
    <2> QED BY <2>1, FS_EmptySet DEF Init, RefsInv
  <1>4. NamesInv
    BY <1>2 DEF Init, NamesInv
  <1>5. GateInv
    BY <1>2 DEF GateInv
  <1>6. StageInv
    BY DEF Init, StageInv
  <1>7. SlotsMatchBodies
    <2>1. {r \in Requests : HasBody(r)} = {}
      BY <1>2
    <2> QED BY <2>1, FS_EmptySet, AdmissionAssumption DEF Init, SlotsMatchBodies
  <1> QED BY <1>1, <1>3, <1>4, <1>5, <1>6, <1>7 DEF IInv, AdmissionInv

(* A step that touches neither a lock nor a slot and leaves everybody where *)
(* they are, as far as the gate and the bodies are concerned.               *)
Quiet ==
  /\ UNCHANGED <<lockVars, slots, entry>>
  /\ \A q \in Requests : /\ Inside(q)' <=> Inside(q)
                         /\ Pointing(q)' <=> Pointing(q)
                         /\ HasBody(q)' <=> HasBody(q)

LEMMA QuietStep ==
  ASSUME AdmissionInv, Quiet
  PROVE  RefsInv' /\ NamesInv' /\ GateInv' /\ SlotsMatchBodies'
  <1>1. RefsInv'
    BY DEF AdmissionInv, Quiet, RefsInv, Referring, lockVars
  <1>2. NamesInv'
    BY DEF AdmissionInv, Quiet, NamesInv, lockVars
  <1>3. GateInv'
    BY DEF AdmissionInv, Quiet, GateInv, lockVars
  <1>4. SlotsMatchBodies'
    <2>1. {q \in Requests : HasBody(q)}' = {q \in Requests : HasBody(q)}
      BY DEF Quiet
    <2> QED BY <2>1 DEF AdmissionInv, Quiet, SlotsMatchBodies
  <1> QED BY <1>1, <1>2, <1>3, <1>4

-----------------------------------------------------------------------------
(* The quiet steps.                                                        *)

(* The effect of a step on the requests that do not take it.                *)
Apart(r) ==
  \A q \in Requests \ {r} :
    /\ pc'[q] = pc[q] /\ back'[q] = back[q] /\ entry'[q] = entry[q]
    /\ memHeld'[q] = memHeld[q] /\ done'[q] = done[q]

LEMMA ApartFacts ==
  ASSUME NEW r \in Requests, Apart(r), NEW q \in Requests, q # r
  PROVE  /\ Inside(q)' <=> Inside(q)
         /\ Pointing(q)' <=> Pointing(q)
         /\ HasBody(q)' <=> HasBody(q)
         /\ entry'[q] = entry[q]
  BY DEF Apart, Inside, Pointing, HasBody, Answering

LEMMA QuietSteps ==
  ASSUME IInv, NEW r \in Requests,
         LeaveGate(r) \/ LeaveSlot(r) \/ Refuse(r) \/ Finish(r) \/ Respond(r) \/ Return(r) \/ Cancel(r)
  PROVE  TypeOK' /\ StageInv' /\ Quiet
  <1>1. TypeOK /\ AdmissionInv /\ StageInv
    BY DEF IInv, AdmissionInv
  <1>2. CASE LeaveGate(r)
    <2>1. TypeOK' /\ Apart(r) /\ pc'[r] = "drop" /\ UNCHANGED <<lockVars, slots, entry>>
      BY <1>1, <1>2 DEF LeaveGate, Goto, TypeOK, Apart, lockVars
    <2>2. Quiet
      BY <1>1, <1>2, <2>1, ApartFacts DEF LeaveGate, Quiet, Inside, Pointing, HasBody, Answering
    <2>3. StageInv'
      BY <1>1, <1>2, <2>1 DEF LeaveGate, StageInv, Apart
    <2> QED BY <2>1, <2>2, <2>3
  <1>3. CASE LeaveSlot(r)
    <2>1. /\ TypeOK' /\ Apart(r) /\ UNCHANGED <<lockVars, slots, entry>>
          /\ pc'[r] = "open" /\ done'[r] /\ back'[r] = "idle" /\ memHeld' = memHeld
      BY <1>1, <1>3 DEF LeaveSlot, Release, Goto, TypeOK, Apart, lockVars, StageInv
    <2>2. Quiet
      BY <1>1, <1>3, <2>1, ApartFacts DEF LeaveSlot, Quiet, Inside, Pointing, HasBody, Answering
    <2>3. StageInv'
      BY <1>1, <1>3, <2>1 DEF LeaveSlot, StageInv, Apart
    <2> QED BY <2>1, <2>2, <2>3
  <1>4. CASE Refuse(r)
    <2>1. /\ TypeOK' /\ Apart(r) /\ UNCHANGED <<lockVars, slots, entry>>
          /\ pc'[r] = "respond" /\ UNCHANGED <<done, back, memHeld>>
      BY <1>1, <1>4 DEF Refuse, Goto, TypeOK, Apart, lockVars
    <2>2. Quiet
      BY <1>1, <1>4, <2>1, ApartFacts DEF Refuse, Quiet, Inside, Pointing, HasBody, Answering, StageInv
    <2>3. StageInv'
      BY <1>1, <1>4, <2>1 DEF Refuse, StageInv, Apart
    <2> QED BY <2>1, <2>2, <2>3
  <1>5. CASE Finish(r) /\ r \in Syncs
    <2>1. /\ TypeOK' /\ Apart(r) /\ UNCHANGED <<lockVars, slots, entry>>
          /\ pc'[r] = (IF memHeld[r] THEN "free" ELSE "open")
          /\ done'[r] /\ UNCHANGED memHeld
      BY <1>1, <1>5 DEF Finish, Release, Goto, TypeOK, Apart, lockVars
    <2>2. Quiet
      BY <1>1, <1>5, <2>1, ApartFacts DEF Finish, Quiet, Inside, Pointing, HasBody, Answering, StageInv
    <2>3. StageInv'
      BY <1>1, <1>5, <2>1 DEF Finish, StageInv, Apart
    <2> QED BY <2>1, <2>2, <2>3
  <1>6. CASE Finish(r) /\ r \notin Syncs
    <2>1. /\ TypeOK' /\ Apart(r) /\ UNCHANGED <<lockVars, slots, entry>>
          /\ pc'[r] = "respond" /\ UNCHANGED <<done, back, memHeld>>
      BY <1>1, <1>6 DEF Finish, Goto, TypeOK, Apart, lockVars
    <2>2. Quiet
      BY <1>1, <1>6, <2>1, ApartFacts DEF Finish, Quiet, Inside, Pointing, HasBody, Answering, StageInv
    <2>3. StageInv'
      BY <1>1, <1>6, <2>1 DEF Finish, StageInv, Apart
    <2> QED BY <2>1, <2>2, <2>3
  <1>7. CASE Respond(r)
    <2>1. /\ TypeOK' /\ Apart(r) /\ UNCHANGED <<lockVars, slots, entry>>
          /\ pc'[r] = "return" /\ UNCHANGED <<done, back, memHeld>>
      BY <1>1, <1>7 DEF Respond, Goto, TypeOK, Apart, lockVars
    <2>2. Quiet
      BY <1>1, <1>7, <2>1, ApartFacts DEF Respond, Quiet, Inside, Pointing, HasBody, Answering, StageInv
    <2>3. StageInv'
      BY <1>1, <1>7, <2>1 DEF Respond, StageInv, Apart
    <2> QED BY <2>1, <2>2, <2>3
  <1>8. CASE Return(r) /\ done[r]
    <2>1. /\ TypeOK' /\ Apart(r) /\ UNCHANGED <<lockVars, slots, entry>>
          /\ pc'[r] = "idle" /\ ~done'[r] /\ ~memHeld'[r] /\ UNCHANGED back
      <3>1. /\ pc' = [pc EXCEPT ![r] = "idle"] /\ memHeld' = [memHeld EXCEPT ![r] = FALSE]
            /\ done' = [done EXCEPT ![r] = FALSE] /\ gone' = [gone EXCEPT ![r] = FALSE]
            /\ UNCHANGED <<back, slots, entry, locks, refs, full>>
        BY <1>8 DEF Return, Goto, lockVars
      <3>2. TypeOK'
        BY <1>1, <3>1 DEF TypeOK, Stages
      <3> QED BY <1>1, <3>1, <3>2 DEF TypeOK, Apart, lockVars
    <2>2. Quiet
      BY <1>1, <1>8, <2>1, ApartFacts DEF Return, Quiet, Inside, Pointing, HasBody, Answering, StageInv
    <2>3. StageInv'
      BY <1>1, <1>8, <2>1 DEF Return, StageInv, Apart
    <2> QED BY <2>1, <2>2, <2>3
  <1>9. CASE Return(r) /\ ~done[r]
    <2>1. /\ TypeOK' /\ Apart(r) /\ UNCHANGED <<lockVars, slots, entry>>
          /\ pc'[r] = (IF memHeld[r] THEN "free" ELSE "open")
          /\ done'[r] /\ back'[r] = "idle" /\ UNCHANGED memHeld
      <3>1. /\ pc' = [pc EXCEPT ![r] = IF memHeld[r] THEN "free" ELSE "open"]
            /\ done' = [done EXCEPT ![r] = TRUE] /\ back' = [back EXCEPT ![r] = "idle"]
            /\ UNCHANGED <<memHeld, gone, slots, entry, locks, refs, full>>
        BY <1>9 DEF Return, Release, Goto, lockVars
      <3>2. TypeOK'
        BY <1>1, <3>1 DEF TypeOK, Stages
      <3> QED BY <1>1, <3>1, <3>2 DEF TypeOK, Apart, lockVars
    <2>2. Quiet
      BY <1>1, <1>9, <2>1, ApartFacts DEF Return, Quiet, Inside, Pointing, HasBody, Answering, StageInv
    <2>3. StageInv'
      BY <1>1, <1>9, <2>1 DEF Return, StageInv, Apart
    <2> QED BY <2>1, <2>2, <2>3
  <1>10. CASE Cancel(r)
    <2>1. TypeOK' /\ UNCHANGED <<lockVars, slots, entry, pc, back, memHeld, done>>
      BY <1>1, <1>10 DEF Cancel, TypeOK, lockVars
    <2>2. Quiet
      BY <2>1 DEF Quiet, Inside, Pointing, HasBody, Answering
    <2>3. StageInv'
      BY <1>1, <2>1 DEF StageInv
    <2> QED BY <2>1, <2>2, <2>3
  <1> QED BY <1>2, <1>3, <1>4, <1>5, <1>6, <1>7, <1>8, <1>9, <1>10

-----------------------------------------------------------------------------
(* The steps on the slots.                                                 *)

LEMMA TakeSlotStep ==
  ASSUME IInv, NEW r \in Requests, TakeSlot(r)
  PROVE  IInv'
  <1>1. TypeOK /\ RefsInv /\ NamesInv /\ GateInv /\ StageInv /\ SlotsMatchBodies
    BY DEF IInv, AdmissionInv
  <1>2. /\ TypeOK' /\ Apart(r) /\ UNCHANGED <<lockVars, entry>>
        /\ pc[r] = "slot" /\ pc'[r] = "work" /\ memHeld'[r] /\ ~memHeld[r]
        /\ UNCHANGED <<done, back>>
    BY <1>1 DEF TakeSlot, Goto, TypeOK, Apart, lockVars, StageInv
  <1>3. \A q \in Requests : (Inside(q)' <=> Inside(q)) /\ (Pointing(q)' <=> Pointing(q))
    BY <1>2, ApartFacts DEF Inside, Pointing, Answering
  <1>4. RefsInv' /\ NamesInv' /\ GateInv'
    BY <1>1, <1>2, <1>3 DEF RefsInv, Referring, NamesInv, GateInv, lockVars
  <1>5. StageInv'
    BY <1>1, <1>2 DEF StageInv, Apart
  <1>6. SlotsMatchBodies'
    <2> DEFINE B == {q \in Requests : HasBody(q)}
    <2>1. r \notin B /\ B' = B \union {r}
      BY <1>2, ApartFacts DEF HasBody, Answering
    <2>2. Cardinality(B') = Cardinality(B) + 1
      BY <2>1, CountAdd, FiniteSets
    <2> QED BY <1>1, <2>2, FiniteSets, AdmissionAssumption DEF TakeSlot, SlotsMatchBodies, TypeOK
  <1> QED BY <1>2, <1>4, <1>5, <1>6 DEF IInv, AdmissionInv

LEMMA FreeSlotStep ==
  ASSUME IInv, NEW r \in Requests, FreeSlot(r)
  PROVE  IInv'
  <1>1. TypeOK /\ RefsInv /\ NamesInv /\ GateInv /\ StageInv /\ SlotsMatchBodies
    BY DEF IInv, AdmissionInv
  <1>2. /\ TypeOK' /\ Apart(r) /\ UNCHANGED <<lockVars, entry>>
        /\ pc[r] = "free" /\ pc'[r] = "open" /\ memHeld[r]
        /\ UNCHANGED <<done, back, memHeld>>
    BY <1>1 DEF FreeSlot, Goto, TypeOK, Apart, lockVars, StageInv
  <1>3. \A q \in Requests : (Inside(q)' <=> Inside(q)) /\ (Pointing(q)' <=> Pointing(q))
    BY <1>2, ApartFacts DEF Inside, Pointing, Answering
  <1>4. RefsInv' /\ NamesInv' /\ GateInv'
    BY <1>1, <1>2, <1>3 DEF RefsInv, Referring, NamesInv, GateInv, lockVars
  <1>5. StageInv'
    BY <1>1, <1>2 DEF StageInv, Apart
  <1>6. SlotsMatchBodies'
    <2> DEFINE B == {q \in Requests : HasBody(q)}
    <2>1. r \in B /\ B' = B \ {r}
      BY <1>2, ApartFacts DEF HasBody, Answering
    <2>2. Cardinality(B') = Cardinality(B) - 1
      BY <2>1, CountRemove, FiniteSets
    <2> QED BY <1>1, <2>2, FiniteSets, AdmissionAssumption DEF FreeSlot, SlotsMatchBodies, TypeOK
  <1> QED BY <1>2, <1>4, <1>5, <1>6 DEF IInv, AdmissionInv

-----------------------------------------------------------------------------
(* The steps on the gate of an account.                                    *)

LEMMA PassGateStep ==
  ASSUME IInv, NEW r \in Requests, PassGate(r)
  PROVE  IInv'
  <1>1. TypeOK /\ RefsInv /\ NamesInv /\ GateInv /\ StageInv /\ SlotsMatchBodies
    BY DEF IInv, AdmissionInv
  <1>2. /\ TypeOK' /\ Apart(r) /\ UNCHANGED <<locks, refs, slots, entry>>
        /\ pc[r] = "gate" /\ pc'[r] \in {"slot", "work"}
        /\ ~memHeld[r] /\ ~done[r] /\ UNCHANGED <<done, back, memHeld>>
    BY <1>1 DEF PassGate, Goto, TypeOK, Apart, StageInv
  <1>3. entry[r] \in Entries
    BY <1>1, <1>2 DEF NamesInv, Pointing, TypeOK
  <1>4. ~full[entry[r]] /\ full' = [full EXCEPT ![entry[r]] = TRUE]
    BY DEF PassGate
  <1>5. /\ ~Inside(r) /\ Inside(r)'
        /\ \A q \in Requests \ {r} : Inside(q)' <=> Inside(q)
        /\ \A q \in Requests : (Pointing(q)' <=> Pointing(q)) /\ (HasBody(q)' <=> HasBody(q))
    BY <1>2, ApartFacts DEF Inside, Pointing, HasBody, Answering
  <1>6. RefsInv' /\ NamesInv'
    BY <1>1, <1>2, <1>5 DEF RefsInv, Referring, NamesInv
  <1>7. \A q \in Requests : Inside(q) => q # r /\ entry[q] \in Entries /\ entry[q] # entry[r]
    BY <1>1, <1>4, <1>5 DEF GateInv, NamesInv, Pointing, TypeOK
  <1>8. GateInv'
    BY <1>1, <1>2, <1>3, <1>4, <1>5, <1>7 DEF GateInv, TypeOK
  <1>9. StageInv'
    BY <1>1, <1>2 DEF StageInv, Apart
  <1>10. SlotsMatchBodies'
    <2>1. {q \in Requests : HasBody(q)}' = {q \in Requests : HasBody(q)}
      BY <1>5
    <2> QED BY <1>1, <1>2, <2>1 DEF SlotsMatchBodies
  <1> QED BY <1>2, <1>6, <1>8, <1>9, <1>10 DEF IInv, AdmissionInv

LEMMA OpenGateStep ==
  ASSUME IInv, NEW r \in Requests, OpenGate(r)
  PROVE  IInv'
  <1>1. TypeOK /\ RefsInv /\ NamesInv /\ GateInv /\ StageInv /\ SlotsMatchBodies
    BY DEF IInv, AdmissionInv
  <1>2. /\ TypeOK' /\ Apart(r) /\ UNCHANGED <<locks, refs, slots, entry>>
        /\ pc[r] = "open" /\ pc'[r] = "drop"
        /\ done[r] /\ UNCHANGED <<done, back, memHeld>>
    BY <1>1 DEF OpenGate, Goto, TypeOK, Apart, StageInv
  <1>3. entry[r] \in Entries /\ full' = [full EXCEPT ![entry[r]] = FALSE]
    BY <1>1, <1>2 DEF OpenGate, NamesInv, Pointing, Inside, TypeOK
  <1>4. /\ Inside(r) /\ ~Inside(r)'
        /\ \A q \in Requests \ {r} : Inside(q)' <=> Inside(q)
        /\ \A q \in Requests : (Pointing(q)' <=> Pointing(q)) /\ (HasBody(q)' <=> HasBody(q))
    BY <1>2, ApartFacts DEF Inside, Pointing, HasBody, Answering
  <1>5. RefsInv' /\ NamesInv'
    BY <1>1, <1>2, <1>4 DEF RefsInv, Referring, NamesInv
  <1>6. \A q \in Requests \ {r} : Inside(q) => entry[q] \in Entries /\ entry[q] # entry[r]
    BY <1>1, <1>4 DEF GateInv, NamesInv, Pointing, TypeOK
  <1>7. GateInv'
    BY <1>1, <1>2, <1>3, <1>4, <1>6 DEF GateInv, TypeOK
  <1>8. StageInv'
    BY <1>1, <1>2 DEF StageInv, Apart
  <1>9. SlotsMatchBodies'
    <2>1. {q \in Requests : HasBody(q)}' = {q \in Requests : HasBody(q)}
      BY <1>4
    <2> QED BY <1>1, <1>2, <2>1 DEF SlotsMatchBodies
  <1> QED BY <1>2, <1>5, <1>7, <1>8, <1>9 DEF IInv, AdmissionInv

-----------------------------------------------------------------------------
(* The steps on the lock set.                                              *)

(* The request that arrives now refers to e, and e is the entry of its      *)
(* account.                                                                 *)
LEMMA ArriveStep ==
  ASSUME IInv, NEW r \in Requests, Arrive(r)
  PROVE  IInv'
  <1>1. TypeOK /\ RefsInv /\ NamesInv /\ GateInv /\ StageInv /\ SlotsMatchBodies
    BY DEF IInv, AdmissionInv
  <1>2. UserOf[r] \in Users /\ NoEntry \notin Entries
    BY AdmissionAssumption
  <1>3. PICK e \in Entries :
          /\ Join(r, e) \/ Create(r, e)
          /\ entry' = [entry EXCEPT ![r] = e]
    BY DEF Arrive
  <1>4. /\ Apart(r) /\ UNCHANGED <<slots, back, memHeld, done, gone>>
        /\ pc[r] = "idle" /\ pc' = [pc EXCEPT ![r] = "gate"] /\ ~memHeld[r] /\ ~done[r]
    BY <1>1, <1>3 DEF Arrive, Goto, TypeOK, Apart, StageInv
  <1>5. /\ entry[r] = NoEntry /\ entry'[r] = e /\ Pointing(r)' /\ ~Inside(r) /\ ~Inside(r)'
        /\ \A q \in Requests \ {r} :
             /\ entry'[q] = entry[q]
             /\ (Pointing(q)' <=> Pointing(q)) /\ (Inside(q)' <=> Inside(q))
        /\ \A q \in Requests : HasBody(q)' <=> HasBody(q)
    BY <1>1, <1>3, <1>4, ApartFacts DEF NamesInv, TypeOK, Pointing, Inside, HasBody, Answering
  <1>6. /\ Referring(e)' = Referring(e) \union {r} /\ r \notin Referring(e)
        /\ \A x \in Entries \ {e} : Referring(x)' = Referring(x)
    BY <1>2, <1>5 DEF Referring
  <1>7. Cardinality(Referring(e)') = Cardinality(Referring(e)) + 1
    BY <1>6, CountAdd, FiniteSets
  <1>8. StageInv'
    BY <1>1, <1>4 DEF StageInv, Apart, TypeOK
  <1>9. SlotsMatchBodies'
    <2>1. {q \in Requests : HasBody(q)}' = {q \in Requests : HasBody(q)}
      BY <1>5
    <2> QED BY <1>1, <1>4, <2>1 DEF SlotsMatchBodies
  <1>10. CASE Join(r, e)
    <2>1. locks[UserOf[r]] = e /\ refs' = [refs EXCEPT ![e] = @ + 1] /\ UNCHANGED <<locks, full>>
      BY <1>10 DEF Join
    <2>2. TypeOK'
      BY <1>1, <1>3, <1>4, <2>1 DEF TypeOK
    <2>3. RefsInv'
      BY <1>1, <1>6, <1>7, <2>1 DEF RefsInv, TypeOK
    <2>4. \A q \in Requests : entry[q] = e => UserOf[q] = UserOf[r]
      BY <1>1, <1>2, <2>1 DEF NamesInv
    <2>5. NamesInv'
      BY <1>1, <1>2, <1>5, <2>1, <2>4 DEF NamesInv
    <2>6. GateInv'
      BY <1>1, <1>5, <2>1 DEF GateInv
    <2> QED BY <1>8, <1>9, <2>2, <2>3, <2>5, <2>6 DEF IInv, AdmissionInv
  <1>11. CASE Create(r, e)
    <2>1. /\ locks[UserOf[r]] = NoEntry /\ \A q \in Requests : entry[q] # e
          /\ locks' = [locks EXCEPT ![UserOf[r]] = e]
          /\ refs' = [refs EXCEPT ![e] = 1] /\ full' = [full EXCEPT ![e] = FALSE]
      BY <1>11 DEF Create, Unreferenced
    <2>2. TypeOK'
      BY <1>1, <1>2, <1>3, <1>4, <2>1 DEF TypeOK
    <2>3. RefsInv'
      <3>1. Referring(e) = {}
        BY <2>1 DEF Referring
      <3>2. Cardinality(Referring(e)') = 1
        BY <1>7, <3>1, FS_EmptySet
      <3> QED BY <1>1, <1>6, <2>1, <3>2 DEF RefsInv, TypeOK
    <2>4. \A q \in Requests \ {r} : entry[q] # NoEntry => UserOf[q] # UserOf[r]
      BY <1>1, <2>1 DEF NamesInv
    <2>5. NamesInv'
      <3>1. \A q \in Requests : entry'[q] # NoEntry <=> Pointing(q)'
        BY <1>1, <1>2, <1>5 DEF NamesInv
      <3>2. \A q \in Requests : entry'[q] # NoEntry => locks'[UserOf[q]] = entry'[q]
        BY <1>1, <1>2, <1>5, <2>1, <2>4 DEF NamesInv, TypeOK
      <3>3. \A u \in Users : locks'[u] # NoEntry
              => \E q \in Requests : UserOf[q] = u /\ entry'[q] = locks'[u]
        <4> SUFFICES ASSUME NEW u \in Users, locks'[u] # NoEntry
                     PROVE  \E q \in Requests : UserOf[q] = u /\ entry'[q] = locks'[u]
          OBVIOUS
        <4>1. CASE u = UserOf[r]
          BY <1>1, <1>5, <2>1, <4>1 DEF TypeOK
        <4>2. CASE u # UserOf[r]
          <5>1. locks'[u] = locks[u]
            BY <1>1, <2>1, <4>2 DEF TypeOK
          <5>2. PICK q \in Requests : UserOf[q] = u /\ entry[q] = locks[u]
            BY <1>1, <5>1 DEF NamesInv
          <5> QED BY <1>5, <4>2, <5>1, <5>2
        <4> QED BY <4>1, <4>2
      <3>4. \A p, q \in Requests : entry'[p] # NoEntry /\ entry'[p] = entry'[q]
              => UserOf[p] = UserOf[q]
        BY <1>1, <1>5, <2>1 DEF NamesInv
      <3> QED BY <3>1, <3>2, <3>3, <3>4 DEF NamesInv
    <2>6. GateInv'
      <3>1. \A q \in Requests : Inside(q)'
              => (/\ q # r /\ Inside(q) /\ full[entry[q]] /\ entry'[q] = entry[q]
                  /\ entry[q] \in Entries /\ entry[q] # e)
        BY <1>1, <1>5, <2>1 DEF GateInv, NamesInv, Pointing, TypeOK
      <3> QED BY <1>1, <2>1, <3>1 DEF GateInv, TypeOK
    <2> QED BY <1>8, <1>9, <2>2, <2>3, <2>5, <2>6 DEF IInv, AdmissionInv
  <1> QED BY <1>3, <1>10, <1>11

LEMMA DropStep ==
  ASSUME IInv, NEW r \in Requests, Drop(r)
  PROVE  IInv'
  <1>1. TypeOK /\ RefsInv /\ NamesInv /\ GateInv /\ StageInv /\ SlotsMatchBodies
    BY DEF IInv, AdmissionInv
  <1>2. UserOf[r] \in Users /\ NoEntry \notin Entries
    BY AdmissionAssumption
  <1>4. PICK e \in Entries : e = entry[r] /\ locks[UserOf[r]] = e
    BY <1>1 DEF Drop, NamesInv, Pointing, TypeOK
  <1>3. /\ pc[r] = "drop" /\ pc' = [pc EXCEPT ![r] = back[r]]
        /\ refs' = [refs EXCEPT ![e] = @ - 1]
        /\ locks' = (IF refs[e] = 1 THEN [locks EXCEPT ![UserOf[r]] = NoEntry] ELSE locks)
        /\ entry' = [entry EXCEPT ![r] = NoEntry]
        /\ UNCHANGED <<full, slots>>
    BY <1>4 DEF Drop, Goto
  <1>5. /\ Apart(r)
        /\ back[r] = "idle" => pc'[r] = "idle" /\ back'[r] = "idle" /\ ~memHeld'[r] /\ ~done'[r]
        /\ back[r] # "idle" => (/\ pc'[r] = "respond" /\ back'[r] = "idle"
                               /\ done'[r] /\ memHeld'[r] = memHeld[r])
        /\ memHeld' \in [Requests -> BOOLEAN] /\ done' \in [Requests -> BOOLEAN]
        /\ gone' \in [Requests -> BOOLEAN] /\ back' \in [Requests -> {"idle", "respond"}]
    <2>1. CASE back[r] = "idle"
      <3>1. /\ memHeld' = [memHeld EXCEPT ![r] = FALSE]
            /\ done' = [done EXCEPT ![r] = FALSE] /\ gone' = [gone EXCEPT ![r] = FALSE]
            /\ back' = back
        BY <2>1 DEF Drop
      <3>2. Apart(r)
        BY <1>1, <1>3, <3>1 DEF Apart, TypeOK
      <3>3. pc'[r] = "idle" /\ back'[r] = "idle" /\ ~memHeld'[r] /\ ~done'[r]
        BY <1>1, <1>3, <2>1, <3>1 DEF TypeOK
      <3>4. /\ memHeld' \in [Requests -> BOOLEAN] /\ done' \in [Requests -> BOOLEAN]
            /\ gone' \in [Requests -> BOOLEAN] /\ back' \in [Requests -> {"idle", "respond"}]
        BY <1>1, <3>1 DEF TypeOK
      <3> QED BY <2>1, <3>2, <3>3, <3>4
    <2>2. CASE back[r] = "respond"
      <3>1. back' = [back EXCEPT ![r] = "idle"] /\ UNCHANGED <<memHeld, done, gone>>
        BY <2>2 DEF Drop
      <3>2. Apart(r)
        BY <1>1, <1>3, <3>1 DEF Apart, TypeOK
      <3>3. /\ pc'[r] = "respond" /\ back'[r] = "idle" /\ done'[r] /\ memHeld'[r] = memHeld[r]
        BY <1>1, <1>3, <2>2, <3>1 DEF TypeOK, StageInv
      <3>4. /\ memHeld' \in [Requests -> BOOLEAN] /\ done' \in [Requests -> BOOLEAN]
            /\ gone' \in [Requests -> BOOLEAN] /\ back' \in [Requests -> {"idle", "respond"}]
        BY <1>1, <3>1 DEF TypeOK
      <3> QED BY <2>2, <3>2, <3>3, <3>4
    <2> QED BY <1>1, <2>1, <2>2 DEF TypeOK
  <1>6. /\ Pointing(r) /\ ~Pointing(r)' /\ ~Inside(r) /\ ~Inside(r)' /\ entry'[r] = NoEntry
        /\ \A q \in Requests \ {r} :
             /\ entry'[q] = entry[q]
             /\ (Pointing(q)' <=> Pointing(q)) /\ (Inside(q)' <=> Inside(q))
        /\ \A q \in Requests : HasBody(q)' <=> HasBody(q)
    BY <1>1, <1>3, <1>5, ApartFacts DEF Pointing, Inside, HasBody, Answering, TypeOK
  <1>7. /\ Referring(e)' = Referring(e) \ {r} /\ r \in Referring(e)
        /\ \A x \in Entries \ {e} : Referring(x)' = Referring(x)
    BY <1>2, <1>4, <1>6 DEF Referring
  <1>8. Cardinality(Referring(e)') = Cardinality(Referring(e)) - 1
    BY <1>7, CountRemove, FiniteSets
  <1>9. Cardinality(Referring(e)') \in Nat
    <2>1. IsFiniteSet(Referring(e)')
      BY <1>7, FiniteSets, FS_RemoveElement
    <2> QED BY <2>1, FS_CardinalityType
  <1>10. refs[e] = Cardinality(Referring(e)) /\ refs[e] - 1 \in Nat
    BY <1>1, <1>4, <1>8, <1>9 DEF RefsInv, TypeOK
  <1>11. TypeOK'
    BY <1>1, <1>2, <1>3, <1>4, <1>5, <1>10 DEF TypeOK
  <1>12. RefsInv'
    BY <1>1, <1>3, <1>4, <1>7, <1>8, <1>10 DEF RefsInv, TypeOK
  <1>13. refs[e] = 1 => Referring(e)' = {}
    BY <1>7, <1>8, <1>10, FiniteSets, FS_EmptySet, FS_RemoveElement
  <1>14. refs[e] # 1 => Referring(e)' # {}
    <2> SUFFICES ASSUME Referring(e)' = {} PROVE refs[e] = 1
      OBVIOUS
    <2>1. Cardinality(Referring(e)') = 0
      BY FS_EmptySet
    <2> QED BY <1>8, <1>10, <2>1, FiniteSets
  <1>15. NamesInv'
    <2>1. \A q \in Requests : entry'[q] # NoEntry <=> Pointing(q)'
      BY <1>1, <1>6 DEF NamesInv
    <2>2. \A q \in Requests : entry'[q] # NoEntry => locks'[UserOf[q]] = entry'[q]
      <3> SUFFICES ASSUME NEW q \in Requests, entry'[q] # NoEntry
                   PROVE  locks'[UserOf[q]] = entry'[q]
        OBVIOUS
      <3>1. q # r /\ entry'[q] = entry[q] /\ locks[UserOf[q]] = entry[q] /\ UserOf[q] \in Users
        BY <1>1, <1>6, AdmissionAssumption DEF NamesInv
      <3>2. CASE refs[e] = 1
        <4>1. entry[q] # e
          BY <1>13, <3>1, <3>2 DEF Referring
        <4>2. UserOf[q] # UserOf[r]
          BY <1>4, <3>1, <4>1
        <4> QED BY <1>1, <1>2, <1>3, <3>1, <3>2, <4>2 DEF TypeOK
      <3>3. CASE refs[e] # 1
        BY <1>3, <3>1, <3>3
      <3> QED BY <3>2, <3>3
    <2>3. \A u \in Users : locks'[u] # NoEntry
            => \E q \in Requests : UserOf[q] = u /\ entry'[q] = locks'[u]
      <3> SUFFICES ASSUME NEW u \in Users, locks'[u] # NoEntry
                   PROVE  \E q \in Requests : UserOf[q] = u /\ entry'[q] = locks'[u]
        OBVIOUS
      <3>1. locks'[u] = locks[u] /\ (u = UserOf[r] => refs[e] # 1)
        BY <1>1, <1>2, <1>3 DEF TypeOK
      <3>2. CASE u = UserOf[r]
        <4>1. PICK q \in Requests : q \in Referring(e)'
          BY <1>14, <3>1, <3>2 DEF Referring
        <4>2. q # r /\ entry[q] = e /\ entry'[q] = e
          BY <1>2, <1>4, <1>6, <4>1 DEF Referring
        <4>3. UserOf[q] = UserOf[r]
          BY <1>1, <1>2, <1>4, <4>2 DEF NamesInv
        <4> QED BY <1>4, <3>1, <3>2, <4>2, <4>3
      <3>3. CASE u # UserOf[r]
        <4>1. PICK q \in Requests : UserOf[q] = u /\ entry[q] = locks[u]
          BY <1>1, <3>1 DEF NamesInv
        <4> QED BY <1>6, <3>1, <3>3, <4>1
      <3> QED BY <3>2, <3>3
    <2>4. \A p, q \in Requests : entry'[p] # NoEntry /\ entry'[p] = entry'[q]
            => UserOf[p] = UserOf[q]
      BY <1>1, <1>6 DEF NamesInv
    <2> QED BY <2>1, <2>2, <2>3, <2>4 DEF NamesInv
  <1>16. GateInv'
    BY <1>1, <1>3, <1>6 DEF GateInv
  <1>17. StageInv'
    BY <1>1, <1>5 DEF StageInv, Apart
  <1>18. SlotsMatchBodies'
    <2>1. {q \in Requests : HasBody(q)}' = {q \in Requests : HasBody(q)}
      BY <1>6
    <2> QED BY <1>1, <1>3, <2>1 DEF SlotsMatchBodies
  <1> QED BY <1>11, <1>12, <1>15, <1>16, <1>17, <1>18 DEF IInv, AdmissionInv

-----------------------------------------------------------------------------
LEMMA StutterStep ==
  ASSUME IInv, UNCHANGED vars
  PROVE  IInv'
  <1>1. \A r \in Requests :
          /\ Inside(r)' <=> Inside(r)
          /\ Pointing(r)' <=> Pointing(r)
          /\ HasBody(r)' <=> HasBody(r)
    BY DEF vars, Inside, Pointing, HasBody, Answering
  <1>2. Quiet
    BY <1>1 DEF Quiet, vars
  <1>3. TypeOK' /\ StageInv'
    BY DEF IInv, AdmissionInv, TypeOK, StageInv, vars, lockVars
  <1> QED BY <1>2, <1>3, QuietStep DEF IInv, AdmissionInv

LEMMA IInvStep == IInv /\ [Next]_vars => IInv'
  <1> SUFFICES ASSUME IInv, [Next]_vars PROVE IInv'
    OBVIOUS
  <1>1. ASSUME NEW r \in Requests, Arrive(r) \/ Cancel(r) \/ Step(r) PROVE IInv'
    <2>1. Quiet /\ TypeOK' /\ StageInv' => IInv'
      BY QuietStep DEF IInv, AdmissionInv
    <2> QED
      BY <1>1, <2>1, ArriveStep, QuietSteps, PassGateStep, TakeSlotStep, FreeSlotStep,
         OpenGateStep, DropStep
      DEF Step
  <1> QED BY <1>1, StutterStep DEF Next

(* The reference counts are exact and the entries, the gates and the slots  *)
(* agree with the stages of the requests.                                   *)
THEOREM AdmissionCorrect == Spec => [](TypeOK /\ AdmissionInv)
  <1>1. Spec => []IInv
    BY IInvInit, IInvStep, PTL DEF Spec
  <1> QED BY <1>1, PTL DEF IInv

(* TypeOK: no reference count and no number of tokens is ever negative.     *)
THEOREM TypeCorrect == Spec => []TypeOK
  BY AdmissionCorrect, PTL

(* SlotsMatchBodies: no path through the handlers leaks a token of          *)
(* syncSlots or gives one back twice.                                       *)
THEOREM SlotsCorrect == Spec => []SlotsMatchBodies
  <1>1. AdmissionInv => SlotsMatchBodies
    BY DEF AdmissionInv
  <1> QED BY <1>1, AdmissionCorrect, PTL

(* NoEntryLeaks: the map of the lock set holds no entry but those in use.   *)
THEOREM EntriesCorrect == Spec => []NoEntryLeaks
  <1>1. AdmissionInv => NoEntryLeaks
    BY DEF AdmissionInv, NamesInv, NoEntryLeaks
  <1> QED BY <1>1, AdmissionCorrect, PTL

LEMMA InvExcludes == IInv => OneAtATime
  <1> SUFFICES ASSUME IInv, NEW r \in Requests, NEW q \in Requests,
                      r # q, UserOf[r] = UserOf[q], Inside(r), Inside(q)
               PROVE  FALSE
    BY DEF OneAtATime
  <1>1. NamesInv /\ GateInv
    BY DEF IInv, AdmissionInv
  <1>2. entry[r] # NoEntry /\ entry[q] # NoEntry
    BY <1>1 DEF NamesInv, Pointing
  <1>3. entry[r] = entry[q]
    BY <1>1, <1>2 DEF NamesInv
  <1> QED BY <1>1, <1>3 DEF GateInv

(* OneAtATime: the mutex of an account excludes, although its entry is      *)
(* created and dropped while other requests wait.                           *)
THEOREM MutualExclusion == Spec => []OneAtATime
  <1>1. TypeOK /\ AdmissionInv => OneAtATime
    BY InvExcludes DEF IInv
  <1> QED BY <1>1, AdmissionCorrect, PTL

-----------------------------------------------------------------------------
(* The implementation of AccountGate.                                      *)

LEMMA GateInit == Init => Gate!Init
  BY AdmissionAssumption DEF Init, Gate!Init, Inside, HasBody, Answering

(* Every step is a step of the gate or changes neither of its two sets.     *)

(* The refinement, step by step: who is inside and who has a body.          *)
LEMMA GateStep ==
  ASSUME IInv, IInv', [Next]_vars
  PROVE  [Gate!Next]_(Gate!gateVars)
  <1>1. /\ TypeOK /\ NamesInv /\ GateInv /\ StageInv /\ SlotsMatchBodies
        /\ TypeOK' /\ NamesInv' /\ GateInv'
    BY DEF IInv, AdmissionInv
  <1>2. ASSUME NEW r \in Requests, PassGate(r) PROVE Gate!Enter(r)
    <2>1. /\ Apart(r) /\ pc[r] = "gate" /\ pc'[r] \in {"slot", "work"}
          /\ ~memHeld[r] /\ UNCHANGED memHeld /\ UNCHANGED done
      BY <1>1, <1>2 DEF PassGate, Goto, TypeOK, Apart, StageInv
    <2>2. /\ ~Inside(r) /\ Inside(r)' /\ ~HasBody(r) /\ ~HasBody(r)'
          /\ \A q \in Requests \ {r} : (Inside(q)' <=> Inside(q)) /\ (HasBody(q)' <=> HasBody(q))
      BY <2>1, ApartFacts DEF Inside, HasBody, Answering
    <2>3. \A q \in Requests : Inside(q) => UserOf[q] # UserOf[r]
      <3> SUFFICES ASSUME NEW q \in Requests, Inside(q), UserOf[q] = UserOf[r] PROVE FALSE
        OBVIOUS
      <3>1. entry[q] # NoEntry /\ entry[r] # NoEntry
        BY <1>1, <2>1 DEF NamesInv, Pointing
      <3>2. entry[q] = entry[r]
        BY <1>1, <3>1 DEF NamesInv
      <3> QED BY <1>1, <1>2, <3>2 DEF GateInv, PassGate
    <2> QED BY <2>2, <2>3 DEF Gate!Enter
  <1>3. ASSUME NEW r \in Requests, TakeSlot(r) PROVE Gate!TakeBody(r)
    <2>1. /\ Apart(r) /\ pc[r] = "slot" /\ pc'[r] = "work" /\ ~memHeld[r] /\ memHeld'[r]
      BY <1>1, <1>3 DEF TakeSlot, Goto, TypeOK, Apart, StageInv
    <2>2. /\ Inside(r) /\ Inside(r)' /\ ~HasBody(r) /\ HasBody(r)'
          /\ \A q \in Requests \ {r} : (Inside(q)' <=> Inside(q)) /\ (HasBody(q)' <=> HasBody(q))
      BY <2>1, ApartFacts DEF Inside, HasBody, Answering
    <2>3. Cardinality({q \in Requests : HasBody(q)}) < MaxSlots
      BY <1>1, <1>3 DEF TakeSlot, SlotsMatchBodies
    <2>4. /\ r \in {q \in Requests : Inside(q)} \ {q \in Requests : HasBody(q)}
          /\ {q \in Requests : HasBody(q)}' = {q \in Requests : HasBody(q)} \union {r}
          /\ {q \in Requests : Inside(q)}' = {q \in Requests : Inside(q)}
      BY <2>2
    <2> QED BY <2>3, <2>4 DEF Gate!TakeBody, Gate!Cardinality, Cardinality
  <1>4. ASSUME NEW r \in Requests, FreeSlot(r) PROVE Gate!GiveBody(r)
    <2>1. /\ Apart(r) /\ pc[r] = "free" /\ pc'[r] = "open" /\ memHeld[r]
      BY <1>1, <1>4 DEF FreeSlot, Goto, TypeOK, Apart, StageInv
    <2>2. /\ Inside(r) /\ Inside(r)' /\ HasBody(r) /\ ~HasBody(r)'
          /\ \A q \in Requests \ {r} : (Inside(q)' <=> Inside(q)) /\ (HasBody(q)' <=> HasBody(q))
      BY <2>1, ApartFacts DEF Inside, HasBody, Answering
    <2> QED BY <2>2 DEF Gate!GiveBody
  <1>5. ASSUME NEW r \in Requests, OpenGate(r) PROVE Gate!Leave(r)
    <2>1. /\ Apart(r) /\ pc[r] = "open" /\ pc'[r] = "drop"
      BY <1>1, <1>5 DEF OpenGate, Goto, TypeOK, Apart
    <2>2. /\ Inside(r) /\ ~Inside(r)' /\ ~HasBody(r) /\ ~HasBody(r)'
          /\ \A q \in Requests \ {r} : (Inside(q)' <=> Inside(q)) /\ (HasBody(q)' <=> HasBody(q))
      BY <2>1, ApartFacts DEF Inside, HasBody, Answering
    <2> QED BY <2>2 DEF Gate!Leave
  <1>6. ASSUME \A q \in Requests : (Inside(q)' <=> Inside(q)) /\ (HasBody(q)' <=> HasBody(q))
        PROVE  UNCHANGED Gate!gateVars
    BY <1>6 DEF Gate!gateVars
  <1>7. ASSUME NEW r \in Requests, Arrive(r) PROVE UNCHANGED Gate!gateVars
    <2>1. /\ Apart(r) /\ pc[r] = "idle" /\ pc'[r] = "gate"
      BY <1>1, <1>7 DEF Arrive, Goto, TypeOK, Apart
    <2> QED BY <1>6, <2>1, ApartFacts DEF Inside, HasBody, Answering
  <1>8. ASSUME NEW r \in Requests, Drop(r) PROVE UNCHANGED Gate!gateVars
    <2>1. pc' = [pc EXCEPT ![r] = back[r]]
      BY <1>8 DEF Drop, Goto
    <2>2. CASE back[r] = "idle"
      <3>1. Apart(r) /\ pc[r] = "drop" /\ pc'[r] = "idle"
        BY <1>1, <1>8, <2>1, <2>2 DEF Drop, TypeOK, Apart
      <3> QED BY <1>6, <3>1, ApartFacts DEF Inside, HasBody, Answering
    <2>3. CASE back[r] = "respond"
      <3>1. Apart(r) /\ pc[r] = "drop" /\ pc'[r] = "respond" /\ done'[r]
        BY <1>1, <1>8, <2>1, <2>3 DEF Drop, TypeOK, Apart, StageInv
      <3> QED BY <1>6, <3>1, ApartFacts DEF Inside, HasBody, Answering
    <2> QED BY <1>1, <2>2, <2>3 DEF TypeOK
  <1>9. ASSUME NEW r \in Requests, 
               LeaveGate(r) \/ LeaveSlot(r) \/ Refuse(r) \/ Finish(r) \/ Respond(r) \/ Return(r) \/ Cancel(r)
        PROVE  UNCHANGED Gate!gateVars
    BY <1>6, <1>9, QuietSteps DEF Quiet
  <1>10. ASSUME UNCHANGED vars PROVE UNCHANGED Gate!gateVars
    BY <1>6, <1>10 DEF vars, Inside, HasBody, Answering
  <1> QED BY <1>2, <1>3, <1>4, <1>5, <1>7, <1>8, <1>9, <1>10 DEF Next, Step, Gate!Next

(* GateSpec: the handlers implement AccountGate.                            *)
THEOREM ImplementsGate == Spec => GateSpec
  <1>1. Spec => []IInv
    BY IInvInit, IInvStep, PTL DEF Spec
  <1>2. IInv /\ IInv' /\ [Next]_vars => [Gate!Next]_(Gate!gateVars)
    BY GateStep
  <1> QED BY <1>1, <1>2, GateInit, PTL DEF Spec, GateSpec, Gate!Spec
=============================================================================
