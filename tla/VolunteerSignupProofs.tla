----------------------- MODULE VolunteerSignupProofs -----------------------
(***************************************************************************)
(* Proofs about VolunteerSignup, for every set of members, every number of *)
(* places and calls in flight, and every choice of handlers.               *)
(*                                                                         *)
(* The argument: a step takes places away or leaves them alone, or gives   *)
(* one place away in the statement that has just counted them, or is the   *)
(* completion sweep's second statement, which brings back whoever dropped  *)
(* out meanwhile but only runs once the shift is over (SweepsAfterEnd).    *)
(***************************************************************************)
EXTENDS VolunteerSignup, FiniteSetTheorems, TLAPS

-----------------------------------------------------------------------------
(* Type correctness *)

LEMMA EnterType ==
    ASSUME TypeOK, NEW p \in Run, NEW l \in Label, NEW j \in JobSpace, Enter(p, l, j)
    PROVE  pc' \in [Run -> Label] /\ job' \in [Run -> JobSpace]
  BY DEF TypeOK, Enter

LEMMA JobType ==
    ASSUME TypeOK, NEW p \in Run
    PROVE  /\ IdleJob \in JobSpace /\ job[p] \in JobSpace
           /\ job[p].list \subseteq Member
           /\ \A m \in Member : /\ [IdleJob EXCEPT !.m = m] \in JobSpace
                                /\ [IdleJob EXCEPT !.m = m, !.claims = TRUE] \in JobSpace
           /\ \A S \in SUBSET Member : /\ [IdleJob EXCEPT !.list = S] \in JobSpace
                                       /\ [job[p] EXCEPT !.list = S] \in JobSpace
           /\ [IdleJob EXCEPT !.show = TRUE] \in JobSpace
  BY DEF TypeOK, IdleJob, JobSpace

LEMMA StatusType ==
    ASSUME TypeOK, NEW s \in Status
    PROVE  /\ \A m : [status EXCEPT ![m] = s] \in [Member -> Status]
           /\ \A p \in Run : Write(p, s) => status' \in [Member -> Status]
           /\ \A S : [m \in Member |-> IF m \in S THEN s ELSE status[m]] \in [Member -> Status]
  BY DEF TypeOK, Write

LEMMA InitType == Init => TypeOK
  <1> SUFFICES ASSUME Init PROVE TypeOK
    OBVIOUS
  <1>1. IdleJob \in JobSpace
    BY DEF IdleJob, JobSpace
  <1>2. pc \in [Run -> Label] /\ job \in [Run -> JobSpace]
    BY <1>1 DEF Init, Label
  <1>3. status \in [Member -> Status]
    BY DEF Init, Status
  <1> QED
    BY <1>2, <1>3 DEF Init, TypeOK

\* Where a step leaves a call: at a statement of the handler it is in.
LEMMA CallStepType ==
    ASSUME TypeOK, NEW p \in Run, Begin(p) \/ Step(p)
    PROVE  pc' \in [Run -> Label] /\ job' \in [Run -> JobSpace]
  <1> USE DEF Label
  <1>0. Booked \subseteq Member /\ Unnotified \subseteq Member
    BY DEF Booked, Unnotified
  <1>1. ASSUME Return(p) PROVE pc' \in [Run -> Label] /\ job' \in [Run -> JobSpace]
    BY <1>1, JobType, EnterType DEF Return
  <1>2. ASSUME NEW l \in Label, Goto(p, l)
        PROVE  pc' \in [Run -> Label] /\ job' \in [Run -> JobSpace]
    BY <1>2, JobType, EnterType DEF Goto
  <1>3. CASE Claim(p) \/ Invite(p) \/ Accept(p)
    BY <1>3, JobType, EnterType DEF Claim, Invite, Accept
  <1>4. CASE Sweep(p) \/ Resolve(p) \/ Notify(p) \/ CancelShow(p)
    BY <1>4, <1>0, JobType, EnterType DEF Sweep, Resolve, Notify, CancelShow
  <1>5. CASE ExistingRead(p) \/ AskedRead(p)
    BY <1>5, <1>1, <1>2 DEF ExistingRead, AskedRead
  <1>6. CASE AcceptShift(p)
    BY <1>6, <1>1, <1>2 DEF AcceptShift
  <1>7. CASE ClaimWrite(p) \/ InviteWrite(p) \/ AcceptWrite(p) \/ SweepWrite(p) \/ Close(p)
    BY <1>7, <1>1 DEF ClaimWrite, InviteWrite, AcceptWrite, SweepWrite, Close
  <1>8. CASE CallOff(p)
    BY <1>8, <1>1, JobType, EnterType DEF CallOff
  <1>9. CASE PendingRead(p)
    BY <1>9, <1>0, <1>1, JobType, EnterType DEF PendingRead
  <1>10. CASE Stamp(p) \/ Tell(p)
    BY <1>10, <1>1, <1>2 DEF Stamp, Tell
  <1> QED
    BY <1>3, <1>4, <1>5, <1>6, <1>7, <1>8, <1>9, <1>10 DEF Begin, Step

\* What it does to the tables.
LEMMA CallTableType ==
    ASSUME TypeOK, NEW p \in Run, Begin(p) \/ Step(p)
    PROVE  /\ {calledOff', resolved', ended'} \subseteq BOOLEAN
           /\ status' \in [Member -> Status]
           /\ stamped' \subseteq Member /\ told' \subseteq Member
  <1> USE DEF TypeOK, shift
  <1>1. CASE Begin(p)
    BY <1>1 DEF Begin, Claim, Invite, Accept, Sweep, Resolve, Notify, CancelShow
  <1>2. CASE ExistingRead(p) \/ AskedRead(p) \/ AcceptShift(p) \/ PendingRead(p)
    BY <1>2 DEF ExistingRead, AskedRead, AcceptShift, PendingRead
  <1>3. CASE ClaimWrite(p) \/ InviteWrite(p)
    BY <1>3, StatusType DEF ClaimWrite, InviteWrite, Status
  <1>4. CASE AcceptWrite(p)
    BY <1>4, StatusType DEF AcceptWrite, Status
  <1>5. CASE SweepWrite(p) \/ Close(p)
    BY <1>5, StatusType DEF SweepWrite, Close, Status
  <1>6. CASE CallOff(p)
    BY <1>6 DEF CallOff
  <1>7. CASE Stamp(p) \/ Tell(p)
    BY <1>7, JobType DEF Stamp, Tell, Unnotified
  <1> QED
    BY <1>1, <1>2, <1>3, <1>4, <1>5, <1>6, <1>7 DEF Step

LEMMA StepType == TypeOK /\ [Next]_vars => TypeOK'
  <1> SUFFICES ASSUME TypeOK, [Next]_vars PROVE TypeOK'
    OBVIOUS
  <1>1. ASSUME NEW p \in Run, Begin(p) \/ Step(p) PROVE TypeOK'
    BY <1>1, CallStepType, CallTableType DEF TypeOK
  <1>2. ASSUME NEW m \in Member, Decline(m) \/ Release(m) \/ Confirm(m) \/ NoShow(m)
        PROVE  TypeOK'
    BY <1>2, StatusType DEF Decline, Release, Confirm, NoShow, Change, TypeOK, shift, Status
  <1>3. ASSUME NEW m \in Member, Ring(m) PROVE TypeOK'
    BY <1>3 DEF Ring, TypeOK, shift
  <1>4. CASE CancelShift \/ End
    BY <1>4 DEF CancelShift, End, TypeOK
  <1>5. CASE UNCHANGED vars
    BY <1>5 DEF vars, TypeOK
  <1> QED
    BY <1>1, <1>2, <1>3, <1>4, <1>5 DEF Next

\* The variables keep their types, whatever the handlers do.
THEOREM TypeCorrect == Spec => []TypeOK
  BY InitType, StepType, PTL DEF Spec

-----------------------------------------------------------------------------
(* Places *)

\* The sweep's second statement only runs once the shift is over.
SweepsAfterEnd == \A p \in Run : pc[p] = "complete" => ended

IInv == TypeOK /\ PlacesAreGivenOnce /\ SweepsAfterEnd

Frees == Holding' \subseteq Holding
Gives == HasRoom /\ \E m : Holding' \subseteq Holding \cup {m}

LEMMA HoldingFinite == IsFiniteSet(Holding) /\ Cardinality(Holding) \in Nat
  BY SignupAssumption, FS_Subset, FS_CardinalityType DEF Holding

\* A member whose row is given another status is the only one who can come to
\* hold a place, and does not with a status that holds none.
LEMMA OneRow ==
    ASSUME TypeOK, NEW m, NEW s, status' = [status EXCEPT ![m] = s]
    PROVE  Holding' \subseteq Holding \cup {m} /\ (s \notin Active => Frees)
  BY DEF TypeOK, Holding, Frees

\* What a step can do to the places.
LEMMA StepPlaces ==
    ASSUME TypeOK, SweepsAfterEnd, [Next]_vars
    PROVE  Frees \/ Gives \/ ended
  <1>1. ASSUME UNCHANGED status PROVE Frees
    BY <1>1 DEF Frees, Holding
  <1>2. ASSUME NEW p \in Run, Begin(p) PROVE Frees
    BY <1>1, <1>2 DEF Begin, Claim, Invite, Accept, Sweep, Resolve, Notify, CancelShow
  <1>3. ASSUME NEW p \in Run, Step(p) PROVE Frees \/ Gives \/ ended
    <2>1. CASE ClaimWrite(p)
      <3>1. CASE HasRoom
        <4>1. PICK s \in {"claimed", "confirmed"} : Write(p, s)
          BY <2>1, <3>1 DEF ClaimWrite
        <4> QED
          BY <4>1, <3>1, <1>1, OneRow DEF Write, Gives
      <3> QED
        BY <2>1, <3>1, <1>1 DEF ClaimWrite
    <2>2. CASE InviteWrite(p)
      BY <2>2, <1>1, OneRow DEF InviteWrite, Write, Active
    <2>3. CASE AcceptWrite(p)
      BY <2>3, <1>1, OneRow DEF AcceptWrite, Gives
    <2>4. CASE SweepWrite(p)
      BY <2>4 DEF SweepWrite, SweepsAfterEnd
    <2>5. CASE Close(p)
      BY <2>5 DEF Close, Frees, Holding, Booked, Active
    <2>6. CASE UNCHANGED status
      BY <2>6, <1>1
    <2> QED
      BY <1>3, <2>1, <2>2, <2>3, <2>4, <2>5, <2>6
         DEF Step, ExistingRead, AskedRead, AcceptShift, CallOff, PendingRead, Stamp, Tell
  <1>4. ASSUME NEW m \in Member, Decline(m) \/ Release(m) \/ Confirm(m) \/ NoShow(m)
        PROVE  Frees
    BY <1>4, OneRow DEF Decline, Release, Confirm, NoShow, Change, Active, Frees, Holding, TypeOK
  <1>5. CASE CancelShift \/ End \/ UNCHANGED vars \/ \E m \in Member : Ring(m)
    BY <1>1, <1>5 DEF CancelShift, End, Ring, vars
  <1> QED
    BY <1>2, <1>3, <1>4, <1>5 DEF Next

\* The clock does not run backwards, and the sweep looks at it before it reads.
LEMMA StepSweeps ==
    ASSUME TypeOK, SweepsAfterEnd, [Next]_vars
    PROVE  (ended => ended') /\ SweepsAfterEnd'
  <1> USE DEF shift
  <1>1. ASSUME NEW p \in Run, NEW l, NEW j, Enter(p, l, j), UNCHANGED ended,
               l = "complete" => ended
        PROVE  SweepsAfterEnd'
    BY <1>1 DEF Enter, SweepsAfterEnd, TypeOK
  <1>2. ASSUME NEW p \in Run, Begin(p) PROVE UNCHANGED ended /\ SweepsAfterEnd'
    <2>1. CASE Claim(p) \/ Invite(p) \/ Accept(p)
      <3>1. UNCHANGED ended
        BY <2>1 DEF Claim, Invite, Accept
      <3>2. PICK l \in {"existing", "asked", "acceptShift"}, j \in JobSpace : Enter(p, l, j)
        BY <2>1, JobType DEF Claim, Invite, Accept
      <3> QED
        BY <1>1, <3>1, <3>2
    <2>2. CASE Sweep(p)
      BY <1>1, <2>2 DEF Sweep
    <2>3. CASE Resolve(p) \/ Notify(p) \/ CancelShow(p)
      BY <1>1, <2>3 DEF Resolve, Notify, CancelShow
    <2> QED
      BY <1>2, <2>1, <2>2, <2>3 DEF Begin
  <1>3. ASSUME NEW p \in Run, ExistingRead(p) \/ ClaimWrite(p) \/ AskedRead(p) \/ InviteWrite(p)
                              \/ AcceptShift(p) \/ AcceptWrite(p)
        PROVE  UNCHANGED ended /\ SweepsAfterEnd'
    BY <1>1, <1>3 DEF ExistingRead, ClaimWrite, AskedRead, InviteWrite, AcceptShift,
                      AcceptWrite, Goto, Return
  <1>4. ASSUME NEW p \in Run, SweepWrite(p) \/ Close(p) \/ CallOff(p) \/ PendingRead(p)
                              \/ Stamp(p) \/ Tell(p)
        PROVE  UNCHANGED ended /\ SweepsAfterEnd'
    BY <1>1, <1>4 DEF SweepWrite, Close, CallOff, PendingRead, Stamp, Tell, Goto, Return
  <1>5. CASE /\ UNCHANGED pc
             /\ ended => ended'
    BY <1>5 DEF SweepsAfterEnd
  <1>6. ASSUME NEW m \in Member, Decline(m) \/ Release(m) \/ Confirm(m) \/ NoShow(m) \/ Ring(m)
        PROVE  UNCHANGED <<pc, ended>>
    BY <1>6 DEF Decline, Release, Confirm, NoShow, Change, Ring
  <1>7. ASSUME CancelShift \/ End \/ UNCHANGED vars PROVE UNCHANGED pc /\ (ended => ended')
    BY <1>7 DEF CancelShift, End, vars
  <1> QED
    BY <1>2, <1>3, <1>4, <1>5, <1>6, <1>7 DEF Next, Step

LEMMA InitIInv == Init => IInv
  <1> SUFFICES ASSUME Init PROVE IInv
    OBVIOUS
  <1>1. Holding = {}
    BY DEF Init, Holding, Active
  <1>2. Cardinality(Holding) = 0
    BY <1>1, FS_EmptySet
  <1> QED
    BY <1>2, InitType, SignupAssumption DEF IInv, PlacesAreGivenOnce, SweepsAfterEnd, Init

LEMMA StepIInv == IInv /\ [Next]_vars => IInv'
  <1> SUFFICES ASSUME IInv, [Next]_vars PROVE IInv'
    OBVIOUS
  <1>1. TypeOK' /\ SweepsAfterEnd' /\ (ended => ended')
    BY StepType, StepSweeps DEF IInv
  <1>2. ASSUME ~ended' PROVE Cardinality(Holding') <= Capacity
    <2>1. CASE Frees
      <3>1. Cardinality(Holding') <= Cardinality(Holding) /\ Cardinality(Holding') \in Nat
        BY <2>1, HoldingFinite, FS_Subset, FS_CardinalityType DEF Frees
      <3> QED
        BY <1>1, <1>2, <3>1, HoldingFinite, SignupAssumption DEF IInv, PlacesAreGivenOnce
    <2>2. CASE Gives
      <3>1. PICK m : Holding' \subseteq Holding \cup {m}
        BY <2>2 DEF Gives
      <3>2. /\ IsFiniteSet(Holding \cup {m})
            /\ Cardinality(Holding \cup {m}) <= Cardinality(Holding) + 1
            /\ Cardinality(Holding \cup {m}) \in Nat
        BY HoldingFinite, FS_AddElement, FS_CardinalityType
      <3>3. Cardinality(Holding') <= Cardinality(Holding \cup {m}) /\ Cardinality(Holding') \in Nat
        BY <3>1, <3>2, FS_Subset, FS_CardinalityType
      <3> QED
        BY <2>2, <3>2, <3>3, HoldingFinite, SignupAssumption DEF Gives, HasRoom
    <2> QED
      BY <1>1, <1>2, <2>1, <2>2, StepPlaces DEF IInv
  <1> QED
    BY <1>1, <1>2 DEF IInv, PlacesAreGivenOnce

\* Until the shift is over nobody gets a place that is taken, however many claim,
\* accept, are assigned, drop out or are marked at the same moment.
THEOREM NoPlaceTwice == Spec => []PlacesAreGivenOnce
  <1>1. IInv => PlacesAreGivenOnce
    BY DEF IInv
  <1> QED
    BY <1>1, InitIInv, StepIInv, PTL DEF Spec
=============================================================================
