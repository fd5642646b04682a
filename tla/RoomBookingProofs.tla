-------------------------- MODULE RoomBookingProofs --------------------------
(***************************************************************************)
(* Proofs about RoomBooking, for every set of requests and windows, every  *)
(* bound and every choice of handlers.                                     *)
(*                                                                         *)
(* The argument: what the settled rows are and which windows they have     *)
(* changes in three ways only (StepKinds): a step leaves them alone, takes *)
(* one row out, or adds one row over whose window a conflict scan has just *)
(* passed.  No double booking and the refinement of RoomCalendar both      *)
(* follow from that.                                                       *)
(***************************************************************************)
EXTENDS RoomBooking, TLAPS

-----------------------------------------------------------------------------
(* Type correctness *)

\* A handler that stores a well-typed job and moves to a known statement
\* keeps the process table well typed.
LEMMA EnterType ==
    ASSUME TypeOK, NEW p \in Proc, NEW l \in Label, NEW j \in JobSpace,
           Enter(p, l, j)
    PROVE  pc' \in [Proc -> Label] /\ job' \in [Proc -> JobSpace]
  BY DEF TypeOK, Enter

LEMMA IdleJobType == IdleJob \in JobSpace
  BY DEF IdleJob, JobSpace

\* So does a handler that returns, to the client or to its cron loop.
LEMMA ReturnType ==
    ASSUME TypeOK, NEW p \in Proc, Return(p)
    PROVE  pc' \in [Proc -> Label] /\ job' \in [Proc -> JobSpace]
  <1>1. CASE job[p].todo = {}
    BY <1>1, IdleJobType, EnterType DEF Return, Label
  <1>2. CASE job[p].todo # {}
    <2>1. job[p].loop \in Label
      BY DEF TypeOK, JobSpace, Label
    <2>2. [IdleJob EXCEPT !.loop = job[p].loop, !.todo = job[p].todo] \in JobSpace
      <3>1. job[p].loop \in {"idle", "sweep", "expire"} /\ job[p].todo \in SUBSET Row
        BY DEF TypeOK, JobSpace
      <3> QED
        BY <3>1, IdleJobType DEF JobSpace
    <2> QED
      BY <1>2, <2>1, <2>2, EnterType DEF Return
  <1> QED
    BY <1>1, <1>2

\* And one whose promotion is over.
LEMMA PromotedType ==
    ASSUME TypeOK, NEW p \in Proc, Promoted(p)
    PROVE  pc' \in [Proc -> Label] /\ job' \in [Proc -> JobSpace]
  <1>1. CASE job[p].left > 1
    <2>1. [job[p] EXCEPT !.left = @ - 1] \in JobSpace
      BY <1>1 DEF TypeOK, JobSpace
    <2> QED
      BY <1>1, <2>1, EnterType DEF Promoted, Label
  <1>2. CASE ~(job[p].left > 1)
    BY <1>2, ReturnType DEF Promoted
  <1> QED
    BY <1>1, <1>2

\* A row that is given another status, window or offer is still a row.
LEMMA RowType ==
    ASSUME TypeOK, NEW r
    PROVE  /\ \A s \in Status : [res EXCEPT ![r].status = s] \in [Row -> RowSpace]
           /\ \A s \in Status, x \in Expiry :
                 [res EXCEPT ![r].status = s, ![r].offer = x] \in [Row -> RowSpace]
           /\ \A x \in Expiry : [res EXCEPT ![r].offer = x] \in [Row -> RowSpace]
           /\ \A w \in Window : [res EXCEPT ![r].win = w] \in [Row -> RowSpace]
  BY DEF TypeOK, RowSpace

LEMMA InitType == Init => TypeOK
  <1> SUFFICES ASSUME Init PROVE TypeOK
    OBVIOUS
  <1>1. 0 \in Time /\ 0 \in Expiry
    BY BookingAssumption DEF Time, Expiry
  <1>2. NewRow(NoSpan, "absent") \in RowSpace
    BY <1>1 DEF NewRow, RowSpace, Status, NoOffer
  <1>3. res \in [Row -> RowSpace]
    BY <1>2 DEF Init
  <1>4. pc \in [Proc -> Label] /\ job \in [Proc -> JobSpace]
    BY IdleJobType DEF Init, Label
  <1> QED
    BY <1>1, <1>3, <1>4 DEF Init, TypeOK

\* What the handlers put in their jobs.
LEMMA JobType ==
    ASSUME TypeOK, NEW p \in Proc
    PROVE  /\ job[p] \in JobSpace
           /\ job[p].slot \in Window \cup {NoSpan} /\ job[p].cand \in {0} \cup Row
           /\ job[p].cur \in {0} \cup Row
           /\ \A w \in Window : [IdleJob EXCEPT !.slot = w] \in JobSpace
           /\ \A r \in Row : [IdleJob EXCEPT !.cur = r] \in JobSpace
           /\ \A r \in Row : [job[p] EXCEPT !.cur = r] \in JobSpace
           /\ \A r \in Row : [job[p] EXCEPT !.cand = r] \in JobSpace
           /\ \A n \in 0 .. 2 : [job[p] EXCEPT !.left = n] \in JobSpace
           /\ \A S \in SUBSET Row : [job[p] EXCEPT !.todo = S] \in JobSpace
           /\ \A r \in Row, S \in SUBSET Row :
                 [job[p] EXCEPT !.cur = r, !.todo = S] \in JobSpace
           /\ \A r \in Row, S \in SUBSET Row, n \in 0 .. 2 :
                 [job[p] EXCEPT !.cur = r, !.todo = S, !.left = n] \in JobSpace
           /\ \A r \in Row, w \in Window \cup {NoSpan} :
                 [IdleJob EXCEPT !.cur = r, !.slot = w] \in JobSpace
           /\ \A S \in SUBSET Row, l \in {"sweep", "expire"} :
                 [IdleJob EXCEPT !.loop = l, !.todo = S] \in JobSpace
  <1>1. job[p] \in JobSpace /\ IdleJob \in JobSpace
    BY IdleJobType DEF TypeOK
  <1> QED
    BY <1>1 DEF JobSpace

LEMMA PromotionsType == \A cause \in {"cancel", "waitlist_expired"} : Promotions(cause) \in 0 .. 2
  BY DEF Promotions, ListenerPromotes

\* Statements that change neither the clock nor a row of the table.
LEMMA ReadType ==
    ASSUME TypeOK, UNCHANGED <<now, res, standing, via>>,
           pc' \in [Proc -> Label] /\ job' \in [Proc -> JobSpace]
    PROVE  TypeOK'
  BY DEF TypeOK

\* Statements that write one row.
LEMMA WriteType ==
    ASSUME TypeOK, UNCHANGED <<now, via>>, res' \in [Row -> RowSpace],
           standing' \in [Row -> {"none", "pending", "settled", "forced"}],
           pc' \in [Proc -> Label] /\ job' \in [Proc -> JobSpace]
    PROVE  TypeOK'
  BY DEF TypeOK

LEMMA StandType ==
    ASSUME TypeOK, NEW r
    PROVE  /\ \A s \in {"none", "pending", "settled", "forced"} :
                 [standing EXCEPT ![r] = s] \in [Row -> {"none", "pending", "settled", "forced"}]
           /\ \A w : Settle(r, w) =>
                 standing' \in [Row -> {"none", "pending", "settled", "forced"}]
  BY DEF TypeOK, Settle

\* A new row is a row.
LEMMA NewRowType ==
    ASSUME TypeOK, NEW r \in Row, NEW w \in Window \cup {NoSpan}, NEW s \in Status
    PROVE  [res EXCEPT ![r] = NewRow(w, s)] \in [Row -> RowSpace]
  <1>1. NoOffer \in Expiry
    BY BookingAssumption DEF NoOffer, Expiry
  <1> QED
    BY <1>1 DEF TypeOK, NewRow, RowSpace

\* Bookings made and withdrawn by create() and createWaitlisted().
LEMMA CreateTypes ==
    ASSUME TypeOK, NEW p \in Proc,
           \/ \E w \in Window : CreateCheck(p, w)
           \/ CreateInsert(p) \/ CreateRecheck(p) \/ CreateBackOut(p) \/ QueueInsert(p)
    PROVE  TypeOK'
  <1>1. CASE \E w \in Window : CreateCheck(p, w)
    BY <1>1, JobType, EnterType, ReadType DEF CreateCheck, Label
  <1>2. CASE CreateInsert(p)
    <2>1. PICK r \in Row :
            /\ \E s \in Status : res' = [res EXCEPT ![r] = NewRow(job[p].slot, s)]
            /\ Stand(r, "pending")
            /\ Enter(p, "recheck", [job[p] EXCEPT !.cur = r])
            /\ UNCHANGED <<now, via>>
      BY <1>2 DEF CreateInsert, Status, Live
    <2>2. res' \in [Row -> RowSpace]
      <3>1. PICK s \in Status : res' = [res EXCEPT ![r] = NewRow(job[p].slot, s)]
        BY <2>1
      <3>2. job[p].slot \in Window \cup {NoSpan}
        BY JobType
      <3> QED
        BY <3>1, <3>2, NewRowType
    <2>3. pc' \in [Proc -> Label] /\ job' \in [Proc -> JobSpace]
      BY <2>1, JobType, EnterType DEF Label
    <2> QED
      BY <2>1, <2>2, <2>3, StandType, WriteType DEF Stand
  <1>3. CASE CreateRecheck(p)
    <2>1. pc' \in [Proc -> Label] /\ job' \in [Proc -> JobSpace]
      BY <1>3, JobType, EnterType, ReturnType DEF CreateRecheck, Goto, Label
    <2>2. standing' \in [Row -> {"none", "pending", "settled", "forced"}]
      BY <1>3, StandType DEF CreateRecheck, TypeOK
    <2> QED
      BY <1>3, <2>1, <2>2 DEF CreateRecheck, TypeOK
  <1>4. CASE CreateBackOut(p)
    <2>1. pc' \in [Proc -> Label] /\ job' \in [Proc -> JobSpace]
      BY <1>4, JobType, EnterType, ReturnType DEF CreateBackOut, Goto, Label
    <2>2. res' \in [Row -> RowSpace]
      BY <1>4, RowType DEF CreateBackOut, SetStatus, Status
    <2> QED
      BY <1>4, <2>1, <2>2, StandType, WriteType DEF CreateBackOut, Stand
  <1>5. CASE QueueInsert(p)
    <2>1. res' \in [Row -> RowSpace]
      <3>1. job[p].slot \in Window \cup {NoSpan} /\ "waitlisted" \in Status
        BY JobType DEF Status
      <3>2. CASE UNCHANGED res
        BY <3>2 DEF TypeOK
      <3>3. CASE \E r \in Row : res' = [res EXCEPT ![r] = NewRow(job[p].slot, "waitlisted")]
        BY <3>1, <3>3, NewRowType
      <3> QED
        BY <1>5, <3>2, <3>3 DEF QueueInsert
    <2> QED
      BY <1>5, <2>1, ReturnType DEF QueueInsert, TypeOK
  <1> QED
    BY <1>1, <1>2, <1>3, <1>4, <1>5

\* Offers accepted by confirmWaitlisted.
LEMMA AcceptTypes ==
    ASSUME TypeOK, NEW p \in Proc,
           \/ \E r \in Row : AcceptRead(p, r)
           \/ AcceptCheck(p) \/ AcceptWrite(p) \/ AcceptRecheck(p) \/ AcceptUndo(p)
    PROVE  TypeOK'
  <1>1. CASE \E r \in Row : AcceptRead(p, r)
    <2>1. PICK r \in Row : AcceptRead(p, r)
      BY <1>1
    <2>2. res[r].win \in Window \cup {NoSpan}
      BY DEF TypeOK, RowSpace
    <2>3. [IdleJob EXCEPT !.cur = r, !.slot = res[r].win] \in JobSpace
      BY <2>2, JobType
    <2> QED
      BY <2>1, <2>3, EnterType, ReadType DEF AcceptRead, Label
  <1>2. CASE AcceptCheck(p)
    BY <1>2, JobType, EnterType, ReturnType, ReadType DEF AcceptCheck, Goto, Label
  <1>3. CASE AcceptWrite(p)
    <2>1. NoOffer \in Expiry
      BY BookingAssumption DEF NoOffer, Expiry
    <2>2. res' \in [Row -> RowSpace]
      BY <1>3, <2>1, RowType DEF AcceptWrite, Status, Live
    <2>3. pc' \in [Proc -> Label] /\ job' \in [Proc -> JobSpace]
      BY <1>3, JobType, EnterType DEF AcceptWrite, Goto, Label
    <2>4. standing' \in [Row -> {"none", "pending", "settled", "forced"}]
      BY <1>3 DEF AcceptWrite, Stand, TypeOK
    <2> QED
      BY <1>3, <2>2, <2>3, <2>4, WriteType DEF AcceptWrite
  <1>4. CASE AcceptRecheck(p)
    <2>1. pc' \in [Proc -> Label] /\ job' \in [Proc -> JobSpace]
      BY <1>4, JobType, EnterType, ReturnType DEF AcceptRecheck, Goto, Label
    <2>2. standing' \in [Row -> {"none", "pending", "settled", "forced"}]
      BY <1>4, StandType DEF AcceptRecheck, TypeOK
    <2> QED
      BY <1>4, <2>1, <2>2 DEF AcceptRecheck, TypeOK
  <1>5. CASE AcceptUndo(p)
    <2>1. res' \in [Row -> RowSpace]
      BY <1>5, RowType DEF AcceptUndo, SetStatus, Status
    <2> QED
      BY <1>5, <2>1, StandType, ReturnType, WriteType DEF AcceptUndo, Stand
  <1> QED
    BY <1>1, <1>2, <1>3, <1>4, <1>5

\* Cancellations, and the promotion each sets off.
LEMMA CancelTypes ==
    ASSUME TypeOK, NEW p \in Proc,
           \/ \E r \in Row : CancelRead(p, r)
           \/ CancelWrite(p) \/ PromoteSelect(p) \/ PromoteCheck(p) \/ PromoteOffer(p)
    PROVE  TypeOK'
  <1>1. CASE \E r \in Row : CancelRead(p, r)
    BY <1>1, JobType, EnterType, ReadType DEF CancelRead, Label
  <1>2. CASE CancelWrite(p)
    <2>1. CASE res[job[p].cur].status \notin Cancellable
      BY <1>2, <2>1, ReturnType, ReadType DEF CancelWrite
    <2>2. CASE res[job[p].cur].status \in Cancellable
      <3>0. res' = [res EXCEPT ![job[p].cur].status = "cancelled"]
        BY <1>2, <2>2 DEF CancelWrite, SetStatus
      <3>1. res' \in [Row -> RowSpace]
        BY <3>0, RowType DEF Status
      <3>2. pc' \in [Proc -> Label] /\ job' \in [Proc -> JobSpace]
        BY <1>2, <2>2, JobType, PromotionsType, EnterType DEF CancelWrite, Label
      <3> QED
        BY <1>2, <2>2, <3>1, <3>2, StandType, WriteType DEF CancelWrite, Stand
    <2> QED
      BY <2>1, <2>2
  <1>3. CASE PromoteSelect(p)
    <2>1. Waiting(res[job[p].cur].win) \subseteq Row
      BY DEF Waiting
    <2> QED
      BY <1>3, <2>1, JobType, EnterType, PromotedType, ReadType DEF PromoteSelect, Label
  <1>4. CASE PromoteCheck(p)
    BY <1>4, JobType, EnterType, PromotedType, ReadType DEF PromoteCheck, Goto, Label
  <1>5. CASE PromoteOffer(p)
    <2>1. now + OfferTTL \in Expiry
      BY BookingAssumption DEF TypeOK, Time, Expiry
    <2>2. res' \in [Row -> RowSpace]
      BY <1>5, <2>1, RowType DEF PromoteOffer, TypeOK
    <2>3. via' \in [Row -> {0} \cup Row]
      BY <1>5, JobType DEF PromoteOffer, TypeOK
    <2> QED
      BY <1>5, <2>2, <2>3, PromotedType DEF PromoteOffer, TypeOK
  <1> QED
    BY <1>1, <1>2, <1>3, <1>4, <1>5

\* The crons.
LEMMA CronTypes ==
    ASSUME TypeOK, NEW p \in Proc, Cron(p) \/ SweepNext(p) \/ ExpireNext(p)
    PROVE  TypeOK'
  <1>1. CASE SweepSelect(p)
    BY <1>1, JobType, EnterType, ReadType DEF SweepSelect, Label
  <1>2. CASE ExpireSelect(p)
    BY <1>2, JobType, EnterType, ReadType DEF ExpireSelect, Label
  <1>3. ASSUME NEW r \in job[p].todo
        PROVE  r \in Row /\ job[p].todo \ {r} \in SUBSET Row
    BY <1>3 DEF TypeOK, JobSpace
  <1>4. CASE SweepNext(p)
    BY <1>3, <1>4, JobType, IdleJobType, EnterType, ReadType DEF SweepNext, Label
  <1>5. CASE ExpireNext(p)
    <2>1. PICK r \in job[p].todo :
            \/ /\ res' = [res EXCEPT ![r].status = "cancelled", ![r].offer = NoOffer]
               /\ Enter(p, "promote", [job[p] EXCEPT !.cur = r, !.todo = job[p].todo \ {r},
                                                     !.left = Promotions("waitlist_expired")])
            \/ /\ IF job[p].todo \ {r} = {} THEN Enter(p, "idle", IdleJob)
                  ELSE Enter(p, "expire", [job[p] EXCEPT !.todo = job[p].todo \ {r}])
               /\ UNCHANGED res
      BY <1>5 DEF ExpireNext
    <2>2. NoOffer \in Expiry
      BY BookingAssumption DEF NoOffer, Expiry
    <2>3. res' \in [Row -> RowSpace]
      <3>1. CASE UNCHANGED res
        BY <3>1 DEF TypeOK
      <3>2. CASE res' = [res EXCEPT ![r].status = "cancelled", ![r].offer = NoOffer]
        BY <2>2, <3>2, RowType DEF Status
      <3> QED
        BY <2>1, <3>1, <3>2
    <2>4. [job[p] EXCEPT !.cur = r, !.todo = job[p].todo \ {r},
                         !.left = Promotions("waitlist_expired")] \in JobSpace
      BY <1>3, JobType, PromotionsType
    <2>5. [job[p] EXCEPT !.todo = job[p].todo \ {r}] \in JobSpace
      BY <1>3, JobType
    <2>6. pc' \in [Proc -> Label] /\ job' \in [Proc -> JobSpace]
      BY <2>1, <2>4, <2>5, IdleJobType, EnterType DEF Label
    <2> QED
      BY <1>5, <2>3, <2>6 DEF ExpireNext, TypeOK
  <1> QED
    BY <1>1, <1>2, <1>4, <1>5 DEF Cron

\* Staff at the desk, and payments.
LEMMA StaffTypes ==
    ASSUME TypeOK, NEW p \in Proc,
           \/ \E w \in Window : StaffCheck(p, w)
           \/ \E r \in Row, w \in Window : AdjustCheck(p, r, w)
           \/ \E r \in Row : CheckoutRead(p, r)
           \/ StaffInsert(p) \/ AdjustWrite(p) \/ PayWrite(p)
    PROVE  TypeOK'
  <1>1. CASE \E w \in Window : StaffCheck(p, w)
    BY <1>1, JobType, EnterType, ReadType DEF StaffCheck, Label
  <1>2. CASE \E r \in Row, w \in Window : AdjustCheck(p, r, w)
    BY <1>2, JobType, EnterType, ReadType DEF AdjustCheck, Label
  <1>3. CASE \E r \in Row : CheckoutRead(p, r)
    BY <1>3, JobType, EnterType, ReadType DEF CheckoutRead, Label
  <1>4. CASE StaffInsert(p)
    <2>1. PICK r \in Row :
            /\ res' = [res EXCEPT ![r] = NewRow(job[p].slot, "confirmed")]
            /\ Stand(r, "forced")
      BY <1>4 DEF StaffInsert
    <2>2. job[p].slot \in Window \cup {NoSpan} /\ "confirmed" \in Status
      BY JobType DEF Status, Live
    <2>3. res' \in [Row -> RowSpace]
      BY <2>1, <2>2, NewRowType
    <2> QED
      BY <1>4, <2>1, <2>3, StandType, ReturnType, WriteType DEF StaffInsert, Stand
  <1>5. CASE AdjustWrite(p)
    <2>1. res' \in [Row -> RowSpace]
      <3>1. job[p].slot \in Window \cup {NoSpan}
        BY JobType
      <3> QED
        BY <1>5, <3>1 DEF AdjustWrite, TypeOK, RowSpace
    <2>2. standing' \in [Row -> {"none", "pending", "settled", "forced"}]
      BY <1>5, StandType DEF AdjustWrite, Stand, TypeOK
    <2> QED
      BY <1>5, <2>1, <2>2, ReturnType, WriteType DEF AdjustWrite
  <1>6. CASE PayWrite(p)
    <2>1. res' \in [Row -> RowSpace]
      <3>1. CASE UNCHANGED res
        BY <3>1 DEF TypeOK
      <3>2. CASE SetStatus(job[p].cur, "confirmed")
        BY <3>2, RowType DEF SetStatus, Status, Live
      <3> QED
        BY <1>6, <3>1, <3>2 DEF PayWrite
    <2>2. standing' \in [Row -> {"none", "pending", "settled", "forced"}]
      BY <1>6 DEF PayWrite, Stand, TypeOK
    <2> QED
      BY <1>6, <2>1, <2>2, ReturnType, WriteType DEF PayWrite
  <1> QED
    BY <1>1, <1>2, <1>3, <1>4, <1>5, <1>6

\* Every step keeps every variable in its type.
LEMMA TypeStep == TypeOK /\ [Next]_vars => TypeOK'
  <1> SUFFICES ASSUME TypeOK, [Next]_vars PROVE TypeOK'
    OBVIOUS
  <1>1. ASSUME NEW p \in Proc, Step(p) PROVE TypeOK'
    BY <1>1, CreateTypes, AcceptTypes, CancelTypes, CronTypes, StaffTypes DEF Step
  <1>2. ASSUME NEW p \in Proc, Cron(p) PROVE TypeOK'
    BY <1>2, CronTypes
  <1>3. ASSUME NEW p \in Proc, Request(p) PROVE TypeOK'
    BY <1>3, CreateTypes, AcceptTypes, CancelTypes, StaffTypes DEF Request
  <1>4. ASSUME NEW p \in Proc, Crash(p) PROVE TypeOK'
    BY <1>4, IdleJobType, EnterType, ReadType DEF Crash, Label
  <1>5. CASE Desk
    <2>1. PICK r \in Row, s \in {"confirmed", "completed", "no_show"} :
            SetStatus(r, s) /\ UNCHANGED <<now, standing, via, pc, job>>
      BY <1>5 DEF Desk, Confirm, MarkComplete, MarkNoShow, RecordCashAndComplete, UpdateStatus
    <2>2. res' \in [Row -> RowSpace]
      BY <2>1, RowType DEF SetStatus, Status, Live
    <2> QED
      BY <2>1, <2>2 DEF TypeOK
  <1>6. CASE AutoComplete
    <2>1. \A r \in Row : [res[r] EXCEPT !.status = "completed"] \in RowSpace /\ res[r] \in RowSpace
      BY DEF TypeOK, RowSpace, Status, Live
    <2> QED
      BY <1>6, <2>1 DEF AutoComplete, TypeOK
  <1>7. CASE Tick
    BY <1>7, BookingAssumption DEF Tick, TypeOK, Time
  <1>8. CASE UNCHANGED vars
    BY <1>8 DEF vars, TypeOK
  <1> QED
    BY <1>1, <1>2, <1>3, <1>4, <1>5, <1>6, <1>7, <1>8 DEF Next

\* The variables keep their types in every behaviour (reservation.status and
\* the waitlist columns never leave the values the schema lists).
THEOREM TypeCorrect == Spec => []TypeOK
  <1> QED
    BY InitType, TypeStep, PTL DEF Spec

-----------------------------------------------------------------------------
(* What a step does to the settled rows *)

\* The windows the rows hold are windows somebody asked for.
RowsKnown == \A r \in Row : res[r].status # "absent" => res[r].win \in Window

\* So are the windows the handlers are about to write, and the rows they work
\* on have been inserted.
Writing == {"insert", "recheck", "backOut", "queue", "staffInsert", "adjustWrite"}

JobsKnown ==
    \A p \in Proc :
        /\ pc[p] \in Writing => job[p].slot \in Window
        /\ job[p].cur # 0 => res[job[p].cur].status # "absent"

Known == TypeOK /\ StandingIsLive /\ RowsKnown /\ JobsKnown

\* The inductive invariant.  SettledDisjoint alone is not inductive: a scan
\* passes over live rows, and only StandingIsLive says that the settled ones
\* are among them.  RowsKnown and JobsKnown are there for the refinement, in
\* which only windows of Window are granted.
IInv == Known /\ SettledDisjoint

\* The rows of S are settled, and over the same windows, as before the step.
Keeps(S) ==
    \A q \in S : /\ (standing'[q] = "settled") <=> (standing[q] = "settled")
                 /\ standing[q] = "settled" => res'[q].win = res[q].win

Releases(r) ==
    standing[r] = "settled" /\ standing'[r] # "settled" /\ Keeps(Row \ {r})

Grants(r) ==
    /\ standing[r] # "settled" /\ standing'[r] = "settled"
    /\ res'[r].win \in Window
    /\ \A q \in Row \ {r} : IsLive(q) => ~Overlaps(res[q].win, res'[r].win)
    /\ Keeps(Row \ {r})

StepKind == Keeps(Row) \/ \E r \in Row : Releases(r) \/ Grants(r)

\* Rows once inserted are never "absent" again.
Grows == \A r \in Row : res[r].status # "absent" => res'[r].status # "absent"

TableFacts == StandingIsLive' /\ RowsKnown' /\ Grows /\ StepKind

\* A statement that writes neither the table nor the history.
LEMMA ReadTable ==
    ASSUME Known, UNCHANGED <<res, standing>>
    PROVE  TableFacts
  BY DEF Known, TableFacts, StandingIsLive, RowsKnown, Grows, StepKind, Keeps, IsLive

\* A statement that writes one row, without settling it.
LEMMA WriteTable ==
    ASSUME Known, NEW r \in Row,
           \A q \in Row \ {r} : res'[q] = res[q] /\ standing'[q] = standing[q],
           res'[r].status # "absent", res'[r].win \in Window,
           standing'[r] # "none" <=> res'[r].status \in Live,
           \/ standing'[r] # "settled"
           \/ standing'[r] = standing[r] /\ res'[r].win = res[r].win
    PROVE  TableFacts
  <1>1. StandingIsLive' /\ RowsKnown' /\ Grows
    BY DEF Known, StandingIsLive, RowsKnown, Grows, IsLive
  <1>2. Keeps(Row \ {r})
    BY DEF Keeps
  <1>3. Keeps(Row) \/ Releases(r)
    BY <1>2 DEF Keeps, Releases
  <1> QED
    BY <1>1, <1>3 DEF TableFacts, StepKind

\* A write to a row that is not there, or by a handler that has none.
LEMMA NoRow ==
    ASSUME Known, NEW r \in {0}, NEW s, NEW x
    PROVE  /\ [res EXCEPT ![r].status = s] = res
           /\ [res EXCEPT ![r].status = s, ![r].offer = x] = res
           /\ [res EXCEPT ![r].win = s] = res
           /\ [res EXCEPT ![r].offer = s] = res
           /\ [standing EXCEPT ![r] = s] = standing
  BY DEF Known, TypeOK, Row

\* The status of one row is written, and its standing with it.
LEMMA StatusTable ==
    ASSUME Known, NEW r \in {0} \cup Row, NEW s \in Status \ {"absent"}, NEW t, NEW x,
           r # 0 => res[r].status # "absent",
           \/ res' = [res EXCEPT ![r].status = s]
           \/ res' = [res EXCEPT ![r].status = s, ![r].offer = x],
           Stand(r, t),
           t # "none" <=> s \in Live,
           t # "settled" \/ t = standing[r]
    PROVE  TableFacts
  <1>1. CASE r = 0
    BY <1>1, NoRow, ReadTable DEF Stand
  <1>2. CASE r \in Row
    <2>1. /\ res'[r].status = s /\ res'[r].win = res[r].win
          /\ \A q \in Row \ {r} : res'[q] = res[q] /\ standing'[q] = standing[q]
          /\ standing'[r] = t
      BY <1>2 DEF Known, TypeOK, RowSpace, Stand
    <2>2. res'[r].win \in Window
      BY <1>2, <2>1 DEF Known, RowsKnown, Row
    <2> QED
      BY <1>2, <2>1, <2>2, WriteTable
  <1> QED
    BY <1>1, <1>2

\* The scan that settles a row: it saw no live row in the way.
LEMMA SettleTable ==
    ASSUME Known, NEW r \in {0} \cup Row, NEW w, Blockers(w, r) = {},
           Settle(r, w), UNCHANGED res
    PROVE  TableFacts
  <1>1. CASE UNCHANGED standing
    BY <1>1, ReadTable
  <1>2. CASE ~UNCHANGED standing
    <2>1. r \in Row /\ standing[r] = "pending" /\ res[r].win = w
      BY <1>2 DEF Known, TypeOK, Settle, Row
    <2>2. standing' = [standing EXCEPT ![r] = "settled"]
      BY <2>1 DEF Known, TypeOK, Settle
    <2>3. standing'[r] = "settled" /\ \A q \in Row \ {r} : standing'[q] = standing[q]
      BY <2>1, <2>2 DEF Known, TypeOK
    <2>4. IsLive(r) /\ res[r].win \in Window
      BY <2>1 DEF Known, StandingIsLive, RowsKnown, IsLive, Live
    <2>5. StandingIsLive' /\ RowsKnown' /\ Grows
      BY <2>1, <2>3, <2>4 DEF Known, StandingIsLive, RowsKnown, Grows, IsLive
    <2>6. \A q \in Row \ {r} : IsLive(q) => ~Overlaps(res[q].win, res'[r].win)
      BY <2>1 DEF Blockers
    <2>7. Grants(r)
      BY <2>1, <2>3, <2>4, <2>6 DEF Grants, Keeps
    <2> QED
      BY <2>1, <2>5, <2>7 DEF TableFacts, StepKind
  <1> QED
    BY <1>1, <1>2

\* A process that moves on with a row that exists, and with a window that was
\* asked for if it is about to write one.
LEMMA EnterJobs ==
    ASSUME Known, Grows, NEW p \in Proc, NEW l, NEW j, Enter(p, l, j),
           j.cur # 0 => res'[j.cur].status # "absent",
           l \in Writing => j.slot \in Window
    PROVE  JobsKnown'
  <1> SUFFICES ASSUME NEW q \in Proc
               PROVE  /\ pc'[q] \in Writing => job'[q].slot \in Window
                      /\ job'[q].cur # 0 => res'[job'[q].cur].status # "absent"
    BY DEF JobsKnown
  <1>1. CASE q = p
    BY <1>1 DEF Enter, Known, TypeOK
  <1>2. CASE q # p
    <2>1. pc'[q] = pc[q] /\ job'[q] = job[q] /\ job[q].cur \in {0} \cup Row
      BY <1>2 DEF Enter, Known, TypeOK, JobSpace
    <2> QED
      BY <2>1 DEF Known, JobsKnown, Grows
  <1> QED
    BY <1>1, <1>2

\* The row a handler works on is in the table after the step as before it.
LEMMA CurKnown ==
    ASSUME Known, Grows, NEW p \in Proc, job[p].cur # 0
    PROVE  job[p].cur \in Row /\ res[job[p].cur].status # "absent"
                              /\ res'[job[p].cur].status # "absent"
  BY DEF Known, TypeOK, JobSpace, JobsKnown, Grows

LEMMA IdleJobs ==
    ASSUME Known, Grows, NEW p \in Proc, Return(p) \/ Enter(p, "idle", IdleJob)
    PROVE  JobsKnown'
  <1>1. /\ IdleJob.cur = 0
        /\ [IdleJob EXCEPT !.loop = job[p].loop, !.todo = job[p].todo].cur = 0
    BY DEF IdleJob
  <1>2. job[p].loop \notin Writing /\ "idle" \notin Writing
    BY DEF Known, TypeOK, JobSpace, Writing
  <1> QED
    BY <1>1, <1>2, EnterJobs DEF Return

LEMMA GotoJobs ==
    ASSUME Known, Grows, NEW p \in Proc, NEW l, Goto(p, l),
           l \in Writing => job[p].slot \in Window
    PROVE  JobsKnown'
  BY CurKnown, EnterJobs DEF Goto

LEMMA PromotedJobs ==
    ASSUME Known, Grows, NEW p \in Proc, Promoted(p)
    PROVE  JobsKnown'
  <1>1. [job[p] EXCEPT !.left = @ - 1].cur = job[p].cur /\ "promote" \notin Writing
    BY DEF Known, TypeOK, JobSpace, Writing
  <1> QED
    BY <1>1, CurKnown, EnterJobs, IdleJobs DEF Promoted

-----------------------------------------------------------------------------
(* The same, action by action *)

Facts == TableFacts /\ JobsKnown'

LEMMA TableGrows == TableFacts => Grows
  BY DEF TableFacts

\* A row is inserted with a window somebody asked for.
LEMMA InsertTable ==
    ASSUME Known, NEW p \in Proc, NEW r \in Row, NEW s \in Status \ {"absent"},
           NEW t \in {"none", "pending", "forced"},
           IsNext(r), job[p].slot \in Window,
           res' = [res EXCEPT ![r] = NewRow(job[p].slot, s)],
           standing' = [standing EXCEPT ![r] = t],
           t # "none" <=> s \in Live
    PROVE  TableFacts
  <1>1. res'[r].status = s /\ res'[r].win = job[p].slot /\ standing'[r] = t
    BY DEF Known, TypeOK, NewRow
  <1>2. \A q \in Row \ {r} : res'[q] = res[q] /\ standing'[q] = standing[q]
    BY DEF Known, TypeOK
  <1> QED
    BY <1>1, <1>2, WriteTable

LEMMA CreateFacts ==
    ASSUME Known, NEW p \in Proc,
           \/ \E w \in Window : CreateCheck(p, w)
           \/ CreateInsert(p) \/ CreateRecheck(p) \/ CreateBackOut(p) \/ QueueInsert(p)
    PROVE  Facts
  <1>0. Known /\ TypeOK /\ job[p].cur \in {0} \cup Row
    BY JobType DEF Known
  <1>1. CASE \E w \in Window : CreateCheck(p, w)
    <2>1. PICK w \in Window, l \in {"insert", "queue"} :
            Enter(p, l, [IdleJob EXCEPT !.slot = w]) /\ UNCHANGED <<res, standing>>
      BY <1>1 DEF CreateCheck
    <2>2. [IdleJob EXCEPT !.slot = w].cur = 0 /\ [IdleJob EXCEPT !.slot = w].slot = w
      BY DEF IdleJob
    <2> QED
      BY <2>1, <2>2, ReadTable, EnterJobs, TableGrows DEF Facts
  <1>2. CASE CreateInsert(p)
    <2>1. PICK r \in Row, s \in {"scheduled", "confirmed"} :
            /\ IsNext(r) /\ res' = [res EXCEPT ![r] = NewRow(job[p].slot, s)]
            /\ Stand(r, "pending") /\ Enter(p, "recheck", [job[p] EXCEPT !.cur = r])
      BY <1>2 DEF CreateInsert
    <2>2. job[p].slot \in Window
      BY <1>2 DEF CreateInsert, Known, JobsKnown, Writing
    <2>3. TableFacts
      BY <2>1, <2>2, InsertTable DEF Stand, Live, Status
    <2>4. /\ [job[p] EXCEPT !.cur = r].cur = r /\ res'[r].status # "absent"
          /\ [job[p] EXCEPT !.cur = r].slot = job[p].slot
      BY <2>1 DEF Known, TypeOK, JobSpace, NewRow
    <2> QED
      BY <2>1, <2>2, <2>3, <2>4, EnterJobs, TableGrows DEF Facts
  <1>3. CASE CreateRecheck(p)
    <2>1. TableFacts
      BY <1>0, <1>3, SettleTable, ReadTable DEF CreateRecheck
    <2>2. job[p].slot \in Window
      BY <1>3 DEF CreateRecheck, Known, JobsKnown, Writing
    <2>3. JobsKnown'
      BY <1>3, <2>1, <2>2, IdleJobs, GotoJobs, TableGrows DEF CreateRecheck
    <2> QED
      BY <2>1, <2>3 DEF Facts
  <1>4. CASE CreateBackOut(p)
    <2>1. TableFacts
      <3>1. "deleted" \in Status \ {"absent"} /\ "deleted" \notin Live
        BY DEF Status, Live
      <3>2. SetStatus(job[p].cur, "deleted") /\ Stand(job[p].cur, "none")
        BY <1>4 DEF CreateBackOut
      <3>3. job[p].cur # 0 => res[job[p].cur].status # "absent"
        BY DEF Known, JobsKnown
      <3> QED
        BY <1>0, <3>1, <3>2, <3>3, StatusTable DEF SetStatus
    <2>2. CASE Return(p)
      BY <2>1, <2>2, IdleJobs, TableGrows DEF Facts
    <2>3. CASE Goto(p, "queue")
      \* the window it backs out of is the one it goes on to queue for
      <3>1. job[p].slot \in Window
        BY <1>4 DEF CreateBackOut, Known, JobsKnown, Writing
      <3> QED
        BY <2>1, <2>3, <3>1, GotoJobs, TableGrows DEF Facts
    <2> QED
      BY <1>4, <2>2, <2>3 DEF CreateBackOut
  <1>5. CASE QueueInsert(p)
    <2>1. TableFacts
      <3>1. CASE UNCHANGED res
        BY <1>5, <3>1, ReadTable DEF QueueInsert
      <3>2. CASE \E r \in Row :
                   IsNext(r) /\ res' = [res EXCEPT ![r] = NewRow(job[p].slot, "waitlisted")]
        <4>1. PICK r \in Row :
                IsNext(r) /\ res' = [res EXCEPT ![r] = NewRow(job[p].slot, "waitlisted")]
          BY <3>2
        <4>2. standing' = [standing EXCEPT ![r] = "none"]
          BY <1>5, <4>1 DEF QueueInsert, IsNext, Known, TypeOK, StandingIsLive, IsLive, Live
        <4>3. job[p].slot \in Window
          BY <1>5 DEF QueueInsert, Known, JobsKnown, Writing
        <4> QED
          BY <4>1, <4>2, <4>3, InsertTable DEF Status, Live
      <3> QED
        BY <1>5, <3>1, <3>2 DEF QueueInsert
    <2> QED
      BY <1>5, <2>1, IdleJobs, TableGrows DEF QueueInsert, Facts
  <1> QED
    BY <1>1, <1>2, <1>3, <1>4, <1>5

LEMMA AcceptFacts ==
    ASSUME Known, NEW p \in Proc,
           \/ \E r \in Row : AcceptRead(p, r)
           \/ AcceptCheck(p) \/ AcceptWrite(p) \/ AcceptRecheck(p) \/ AcceptUndo(p)
    PROVE  Facts
  <1>0. /\ job[p].cur \in {0} \cup Row
        /\ job[p].cur # 0 => res[job[p].cur].status # "absent"
    BY JobType DEF Known, JobsKnown
  <1>1. CASE \E r \in Row : AcceptRead(p, r)
    <2>1. PICK r \in Row : AcceptRead(p, r)
      BY <1>1
    <2>2. [IdleJob EXCEPT !.cur = r, !.slot = res[r].win].cur = r
      BY DEF IdleJob
    <2>3. TableFacts
      BY <2>1, ReadTable DEF AcceptRead
    <2>4. res'[r].status # "absent"
      BY <2>1 DEF AcceptRead
    <2> QED
      BY <2>1, <2>2, <2>3, <2>4, EnterJobs, TableGrows DEF AcceptRead, Facts, Writing
  <1>2. CASE AcceptCheck(p)
    <2>1. TableFacts
      BY <1>2, ReadTable DEF AcceptCheck
    <2> QED
      BY <1>2, <2>1, GotoJobs, IdleJobs, TableGrows DEF AcceptCheck, Facts, Writing
  <1>3. CASE AcceptWrite(p)
    <2> DEFINE t == IF IsLive(job[p].cur) THEN standing[job[p].cur] ELSE "pending"
    <2>1. /\ res' = [res EXCEPT ![job[p].cur].status = "scheduled", ![job[p].cur].offer = NoOffer]
          /\ Stand(job[p].cur, t) /\ Goto(p, "acceptRecheck")
      BY <1>3 DEF AcceptWrite
    <2>2. "scheduled" \in Live /\ "scheduled" \in Status \ {"absent"}
      BY DEF Live, Status
    <2>3. TableFacts
      <3>1. CASE job[p].cur = 0
        BY <2>1, <3>1, NoRow, ReadTable DEF Stand
      <3>2. CASE job[p].cur \in Row
        <4>1. t # "none" /\ (t # "settled" \/ t = standing[job[p].cur])
          BY <3>2 DEF Known, StandingIsLive
        <4> QED
          BY <1>0, <2>1, <2>2, <4>1, StatusTable
      <3> QED
        BY <1>0, <3>1, <3>2
    <2> QED
      BY <2>1, <2>3, GotoJobs, TableGrows DEF Facts, Writing
  <1>4. CASE AcceptRecheck(p)
    <2>1. TableFacts
      BY <1>0, <1>4, SettleTable, ReadTable DEF AcceptRecheck
    <2> QED
      BY <1>4, <2>1, IdleJobs, GotoJobs, TableGrows DEF AcceptRecheck, Facts, Writing
  <1>5. CASE AcceptUndo(p)
    <2>1. "waitlisted" \in Status \ {"absent"} /\ "waitlisted" \notin Live
      BY DEF Status, Live
    <2>2. TableFacts
      BY <1>0, <1>5, <2>1, StatusTable DEF AcceptUndo, SetStatus
    <2> QED
      BY <1>5, <2>2, IdleJobs, TableGrows DEF AcceptUndo, Facts
  <1> QED
    BY <1>1, <1>2, <1>3, <1>4, <1>5

LEMMA CancelFacts ==
    ASSUME Known, NEW p \in Proc,
           \/ \E r \in Row : CancelRead(p, r)
           \/ CancelWrite(p) \/ PromoteSelect(p) \/ PromoteCheck(p) \/ PromoteOffer(p)
    PROVE  Facts
  <1>0. /\ job[p].cur \in {0} \cup Row /\ job[p].cand \in {0} \cup Row
        /\ job[p].cur # 0 => res[job[p].cur].status # "absent"
    BY JobType DEF Known, JobsKnown
  <1>1. CASE \E r \in Row : CancelRead(p, r)
    <2>1. PICK r \in Row : /\ res[r].status \in Cancellable
                           /\ Enter(p, "cancelWrite", [IdleJob EXCEPT !.cur = r])
                           /\ UNCHANGED <<res, standing>>
      BY <1>1 DEF CancelRead, MayCancel
    <2>2. [IdleJob EXCEPT !.cur = r].cur = r /\ res'[r].status # "absent"
      BY <2>1 DEF IdleJob, Cancellable
    <2> QED
      BY <2>1, <2>2, ReadTable, EnterJobs, TableGrows DEF Facts, Writing
  <1>2. CASE CancelWrite(p)
    <2>1. CASE res[job[p].cur].status \notin Cancellable
      BY <1>2, <2>1, ReadTable, IdleJobs, TableGrows DEF CancelWrite, Facts
    <2>2. CASE res[job[p].cur].status \in Cancellable
      <3>1. "cancelled" \in Status \ {"absent"} /\ "cancelled" \notin Live
        BY DEF Status, Live
      <3>2. TableFacts
        BY <1>0, <1>2, <2>2, <3>1, StatusTable DEF CancelWrite, SetStatus
      <3>3. [job[p] EXCEPT !.left = Promotions("cancel")].cur = job[p].cur
        BY DEF Known, TypeOK, JobSpace
      <3> QED
        BY <1>2, <2>2, <3>2, <3>3, CurKnown, EnterJobs, TableGrows DEF CancelWrite, Facts, Writing
    <2> QED
      BY <2>1, <2>2
  <1>3. CASE PromoteSelect(p)
    <2>1. TableFacts
      BY <1>3, ReadTable DEF PromoteSelect
    <2>2. \A c : [job[p] EXCEPT !.cand = c].cur = job[p].cur
      BY DEF Known, TypeOK, JobSpace
    <2> QED
      BY <1>3, <2>1, <2>2, CurKnown, EnterJobs, PromotedJobs, TableGrows
         DEF PromoteSelect, Facts, Writing
  <1>4. CASE PromoteCheck(p)
    <2>1. TableFacts
      BY <1>4, ReadTable DEF PromoteCheck
    <2> QED
      BY <1>4, <2>1, GotoJobs, PromotedJobs, TableGrows DEF PromoteCheck, Facts, Writing
  <1>5. CASE PromoteOffer(p)
    <2>1. TableFacts
      <3>1. CASE UNCHANGED res
        BY <1>5, <3>1, ReadTable DEF PromoteOffer
      <3>2. CASE ~UNCHANGED res
        <4>1. PICK x : /\ res' = [res EXCEPT ![job[p].cand].offer = x]
                       /\ res[job[p].cand].status = "waitlisted"
          BY <1>5, <3>2 DEF PromoteOffer
        <4>2. job[p].cand \in Row
          BY <1>0, <3>2, <4>1, NoRow
        <4>3. /\ \A q \in Row \ {job[p].cand} : res'[q] = res[q]
              /\ res'[job[p].cand].status = res[job[p].cand].status
              /\ res'[job[p].cand].win = res[job[p].cand].win
          BY <4>1, <4>2 DEF Known, TypeOK, RowSpace
        <4>4. UNCHANGED standing
          BY <1>5 DEF PromoteOffer
        <4> QED
          BY <4>1, <4>2, <4>3, <4>4, WriteTable DEF Known, RowsKnown, StandingIsLive, IsLive
      <3> QED
        BY <3>1, <3>2
    <2> QED
      BY <1>5, <2>1, PromotedJobs, TableGrows DEF PromoteOffer, Facts
  <1> QED
    BY <1>1, <1>2, <1>3, <1>4, <1>5

LEMMA CronFacts ==
    ASSUME Known, NEW p \in Proc, Cron(p) \/ SweepNext(p) \/ ExpireNext(p)
    PROVE  Facts
  <1>0. /\ \A S : [job[p] EXCEPT !.todo = S].cur = job[p].cur
        /\ \A r, S : [job[p] EXCEPT !.cur = r, !.todo = S].cur = r
        /\ \A r, S, n : [job[p] EXCEPT !.cur = r, !.todo = S, !.left = n].cur = r
        /\ \A l, S : [IdleJob EXCEPT !.loop = l, !.todo = S].cur = 0
        /\ job[p].todo \subseteq Row
    BY IdleJobType DEF Known, TypeOK, JobSpace, IdleJob
  <1>1. CASE SweepSelect(p)
    <2>1. PICK S : Enter(p, "sweep", [IdleJob EXCEPT !.loop = "sweep", !.todo = S])
      BY <1>1 DEF SweepSelect
    <2> QED
      BY <1>0, <1>1, <2>1, ReadTable, EnterJobs, TableGrows DEF SweepSelect, Facts, Writing
  <1>2. CASE ExpireSelect(p)
    <2>1. PICK S : Enter(p, "expire", [IdleJob EXCEPT !.loop = "expire", !.todo = S])
      BY <1>2 DEF ExpireSelect
    <2> QED
      BY <1>0, <1>2, <2>1, ReadTable, EnterJobs, TableGrows DEF ExpireSelect, Facts, Writing
  <1>3. CASE SweepNext(p)
    <2>1. TableFacts
      BY <1>3, ReadTable DEF SweepNext
    <2>2. ASSUME NEW r \in job[p].todo, NEW S, res[r].status \in Cancellable,
                 Enter(p, "cancelWrite", [job[p] EXCEPT !.cur = r, !.todo = S])
          PROVE  JobsKnown'
      <3>1. [job[p] EXCEPT !.cur = r, !.todo = S].cur = r
        BY DEF Known, TypeOK, JobSpace
      <3>2. res'[r].status # "absent"
        BY <1>3, <2>2 DEF SweepNext, Cancellable
      <3> QED
        BY <2>1, <2>2, <3>1, <3>2, EnterJobs, TableGrows DEF Writing
    <2>3. ASSUME NEW S, Enter(p, "sweep", [job[p] EXCEPT !.todo = S])
          PROVE  JobsKnown'
      <3>1. [job[p] EXCEPT !.todo = S].cur = job[p].cur
        BY DEF Known, TypeOK, JobSpace
      <3> QED
        BY <2>1, <2>3, <3>1, CurKnown, EnterJobs, TableGrows DEF Writing
    <2>4. CASE Enter(p, "idle", IdleJob)
      BY <2>1, <2>4, IdleJobs, TableGrows DEF Facts
    <2>5. JobsKnown'
      BY <1>3, <2>2, <2>3, <2>4 DEF SweepNext, MayCancel, Facts
    <2> QED
      BY <2>1, <2>5 DEF Facts
  <1>4. CASE ExpireNext(p)
    <2>1. UNCHANGED standing
      BY <1>4 DEF ExpireNext
    <2>2. ASSUME NEW r \in job[p].todo, res[r].status = "waitlisted",
                 res' = [res EXCEPT ![r].status = "cancelled", ![r].offer = NoOffer],
                 NEW S, Enter(p, "promote", [job[p] EXCEPT !.cur = r, !.todo = S,
                                             !.left = Promotions("waitlist_expired")])
          PROVE  Facts
      <3>1. r \in Row
        BY <1>0
      <3>2. standing[r] = "none" /\ Stand(r, "none")
        BY <2>1, <2>2, <3>1 DEF Known, TypeOK, StandingIsLive, IsLive, Live, Stand
      <3>3. "cancelled" \in Status \ {"absent"} /\ "cancelled" \notin Live
        BY DEF Status, Live
      <3>4. TableFacts
        BY <2>2, <3>1, <3>2, <3>3, StatusTable
      <3>5. res'[r].status # "absent" /\ Grows
        BY <2>2, <3>1, <3>4 DEF TableFacts, Grows
      <3>6. [job[p] EXCEPT !.cur = r, !.todo = S, !.left = Promotions("waitlist_expired")].cur = r
        BY DEF Known, TypeOK, JobSpace
      <3>7. JobsKnown'
        BY <2>2, <3>5, <3>6, EnterJobs DEF Writing
      <3> QED
        BY <3>4, <3>7 DEF Facts
    <2>3. ASSUME UNCHANGED res,
                 NEW S, \/ Enter(p, "idle", IdleJob)
                        \/ Enter(p, "expire", [job[p] EXCEPT !.todo = S])
          PROVE  Facts
      <3>1. TableFacts
        BY <2>1, <2>3, ReadTable
      <3>2. CASE Enter(p, "idle", IdleJob)
        BY <3>1, <3>2, IdleJobs, TableGrows DEF Facts
      <3>3. CASE Enter(p, "expire", [job[p] EXCEPT !.todo = S])
        BY <1>0, <3>1, <3>3, CurKnown, EnterJobs, TableGrows DEF Facts, Writing
      <3> QED
        BY <2>3, <3>2, <3>3
    <2> QED
      BY <1>4, <2>2, <2>3 DEF ExpireNext
  <1> QED
    BY <1>1, <1>2, <1>3, <1>4 DEF Cron

LEMMA StaffFacts ==
    ASSUME Known, NEW p \in Proc,
           \/ \E w \in Window : StaffCheck(p, w)
           \/ \E r \in Row, w \in Window : AdjustCheck(p, r, w)
           \/ \E r \in Row : CheckoutRead(p, r)
           \/ StaffInsert(p) \/ AdjustWrite(p) \/ PayWrite(p)
    PROVE  Facts
  <1>0. /\ job[p].cur \in {0} \cup Row
        /\ job[p].cur # 0 => res[job[p].cur].status # "absent"
    BY JobType DEF Known, JobsKnown
  <1>1. CASE \E w \in Window : StaffCheck(p, w)
    <2>1. PICK w \in Window : StaffCheck(p, w)
      BY <1>1
    <2>2. [IdleJob EXCEPT !.slot = w].cur = 0 /\ [IdleJob EXCEPT !.slot = w].slot = w
      BY DEF IdleJob
    <2> QED
      BY <2>1, <2>2, ReadTable, EnterJobs, TableGrows DEF StaffCheck, Facts
  <1>2. CASE \E r \in Row, w \in Window : AdjustCheck(p, r, w)
    <2>1. PICK r \in Row, w \in Window : AdjustCheck(p, r, w)
      BY <1>2
    <2>2. /\ [IdleJob EXCEPT !.cur = r, !.slot = w].cur = r
          /\ [IdleJob EXCEPT !.cur = r, !.slot = w].slot = w
      BY DEF IdleJob
    <2>3. res'[r].status # "absent"
      BY <2>1 DEF AdjustCheck, Exists
    <2> QED
      BY <2>1, <2>2, <2>3, ReadTable, EnterJobs, TableGrows DEF AdjustCheck, Facts
  <1>3. CASE \E r \in Row : CheckoutRead(p, r)
    <2>1. PICK r \in Row : CheckoutRead(p, r)
      BY <1>3
    <2>2. [IdleJob EXCEPT !.cur = r].cur = r /\ res'[r].status # "absent"
      BY <2>1 DEF IdleJob, CheckoutRead, Active
    <2> QED
      BY <2>1, <2>2, ReadTable, EnterJobs, TableGrows DEF CheckoutRead, Facts, Writing
  <1>4. CASE StaffInsert(p)
    <2>1. PICK r \in Row :
            /\ IsNext(r) /\ res' = [res EXCEPT ![r] = NewRow(job[p].slot, "confirmed")]
            /\ Stand(r, "forced")
      BY <1>4 DEF StaffInsert
    <2>2. job[p].slot \in Window
      BY <1>4 DEF StaffInsert, Known, JobsKnown, Writing
    <2>3. TableFacts
      BY <2>1, <2>2, InsertTable DEF Stand, Live, Status
    <2> QED
      BY <1>4, <2>3, IdleJobs, TableGrows DEF StaffInsert, Facts
  <1>5. CASE AdjustWrite(p)
    <2>1. TableFacts
      <3>1. CASE res[job[p].cur].status \notin Active
        BY <1>5, <3>1, ReadTable DEF AdjustWrite
      <3>2. CASE res[job[p].cur].status \in Active /\ job[p].cur \in Row
        <4>1. /\ \A q \in Row \ {job[p].cur} : res'[q] = res[q] /\ standing'[q] = standing[q]
              /\ res'[job[p].cur].status = res[job[p].cur].status
              /\ res'[job[p].cur].win = job[p].slot
              /\ standing'[job[p].cur] = "forced"
          BY <1>5, <3>2 DEF AdjustWrite, Stand, Known, TypeOK, RowSpace
        <4>2. job[p].slot \in Window
          BY <1>5 DEF AdjustWrite, Known, JobsKnown, Writing
        <4> QED
          BY <3>2, <4>1, <4>2, WriteTable DEF Active, Live
      <3>3. CASE res[job[p].cur].status \in Active /\ job[p].cur = 0
        BY <1>5, <3>3, NoRow, ReadTable DEF AdjustWrite, Stand
      <3> QED
        BY <1>0, <3>1, <3>2, <3>3
    <2> QED
      BY <1>5, <2>1, IdleJobs, TableGrows DEF AdjustWrite, Facts
  <1>6. CASE PayWrite(p)
    <2> DEFINE t == IF IsLive(job[p].cur) THEN standing[job[p].cur] ELSE "forced"
    <2>1. "confirmed" \in Live /\ "confirmed" \in Status \ {"absent"}
      BY DEF Live, Status
    <2>2. CASE UNCHANGED <<res, standing>>
      BY <1>6, <2>2, ReadTable, IdleJobs, TableGrows DEF PayWrite, Facts
    <2>3. CASE ~UNCHANGED <<res, standing>>
      <3>1. /\ res' = [res EXCEPT ![job[p].cur].status = "confirmed"]
            /\ Stand(job[p].cur, t)
        BY <1>6, <2>3 DEF PayWrite, SetStatus
      <3>2. job[p].cur \in Row
        BY <1>0, <2>3, <3>1, NoRow DEF Stand
      <3>3. t # "none" /\ (t # "settled" \/ t = standing[job[p].cur])
        BY <3>2 DEF Known, StandingIsLive
      <3>4. TableFacts
        BY <1>0, <2>1, <3>1, <3>2, <3>3, StatusTable
      <3> QED
        BY <1>6, <3>4, IdleJobs, TableGrows DEF PayWrite, Facts
    <2> QED
      BY <2>2, <2>3
  <1> QED
    BY <1>1, <1>2, <1>3, <1>4, <1>5, <1>6

\* Every step keeps the auxiliary invariants and is of one of the three kinds.
LEMMA StepFacts == Known /\ [Next]_vars => Facts
  <1> SUFFICES ASSUME Known, [Next]_vars PROVE Facts
    OBVIOUS
  <1>1. ASSUME NEW p \in Proc, Step(p) PROVE Facts
    BY <1>1, CreateFacts, AcceptFacts, CancelFacts, CronFacts, StaffFacts DEF Step
  <1>2. ASSUME NEW p \in Proc, Cron(p) PROVE Facts
    BY <1>2, CronFacts
  <1>3. ASSUME NEW p \in Proc, Request(p) PROVE Facts
    BY <1>3, CreateFacts, AcceptFacts, CancelFacts, StaffFacts DEF Request
  <1>4. ASSUME NEW p \in Proc, Crash(p) PROVE Facts
    BY <1>4, ReadTable, IdleJobs, TableGrows DEF Crash, Facts
  <1>5. ASSUME TableFacts, UNCHANGED <<pc, job>> PROVE Facts
    <2>1. \A p \in Proc : job[p].cur \in {0} \cup Row
      BY JobType DEF Known
    <2> QED
      BY <1>5, <2>1 DEF Known, JobsKnown, Facts, TableFacts, Grows
  <1>6. CASE Desk
    <2>1. PICK r \in Row, s \in {"confirmed", "completed", "no_show"} :
            /\ res[r].status \in Active
            /\ SetStatus(r, s) /\ UNCHANGED <<now, standing, via, pc, job>>
      BY <1>6 DEF Desk, Confirm, MarkComplete, MarkNoShow, RecordCashAndComplete,
                  UpdateStatus, Active
    <2>2. /\ standing[r] # "none" /\ Stand(r, standing[r])
          /\ s \in Live /\ s \in Status \ {"absent"} /\ res[r].status # "absent"
      BY <2>1 DEF Known, TypeOK, StandingIsLive, IsLive, Live, Active, Status, Stand
    <2>3. TableFacts
      BY <2>1, <2>2, StatusTable DEF SetStatus
    <2> QED
      BY <1>5, <2>1, <2>3
  <1>7. CASE AutoComplete
    <2>1. /\ \A r \in Row : \/ res'[r] = res[r]
                           \/ /\ res'[r].win = res[r].win
                              /\ res'[r].status = "completed" /\ res[r].status = "confirmed"
          /\ UNCHANGED <<standing, pc, job>>
      <3>1. PICK paid \in SUBSET {r \in Row : res[r].status = "confirmed" /\ res[r].win.e < now} :
              res' = [r \in Row |-> IF r \in paid THEN [res[r] EXCEPT !.status = "completed"]
                                    ELSE res[r]]
        BY <1>7 DEF AutoComplete
      <3>2. \A r \in Row : r \in paid => res[r].status = "confirmed"
        OBVIOUS
      <3>3. \A r \in Row : LET done == [res[r] EXCEPT !.status = "completed"]
                          IN  done.status = "completed" /\ done.win = res[r].win
        BY DEF Known, TypeOK, RowSpace
      <3>4. UNCHANGED <<standing, pc, job>>
        BY <1>7 DEF AutoComplete
      <3> QED
        BY <3>1, <3>2, <3>3, <3>4
    <2>2. TableFacts
      <3>1. StandingIsLive' /\ RowsKnown' /\ Grows
        BY <2>1 DEF Known, StandingIsLive, RowsKnown, IsLive, Live, Grows
      <3>2. Keeps(Row)
        BY <2>1 DEF Keeps
      <3> QED
        BY <3>1, <3>2 DEF TableFacts, StepKind
    <2> QED
      BY <1>5, <2>1, <2>2
  <1>8. CASE Tick
    BY <1>5, <1>8, ReadTable DEF Tick
  <1>9. CASE UNCHANGED vars
    BY <1>5, <1>9, ReadTable DEF vars
  <1> QED
    BY <1>1, <1>2, <1>3, <1>4, <1>6, <1>7, <1>8, <1>9 DEF Next

-----------------------------------------------------------------------------
(* No double booking *)

LEMMA OverlapsSymmetric == \A v, w : Overlaps(v, w) <=> Overlaps(w, v)
  BY DEF Overlaps

LEMMA InitIInv == Init => IInv
  <1> SUFFICES ASSUME Init PROVE IInv
    OBVIOUS
  <1>1. TypeOK
    BY InitType
  <1>2. \A r \in Row : res[r].status = "absent" /\ standing[r] = "none"
    BY DEF Init, NewRow
  <1>3. \A p \in Proc : pc[p] = "idle" /\ job[p].cur = 0
    BY DEF Init, IdleJob
  <1> QED
    BY <1>1, <1>2, <1>3 DEF IInv, Known, StandingIsLive, RowsKnown, JobsKnown,
                            SettledDisjoint, IsLive, Live, Writing

\* Only a granted row can come to overlap a settled one, and the scan that
\* granted it has passed over all of them.
LEMMA StepIInv == IInv /\ [Next]_vars => IInv'
  <1> SUFFICES ASSUME IInv, [Next]_vars PROVE IInv'
    OBVIOUS
  <1>1. Facts /\ TypeOK'
    BY StepFacts, TypeStep DEF IInv, Known
  <1>2. Known'
    BY <1>1 DEF Facts, TableFacts, Known
  <1>3. SettledDisjoint'
    <2>1. CASE Keeps(Row)
      BY <2>1 DEF Keeps, IInv, SettledDisjoint
    <2>2. ASSUME NEW r \in Row, Releases(r) PROVE SettledDisjoint'
      BY <2>2 DEF Releases, Keeps, IInv, SettledDisjoint
    <2>3. ASSUME NEW r \in Row, Grants(r) PROVE SettledDisjoint'
      <3>1. \A q \in Row \ {r} : standing'[q] = "settled" =>
              /\ standing[q] = "settled" /\ res'[q].win = res[q].win
              /\ ~Overlaps(res[q].win, res'[r].win) /\ ~Overlaps(res'[r].win, res[q].win)
        BY <2>3, OverlapsSymmetric DEF Grants, Keeps, IInv, Known, StandingIsLive
      <3> QED
        BY <3>1 DEF IInv, SettledDisjoint
    <2> QED
      BY <1>1, <2>1, <2>2, <2>3 DEF Facts, TableFacts, StepKind
  <1> QED
    BY <1>2, <1>3 DEF IInv

\* Two bookings whose re-check after the write passed never overlap, for any
\* number of requests, rows, windows and any mix of handlers, crashes included.
THEOREM NoDoubleBooking == Spec => []SettledDisjoint
  <1>1. IInv => SettledDisjoint
    BY DEF IInv
  <1> QED
    BY <1>1, InitIInv, StepIInv, PTL DEF Spec

-----------------------------------------------------------------------------
(* The calendar implements RoomCalendar *)

Held == [r \in Row |-> IF standing[r] = "settled" THEN res[r].win ELSE NoSpan]

\* No window anybody asks for is empty, so a row that holds one is not free.
LEMMA WindowNotEmpty == \A w \in Window : w # NoSpan
  BY BookingAssumption DEF IsSpan, NoSpan

LEMMA CalendarInit == Init => Calendar!Init
  BY DEF Init, Calendar!Init, Calendar!NoSpan, NoSpan

LEMMA CalendarStep == IInv /\ [Next]_vars => [Calendar!Next]_Held
  <1> SUFFICES ASSUME IInv, [Next]_vars PROVE [Calendar!Next]_Held
    OBVIOUS
  <1>1. StepKind /\ Known
    BY StepFacts DEF IInv, Facts, TableFacts
  <1>2. \A r \in Row : standing[r] = "settled" => res[r].win \in Window /\ res[r].win # NoSpan
    BY <1>1, WindowNotEmpty DEF Known, StandingIsLive, RowsKnown, IsLive, Live
  <1>3. CASE Keeps(Row)
    BY <1>3 DEF Keeps, Held
  <1>4. ASSUME NEW r \in Row, Releases(r) PROVE Calendar!Next
    <2>1. Held' = [Held EXCEPT ![r] = NoSpan]
      BY <1>4 DEF Releases, Keeps, Held
    <2>2. Held[r] # NoSpan
      BY <1>2, <1>4 DEF Releases, Held
    <2>3. Calendar!Release(r)
      BY <2>1, <2>2 DEF Calendar!Release, Calendar!Free, Calendar!NoSpan, NoSpan, Held
    <2> QED
      BY <2>3 DEF Calendar!Next
  <1>5. ASSUME NEW r \in Row, Grants(r) PROVE Calendar!Next
    <2>0. PICK w \in Window : w = res'[r].win
      BY <1>5 DEF Grants
    <2>1. Held' = [Held EXCEPT ![r] = w]
      BY <1>5, <2>0 DEF Grants, Keeps, Held
    <2>2. \A q \in Row : Calendar!Free(q) <=> standing[q] # "settled"
      BY <1>2 DEF Calendar!Free, Calendar!NoSpan, NoSpan
    <2>3. \A q \in Row : ~Calendar!Free(q) => ~Calendar!Overlaps(Held[q], w)
        <3>1. \A u, v : Calendar!Overlaps(u, v) <=> Overlaps(u, v)
        BY DEF Calendar!Overlaps, Overlaps
      <3>2. \A q \in Row : standing[q] = "settled" => ~Overlaps(res[q].win, w)
        BY <1>1, <1>5, <2>0 DEF Grants, Known, StandingIsLive
      <3> QED
        BY <2>2, <3>1, <3>2 DEF Held
    <2>4. Calendar!Grant(r, w)
      <3>1. Calendar!Free(r)
        BY <1>5, <2>2 DEF Grants
      <3> QED
        BY <2>1, <2>3, <3>1 DEF Calendar!Grant, Held
    <2> QED
      BY <2>4 DEF Calendar!Next
  <1> QED
    BY <1>1, <1>3, <1>4, <1>5 DEF StepKind

\* The races of the statement-by-statement service are invisible in what it
\* promises: every behaviour is one of the calendar that grants a window only
\* while it is free.
THEOREM ImplementsCalendar == Spec => CalendarSpec
  <1> QED
    BY InitIInv, StepIInv, CalendarInit, CalendarStep, PTL
       DEF Spec, CalendarSpec, Calendar!Spec, Held
=============================================================================
