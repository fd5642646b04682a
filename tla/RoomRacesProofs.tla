--------------------------- MODULE RoomRacesProofs ---------------------------
(***************************************************************************)
(* More proofs about RoomBooking: what may become of a row once it is      *)
(* cancelled or resolved, why an overlap is always about to be taken back, *)
(* and why a freed slot is offered once, to the first in line.             *)
(*                                                                         *)
(* The argument: RowEffects lists, once for the whole service, the ways in *)
(* which a step can change a row, each with the statement that does it.    *)
(* The two properties about cancelled and resolved rows hold with every    *)
(* handler let in.  The others are promises that some handler breaks on    *)
(* purpose or by a write on the row's id alone; the hypothesis of each     *)
(* theorem names those handlers and nothing else.                          *)
(***************************************************************************)
EXTENDS RoomBookingProofs

-----------------------------------------------------------------------------
(* What a step may do to a row *)

\* The statement at label l, run for row r, is the one that is taken.
At(l, r) == \E p \in Proc : pc[p] = l /\ job[p].cur = r /\ pc'[p] # pc[p]

Inserted(r)  == IsNext(r) /\ res'[r].offer = NoOffer
Paid(r)      == At("payWrite", r) /\ res'[r].status = "confirmed" /\ res'[r].offer = res[r].offer
Accepted(r)  == At("acceptWrite", r) /\ res'[r].status = "scheduled" /\ res'[r].offer = NoOffer
Undone(r)    == At("acceptUndo", r) /\ res'[r].status = "waitlisted" /\ res'[r].offer = res[r].offer
BackedOut(r) == At("backOut", r) /\ res'[r].status = "deleted" /\ res'[r].offer = res[r].offer
Offered(r)   == res[r].status = "waitlisted" /\ res'[r].status = "waitlisted"
                /\ res[r].offer = NoOffer
Cancelled(r) == /\ res[r].status \in Cancellable /\ res'[r].status = "cancelled"
                /\ res'[r].offer \in {res[r].offer, NoOffer}
Resolved(r)  == /\ res[r].status \in Active /\ res'[r].offer = res[r].offer
                /\ res'[r].status \in {"confirmed", "completed", "no_show"}
Retimed(r)   == /\ res[r].status \in Active /\ At("adjustWrite", r)
                /\ res'[r].status = res[r].status /\ res'[r].offer = res[r].offer

RowEffect(r) ==
    \/ res'[r] = res[r]
    \/ Inserted(r)
    \/ Retimed(r)
    \/ /\ res'[r].win = res[r].win
       /\ \/ Paid(r) \/ Accepted(r) \/ Undone(r) \/ BackedOut(r)
          \/ Offered(r) \/ Cancelled(r) \/ Resolved(r)

\* A handler that returns is at none of the statements that write.
LEMMA ReturnMoves ==
    ASSUME TypeOK, NEW p \in Proc, Return(p)
    PROVE  pc'[p] \in {"idle", "sweep", "expire"}
  BY DEF Return, Enter, TypeOK, JobSpace

\* The fields of the one row that a statement writes, and the rows it leaves.
LEMMA OneRow ==
    ASSUME TypeOK, NEW c \in {0} \cup Row
    PROVE  /\ \A s : LET t == [res EXCEPT ![c].status = s] IN
                \A r \in Row : IF r = c
                  THEN t[r].status = s /\ t[r].win = res[r].win /\ t[r].offer = res[r].offer
                  ELSE t[r] = res[r]
           /\ \A s, x : LET t == [res EXCEPT ![c].status = s, ![c].offer = x] IN
                \A r \in Row : IF r = c
                  THEN t[r].status = s /\ t[r].win = res[r].win /\ t[r].offer = x
                  ELSE t[r] = res[r]
           /\ \A x : LET t == [res EXCEPT ![c].offer = x] IN
                \A r \in Row : IF r = c
                  THEN t[r].status = res[r].status /\ t[r].win = res[r].win /\ t[r].offer = x
                  ELSE t[r] = res[r]
           /\ \A w : LET t == [res EXCEPT ![c].win = w] IN
                \A r \in Row : IF r = c
                  THEN t[r].status = res[r].status /\ t[r].win = w /\ t[r].offer = res[r].offer
                  ELSE t[r] = res[r]
           /\ \A w, s : LET t == [res EXCEPT ![c] = NewRow(w, s)] IN
                \A r \in Row : IF r = c
                  THEN t[r].status = s /\ t[r].win = w /\ t[r].offer = NoOffer
                  ELSE t[r] = res[r]
  BY DEF TypeOK, RowSpace, NewRow

LEMMA SameRows == ASSUME UNCHANGED res, NEW r PROVE RowEffect(r)
  BY DEF RowEffect

\* The statements that write.
LEMMA StatementEffects ==
    ASSUME TypeOK, NEW p \in Proc, Step(p), NEW r \in Row
    PROVE  RowEffect(r)
  <1>0. job[p].cur \in {0} \cup Row /\ job[p].cand \in {0} \cup Row
    BY JobType
  <1>1. CASE CreateInsert(p)
    <2>1. PICK c \in Row, s \in {"scheduled", "confirmed"} :
            IsNext(c) /\ res' = [res EXCEPT ![c] = NewRow(job[p].slot, s)]
      BY <1>1 DEF CreateInsert
    <2> QED
      BY <2>1, OneRow DEF RowEffect, Inserted
  <1>2. CASE QueueInsert(p)
    <2>1. CASE UNCHANGED res
      BY <2>1, SameRows
    <2>2. CASE ~UNCHANGED res
      <3>1. PICK c \in Row :
              IsNext(c) /\ res' = [res EXCEPT ![c] = NewRow(job[p].slot, "waitlisted")]
        BY <1>2, <2>2 DEF QueueInsert
      <3> QED
        BY <3>1, OneRow DEF RowEffect, Inserted
    <2> QED
      BY <2>1, <2>2
  <1>3. CASE StaffInsert(p)
    <2>1. PICK c \in Row :
            IsNext(c) /\ res' = [res EXCEPT ![c] = NewRow(job[p].slot, "confirmed")]
      BY <1>3 DEF StaffInsert
    <2> QED
      BY <2>1, OneRow DEF RowEffect, Inserted
  <1>4. CASE CreateBackOut(p)
    <2>1. res' = [res EXCEPT ![job[p].cur].status = "deleted"]
      BY <1>4 DEF CreateBackOut, SetStatus
    <2>2. r = job[p].cur => At("backOut", r)
      <3>1. pc[p] = "backOut" /\ (Return(p) \/ Goto(p, "queue"))
        BY <1>4 DEF CreateBackOut
      <3>2. pc'[p] # "backOut"
        BY <3>1, ReturnMoves DEF Goto, Enter, TypeOK
      <3> QED
        BY <3>1, <3>2 DEF At
    <2> QED
      BY <1>0, <2>1, <2>2, OneRow DEF RowEffect, BackedOut
  <1>5. CASE AcceptWrite(p)
    <2>1. res' = [res EXCEPT ![job[p].cur].status = "scheduled", ![job[p].cur].offer = NoOffer]
      BY <1>5 DEF AcceptWrite
    <2>2. r = job[p].cur => At("acceptWrite", r)
      BY <1>5 DEF AcceptWrite, Goto, Enter, TypeOK, At
    <2> QED
      BY <1>0, <2>1, <2>2, OneRow DEF RowEffect, Accepted
  <1>6. CASE AcceptUndo(p)
    <2>1. res' = [res EXCEPT ![job[p].cur].status = "waitlisted"]
      BY <1>6 DEF AcceptUndo, SetStatus
    <2>2. r = job[p].cur => At("acceptUndo", r)
      BY <1>6, ReturnMoves DEF AcceptUndo, At
    <2> QED
      BY <1>0, <2>1, <2>2, OneRow DEF RowEffect, Undone
  <1>7. CASE CancelWrite(p)
    <2>1. CASE UNCHANGED res
      BY <2>1, SameRows
    <2>2. CASE ~UNCHANGED res
      <3>1. /\ res' = [res EXCEPT ![job[p].cur].status = "cancelled"]
            /\ res[job[p].cur].status \in Cancellable
        BY <1>7, <2>2 DEF CancelWrite, SetStatus
      <3> QED
        BY <1>0, <3>1, OneRow DEF RowEffect, Cancelled
    <2> QED
      BY <2>1, <2>2
  <1>8. CASE PromoteOffer(p)
    <2>1. CASE UNCHANGED res
      BY <2>1, SameRows
    <2>2. CASE ~UNCHANGED res
      <3>1. /\ res' = [res EXCEPT ![job[p].cand].offer = now + OfferTTL]
            /\ res[job[p].cand].status = "waitlisted" /\ res[job[p].cand].offer = NoOffer
        BY <1>8, <2>2 DEF PromoteOffer
      <3> QED
        BY <1>0, <3>1, OneRow DEF RowEffect, Offered
    <2> QED
      BY <2>1, <2>2
  <1>9. CASE ExpireNext(p)
    <2>1. CASE UNCHANGED res
      BY <2>1, SameRows
    <2>2. CASE ~UNCHANGED res
      <3>1. PICK c \in job[p].todo :
              /\ res[c].status = "waitlisted"
              /\ res' = [res EXCEPT ![c].status = "cancelled", ![c].offer = NoOffer]
        BY <1>9, <2>2 DEF ExpireNext
      <3>2. c \in Row
        BY DEF TypeOK, JobSpace
      <3> QED
        BY <3>1, <3>2, OneRow DEF RowEffect, Cancelled, Cancellable
    <2> QED
      BY <2>1, <2>2
  <1>10. CASE AdjustWrite(p)
    <2>1. CASE UNCHANGED res
      BY <2>1, SameRows
    <2>2. CASE ~UNCHANGED res
      <3>1. /\ res' = [res EXCEPT ![job[p].cur].win = job[p].slot]
            /\ res[job[p].cur].status \in Active
        BY <1>10, <2>2 DEF AdjustWrite
      <3>2. r = job[p].cur => At("adjustWrite", r)
        BY <1>10, ReturnMoves DEF AdjustWrite, At
      <3> QED
        BY <1>0, <3>1, <3>2, OneRow DEF RowEffect, Retimed
    <2> QED
      BY <2>1, <2>2
  <1>11. CASE PayWrite(p)
    <2>1. CASE UNCHANGED res
      BY <2>1, SameRows
    <2>2. CASE ~UNCHANGED res
      <3>1. res' = [res EXCEPT ![job[p].cur].status = "confirmed"]
        BY <1>11, <2>2 DEF PayWrite, SetStatus
      <3>2. r = job[p].cur => At("payWrite", r)
        BY <1>11, ReturnMoves DEF PayWrite, At
      <3> QED
        BY <1>0, <3>1, <3>2, OneRow DEF RowEffect, Paid
    <2> QED
      BY <2>1, <2>2
  <1>12. CASE \/ CreateRecheck(p) \/ AcceptCheck(p) \/ AcceptRecheck(p)
              \/ PromoteSelect(p) \/ PromoteCheck(p) \/ SweepNext(p)
    BY <1>12, SameRows
       DEF CreateRecheck, AcceptCheck, AcceptRecheck, PromoteSelect, PromoteCheck, SweepNext
  <1> QED
    BY <1>1, <1>2, <1>3, <1>4, <1>5, <1>6, <1>7, <1>8, <1>9, <1>10, <1>11, <1>12 DEF Step

\* Every step, of whatever handler.
LEMMA RowEffects ==
    ASSUME TypeOK, [Next]_vars, NEW r \in Row
    PROVE  RowEffect(r)
  <1>1. ASSUME NEW p \in Proc, Step(p) PROVE RowEffect(r)
    BY <1>1, StatementEffects
  <1>2. ASSUME NEW p \in Proc, Cron(p) \/ Request(p) \/ Crash(p) PROVE RowEffect(r)
    BY <1>2, SameRows DEF Cron, SweepSelect, ExpireSelect, Request, CreateCheck, StaffCheck,
                          AcceptRead, CancelRead, CheckoutRead, AdjustCheck, Crash
  <1>3. CASE Desk
    <2>1. PICK c \in Row, s \in {"confirmed", "completed", "no_show"} :
            res[c].status \in Active /\ res' = [res EXCEPT ![c].status = s]
      BY <1>3 DEF Desk, Confirm, MarkComplete, MarkNoShow, RecordCashAndComplete,
                  UpdateStatus, SetStatus, Active
    <2> QED
      BY <2>1, OneRow DEF RowEffect, Resolved
  <1>4. CASE AutoComplete
    <2>1. PICK paid \in SUBSET {q \in Row : res[q].status = "confirmed" /\ res[q].win.e < now} :
            res' = [q \in Row |-> IF q \in paid THEN [res[q] EXCEPT !.status = "completed"]
                                  ELSE res[q]]
      BY <1>4 DEF AutoComplete
    <2>2. CASE r \in paid
      <3>1. LET done == [res[r] EXCEPT !.status = "completed"] IN
            done.status = "completed" /\ done.win = res[r].win /\ done.offer = res[r].offer
        BY DEF TypeOK, RowSpace
      <3>2. res'[r] = [res[r] EXCEPT !.status = "completed"] /\ res[r].status = "confirmed"
        BY <2>1, <2>2
      <3> QED
        BY <3>1, <3>2 DEF RowEffect, Resolved, Active
    <2>3. CASE r \notin paid
      BY <2>1, <2>3 DEF RowEffect
    <2> QED
      BY <2>2, <2>3
  <1>5. CASE Tick \/ UNCHANGED vars
    BY <1>5, SameRows DEF Tick, vars
  <1> QED
    BY <1>1, <1>2, <1>3, <1>4, <1>5 DEF Next

-----------------------------------------------------------------------------
(* Resolved and cancelled rows *)

\* A session that staff completed or marked a no-show is changed by no cancel,
\* re-timing or cron that read it before (cancel(), adjustWindow() and
\* expireWaitlisted() write WHERE status IN ...), whatever handlers are let in.
THEOREM ResolvedForGood == Spec => ResolvedIsFinal
  <1>1. ASSUME TypeOK, [Next]_vars, NEW r \in Row, res[r].status \in {"completed", "no_show"}
        PROVE  res'[r] = res[r] \/ res'[r].status = "deleted" \/ WrittenById(r)
    <2>1. RowEffect(r)
      BY <1>1, RowEffects
    <2> QED
      BY <1>1, <2>1 DEF RowEffect, Inserted, IsNext, Retimed, Paid, Accepted, Undone, BackedOut,
                        Offered, Cancelled, Resolved, At, WrittenById, Active, Cancellable
  <1>2. TypeOK /\ [Next]_vars =>
          [\A r \in Row : res[r].status \in {"completed", "no_show"} =>
              res'[r] = res[r] \/ res'[r].status = "deleted" \/ WrittenById(r)]_vars
    BY <1>1
  <1> QED
    BY <1>2, TypeCorrect, PTL DEF Spec, ResolvedIsFinal

\* A cancelled booking keeps its window and comes back only by the writes on
\* its id (handleReservationCheckout, bookAndPayReservation, confirmWaitlisted).
THEOREM CancelledForGood == Spec => CancelledStaysCancelled
  <1>1. ASSUME TypeOK, [Next]_vars, NEW r \in Row, res[r].status = "cancelled"
        PROVE  /\ res'[r].win = res[r].win
               /\ res'[r].status \in {"cancelled", "deleted"} \/ WrittenById(r)
    <2>1. RowEffect(r)
      BY <1>1, RowEffects
    <2> QED
      BY <1>1, <2>1 DEF RowEffect, Inserted, IsNext, Retimed, Paid, Accepted, Undone, BackedOut,
                        Offered, Cancelled, Resolved, At, WrittenById, Active, Cancellable
  <1>2. TypeOK /\ [Next]_vars =>
          [\A r \in Row : res[r].status = "cancelled" =>
              /\ res'[r].win = res[r].win
              /\ res'[r].status \in {"cancelled", "deleted"} \/ WrittenById(r)]_vars
    BY <1>1
  <1> QED
    BY <1>2, TypeCorrect, PTL DEF Spec, CancelledStaysCancelled

-----------------------------------------------------------------------------
(* Which handler is at which statement *)

\* Only p has moved.
OnlyMoves(p) == \A q \in Proc \ {p} : pc'[q] = pc[q] /\ job'[q] = job[q]

LEMMA EnterMoves ==
    ASSUME TypeOK, NEW p \in Proc, NEW l, NEW j, Enter(p, l, j)
    PROVE  pc'[p] = l /\ job'[p] = j /\ OnlyMoves(p)
  BY DEF TypeOK, Enter, OnlyMoves

\* A handler that returns has forgotten what it read.
LEMMA ReturnForgets ==
    ASSUME TypeOK, NEW p \in Proc, Return(p)
    PROVE  /\ pc'[p] \in {"idle", "sweep", "expire"} /\ OnlyMoves(p)
           /\ job'[p].cur = 0 /\ job'[p].left = 0
  <1>1. /\ IdleJob.cur = 0 /\ IdleJob.left = 0
        /\ \A l, S : LET j == [IdleJob EXCEPT !.loop = l, !.todo = S] IN
              j.cur = 0 /\ j.left = 0
    BY DEF IdleJob
  <1>2. job[p].loop \in {"idle", "sweep", "expire"}
    BY DEF TypeOK, JobSpace
  <1>3. CASE job[p].todo = {}
    BY <1>1, <1>3, EnterMoves DEF Return
  <1>4. CASE job[p].todo # {}
    <2>1. PICK j : /\ j = [IdleJob EXCEPT !.loop = job[p].loop, !.todo = job[p].todo]
                   /\ Enter(p, job[p].loop, j)
      BY <1>4 DEF Return
    <2>2. j.cur = 0 /\ j.left = 0
      BY <1>1, <2>1
    <2>3. Enter(p, job[p].loop, j)
      BY <2>1
    <2>4. pc'[p] = job[p].loop /\ job'[p] = j /\ OnlyMoves(p)
      BY <2>3, EnterMoves
    <2> QED
      BY <1>2, <2>2, <2>4
  <1> QED
    BY <1>3, <1>4

LEMMA PromotedMoves ==
    ASSUME TypeOK, NEW p \in Proc, Promoted(p)
    PROVE  /\ OnlyMoves(p)
           /\ \/ /\ job[p].left > 1 /\ pc'[p] = "promote"
                 /\ job'[p].cur = job[p].cur
              \/ /\ pc'[p] \in {"idle", "sweep", "expire"}
                 /\ job'[p].cur = 0 /\ job'[p].left = 0
  <1>1. CASE job[p].left > 1
    <2>1. PICK j : j = [job[p] EXCEPT !.left = @ - 1] /\ Enter(p, "promote", j)
      BY <1>1 DEF Promoted
    <2>2. j.cur = job[p].cur
      BY <2>1 DEF TypeOK, JobSpace
    <2>3. Enter(p, "promote", j)
      BY <2>1
    <2>4. pc'[p] = "promote" /\ job'[p] = j /\ OnlyMoves(p)
      BY <2>3, EnterMoves
    <2> QED
      BY <1>1, <2>2, <2>4
  <1>2. CASE ~(job[p].left > 1)
    BY <1>2, ReturnForgets DEF Promoted
  <1> QED
    BY <1>1, <1>2

\* The entry point that leads to label l.
Admitted(l) ==
    /\ l \in {"acceptCheck", "acceptWrite", "acceptRecheck", "acceptUndo"} => "accept" \in Handlers
    /\ l = "adjustWrite" => "adjust" \in Handlers
    /\ l = "staffInsert" => "staffCreate" \in Handlers
    /\ l = "payWrite" => "checkout" \in Handlers \/ "confirmNow" \in Handlers

\* Nobody is in the middle of a handler that was not let in.
LetIn == \A p \in Proc : Admitted(pc[p])

LEMMA ReturnAdmitted == \A l \in {"idle", "sweep", "expire", "promote"} : Admitted(l)
  BY DEF Admitted

\* Where a handler goes next, and that it moves alone.
LEMMA HandlerMoves ==
    ASSUME TypeOK, LetIn, NEW p \in Proc, Step(p) \/ Cron(p) \/ Request(p) \/ Crash(p)
    PROVE  OnlyMoves(p) /\ Admitted(pc'[p])
  <1>0. Admitted(pc[p])
    BY DEF LetIn
  <1>1. ASSUME NEW l, NEW j, Enter(p, l, j), Admitted(l) PROVE OnlyMoves(p) /\ Admitted(pc'[p])
    BY <1>1, EnterMoves
  <1>2. ASSUME NEW l, Goto(p, l), Admitted(l) PROVE OnlyMoves(p) /\ Admitted(pc'[p])
    BY <1>1, <1>2 DEF Goto
  <1>3. ASSUME Return(p) \/ Promoted(p) PROVE OnlyMoves(p) /\ Admitted(pc'[p])
    BY <1>3, ReturnForgets, PromotedMoves, ReturnAdmitted
  <1>4. CASE CreateInsert(p)
    <2>1. PICK j : Enter(p, "recheck", j)
      BY <1>4 DEF CreateInsert
    <2> QED
      BY <1>1, <2>1 DEF Admitted
  <1>5. CASE CreateRecheck(p) \/ CreateBackOut(p) \/ QueueInsert(p)
    <2>1. \/ Return(p) \/ Goto(p, "backOut") \/ Goto(p, "queue")
          \/ Goto(p, "payWrite") /\ "confirmNow" \in Handlers
      BY <1>5 DEF CreateRecheck, CreateBackOut, QueueInsert
    <2> QED
      BY <1>2, <1>3, <2>1 DEF Admitted
  <1>6. CASE AcceptCheck(p) \/ AcceptWrite(p) \/ AcceptRecheck(p) \/ AcceptUndo(p)
    <2>1. "accept" \in Handlers
      BY <1>0, <1>6 DEF AcceptCheck, AcceptWrite, AcceptRecheck, AcceptUndo, Admitted
    <2>2. \/ Return(p) \/ Goto(p, "acceptWrite") \/ Goto(p, "acceptRecheck")
          \/ Goto(p, "acceptUndo")
      BY <1>6 DEF AcceptCheck, AcceptWrite, AcceptRecheck, AcceptUndo
    <2> QED
      BY <1>2, <1>3, <2>1, <2>2 DEF Admitted
  <1>7. CASE CancelWrite(p) \/ PromoteSelect(p) \/ PromoteCheck(p) \/ PromoteOffer(p)
    <2>1. \/ Return(p) \/ Promoted(p) \/ Goto(p, "offer")
          \/ \E j : Enter(p, "promote", j) \/ Enter(p, "promoteCheck", j)
      BY <1>7 DEF CancelWrite, PromoteSelect, PromoteCheck, PromoteOffer
    <2> QED
      BY <1>1, <1>2, <1>3, <2>1 DEF Admitted
  <1>8. CASE SweepNext(p) \/ ExpireNext(p)
    <2>1. \E j : \/ Enter(p, "idle", j) \/ Enter(p, "cancelWrite", j) \/ Enter(p, "sweep", j)
                \/ Enter(p, "promote", j) \/ Enter(p, "expire", j)
      BY <1>8 DEF SweepNext, ExpireNext
    <2> QED
      BY <1>1, <2>1 DEF Admitted
  <1>9. CASE StaffInsert(p) \/ AdjustWrite(p) \/ PayWrite(p)
    BY <1>3, <1>9 DEF StaffInsert, AdjustWrite, PayWrite
  <1>10. CASE Cron(p) \/ Crash(p)
    <2>1. \E j : Enter(p, "idle", j) \/ Enter(p, "sweep", j) \/ Enter(p, "expire", j)
      BY <1>10 DEF Cron, SweepSelect, ExpireSelect, Crash
    <2> QED
      BY <1>1, <2>1 DEF Admitted
  <1>11. CASE Request(p)
    <2>1. \E l, j : /\ Enter(p, l, j)
                   /\ \/ l \in {"insert", "queue", "cancelWrite"}
                      \/ l = "staffInsert" /\ "staffCreate" \in Handlers
                      \/ l = "acceptCheck" /\ "accept" \in Handlers
                      \/ l = "payWrite" /\ "checkout" \in Handlers
                      \/ l = "adjustWrite" /\ "adjust" \in Handlers
      <3>1. CASE \E w \in Window : CreateCheck(p, w) \/ StaffCheck(p, w)
        BY <3>1 DEF CreateCheck, StaffCheck, Accepts
      <3>2. CASE \E r \in Row : AcceptRead(p, r) \/ CancelRead(p, r) \/ CheckoutRead(p, r)
        BY <3>2 DEF AcceptRead, CancelRead, CheckoutRead, Accepts
      <3>3. CASE \E r \in Row, w \in Window : AdjustCheck(p, r, w)
        BY <3>3 DEF AdjustCheck, Accepts
      <3> QED
        BY <1>11, <3>1, <3>2, <3>3 DEF Request
    <2> QED
      BY <1>1, <2>1 DEF Admitted
  <1> QED
    BY <1>4, <1>5, <1>6, <1>7, <1>8, <1>9, <1>10, <1>11 DEF Step

\* The statement that a handler has come from, by the label it is at.
Arrives(p) ==
    /\ pc'[p] = "recheck" => CreateInsert(p)
    /\ pc'[p] = "backOut" => CreateRecheck(p)
    /\ pc'[p] = "payWrite" => CreateRecheck(p) \/ \E r \in Row : CheckoutRead(p, r)
    /\ pc'[p] = "acceptCheck" => \E r \in Row : AcceptRead(p, r)
    /\ pc'[p] = "acceptWrite" => AcceptCheck(p)
    /\ pc'[p] = "acceptRecheck" => AcceptWrite(p)
    /\ pc'[p] = "acceptUndo" => AcceptRecheck(p)
    /\ pc'[p] = "cancelWrite" => SweepNext(p) \/ \E r \in Row : CancelRead(p, r)
    /\ pc'[p] = "promote" => \/ CancelWrite(p) \/ ExpireNext(p)
                             \/ PromoteSelect(p) \/ PromoteCheck(p) \/ PromoteOffer(p)
    /\ pc'[p] = "promoteCheck" => PromoteSelect(p)
    /\ pc'[p] = "offer" => PromoteCheck(p)

LEMMA Arrivals ==
    ASSUME TypeOK, NEW p \in Proc, Step(p) \/ Cron(p) \/ Request(p) \/ Crash(p)
    PROVE  Arrives(p)
  <1>1. ASSUME NEW l, NEW j, Enter(p, l, j) PROVE pc'[p] = l
    BY <1>1, EnterMoves
  <1>2. ASSUME NEW l, Goto(p, l) PROVE pc'[p] = l
    BY <1>1, <1>2 DEF Goto
  <1>3. ASSUME Return(p) PROVE pc'[p] \in {"idle", "sweep", "expire"}
    BY <1>3, ReturnForgets
  <1>4. ASSUME Promoted(p) PROVE pc'[p] \in {"idle", "sweep", "expire", "promote"}
    BY <1>4, PromotedMoves
  <1>5. CASE CreateInsert(p)
    <2>1. pc'[p] = "recheck"
      BY <1>1, <1>5 DEF CreateInsert
    <2> QED
      BY <1>5, <2>1 DEF Arrives
  <1>6. CASE CreateRecheck(p)
    <2>1. pc'[p] \in {"idle", "sweep", "expire", "payWrite", "backOut"}
      BY <1>2, <1>3, <1>6 DEF CreateRecheck
    <2> QED
      BY <1>6, <2>1 DEF Arrives
  <1>7. CASE CreateBackOut(p) \/ QueueInsert(p)
    <2>1. pc'[p] \in {"idle", "sweep", "expire", "queue"}
      BY <1>2, <1>3, <1>7 DEF CreateBackOut, QueueInsert
    <2> QED
      BY <2>1 DEF Arrives
  <1>8. CASE AcceptCheck(p)
    <2>1. pc'[p] \in {"idle", "sweep", "expire", "acceptWrite"}
      BY <1>2, <1>3, <1>8 DEF AcceptCheck
    <2> QED
      BY <1>8, <2>1 DEF Arrives
  <1>9. CASE AcceptWrite(p)
    <2>1. pc'[p] = "acceptRecheck"
      BY <1>2, <1>9 DEF AcceptWrite
    <2> QED
      BY <1>9, <2>1 DEF Arrives
  <1>10. CASE AcceptRecheck(p)
    <2>1. pc'[p] \in {"idle", "sweep", "expire", "acceptUndo"}
      BY <1>2, <1>3, <1>10 DEF AcceptRecheck
    <2> QED
      BY <1>10, <2>1 DEF Arrives
  <1>11. CASE AcceptUndo(p) \/ StaffInsert(p) \/ AdjustWrite(p) \/ PayWrite(p)
    <2>1. pc'[p] \in {"idle", "sweep", "expire"}
      BY <1>3, <1>11 DEF AcceptUndo, StaffInsert, AdjustWrite, PayWrite
    <2> QED
      BY <2>1 DEF Arrives
  <1>12. CASE CancelWrite(p) \/ ExpireNext(p) \/ PromoteOffer(p)
    <2>1. pc'[p] \in {"idle", "sweep", "expire", "promote"}
      BY <1>1, <1>3, <1>4, <1>12 DEF CancelWrite, ExpireNext, PromoteOffer
    <2> QED
      BY <1>12, <2>1 DEF Arrives
  <1>13. CASE PromoteSelect(p)
    <2>1. pc'[p] \in {"idle", "sweep", "expire", "promote", "promoteCheck"}
      BY <1>1, <1>4, <1>13 DEF PromoteSelect
    <2> QED
      BY <1>13, <2>1 DEF Arrives
  <1>14. CASE PromoteCheck(p)
    <2>1. pc'[p] \in {"idle", "sweep", "expire", "promote", "offer"}
      BY <1>2, <1>4, <1>14 DEF PromoteCheck
    <2> QED
      BY <1>14, <2>1 DEF Arrives
  <1>15. CASE SweepNext(p)
    <2>1. pc'[p] \in {"idle", "sweep", "cancelWrite"}
      BY <1>1, <1>15 DEF SweepNext
    <2> QED
      BY <1>15, <2>1 DEF Arrives
  <1>16. CASE Cron(p) \/ Crash(p)
    <2>1. pc'[p] \in {"idle", "sweep", "expire"}
      BY <1>1, <1>16 DEF Cron, SweepSelect, ExpireSelect, Crash
    <2> QED
      BY <2>1 DEF Arrives
  <1>17. ASSUME NEW r \in Row, CheckoutRead(p, r) PROVE Arrives(p)
    <2>1. pc'[p] = "payWrite"
      BY <1>1, <1>17 DEF CheckoutRead
    <2> QED
      BY <1>17, <2>1 DEF Arrives
  <1>18. ASSUME NEW r \in Row, AcceptRead(p, r) PROVE Arrives(p)
    <2>1. pc'[p] = "acceptCheck"
      BY <1>1, <1>18 DEF AcceptRead
    <2> QED
      BY <1>18, <2>1 DEF Arrives
  <1>19. ASSUME NEW r \in Row, CancelRead(p, r) PROVE Arrives(p)
    <2>1. pc'[p] = "cancelWrite"
      BY <1>1, <1>19 DEF CancelRead
    <2> QED
      BY <1>19, <2>1 DEF Arrives
  <1>20. ASSUME NEW w \in Window, CreateCheck(p, w) \/ StaffCheck(p, w) \/
                                  \E r \in Row : AdjustCheck(p, r, w)
         PROVE  Arrives(p)
    <2>1. pc'[p] \in {"insert", "queue", "staffInsert", "adjustWrite"}
      BY <1>1, <1>20 DEF CreateCheck, StaffCheck, AdjustCheck
    <2> QED
      BY <2>1 DEF Arrives
  <1> QED
    BY <1>5, <1>6, <1>7, <1>8, <1>9, <1>10, <1>11, <1>12, <1>13, <1>14, <1>15, <1>16, <1>17,
       <1>18, <1>19, <1>20 DEF Step, Request

LEMMA LetInStep == ASSUME TypeOK, LetIn, [Next]_vars PROVE LetIn'
  <1>1. ASSUME NEW p \in Proc, Step(p) \/ Cron(p) \/ Request(p) \/ Crash(p) PROVE LetIn'
    BY <1>1, HandlerMoves DEF LetIn, OnlyMoves
  <1>2. CASE Desk \/ AutoComplete \/ Tick \/ UNCHANGED vars
    BY <1>2 DEF LetIn, Desk, Confirm, MarkComplete, MarkNoShow, RecordCashAndComplete,
                UpdateStatus, AutoComplete, Tick, vars
  <1> QED
    BY <1>1, <1>2 DEF Next

LEMMA LetInInit == Init => LetIn
  BY DEF Init, LetIn, Admitted

-----------------------------------------------------------------------------
(* An offer stands only while its row waits *)

\* The hypothesis.  A payment writes 'confirmed' on the row's id alone; with
\* acceptances let in too, that row may have gone back to the queue and been
\* offered a slot since the payment read it, and the offer would stay on it.
NoOfferIsPaid == "accept" \notin Handlers \/ Handlers \cap {"checkout", "confirmNow"} = {}

\* The statements of a booking that is being paid.
Paying(p) == pc[p] = "payWrite" \/ (pc[p] = "recheck" /\ "confirmNow" \in Handlers)

\* A booking that is being paid is not in the queue and has no offer.
PaidIsNotOffered ==
    \A p \in Proc : Paying(p) /\ job[p].cur # 0 =>
        res[job[p].cur].status # "waitlisted" /\ res[job[p].cur].offer = NoOffer

OfferInv == LetIn /\ OfferOnlyWhileWaiting /\ PaidIsNotOffered

\* With nobody accepting, a row out of the queue stays out of it.
LEMMA NeverQueuedAgain ==
    ASSUME TypeOK, LetIn, "accept" \notin Handlers, [Next]_vars, NEW r \in Row,
           res[r].status \notin {"absent", "waitlisted"}, res[r].offer = NoOffer
    PROVE  res'[r].status # "waitlisted" /\ res'[r].offer = NoOffer
  <1>1. RowEffect(r)
    BY RowEffects
  <1>2. ~At("acceptUndo", r) /\ ~At("acceptWrite", r)
    BY DEF At, LetIn, Admitted
  <1> QED
    BY <1>1, <1>2 DEF RowEffect, Inserted, IsNext, Retimed, Paid, Accepted, Undone, BackedOut,
                      Offered, Cancelled, Resolved


\* A row that a booking is being paid for is kept so by every step.
LEMMA PaidIsNotOfferedStep ==
    ASSUME Known, NoOfferIsPaid, OfferInv, [Next]_vars
    PROVE  PaidIsNotOffered'
  <1>0. TypeOK /\ LetIn /\ LetIn' /\ \A p \in Proc : job[p].cur \in {0} \cup Row
    BY LetInStep, JobType DEF Known, OfferInv
  <1>1. CASE Handlers \cap {"checkout", "confirmNow"} = {}
    BY <1>0, <1>1 DEF LetIn, Admitted, PaidIsNotOffered, Paying
  <1>2. CASE "accept" \notin Handlers
    <2> SUFFICES ASSUME NEW p \in Proc, Paying(p)', job'[p].cur # 0
                 PROVE  /\ res'[job'[p].cur].status # "waitlisted"
                        /\ res'[job'[p].cur].offer = NoOffer
      BY DEF PaidIsNotOffered
    <2>1. CASE Paying(p) /\ job'[p].cur = job[p].cur
      <3>1. PICK r \in Row : r = job[p].cur
        BY <1>0, <2>1
      <3>2. res[r].status \notin {"absent", "waitlisted"} /\ res[r].offer = NoOffer
        BY <2>1, <3>1 DEF OfferInv, PaidIsNotOffered, Known, JobsKnown, Row
      <3> QED
        BY <1>0, <1>2, <2>1, <3>1, <3>2, NeverQueuedAgain
    <2>2. ASSUME NEW q \in Proc, Step(q) \/ Cron(q) \/ Request(q) \/ Crash(q), q # p
          PROVE  Paying(p) /\ job'[p].cur = job[p].cur
      BY <1>0, <2>2, HandlerMoves DEF OnlyMoves, Paying
    <2>3. ASSUME Step(p) \/ Cron(p) \/ Request(p) \/ Crash(p),
                 ~(Paying(p) /\ job'[p].cur = job[p].cur)
          PROVE  /\ res'[job'[p].cur].status # "waitlisted"
                 /\ res'[job'[p].cur].offer = NoOffer
      <3>0. Arrives(p) /\ pc'[p] \in {"payWrite", "recheck"}
            /\ (pc'[p] = "recheck" => "confirmNow" \in Handlers)
        BY <1>0, <2>3, Arrivals DEF Paying
      <3>1. CASE CreateInsert(p)
        <4>1. PICK r \in Row, s \in {"scheduled", "confirmed"} :
                /\ res' = [res EXCEPT ![r] = NewRow(job[p].slot, s)]
                /\ Enter(p, "recheck", [job[p] EXCEPT !.cur = r])
          BY <3>1 DEF CreateInsert
        <4>2. [job[p] EXCEPT !.cur = r].cur = r
          BY <1>0 DEF TypeOK, JobSpace
        <4>3. job'[p].cur = r
          BY <1>0, <4>1, <4>2, EnterMoves
        <4> QED
          BY <1>0, <4>1, <4>3, OneRow
      <3>2. CASE CreateRecheck(p) /\ pc'[p] = "payWrite"
        <4>1. Goto(p, "payWrite") /\ "confirmNow" \in Handlers /\ pc[p] = "recheck"
          <5>1. \/ Return(p) \/ Goto(p, "backOut")
                \/ Goto(p, "payWrite") /\ "confirmNow" \in Handlers
            BY <3>2 DEF CreateRecheck
          <5>2. ~Return(p) /\ ~Goto(p, "backOut")
            BY <1>0, <3>2, ReturnForgets, EnterMoves DEF Goto
          <5> QED
            BY <3>2, <5>1, <5>2 DEF CreateRecheck
        <4>2. job'[p] = job[p]
          BY <1>0, <4>1, EnterMoves DEF Goto
        <4> QED
          BY <2>3, <4>1, <4>2 DEF Paying
      <3>3. CASE \E r \in Row : CheckoutRead(p, r)
        <4>1. PICK r \in Row : CheckoutRead(p, r)
          BY <3>3
        <4>2. [IdleJob EXCEPT !.cur = r].cur = r
          BY DEF IdleJob
        <4>3. job'[p].cur = r
          BY <1>0, <4>1, <4>2, EnterMoves DEF CheckoutRead
        <4>4. res[r].status \in Active /\ res' = res
          BY <4>1 DEF CheckoutRead
        <4> QED
          BY <4>3, <4>4 DEF OfferInv, OfferOnlyWhileWaiting, IsLive, Live, Active
      <3> QED
        BY <3>0, <3>1, <3>2, <3>3 DEF Arrives
    <2>4. CASE Desk \/ AutoComplete \/ Tick \/ UNCHANGED vars
      BY <2>1, <2>4 DEF Paying, Desk, Confirm, MarkComplete, MarkNoShow, RecordCashAndComplete,
                        UpdateStatus, AutoComplete, Tick, vars
    <2> QED
      BY <2>1, <2>2, <2>3, <2>4 DEF Next
  <1> QED
    BY <1>1, <1>2 DEF NoOfferIsPaid

LEMMA OfferStep ==
    ASSUME Known, NoOfferIsPaid, OfferInv, [Next]_vars
    PROVE  OfferInv'
  <1>1. LetIn' /\ PaidIsNotOffered'
    BY LetInStep, PaidIsNotOfferedStep DEF Known, OfferInv
  <1>2. ASSUME NEW r \in Row, IsLive(r)' PROVE res'[r].offer = NoOffer
    <2>1. RowEffect(r)
      BY RowEffects DEF Known
    <2>2. IsLive(r) => res[r].offer = NoOffer
      BY DEF OfferInv, OfferOnlyWhileWaiting
    <2>3. Paid(r) => res[r].offer = NoOffer
      BY DEF Paid, At, OfferInv, PaidIsNotOffered, Paying, Row
    <2> QED
      BY <1>2, <2>1, <2>2, <2>3
         DEF RowEffect, Inserted, Retimed, Paid, Accepted, Undone, BackedOut, Offered, Cancelled,
             Resolved, IsLive, Live, Active
  <1> QED
    BY <1>1, <1>2 DEF OfferInv, OfferOnlyWhileWaiting

LEMMA OfferInit == Init => OfferInv
  <1> SUFFICES ASSUME Init PROVE OfferInv
    OBVIOUS
  <1>1. \A r \in Row : ~IsLive(r)
    BY DEF Init, NewRow, IsLive, Live
  <1>2. \A p \in Proc : ~Paying(p)
    BY DEF Init, Paying
  <1> QED
    BY <1>1, <1>2, LetInInit DEF OfferInv, OfferOnlyWhileWaiting, PaidIsNotOffered

\* A row that is booked carries no offer (confirmWaitlisted clears it in the
\* statement that books the row, expireWaitlisted in the one that cancels it),
\* so no offer can lapse under a member who has accepted it.
THEOREM NoOfferOnBooking == NoOfferIsPaid /\ Spec => []OfferOnlyWhileWaiting
  <1> SUFFICES ASSUME NoOfferIsPaid PROVE Spec => []OfferOnlyWhileWaiting
    OBVIOUS
  <1>1. Init => IInv /\ OfferInv
    BY InitIInv, OfferInit
  <1>2. IInv /\ OfferInv /\ [Next]_vars => (IInv /\ OfferInv)'
    BY StepIInv, OfferStep DEF IInv
  <1>3. OfferInv => OfferOnlyWhileWaiting
    BY DEF OfferInv
  <1> QED
    BY <1>1, <1>2, <1>3, PTL DEF Spec

-----------------------------------------------------------------------------
(* Overlaps are always about to be taken back *)

\* The hypothesis: nobody writes a live row, or its window, without scanning
\* the calendar afterwards (createReservation, adjustWindow and payments do),
\* and no request dies between its write and its scan.
EveryWriteIsScanned ==
    Handlers \cap {"staffCreate", "adjust", "checkout", "confirmNow", "crash"} = {}

Rechecking == {"recheck", "backOut", "acceptRecheck", "acceptUndo"}

\* A row that is live without having been scanned has a request that is still
\* to scan it, or to back out.
PendingIsUndecided == \A r \in Row : standing[r] = "pending" => Undecided(r)

NobodyForces == \A r \in Row : standing[r] # "forced"

\* The window a request is about to scan for is the one its row has.
Scanning == {"recheck", "acceptCheck", "acceptWrite", "acceptRecheck"}
ScansItsWindow ==
    \A p \in Proc : pc[p] \in Scanning /\ job[p].cur # 0 => res[job[p].cur].win = job[p].slot

TransientInv == LetIn /\ NobodyForces /\ PendingIsUndecided /\ ScansItsWindow

\* No row that has been inserted changes its window.
LEMMA WindowStays ==
    ASSUME TypeOK, LetIn, "adjust" \notin Handlers, [Next]_vars, NEW r \in Row,
           res[r].status # "absent"
    PROVE  res'[r].win = res[r].win
  <1>1. RowEffect(r)
    BY RowEffects
  <1>2. ~At("adjustWrite", r)
    BY DEF At, LetIn, Admitted
  <1> QED
    BY <1>1, <1>2 DEF RowEffect, Inserted, IsNext, Retimed

\* A handler that goes on with the same job.
LEMMA GotoKeepsJob ==
    ASSUME TypeOK, NEW p \in Proc, NEW l, Goto(p, l)
    PROVE  pc'[p] = l /\ job'[p] = job[p]
  BY EnterMoves DEF Goto

LEMMA ScansItsWindowStep ==
    ASSUME Known, LetIn, "adjust" \notin Handlers, ScansItsWindow, [Next]_vars
    PROVE  ScansItsWindow'
  <1>0. TypeOK /\ \A p \in Proc : job[p].cur \in {0} \cup Row
    BY JobType DEF Known
  <1> SUFFICES ASSUME NEW p \in Proc, pc'[p] \in Scanning, job'[p].cur # 0
               PROVE  res'[job'[p].cur].win = job'[p].slot
    BY DEF ScansItsWindow
  <1>1. CASE pc[p] \in Scanning /\ job'[p] = job[p]
    <2>1. PICK r \in Row : r = job[p].cur
      BY <1>0, <1>1
    <2>2. res[r].status # "absent" /\ res[r].win = job[p].slot
      BY <1>1, <2>1 DEF ScansItsWindow, Known, JobsKnown, Row
    <2> QED
      BY <1>0, <1>1, <2>1, <2>2, WindowStays
  <1>2. ASSUME NEW q \in Proc, Step(q) \/ Cron(q) \/ Request(q) \/ Crash(q), q # p
        PROVE  pc[p] \in Scanning /\ job'[p] = job[p]
    BY <1>0, <1>2, HandlerMoves DEF OnlyMoves
  <1>3. ASSUME Step(p) \/ Cron(p) \/ Request(p) \/ Crash(p)
        PROVE  res'[job'[p].cur].win = job'[p].slot
    <2>0. Arrives(p)
      BY <1>0, <1>3, Arrivals
    <2>1. CASE CreateInsert(p)
      <3>1. PICK r \in Row, s \in {"scheduled", "confirmed"} :
              /\ res' = [res EXCEPT ![r] = NewRow(job[p].slot, s)]
              /\ Enter(p, "recheck", [job[p] EXCEPT !.cur = r])
        BY <2>1 DEF CreateInsert
      <3>2. [job[p] EXCEPT !.cur = r].cur = r /\ [job[p] EXCEPT !.cur = r].slot = job[p].slot
        BY <1>0 DEF TypeOK, JobSpace
      <3>3. job'[p].cur = r /\ job'[p].slot = job[p].slot
        BY <1>0, <3>1, <3>2, EnterMoves
      <3> QED
        BY <1>0, <3>1, <3>3, OneRow
    <2>2. CASE \E r \in Row : AcceptRead(p, r)
      <3>1. PICK r \in Row : AcceptRead(p, r)
        BY <2>2
      <3>2. /\ [IdleJob EXCEPT !.cur = r, !.slot = res[r].win].cur = r
            /\ [IdleJob EXCEPT !.cur = r, !.slot = res[r].win].slot = res[r].win
        BY DEF IdleJob
      <3>3. job'[p].cur = r /\ job'[p].slot = res[r].win /\ res' = res
        BY <1>0, <3>1, <3>2, EnterMoves DEF AcceptRead
      <3> QED
        BY <3>3
    <2>3. CASE AcceptCheck(p) /\ pc'[p] = "acceptWrite"
      <3>1. pc[p] = "acceptCheck" /\ (Goto(p, "acceptWrite") \/ Return(p))
        BY <2>3 DEF AcceptCheck
      <3>2. job'[p] = job[p]
        BY <1>0, <2>3, <3>1, ReturnForgets, GotoKeepsJob
      <3> QED
        BY <1>1, <3>1, <3>2 DEF Scanning
    <2>4. CASE AcceptWrite(p)
      <3>1. pc[p] = "acceptWrite" /\ Goto(p, "acceptRecheck")
        BY <2>4 DEF AcceptWrite
      <3>2. job'[p] = job[p]
        BY <1>0, <3>1, GotoKeepsJob
      <3> QED
        BY <1>1, <3>1, <3>2 DEF Scanning
    <2>5. \/ CreateInsert(p) \/ AcceptWrite(p) \/ \E r \in Row : AcceptRead(p, r)
          \/ AcceptCheck(p) /\ pc'[p] = "acceptWrite"
      BY <2>0 DEF Arrives, Scanning
    <2> QED
      BY <2>1, <2>2, <2>3, <2>4, <2>5
  <1>4. CASE Desk \/ AutoComplete \/ Tick \/ UNCHANGED vars
    BY <1>1, <1>4 DEF Desk, Confirm, MarkComplete, MarkNoShow, RecordCashAndComplete,
                      UpdateStatus, AutoComplete, Tick, vars
  <1> QED
    BY <1>1, <1>2, <1>3, <1>4 DEF Next

\* What a step does to who stands in the calendar, pending: the new pending
\* row is its writer's, and its writer is about to scan; and whoever gives up
\* being about to scan a row leaves it settled or out of the calendar.
PendingKind(p) ==
    /\ OnlyMoves(p)
    /\ \A r \in Row : standing'[r] # "forced"
    /\ \A r \in Row : standing'[r] = "pending" =>
          \/ standing[r] = "pending"
          \/ pc'[p] \in Rechecking /\ job'[p].cur = r
    /\ pc[p] \in Rechecking =>
          \/ pc'[p] \in Rechecking /\ job'[p].cur = job[p].cur
          \/ \A r \in Row : r = job[p].cur => standing'[r] # "pending"

LEMMA PendingKept ==
    ASSUME PendingIsUndecided, NEW p \in Proc, PendingKind(p)
    PROVE  PendingIsUndecided' /\ NobodyForces'
  <1>1. ASSUME NEW r \in Row, standing'[r] = "pending" PROVE Undecided(r)'
    <2>1. CASE pc'[p] \in Rechecking /\ job'[p].cur = r
      BY <2>1 DEF Undecided, Rechecking
    <2>2. CASE ~(pc'[p] \in Rechecking /\ job'[p].cur = r)
      <3>1. PICK q \in Proc : job[q].cur = r /\ pc[q] \in Rechecking
        BY <1>1, <2>2 DEF PendingKind, PendingIsUndecided, Undecided, Rechecking
      <3>2. q # p
        BY <1>1, <2>2, <3>1 DEF PendingKind
      <3>3. job'[q].cur = r /\ pc'[q] \in Rechecking
        BY <3>1, <3>2 DEF PendingKind, OnlyMoves
      <3> QED
        BY <3>3 DEF Undecided, Rechecking
    <2> QED
      BY <2>1, <2>2
  <1> QED
    BY <1>1 DEF PendingIsUndecided, NobodyForces, PendingKind

\* A handler that neither writes a standing nor was about to scan.
LEMMA OtherKind ==
    ASSUME NobodyForces, NEW p \in Proc, OnlyMoves(p), pc[p] \notin Rechecking,
           \A r \in Row : standing'[r] \in {standing[r], "none"}
    PROVE  PendingKind(p)
  BY DEF PendingKind, NobodyForces

\* A scan that passes settles the row it was for: the row still has the window.
LEMMA SettlesIt ==
    ASSUME Known, TransientInv, NEW p \in Proc, OnlyMoves(p), pc[p] \in Scanning,
           Settle(job[p].cur, job[p].slot)
    PROVE  PendingKind(p)
  <1>1. \A q \in Row : \/ standing'[q] = standing[q] /\ q # job[p].cur
                       \/ /\ q = job[p].cur
                          /\ standing'[q] = IF standing[q] = "pending" /\ res[q].win = job[p].slot
                                            THEN "settled" ELSE standing[q]
    BY DEF Known, TypeOK, Settle
  <1>2. \A q \in Row : q = job[p].cur => res[q].win = job[p].slot
    BY DEF TransientInv, ScansItsWindow, Row
  <1> QED
    BY <1>1, <1>2 DEF PendingKind, TransientInv, NobodyForces

LEMMA CreateKind ==
    ASSUME Known, TransientInv, EveryWriteIsScanned, NEW p \in Proc,
           CreateInsert(p) \/ CreateRecheck(p) \/ CreateBackOut(p)
    PROVE  PendingKind(p)
  <1>0. TypeOK /\ OnlyMoves(p) /\ job[p].cur \in {0} \cup Row
    BY JobType, HandlerMoves DEF Known, TransientInv, Step
  <1>1. CASE CreateInsert(p)
    <2>1. PICK r \in Row : /\ standing' = [standing EXCEPT ![r] = "pending"]
                           /\ Enter(p, "recheck", [job[p] EXCEPT !.cur = r])
      BY <1>1 DEF CreateInsert, Stand
    <2>2. [job[p] EXCEPT !.cur = r].cur = r
      BY <1>0 DEF TypeOK, JobSpace
    <2>3. job'[p].cur = r /\ pc'[p] = "recheck"
      BY <1>0, <2>1, <2>2, EnterMoves
    <2>4. \A q \in Row : standing'[q] = IF q = r THEN "pending" ELSE standing[q]
      BY <1>0, <2>1 DEF TypeOK
    <2> QED
      BY <1>0, <1>1, <2>3, <2>4 DEF PendingKind, TransientInv, NobodyForces, Rechecking,
                                    CreateInsert
  <1>2. CASE CreateRecheck(p)
    <2>1. CASE Goto(p, "backOut") /\ UNCHANGED standing
      <3>1. pc'[p] = "backOut" /\ job'[p] = job[p]
        BY <1>0, <2>1, GotoKeepsJob
      <3> QED
        BY <1>0, <2>1, <3>1 DEF PendingKind, TransientInv, NobodyForces, Rechecking
    <2>2. CASE Settle(job[p].cur, job[p].slot)
      BY <1>0, <1>2, <2>2, SettlesIt DEF CreateRecheck, Scanning
    <2> QED
      BY <1>2, <2>1, <2>2 DEF CreateRecheck
  <1>3. CASE CreateBackOut(p)
    <2>1. \A q \in Row : standing'[q] = IF q = job[p].cur THEN "none" ELSE standing[q]
      BY <1>0, <1>3 DEF CreateBackOut, Stand, TypeOK
    <2> QED
      BY <1>0, <2>1 DEF PendingKind, TransientInv, NobodyForces
  <1> QED
    BY <1>1, <1>2, <1>3

LEMMA AcceptKind ==
    ASSUME Known, TransientInv, EveryWriteIsScanned, NEW p \in Proc,
           AcceptCheck(p) \/ AcceptWrite(p) \/ AcceptRecheck(p) \/ AcceptUndo(p)
    PROVE  PendingKind(p)
  <1>0. TypeOK /\ OnlyMoves(p) /\ job[p].cur \in {0} \cup Row
    BY JobType, HandlerMoves DEF Known, TransientInv, Step
  <1>1. CASE AcceptCheck(p)
    BY <1>0, <1>1, OtherKind DEF AcceptCheck, TransientInv, Rechecking
  <1>2. CASE AcceptWrite(p)
    <2>1. /\ standing' = [standing EXCEPT ![job[p].cur] =
                            IF IsLive(job[p].cur) THEN standing[job[p].cur] ELSE "pending"]
          /\ pc[p] = "acceptWrite" /\ Goto(p, "acceptRecheck")
      BY <1>2 DEF AcceptWrite, Stand
    <2>2. pc'[p] = "acceptRecheck" /\ job'[p] = job[p]
      BY <1>0, <2>1, GotoKeepsJob
    <2>3. \A q \in Row : \/ standing'[q] = standing[q]
                         \/ q = job[p].cur /\ standing'[q] = "pending"
      BY <1>0, <2>1 DEF TypeOK
    <2> QED
      BY <1>0, <2>1, <2>2, <2>3 DEF PendingKind, TransientInv, NobodyForces, Rechecking
  <1>3. CASE AcceptRecheck(p)
    <2>1. CASE Goto(p, "acceptUndo") /\ UNCHANGED standing
      <3>1. pc'[p] = "acceptUndo" /\ job'[p] = job[p]
        BY <1>0, <2>1, GotoKeepsJob
      <3> QED
        BY <1>0, <2>1, <3>1 DEF PendingKind, TransientInv, NobodyForces, Rechecking
    <2>2. CASE Settle(job[p].cur, job[p].slot)
      BY <1>0, <1>3, <2>2, SettlesIt DEF AcceptRecheck, Scanning
    <2> QED
      BY <1>3, <2>1, <2>2 DEF AcceptRecheck
  <1>4. CASE AcceptUndo(p)
    <2>1. \A q \in Row : standing'[q] = IF q = job[p].cur THEN "none" ELSE standing[q]
      BY <1>0, <1>4 DEF AcceptUndo, Stand, TypeOK
    <2> QED
      BY <1>0, <2>1 DEF PendingKind, TransientInv, NobodyForces
  <1> QED
    BY <1>1, <1>2, <1>3, <1>4

\* The handlers that never write a live row: cancellations, promotions, crons.
LEMMA QuietKind ==
    ASSUME Known, TransientInv, EveryWriteIsScanned, NEW p \in Proc,
           Step(p) \/ Cron(p) \/ Request(p) \/ Crash(p),
           ~(CreateInsert(p) \/ CreateRecheck(p) \/ CreateBackOut(p)),
           ~(AcceptCheck(p) \/ AcceptWrite(p) \/ AcceptRecheck(p) \/ AcceptUndo(p))
    PROVE  PendingKind(p)
  <1>0. TypeOK /\ OnlyMoves(p) /\ Admitted(pc[p])
    BY HandlerMoves DEF Known, TransientInv, LetIn
  <1>1. ~StaffInsert(p) /\ ~AdjustWrite(p) /\ ~PayWrite(p) /\ ~Crash(p)
    BY <1>0 DEF Admitted, EveryWriteIsScanned, StaffInsert, AdjustWrite, PayWrite, Crash
  <1>2. CASE CancelWrite(p)
    <2>1. \A r \in Row : standing'[r] \in {standing[r], "none"}
      BY <1>0, <1>2 DEF CancelWrite, Stand, TypeOK
    <2>2. pc[p] \notin Rechecking
      BY <1>2 DEF CancelWrite, Rechecking
    <2> QED
      BY <1>0, <2>1, <2>2, OtherKind DEF TransientInv
  <1>3. CASE UNCHANGED standing /\ pc[p] \notin Rechecking
    BY <1>0, <1>3, OtherKind DEF TransientInv
  <1>4. CASE \/ QueueInsert(p) \/ PromoteSelect(p) \/ PromoteCheck(p) \/ PromoteOffer(p)
             \/ SweepNext(p) \/ ExpireNext(p)
    BY <1>3, <1>4 DEF QueueInsert, PromoteSelect, PromoteCheck, PromoteOffer,
                      SweepNext, ExpireNext, Rechecking
  <1>5. CASE Cron(p) \/ Request(p)
    BY <1>3, <1>5 DEF Cron, SweepSelect, ExpireSelect, Request, CreateCheck, StaffCheck,
                      AcceptRead, CancelRead, CheckoutRead, AdjustCheck, Accepts, Rechecking
  <1> QED
    BY <1>1, <1>2, <1>4, <1>5 DEF Step

LEMMA TransientStep ==
    ASSUME Known, TransientInv, EveryWriteIsScanned, [Next]_vars
    PROVE  TransientInv'
  <1>1. LetIn' /\ ScansItsWindow'
    BY LetInStep, ScansItsWindowStep DEF Known, TransientInv, EveryWriteIsScanned
  <1>2. ASSUME NEW p \in Proc, Step(p) \/ Cron(p) \/ Request(p) \/ Crash(p)
        PROVE  PendingIsUndecided' /\ NobodyForces'
    <2>1. PendingKind(p)
      BY <1>2, CreateKind, AcceptKind, QuietKind
    <2> QED
      BY <2>1, PendingKept DEF TransientInv
  <1>3. ASSUME Desk \/ AutoComplete \/ Tick \/ UNCHANGED vars
        PROVE  PendingIsUndecided' /\ NobodyForces'
    <2>1. UNCHANGED <<standing, pc, job>>
      BY <1>3 DEF Desk, Confirm, MarkComplete, MarkNoShow, RecordCashAndComplete,
                  UpdateStatus, AutoComplete, Tick, vars
    <2> QED
      BY <2>1 DEF TransientInv, PendingIsUndecided, NobodyForces, Undecided
  <1>4. PendingIsUndecided' /\ NobodyForces'
    BY <1>2, <1>3 DEF Next
  <1> QED
    BY <1>1, <1>4 DEF TransientInv

LEMMA TransientInit == Init => TransientInv
  BY LetInInit
     DEF Init, TransientInv, NobodyForces, PendingIsUndecided, ScansItsWindow, Scanning

\* A double booking in the table is always one that a request is about to take
\* back: create() and confirmWaitlisted write before they scan, so two of them
\* may both be in the calendar, but then one of them has its scan (or its
\* compensating write) still to run.  For any number of requests that all run
\* to completion.
THEOREM OverlapsEnd == EveryWriteIsScanned /\ Spec => []OverlapIsTransient
  <1> SUFFICES ASSUME EveryWriteIsScanned PROVE Spec => []OverlapIsTransient
    OBVIOUS
  <1>1. Init => IInv /\ TransientInv
    BY InitIInv, TransientInit
  <1>2. IInv /\ TransientInv /\ [Next]_vars => (IInv /\ TransientInv)'
    BY StepIInv, TransientStep DEF IInv
  <1>3. IInv /\ TransientInv => OverlapIsTransient
    <2>1. IInv => \A r \in Row : IsLive(r) => standing[r] \in {"pending", "settled", "forced"}
      BY DEF IInv, Known, TypeOK, StandingIsLive
    <2> QED
      BY <2>1 DEF IInv, TransientInv, NobodyForces, PendingIsUndecided, SettledDisjoint,
                  OverlapIsTransient
  <1> QED
    BY <1>1, <1>2, <1>3, PTL DEF Spec

-----------------------------------------------------------------------------
(* One offer for each cancellation *)

\* The hypothesis: nothing brings a cancelled row back (the writes by id do),
\* so that it is cancelled, and its slot freed, once.
CancelledForEver == Handlers \cap {"accept", "checkout", "confirmNow"} = {}

Gone(r) == res[r].status \in {"cancelled", "deleted"}

AtPromotion == {"promote", "promoteCheck", "offer"}

Promoter(p, r) == pc[p] \in AtPromotion /\ job[p].cur = r

\* Each promoter works for a row that is gone, with one promotion to make, for
\* a slot nobody else is promoting and nobody has been offered.
PromotersApart ==
    \A p \in Proc, r \in {0} \cup Row : Promoter(p, r) =>
        /\ r \in Row /\ Gone(r) /\ job[p].left = 1
        /\ \A q \in Proc : Promoter(q, r) => q = p
        /\ \A q \in Row : via[q] # r

\* No slot was offered to two, and those offered are slots of rows now gone.
OffersApart ==
    \A q \in Row : via[q] # 0 =>
        Gone(via[q]) /\ \A r \in Row : via[r] = via[q] => r = q

CancelsRows == \A p \in Proc : pc[p] = "cancelWrite" => job[p].cur \in Row

OneOfferInv == LetIn /\ CancelsRows /\ PromotersApart /\ OffersApart

\* The row a handler is about to cancel is one it has read.
LEMMA CancellerArrives ==
    ASSUME TypeOK, NEW p \in Proc, Step(p) \/ Cron(p) \/ Request(p) \/ Crash(p),
           pc'[p] = "cancelWrite"
    PROVE  job'[p].cur \in Row
  <1>1. SweepNext(p) \/ \E r \in Row : CancelRead(p, r)
    BY Arrivals DEF Arrives
  <1>2. CASE SweepNext(p)
    <2>1. ~(Enter(p, "idle", IdleJob) \/ \E j : Enter(p, "sweep", j))
      BY EnterMoves
    <2>2. PICK r \in job[p].todo :
            Enter(p, "cancelWrite", [job[p] EXCEPT !.cur = r, !.todo = job[p].todo \ {r}])
      BY <1>2, <2>1 DEF SweepNext
    <2>3. PICK j : j = [job[p] EXCEPT !.cur = r, !.todo = job[p].todo \ {r}]
      OBVIOUS
    <2>4. r \in Row /\ j.cur = r
      BY <2>3 DEF TypeOK, JobSpace
    <2>5. Enter(p, "cancelWrite", j)
      BY <2>2, <2>3
    <2>6. job'[p] = j
      BY <2>5, EnterMoves
    <2> QED
      BY <2>4, <2>6
  <1>3. CASE \E r \in Row : CancelRead(p, r)
    <2>1. PICK r \in Row : Enter(p, "cancelWrite", [IdleJob EXCEPT !.cur = r])
      BY <1>3 DEF CancelRead
    <2>2. [IdleJob EXCEPT !.cur = r].cur = r
      BY DEF IdleJob
    <2> QED
      BY <2>1, <2>2, EnterMoves
  <1> QED
    BY <1>1, <1>2, <1>3

\* How a handler comes to promote: it has cancelled a row just now, once; or
\* it has another promotion to make for the row it cancelled before.
LEMMA PromoterArrives ==
    ASSUME TypeOK, NEW p \in Proc, Arrives(p), pc'[p] = "promote"
    PROVE  \/ /\ job'[p].left = 1 /\ job'[p].cur \in {0} \cup Row
              /\ res[job'[p].cur].status \in Cancellable
              /\ job'[p].cur \in Row => res'[job'[p].cur].status = "cancelled"
              /\ \/ pc[p] = "cancelWrite" /\ job'[p].cur = job[p].cur
                 \/ job'[p].cur \in Row
              /\ via' = via
           \/ /\ pc[p] \in {"promote", "promoteCheck", "offer"}
              /\ job[p].left > 1 /\ job'[p].cur = job[p].cur
  <1>0. job[p].cur \in {0} \cup Row /\ ~Return(p)
    BY JobType, ReturnForgets
  <1>1. CASE CancelWrite(p)
    <2>1. PICK j : /\ j = [job[p] EXCEPT !.left = Promotions("cancel")]
                   /\ Enter(p, "promote", j) /\ res[job[p].cur].status \in Cancellable
                   /\ res' = [res EXCEPT ![job[p].cur].status = "cancelled"]
                   /\ pc[p] = "cancelWrite" /\ via' = via
      BY <1>0, <1>1 DEF CancelWrite, SetStatus
    <2>2. Promotions("cancel") = 1
      BY DEF Promotions, ListenerPromotes
    <2>3. j.cur = job[p].cur /\ j.left = 1
      BY <2>1, <2>2 DEF TypeOK, JobSpace
    <2>4. Enter(p, "promote", j)
      BY <2>1
    <2>5. job'[p] = j
      BY <2>4, EnterMoves
    <2>6. job[p].cur \in Row => res'[job[p].cur].status = "cancelled"
      BY <1>0, <2>1, OneRow
    <2> QED
      BY <1>0, <2>1, <2>3, <2>5, <2>6
  <1>2. CASE ExpireNext(p)
    <2>1. ~(Enter(p, "idle", IdleJob) \/ \E j : Enter(p, "expire", j))
      BY EnterMoves
    <2>2. PICK r \in job[p].todo :
            /\ Enter(p, "promote", [job[p] EXCEPT !.cur = r, !.todo = job[p].todo \ {r},
                                                  !.left = Promotions("waitlist_expired")])
            /\ res[r].status = "waitlisted" /\ via' = via
            /\ res' = [res EXCEPT ![r].status = "cancelled", ![r].offer = NoOffer]
      BY <1>2, <2>1 DEF ExpireNext
    <2> DEFINE j == [job[p] EXCEPT !.cur = r, !.todo = job[p].todo \ {r},
                                   !.left = Promotions("waitlist_expired")]
    <2>3. Promotions("waitlist_expired") = 1
      BY DEF Promotions, ListenerPromotes
    <2>4. r \in Row /\ j.cur = r /\ j.left = 1
      BY <2>2, <2>3 DEF TypeOK, JobSpace
    <2>5. Enter(p, "promote", j)
      BY <2>2
    <2> HIDE DEF j
    <2>6. job'[p] = j
      BY <2>5, EnterMoves
    <2>7. res'[r].status = "cancelled"
      BY <2>2, <2>4, OneRow
    <2> QED
      BY <2>2, <2>4, <2>6, <2>7 DEF Cancellable
  <1>3. CASE PromoteSelect(p) \/ PromoteCheck(p) \/ PromoteOffer(p)
    <2>1. ~Goto(p, "offer") /\ ~\E j : Enter(p, "promoteCheck", j)
      BY EnterMoves DEF Goto
    <2>2. Promoted(p) /\ pc[p] \in {"promote", "promoteCheck", "offer"}
      BY <1>3, <2>1 DEF PromoteSelect, PromoteCheck, PromoteOffer
    <2> QED
      BY <2>2, PromotedMoves
  <1> QED
    BY <1>1, <1>2, <1>3 DEF Arrives

\* What is gone does not come back.
LEMMA GoneForGood ==
    ASSUME TypeOK, LetIn, CancelledForEver, [Next]_vars, NEW r \in Row, Gone(r)
    PROVE  Gone(r)'
  <1>1. RowEffect(r)
    BY RowEffects
  <1>2. ~At("acceptUndo", r) /\ ~At("acceptWrite", r) /\ ~At("payWrite", r)
    BY DEF At, LetIn, Admitted, CancelledForEver
  <1> QED
    BY <1>1, <1>2 DEF RowEffect, Inserted, IsNext, Retimed, Paid, Accepted, Undone, BackedOut,
                      Offered, Cancelled, Resolved, Gone, Active

\* A step that makes no offer, and after which the only promoter who moved
\* either was one for the same row or has just cancelled the row.
QuietStep(p) ==
    /\ OnlyMoves(p) /\ via' = via
    /\ pc'[p] = "cancelWrite" => job'[p].cur \in Row
    /\ pc'[p] \in AtPromotion =>
          /\ job'[p].cur \in Row /\ job'[p].left = 1
          /\ \/ pc[p] \in AtPromotion /\ job'[p].cur = job[p].cur
             \/ ~Gone(job'[p].cur) /\ res'[job'[p].cur].status = "cancelled"

LEMMA QuietKeeps ==
    ASSUME TypeOK, OneOfferInv, CancelledForEver, [Next]_vars,
           NEW p \in Proc, QuietStep(p)
    PROVE  CancelsRows' /\ PromotersApart' /\ OffersApart'
  <1>0. LetIn /\ \A q \in Row : via[q] \in {0} \cup Row
    BY DEF OneOfferInv, TypeOK
  <1>1. \A r \in Row : Gone(r) => Gone(r)'
    BY <1>0, GoneForGood
  <1>2. CancelsRows'
    BY DEF CancelsRows, OneOfferInv, QuietStep, OnlyMoves
  <1>3. OffersApart'
    BY <1>0, <1>1 DEF OneOfferInv, OffersApart, QuietStep, Gone
  <1>4. ASSUME NEW r \in {0} \cup Row, Promoter(p, r)'
        PROVE  /\ r \in Row /\ Gone(r)' /\ job'[p].left = 1
               /\ \A q \in Proc \ {p} : ~Promoter(q, r)
               /\ \A q \in Row : via[q] # r
    <2>1. /\ pc'[p] \in AtPromotion /\ job'[p].cur = r /\ r \in Row /\ job'[p].left = 1
      BY <1>4 DEF Promoter, QuietStep
    <2>2. CASE pc[p] \in AtPromotion /\ r = job[p].cur
      <3>1. Promoter(p, r)
        BY <2>2 DEF Promoter
      <3> QED
        BY <1>1, <2>1, <3>1 DEF OneOfferInv, PromotersApart
    <2>3. CASE ~Gone(r) /\ res'[r].status = "cancelled"
      <3>1. Gone(r)'
        BY <2>3 DEF Gone
      <3>2. \A q \in Proc : ~Promoter(q, r)
        BY <2>1, <2>3 DEF OneOfferInv, PromotersApart
      <3>3. \A q \in Row : via[q] # r
        BY <2>1, <2>3 DEF OneOfferInv, OffersApart, Row
      <3> QED
        BY <2>1, <3>1, <3>2, <3>3
    <2> QED
      BY <2>1, <2>2, <2>3 DEF QuietStep
  <1>5. \A q \in Proc \ {p}, r \in {0} \cup Row : Promoter(q, r)' <=> Promoter(q, r)
    BY DEF Promoter, QuietStep, OnlyMoves
  <1>6. \A q \in Proc \ {p} : job'[q] = job[q]
    BY DEF QuietStep, OnlyMoves
  <1>7. via' = via
    BY DEF QuietStep
  <1>8. ASSUME NEW q \in Proc, NEW r \in {0} \cup Row, Promoter(q, r)'
        PROVE  /\ r \in Row /\ Gone(r)' /\ job'[q].left = 1
               /\ \A t \in Proc : Promoter(t, r)' => t = q
               /\ \A t \in Row : via[t] # r
    <2>1. CASE q = p
      BY <1>4, <1>5, <1>8, <2>1
    <2>2. CASE q # p
      <3>1. Promoter(q, r)
        BY <1>5, <1>8, <2>2
      <3>2. /\ r \in Row /\ Gone(r) /\ job[q].left = 1
            /\ \A t \in Proc : Promoter(t, r) => t = q
            /\ \A t \in Row : via[t] # r
        BY <3>1 DEF OneOfferInv, PromotersApart
      <3>3. ~Promoter(p, r)'
        BY <1>4, <2>2, <3>1
      <3> QED
        BY <1>1, <1>5, <1>6, <2>2, <3>2, <3>3
    <2> QED
      BY <2>1, <2>2
  <1>9. PromotersApart'
    BY <1>7, <1>8 DEF PromotersApart
  <1> QED
    BY <1>2, <1>3, <1>9

\* The statement that makes the offer: its promoter is the slot's only one, and
\* is done with it.
LEMMA OfferMade ==
    ASSUME TypeOK, OneOfferInv, CancelledForEver, [Next]_vars,
           NEW p \in Proc, PromoteOffer(p)
    PROVE  CancelsRows' /\ PromotersApart' /\ OffersApart'
  <1>0. /\ LetIn /\ \A q \in Row : via[q] \in {0} \cup Row
        /\ job[p].cand \in {0} \cup Row /\ job[p].cur \in {0} \cup Row
    BY JobType DEF OneOfferInv, TypeOK
  <1>1. Promoter(p, job[p].cur)
    BY DEF PromoteOffer, Promoter, AtPromotion
  <1>2. PICK c \in Row : c = job[p].cur
    BY <1>0, <1>1 DEF OneOfferInv, PromotersApart
  <1>3. /\ Gone(c) /\ job[p].left = 1
        /\ \A q \in Proc : Promoter(q, c) => q = p
        /\ \A q \in Row : via[q] # c
    BY <1>1, <1>2 DEF OneOfferInv, PromotersApart
  <1>4. pc'[p] \in {"idle", "sweep", "expire"} /\ OnlyMoves(p)
    BY <1>3, PromotedMoves DEF PromoteOffer
  <1>5. CASE via' = via
    BY <1>4, <1>5, QuietKeeps DEF QuietStep, AtPromotion
  <1>6. CASE via' # via
    <2>1. via' = [via EXCEPT ![job[p].cand] = c]
      BY <1>2, <1>6 DEF PromoteOffer
    <2>2. \A q \in Row : via'[q] = IF q = job[p].cand THEN c ELSE via[q]
      BY <2>1 DEF TypeOK
    <2>3. \A r \in Row : Gone(r) => Gone(r)'
      BY <1>0, GoneForGood
    <2>4. CancelsRows'
      BY <1>4 DEF CancelsRows, OneOfferInv, OnlyMoves
    <2>5. OffersApart'
      <3>1. ASSUME NEW q \in Row, via'[q] # 0
            PROVE  /\ via'[q] \in Row /\ Gone(via'[q])
                   /\ \A r \in Row : via'[r] = via'[q] => r = q
        BY <1>0, <1>3, <2>2, <3>1 DEF OneOfferInv, OffersApart
      <3>2. ASSUME NEW q \in Row, via'[q] # 0 PROVE Gone(via[q])'
        <4>1. PICK r \in Row : r = via'[q]
          BY <3>1, <3>2
        <4>2. Gone(r)'
          BY <2>3, <3>1, <3>2, <4>1
        <4> QED
          BY <4>1, <4>2 DEF Gone
      <3> QED
        BY <3>1, <3>2 DEF OffersApart
    <2>6. \A q \in Proc, r \in {0} \cup Row : Promoter(q, r)' => q # p /\ Promoter(q, r)
      BY <1>4 DEF Promoter, OnlyMoves, AtPromotion
    <2>7. ASSUME NEW q \in Proc, NEW r \in {0} \cup Row, Promoter(q, r)'
          PROVE  /\ r \in Row /\ Gone(r)' /\ job'[q].left = 1
                 /\ \A t \in Proc : Promoter(t, r)' => t = q
                 /\ \A t \in Row : via'[t] # r
      <3>1. q # p /\ Promoter(q, r)
        BY <2>6, <2>7
      <3>2. /\ r \in Row /\ Gone(r) /\ job[q].left = 1
            /\ \A t \in Proc : Promoter(t, r) => t = q
            /\ \A t \in Row : via[t] # r
        BY <3>1 DEF OneOfferInv, PromotersApart
      <3>3. r # c /\ job'[q] = job[q]
        BY <1>3, <1>4, <3>1 DEF OnlyMoves
      <3> QED
        BY <2>2, <2>3, <2>6, <3>2, <3>3
    <2>8. PromotersApart'
      BY <2>7 DEF PromotersApart
    <2> QED
      BY <2>4, <2>5, <2>8
  <1> QED
    BY <1>5, <1>6

\* Every other statement is quiet.
LEMMA OthersQuiet ==
    ASSUME TypeOK, OneOfferInv, NEW p \in Proc,
           Step(p) \/ Cron(p) \/ Request(p) \/ Crash(p), ~PromoteOffer(p)
    PROVE  QuietStep(p)
  <1>0. LetIn /\ OnlyMoves(p) /\ Arrives(p)
    BY HandlerMoves, Arrivals DEF OneOfferInv
  <1>1. via' = via
    <2>1. CASE Step(p)
      BY <2>1 DEF Step, CreateInsert, CreateRecheck, CreateBackOut, QueueInsert, AcceptCheck,
                  AcceptWrite, AcceptRecheck, AcceptUndo, CancelWrite, PromoteSelect,
                  PromoteCheck, SweepNext, ExpireNext, StaffInsert, AdjustWrite, PayWrite
    <2>2. CASE Cron(p) \/ Request(p) \/ Crash(p)
      BY <2>2 DEF Cron, SweepSelect, ExpireSelect, Request, CreateCheck, StaffCheck,
                  AcceptRead, CancelRead, CheckoutRead, AdjustCheck, Crash
    <2> QED
      BY <2>1, <2>2
  <1>2. pc'[p] = "cancelWrite" => job'[p].cur \in Row
    BY CancellerArrives
  <1>3. ASSUME pc[p] \in AtPromotion
        PROVE  job[p].cur \in Row /\ job[p].left = 1
    <2>1. job[p].cur \in {0} \cup Row /\ Promoter(p, job[p].cur)
      BY <1>3, JobType DEF Promoter
    <2> QED
      BY <2>1 DEF OneOfferInv, PromotersApart
  <1>4. ASSUME pc'[p] = "promote" PROVE QuietStep(p)
    <2>1. ~(pc[p] \in AtPromotion /\ job[p].left > 1)
      BY <1>3
    <2>2. /\ job'[p].left = 1 /\ job'[p].cur \in {0} \cup Row
          /\ res[job'[p].cur].status \in Cancellable
          /\ job'[p].cur \in Row => res'[job'[p].cur].status = "cancelled"
          /\ \/ pc[p] = "cancelWrite" /\ job'[p].cur = job[p].cur
             \/ job'[p].cur \in Row
      BY <1>0, <1>4, <2>1, PromoterArrives DEF AtPromotion
    <2>3. job'[p].cur \in Row
      BY <2>2 DEF OneOfferInv, CancelsRows
    <2> QED
      BY <1>0, <1>1, <1>4, <2>2, <2>3 DEF QuietStep, Gone, Cancellable
  <1>5. ASSUME pc'[p] = "promoteCheck" PROVE QuietStep(p)
    <2>1. pc[p] = "promote" /\ ~Promoted(p)
      BY <1>0, <1>5, PromotedMoves DEF Arrives, PromoteSelect
    <2>2. PICK c : Enter(p, "promoteCheck", [job[p] EXCEPT !.cand = c])
      BY <1>0, <1>5, <2>1 DEF Arrives, PromoteSelect
    <2> DEFINE j == [job[p] EXCEPT !.cand = c]
    <2>3. j.cur = job[p].cur /\ j.left = job[p].left /\ Enter(p, "promoteCheck", j)
      BY <2>2 DEF TypeOK, JobSpace
    <2> HIDE DEF j
    <2>4. job'[p] = j
      BY <2>3, EnterMoves
    <2> QED
      BY <1>0, <1>1, <1>3, <1>5, <2>1, <2>3, <2>4 DEF QuietStep, AtPromotion
  <1>6. ASSUME pc'[p] = "offer" PROVE QuietStep(p)
    <2>1. pc[p] = "promoteCheck" /\ ~Promoted(p) /\ PromoteCheck(p)
      BY <1>0, <1>6, PromotedMoves DEF Arrives, PromoteCheck
    <2>2. job'[p] = job[p]
      BY <2>1, GotoKeepsJob DEF PromoteCheck
    <2> QED
      BY <1>0, <1>1, <1>3, <1>6, <2>1, <2>2 DEF QuietStep, AtPromotion
  <1>7. CASE pc'[p] \notin AtPromotion
    BY <1>0, <1>1, <1>2, <1>7 DEF QuietStep
  <1> QED
    BY <1>4, <1>5, <1>6, <1>7 DEF AtPromotion

LEMMA OneOfferStep ==
    ASSUME TypeOK, OneOfferInv, CancelledForEver, [Next]_vars
    PROVE  OneOfferInv'
  <1>0. LetIn'
    BY LetInStep DEF OneOfferInv
  <1>1. ASSUME NEW p \in Proc, Step(p) \/ Cron(p) \/ Request(p) \/ Crash(p)
        PROVE  CancelsRows' /\ PromotersApart' /\ OffersApart'
    BY <1>1, OthersQuiet, QuietKeeps, OfferMade
  <1>2. ASSUME Desk \/ AutoComplete \/ Tick \/ UNCHANGED vars
        PROVE  CancelsRows' /\ PromotersApart' /\ OffersApart'
    <2>1. UNCHANGED <<via, pc, job>>
      BY <1>2 DEF Desk, Confirm, MarkComplete, MarkNoShow, RecordCashAndComplete,
                  UpdateStatus, AutoComplete, Tick, vars
    <2>2. \A r \in Row : Gone(r) => Gone(r)'
      BY GoneForGood DEF OneOfferInv
    <2>3. \A q \in Row : via[q] \in {0} \cup Row
      BY DEF TypeOK
    <2>4. CancelsRows' /\ OffersApart'
      BY <2>1, <2>2, <2>3 DEF OneOfferInv, CancelsRows, OffersApart, Gone
    <2>5. \A q \in Proc, r \in {0} \cup Row : Promoter(q, r)' = Promoter(q, r)
      BY <2>1 DEF Promoter
    <2>6. PromotersApart'
      BY <2>1, <2>2, <2>5 DEF OneOfferInv, PromotersApart
    <2> QED
      BY <2>4, <2>6
  <1>3. CancelsRows' /\ PromotersApart' /\ OffersApart'
    BY <1>1, <1>2 DEF Next
  <1> QED
    BY <1>0, <1>3 DEF OneOfferInv

LEMMA OneOfferInit == Init => OneOfferInv
  BY LetInInit DEF Init, OneOfferInv, CancelsRows, PromotersApart, OffersApart, Promoter,
                   AtPromotion

\* One cancellation makes one offer: the listener leaves it to the expiry job
\* when that job emitted the event ("promoting again here would ... hand the
\* same slot to two people", register-listeners.ts), and of two cancels of one
\* row only one finds it cancellable.
THEOREM SlotOfferedOnce == CancelledForEver /\ Spec => []OneOfferPerCancellation
  <1> SUFFICES ASSUME CancelledForEver PROVE Spec => []OneOfferPerCancellation
    OBVIOUS
  <1>1. Init => TypeOK /\ OneOfferInv
    BY InitType, OneOfferInit
  <1>2. TypeOK /\ OneOfferInv /\ [Next]_vars => (TypeOK /\ OneOfferInv)'
    BY TypeStep, OneOfferStep
  <1>3. OneOfferInv => OneOfferPerCancellation
    BY DEF OneOfferInv, OffersApart, OneOfferPerCancellation
  <1> QED
    BY <1>1, <1>2, <1>3, PTL DEF Spec

-----------------------------------------------------------------------------
(* First come, first served *)

\* The hypothesis: no row comes back to the queue with its old place in it (an
\* acceptance that lost its race does); and no row whose slot is being promoted
\* is brought back by a payment and then re-timed.
QueueKeepsOrder == "accept" \notin Handlers /\ ("adjust" \notin Handlers \/ CancelledForEver)

\* The rows not yet inserted are the last ones: rows are numbered in the order
\* (created_at, id) in which the queue is served.
NewestLast ==
    \A q, r \in Row : q < r /\ res[q].status = "absent" => res[r].status = "absent"

Promoting == {"cancelWrite"} \cup AtPromotion

\* Whoever promotes does it for a row, and once it has chosen a candidate
\* nobody who joined the queue before them waits for part of that row's window.
PromotesTheFirst ==
    \A p \in Proc :
        /\ pc[p] \in Promoting => job[p].cur \in Row
        /\ pc[p] \in {"promoteCheck", "offer"} =>
              /\ job[p].cand \in Row /\ res[job[p].cand].status # "absent"
              /\ \A q \in Waiting(res[job[p].cur].win) : job[p].cand <= q

QueueInv ==
    LetIn /\ NewestLast /\ PromotesTheFirst /\ (CancelledForEver => OneOfferInv)

\* Only an insertion brings a row into the table.
LEMMA OnlyInsertsAppear ==
    ASSUME Known, [Next]_vars, NEW r \in Row,
           res[r].status = "absent", res'[r].status # "absent"
    PROVE  IsNext(r)
  <1>1. RowEffect(r)
    BY RowEffects DEF Known
  <1>2. \A l : ~At(l, r)
    BY DEF At, Known, JobsKnown, Row
  <1> QED
    BY <1>1, <1>2 DEF RowEffect, Inserted, Retimed, Paid, Accepted, Undone, BackedOut, Offered,
                      Cancelled, Resolved, Active, Cancellable

LEMMA NewestLastStep ==
    ASSUME Known, NewestLast, [Next]_vars
    PROVE  NewestLast'
  <1> SUFFICES ASSUME NEW q \in Row, NEW r \in Row, q < r, res'[q].status = "absent",
                      res'[r].status # "absent"
               PROVE  FALSE
    BY DEF NewestLast
  <1>1. res[q].status = "absent"
    BY StepFacts DEF Facts, TableFacts, Grows
  <1>2. res[r].status = "absent"
    BY <1>1 DEF NewestLast
  <1>3. IsNext(r)
    BY <1>2, OnlyInsertsAppear
  <1>4. q \in 1 .. (r - 1)
    BY DEF Row
  <1> QED
    BY <1>1, <1>3, <1>4 DEF IsNext

\* Nobody joins those who wait for part of a window but the row inserted last.
LEMMA WaitingGrows ==
    ASSUME TypeOK, LetIn, QueueKeepsOrder, [Next]_vars, NEW w, NEW q \in Waiting(w)'
    PROVE  q \in Row /\ (q \in Waiting(w) \/ IsNext(q))
  <1>1. /\ q \in Row /\ res'[q].status = "waitlisted" /\ res'[q].offer = NoOffer
        /\ Overlaps(res'[q].win, w)
    BY DEF Waiting
  <1>2. RowEffect(q)
    BY <1>1, RowEffects
  <1>3. ~At("acceptUndo", q)
    BY DEF At, LetIn, Admitted, QueueKeepsOrder
  <1>4. IsNext(q) \/ /\ res[q].status = "waitlisted" /\ res[q].offer = NoOffer
                     /\ res'[q].win = res[q].win
    BY <1>1, <1>2, <1>3 DEF RowEffect, Inserted, Retimed, Paid, Accepted, Undone, BackedOut,
                            Offered, Cancelled, Resolved, Active
  <1> QED
    BY <1>1, <1>4 DEF Waiting

\* The candidate stays the first of those who wait.
LEMMA FirstKept ==
    ASSUME Known, LetIn, NewestLast, QueueKeepsOrder, [Next]_vars,
           NEW r \in Row, res[r].status # "absent", CancelledForEver => Gone(r),
           NEW c \in Row, res[c].status # "absent",
           \A q \in Waiting(res[r].win) : c <= q
    PROVE  /\ res'[c].status # "absent"
           /\ \A q \in Waiting(res[r].win)' : c <= q
  <1>1. PICK w : w = res[r].win
    OBVIOUS
  <1>2. res'[r].win = w
    <2>1. CASE "adjust" \notin Handlers
      BY <1>1, <2>1, WindowStays DEF Known
    <2>2. CASE CancelledForEver
      BY <1>1, <2>2, RowEffects
         DEF Known, Gone, RowEffect, Inserted, IsNext, Retimed, Active
    <2> QED
      BY <2>1, <2>2 DEF QueueKeepsOrder
  <1>3. \A q \in Row : IsNext(q) => c <= q
    BY DEF IsNext, NewestLast, Row
  <1>4. \A q \in Waiting(w)' : c <= q
    BY <1>1, <1>3, WaitingGrows DEF Known
  <1>5. res'[c].status # "absent"
    BY StepFacts DEF Facts, TableFacts, Grows
  <1> QED
    BY <1>2, <1>4, <1>5 DEF Waiting

LEMMA PromotesTheFirstStep ==
    ASSUME Known, QueueInv, QueueKeepsOrder, [Next]_vars
    PROVE  PromotesTheFirst'
  <1>0. TypeOK /\ LetIn /\ NewestLast
    BY DEF Known, QueueInv
  <1> SUFFICES ASSUME NEW p \in Proc
               PROVE  /\ pc'[p] \in Promoting => job'[p].cur \in Row
                      /\ pc'[p] \in {"promoteCheck", "offer"} =>
                            /\ job'[p].cand \in Row /\ res'[job'[p].cand].status # "absent"
                            /\ \A q \in Waiting(res[job[p].cur].win)' : job'[p].cand <= q
    BY DEF PromotesTheFirst
  <1>1. ASSUME pc[p] \in Promoting, job'[p] = job[p],
               pc'[p] \in {"promoteCheck", "offer"} => pc[p] \in {"promoteCheck", "offer"}
        PROVE  /\ job'[p].cur \in Row
               /\ pc'[p] \in {"promoteCheck", "offer"} =>
                     /\ job'[p].cand \in Row /\ res'[job'[p].cand].status # "absent"
                     /\ \A q \in Waiting(res[job[p].cur].win)' : job'[p].cand <= q
    <2>1. PICK r \in Row : r = job[p].cur
      BY <1>1 DEF QueueInv, PromotesTheFirst
    <2>2. job'[p].cur = r /\ job'[p].cand = job[p].cand
      BY <1>1, <2>1
    <2>3. res[r].status # "absent"
      BY <2>1 DEF Known, JobsKnown, Row
    <2>4. ASSUME pc[p] \in {"promoteCheck", "offer"}
          PROVE  /\ job'[p].cand \in Row /\ res'[job'[p].cand].status # "absent"
                 /\ \A q \in Waiting(res[job[p].cur].win)' : job'[p].cand <= q
      <3>1. PICK c \in Row : c = job[p].cand
        BY <2>4 DEF QueueInv, PromotesTheFirst
      <3>2. res[c].status # "absent" /\ \A q \in Waiting(res[r].win) : c <= q
        BY <2>1, <2>4, <3>1 DEF QueueInv, PromotesTheFirst
      <3>3. CancelledForEver => Gone(r)
        BY <2>1, <2>4 DEF QueueInv, OneOfferInv, PromotersApart, Promoter, AtPromotion
      <3>4. res'[c].status # "absent" /\ \A q \in Waiting(res[r].win)' : c <= q
        BY <1>0, <2>3, <3>2, <3>3, FirstKept
      <3>5. Waiting(res[job[p].cur].win)' = Waiting(res[r].win)'
        BY <2>2 DEF Waiting
      <3> QED
        BY <2>2, <3>1, <3>4, <3>5
    <2> QED
      BY <1>1, <2>2, <2>4
  <1>2. ASSUME NEW q \in Proc, Step(q) \/ Cron(q) \/ Request(q) \/ Crash(q), q # p
        PROVE  pc'[p] = pc[p] /\ job'[p] = job[p]
    BY <1>0, <1>2, HandlerMoves DEF OnlyMoves
  <1>3. ASSUME Step(p) \/ Cron(p) \/ Request(p) \/ Crash(p)
        PROVE  /\ pc'[p] \in Promoting => job'[p].cur \in Row
               /\ pc'[p] \in {"promoteCheck", "offer"} =>
                     /\ job'[p].cand \in Row /\ res'[job'[p].cand].status # "absent"
                     /\ \A q \in Waiting(res[job[p].cur].win)' : job'[p].cand <= q
    <2>0. Arrives(p)
      BY <1>0, <1>3, Arrivals
    <2>1. ASSUME pc'[p] = "promoteCheck"
          PROVE  /\ job'[p].cur \in Row
                 /\ job'[p].cand \in Row /\ res'[job'[p].cand].status # "absent"
                 /\ \A q \in Waiting(res[job[p].cur].win)' : job'[p].cand <= q
      <3>1. pc[p] = "promote" /\ UNCHANGED res
        BY <2>0, <2>1 DEF Arrives, PromoteSelect
      <3>2. ~Promoted(p)
        BY <1>0, <2>1, PromotedMoves
      <3>3. PICK c \in Waiting(res[job[p].cur].win) :
              /\ IsOldest(c, Waiting(res[job[p].cur].win))
              /\ Enter(p, "promoteCheck", [job[p] EXCEPT !.cand = c])
        BY <2>0, <2>1, <3>2 DEF Arrives, PromoteSelect
      <3> DEFINE j == [job[p] EXCEPT !.cand = c]
      <3>4. j.cur = job[p].cur /\ j.cand = c /\ Enter(p, "promoteCheck", j)
        BY <1>0, <3>3 DEF TypeOK, JobSpace
      <3> HIDE DEF j
      <3>5. job'[p].cur = job[p].cur /\ job'[p].cand = c
        BY <1>0, <3>4, EnterMoves
      <3>6. job[p].cur \in Row /\ c \in Row /\ res[c].status # "absent"
        BY <3>1, <3>3 DEF QueueInv, PromotesTheFirst, Promoting,
                               AtPromotion, Waiting
      <3>7. Waiting(res[job[p].cur].win)' = Waiting(res[job[p].cur].win)
        BY <3>1, <3>5 DEF Waiting
      <3> QED
        BY <3>1, <3>3, <3>5, <3>6, <3>7 DEF IsOldest
    <2>2. ASSUME pc'[p] = "offer"
          PROVE  pc[p] = "promoteCheck" /\ job'[p] = job[p]
      <3>1. pc[p] = "promoteCheck" /\ (Goto(p, "offer") \/ Promoted(p))
        BY <2>0, <2>2 DEF Arrives, PromoteCheck
      <3>2. ~Promoted(p)
        BY <1>0, <2>2, PromotedMoves
      <3> QED
        BY <1>0, <3>1, <3>2, GotoKeepsJob
    <2>3. ASSUME pc'[p] = "promote" PROVE job'[p].cur \in Row
      BY <1>0, <2>0, <2>3, PromoterArrives DEF Arrives, QueueInv, PromotesTheFirst, Promoting,
                                                    AtPromotion
    <2>4. ASSUME pc'[p] = "cancelWrite" PROVE job'[p].cur \in Row
      BY <1>0, <1>3, <2>4, CancellerArrives
    <2> QED
      BY <1>1, <2>1, <2>2, <2>3, <2>4 DEF Promoting, AtPromotion
  <1>4. ASSUME Desk \/ AutoComplete \/ Tick \/ UNCHANGED vars
        PROVE  pc'[p] = pc[p] /\ job'[p] = job[p]
    BY <1>4 DEF Desk, Confirm, MarkComplete, MarkNoShow, RecordCashAndComplete,
                UpdateStatus, AutoComplete, Tick, vars
  <1> QED
    <2>1. CASE \E q \in Proc : Step(q) \/ Cron(q) \/ Request(q) \/ Crash(q)
      BY <1>1, <1>2, <1>3, <2>1 DEF Promoting, AtPromotion
    <2>2. CASE Desk \/ AutoComplete \/ Tick \/ UNCHANGED vars
      BY <1>1, <1>4, <2>2 DEF Promoting, AtPromotion
    <2> QED
      BY <2>1, <2>2 DEF Next

LEMMA QueueInit == Init => QueueInv
  BY LetInInit, OneOfferInit
     DEF Init, QueueInv, NewestLast, PromotesTheFirst, Promoting, AtPromotion, NewRow

\* Whoever is offered a freed slot joined the queue before everybody who still
\* waits for part of it: promoteNext picks and offers in two statements, and no
\* cancellation, insertion, sweep, payment or crash between them changes that.
THEOREM ServedInOrder == QueueKeepsOrder /\ Spec => FirstComeFirstServed
  <1> SUFFICES ASSUME QueueKeepsOrder PROVE Spec => FirstComeFirstServed
    OBVIOUS
  <1>1. Init => IInv /\ QueueInv
    BY InitIInv, QueueInit
  <1>2. IInv /\ QueueInv /\ [Next]_vars => (IInv /\ QueueInv)'
    BY StepIInv, LetInStep, NewestLastStep, PromotesTheFirstStep, OneOfferStep
       DEF IInv, Known, QueueInv
  <1>3. QueueInv /\ [Next]_vars =>
          [\A p \in Proc : pc[p] = "offer" /\ res' # res =>
              \A q \in Waiting(res[job[p].cur].win) : job[p].cand <= q]_vars
    BY DEF QueueInv, PromotesTheFirst
  <1> QED
    BY <1>1, <1>2, <1>3, PTL DEF Spec, FirstComeFirstServed
=============================================================================
