----------------------------- MODULE RoomBooking -----------------------------
(***************************************************************************)
(* The practice-room calendar: reservation-service.ts, waitlist-service.ts,*)
(* the waitlist listener, checkout-listener.ts and the forms of            *)
(* reservations.remote.ts that write a reservation's status or window.     *)
(*                                                                         *)
(* D1 has no interactive transactions, so the atomic step is one awaited   *)
(* statement.  Every handler is a process that runs one statement per      *)
(* action and keeps in job[p] what it has read so far; between two of its  *)
(* statements any other request, cron job or webhook may run.              *)
(*                                                                         *)
(* Left out: who may call what (authorization), prices and money, e-mails, *)
(* program holds, closures and opening hours.                              *)
(***************************************************************************)
EXTENDS Timespan, FiniteSets

CONSTANTS
    MaxRow,         \* bound: how many reservation rows are ever inserted
    Proc,           \* requests, webhooks and cron invocations in flight at once
    Window,         \* the windows somebody may ask for
    MaxTime,        \* bound: the last instant of the clock
    ConfirmLead,    \* CONFIRMATION_WINDOW_DAYS
    OfferTTL,       \* WAITLIST_WINDOW_MS
    Buffer,         \* config.bufferMinutes
    Handlers        \* the entry points this instance lets in

HandlerNames ==
    {"create", "queue", "accept", "cancel", "staffCancel", "staffCreate",
     "adjust", "override", "desk", "checkout", "confirmNow", "sweep",
     "expire", "autoComplete", "crash"}

ASSUME BookingAssumption ==
    /\ MaxRow \in Nat /\ MaxTime \in Nat
    /\ ConfirmLead \in Nat /\ OfferTTL \in Nat \ {0} /\ Buffer \in Nat
    /\ \A w \in Window : IsSpan(w)
    /\ Handlers \subseteq HandlerNames

\* Rows are numbered in the order they are inserted, the order
\* (created_at, id) that the waitlist is served in.
Row  == 1 .. MaxRow
Time == 0 .. MaxTime

\* waitlist_notified_at and waitlist_expires_at are set and cleared together,
\* so one field stands for both: the expiry of the offer, or NoOffer (NULL).
NoOffer == 0
Expiry  == 0 .. (MaxTime + OfferTTL)

\* notInArray(status, ['cancelled', 'waitlisted']): the rows a conflict scan sees
Live        == {"scheduled", "confirmed", "completed", "no_show"}
Active      == {"scheduled", "confirmed"}
Cancellable == {"scheduled", "confirmed", "waitlisted"}
Status      == Live \cup {"waitlisted", "cancelled", "absent", "deleted"}

VARIABLES
    now,        \* Date.now()
    res,        \* res[r]: the reservation row
    standing,   \* history: how row r came to hold its window (see TypeOK)
    via,        \* history: the cancelled row whose slot row r was last offered
    pc,         \* the next statement of process p
    job         \* what process p has read and not yet acted on

vars == <<now, res, standing, via, pc, job>>

-----------------------------------------------------------------------------
(* Database predicates: the WHERE clauses. *)

Exists(r) == res[r].status \notin {"absent", "deleted"}
IsLive(r) == res[r].status \in Live
IsNext(r) == res[r].status = "absent" /\ \A q \in 1 .. (r - 1) : res[q].status # "absent"

\* Mutant: the scan asks for confirmed rows only.
BlockersConfirmed(w, except) ==
    {q \in Row \ {except} : res[q].status = "confirmed" /\ Overlaps(res[q].win, w)}

\* The conflict scan, with ne(reservation.id, except).
Blockers(w, except) ==
    {q \in Row \ {except} : IsLive(q) /\ Overlaps(res[q].win, w)}

BufferedBlockers(w, except) ==
    {q \in Row \ {except} : IsLive(q) /\ OverlapsWithin(res[q].win, w, Buffer)}

\* Waitlisted rows nobody has been told about that want part of window w.
Waiting(w) ==
    {q \in Row : /\ res[q].status = "waitlisted"
                 /\ res[q].offer = NoOffer
                 /\ Overlaps(res[q].win, w)}

\* Mutant: the queue is read newest first.
IsNewest(c, S) == \A q \in S : c >= q

IsOldest(c, S) == \A q \in S : c <= q

Lapsed(r) ==
    res[r].status = "waitlisted" /\ res[r].offer # NoOffer /\ res[r].offer < now

-----------------------------------------------------------------------------
(* Processes. *)

IdleJob == [cur |-> 0, slot |-> NoSpan, cand |-> 0, left |-> 0,
            loop |-> "idle", todo |-> {}]

Enter(p, label, j) ==
    /\ pc'  = [pc EXCEPT ![p] = label]
    /\ job' = [job EXCEPT ![p] = j]

Goto(p, label) == Enter(p, label, job[p])

\* The call returns: to the cron loop that made it, or to the client.
Return(p) ==
    IF job[p].todo = {}
    THEN Enter(p, "idle", IdleJob)
    ELSE Enter(p, job[p].loop,
               [IdleJob EXCEPT !.loop = job[p].loop, !.todo = job[p].todo])

\* Bound: a handler that will insert starts only while a row is left for it.
RowLeft ==
    Cardinality({r \in Row : res[r].status = "absent"}) >
    Cardinality({p \in Proc : pc[p] \in {"insert", "queue", "staffInsert"}})

Accepts(h, p) == h \in Handlers /\ pc[p] = "idle"

SetStatus(r, s) == res' = [res EXCEPT ![r].status = s]
Stand(r, s) == standing' = [standing EXCEPT ![r] = s]

\* History: a row is settled when the conflict scan that follows its write
\* passes over the window it now has.
Settle(r, w) ==
    standing' = [standing EXCEPT ![r] =
                   IF @ = "pending" /\ res[r].win = w THEN "settled" ELSE @]

NewRow(w, status) == [status |-> status, win |-> w, offer |-> NoOffer]

-----------------------------------------------------------------------------
(* create() and createWaitlisted() *)

\* validateBooking(): of its limits only the near end of the booking window can
\* change while a request runs; Window holds what passes the others.
BookingValid(w) == now < w.s

\* Validation and the first conflict scan.  A conflict is an error to
\* the client unless the booking repeats, when it joins the waitlist instead.
CreateCheck(p, w) ==
    /\ Accepts("create", p)
    /\ RowLeft
    /\ BookingValid(w)
    /\ \/ Blockers(w, 0) = {} /\ Enter(p, "insert", [IdleJob EXCEPT !.slot = w])
       \/ /\ Blockers(w, 0) # {} /\ "queue" \in Handlers
          /\ Enter(p, "queue", [IdleJob EXCEPT !.slot = w])
    /\ UNCHANGED <<now, res, standing, via>>

\* A booking made inside the confirmation window is its own confirmation.
CreateInsert(p) ==
    LET w == job[p].slot
        status == IF now + ConfirmLead >= w.s THEN "confirmed" ELSE "scheduled"
    IN  /\ pc[p] = "insert"
        /\ \E r \in Row :
              /\ IsNext(r)
              /\ res' = [res EXCEPT ![r] = NewRow(w, status)]
              /\ Stand(r, "pending")
              /\ Enter(p, "recheck", [job[p] EXCEPT !.cur = r])
        /\ UNCHANGED <<now, via>>

\* Mutant: the first scan is trusted, and the one after the insert left out.
CreateRecheckTrusting(p) ==
    LET r == job[p].cur IN
    /\ pc[p] = "recheck"
    /\ Settle(r, job[p].slot)
    /\ \/ Return(p)
       \/ "confirmNow" \in Handlers /\ Goto(p, "payWrite")
    /\ UNCHANGED <<now, res, via>>

\* The scan after the insert.  bookAndPayReservation goes on to confirm the
\* booking it was given (skipPayment); the other callers return.
CreateRecheck(p) ==
    LET r == job[p].cur IN
    /\ pc[p] = "recheck"
    /\ \/ /\ Blockers(job[p].slot, r) = {}
          /\ Settle(r, job[p].slot)
          /\ \/ Return(p)
             \/ "confirmNow" \in Handlers /\ Goto(p, "payWrite")
       \/ /\ Blockers(job[p].slot, r) # {}
          /\ Goto(p, "backOut")
          /\ UNCHANGED standing
    /\ UNCHANGED <<now, res, via>>

\* The compensating DELETE, by id alone.
CreateBackOut(p) ==
    LET r == job[p].cur IN
    /\ pc[p] = "backOut"
    /\ SetStatus(r, "deleted")
    /\ Stand(r, "none")
    /\ \/ Return(p)
       \/ "queue" \in Handlers /\ RowLeft /\ Goto(p, "queue")
    /\ UNCHANGED <<now, via>>

\* createWaitlisted(): validated again, never checked for conflicts.
QueueInsert(p) ==
    /\ pc[p] = "queue"
    /\ \/ /\ BookingValid(job[p].slot)
          /\ \E r \in Row :
                IsNext(r) /\ res' = [res EXCEPT ![r] = NewRow(job[p].slot, "waitlisted")]
       \/ ~BookingValid(job[p].slot) /\ UNCHANGED res
    /\ Return(p)
    /\ UNCHANGED <<now, standing, via>>

-----------------------------------------------------------------------------
(* confirmWaitlisted: a member accepts the slot they were offered *)

AcceptRead(p, r) ==
    /\ Accepts("accept", p)
    /\ res[r].status = "waitlisted" /\ res[r].offer # NoOffer /\ ~Lapsed(r)
    /\ Enter(p, "acceptCheck", [IdleJob EXCEPT !.cur = r, !.slot = res[r].win])
    /\ UNCHANGED <<now, res, standing, via>>

AcceptCheck(p) ==
    /\ pc[p] = "acceptCheck"
    /\ IF Blockers(job[p].slot, job[p].cur) = {} THEN Goto(p, "acceptWrite") ELSE Return(p)
    /\ UNCHANGED <<now, res, standing, via>>

\* Mutant: the accepted offer is not cleared.
AcceptWriteKeepsOffer(p) ==
    LET r == job[p].cur IN
    /\ pc[p] = "acceptWrite"
    /\ SetStatus(r, "scheduled")
    /\ Stand(r, IF IsLive(r) THEN standing[r] ELSE "pending")
    /\ Goto(p, "acceptRecheck")
    /\ UNCHANGED <<now, via>>

\* UPDATE ... WHERE id: whatever the row's status has become since the read.
AcceptWrite(p) ==
    LET r == job[p].cur IN
    /\ pc[p] = "acceptWrite"
    /\ res' = [res EXCEPT ![r].status = "scheduled", ![r].offer = NoOffer]
    /\ Stand(r, IF IsLive(r) THEN standing[r] ELSE "pending")
    /\ Goto(p, "acceptRecheck")
    /\ UNCHANGED <<now, via>>

AcceptRecheck(p) ==
    LET r == job[p].cur IN
    /\ pc[p] = "acceptRecheck"
    /\ \/ /\ Blockers(job[p].slot, r) = {}
          /\ Settle(r, job[p].slot)
          /\ Return(p)
       \/ /\ Blockers(job[p].slot, r) # {}
          /\ Goto(p, "acceptUndo")
          /\ UNCHANGED standing
    /\ UNCHANGED <<now, res, via>>

\* Mutant: the member is told that the slot is gone, and the row keeps it.
AcceptUndoForgotten(p) ==
    /\ pc[p] = "acceptUndo"
    /\ Return(p)
    /\ UNCHANGED <<now, res, standing, via>>

\* Back to the queue, again by id alone; the offer stays cleared.
AcceptUndo(p) ==
    /\ pc[p] = "acceptUndo"
    /\ SetStatus(job[p].cur, "waitlisted")
    /\ Stand(job[p].cur, "none")
    /\ Return(p)
    /\ UNCHANGED <<now, via>>

-----------------------------------------------------------------------------
(* cancel() and the waitlist promotion its event sets off *)

\* Mutant: the listener promotes after every cancellation.
ListenerPromotesAlways(cause) == TRUE

\* Who promotes after a reservation.cancelled: the listener, unless the expiry
\* job emitted it; the expiry job always does so itself.
ListenerPromotes(cause) == cause # "waitlist_expired"
Promotions(cause) ==
    (IF ListenerPromotes(cause) THEN 1 ELSE 0)
    + (IF cause = "waitlist_expired" THEN 1 ELSE 0)

\* Members may not cancel a session that has started; staff and crons may.
MayCancel(r, staff) ==
    res[r].status \in Cancellable /\ (staff \/ now < res[r].win.s)

CancelRead(p, r) ==
    /\ \/ Accepts("cancel", p) /\ MayCancel(r, FALSE)
       \/ Accepts("staffCancel", p) /\ MayCancel(r, TRUE)
    /\ Enter(p, "cancelWrite", [IdleJob EXCEPT !.cur = r])
    /\ UNCHANGED <<now, res, standing, via>>

\* Mutant: UPDATE ... WHERE id, on the status read earlier.
CancelWriteById(p) ==
    LET r == job[p].cur IN
    /\ pc[p] = "cancelWrite"
    /\ SetStatus(r, "cancelled")
    /\ Stand(r, "none")
    /\ Enter(p, "promote", [job[p] EXCEPT !.left = Promotions("cancel")])
    /\ UNCHANGED <<now, via>>

\* The conditional UPDATE; 0 rows means somebody else moved it first.
CancelWrite(p) ==
    LET r == job[p].cur IN
    /\ pc[p] = "cancelWrite"
    /\ \/ /\ res[r].status \in Cancellable
          /\ SetStatus(r, "cancelled")
          /\ Stand(r, "none")
          /\ Enter(p, "promote", [job[p] EXCEPT !.left = Promotions("cancel")])
       \/ /\ res[r].status \notin Cancellable
          /\ Return(p)
          /\ UNCHANGED <<res, standing>>
    /\ UNCHANGED <<now, via>>

Promoted(p) ==
    IF job[p].left > 1
    THEN Enter(p, "promote", [job[p] EXCEPT !.left = @ - 1])
    ELSE Return(p)

\* The listener re-reads the freed window; the oldest waiting row is picked.
PromoteSelect(p) ==
    LET waiting == Waiting(res[job[p].cur].win) IN
    /\ pc[p] = "promote"
    /\ \/ waiting = {} /\ Promoted(p)
       \/ \E c \in waiting :
             /\ IsOldest(c, waiting)
             /\ Enter(p, "promoteCheck", [job[p] EXCEPT !.cand = c])
    /\ UNCHANGED <<now, res, standing, via>>

\* Only that row's window is tried: if it is taken, nobody is promoted.
PromoteCheck(p) ==
    /\ pc[p] = "promoteCheck"
    /\ IF Blockers(res[job[p].cand].win, 0) = {} THEN Goto(p, "offer") ELSE Promoted(p)
    /\ UNCHANGED <<now, res, standing, via>>

\* Mutant: the confirmation lead is added to the life of the offer.
PromoteOfferLong(p) ==
    LET c == job[p].cand IN
    /\ pc[p] = "offer"
    /\ \/ /\ res[c].status = "waitlisted" /\ res[c].offer = NoOffer
          /\ res' = [res EXCEPT ![c].offer = now + OfferTTL + ConfirmLead]
          /\ via' = [via EXCEPT ![c] = job[p].cur]
       \/ /\ ~(res[c].status = "waitlisted" /\ res[c].offer = NoOffer)
          /\ UNCHANGED <<res, via>>
    /\ Promoted(p)
    /\ UNCHANGED <<now, standing>>

PromoteOffer(p) ==
    LET c == job[p].cand IN
    /\ pc[p] = "offer"
    /\ \/ /\ res[c].status = "waitlisted" /\ res[c].offer = NoOffer
          /\ res' = [res EXCEPT ![c].offer = now + OfferTTL]
          /\ via' = [via EXCEPT ![c] = job[p].cur]
       \/ /\ ~(res[c].status = "waitlisted" /\ res[c].offer = NoOffer)
          /\ UNCHANGED <<res, via>>
    /\ Promoted(p)
    /\ UNCHANGED <<now, standing>>

-----------------------------------------------------------------------------
(* The crons *)

\* cancelUnconfirmedReservations(): the rows it will cancel are read once ...
SweepSelect(p) ==
    LET due == {r \in Row : res[r].status = "scheduled" /\ res[r].win.s < now} IN
    /\ Accepts("sweep", p)
    /\ due # {}
    /\ Enter(p, "sweep", [IdleJob EXCEPT !.loop = "sweep", !.todo = due])
    /\ UNCHANGED <<now, res, standing, via>>

\* ... and each is handed to cancel() with staffOverride, which reads it again.
SweepNext(p) ==
    /\ pc[p] = "sweep"
    /\ \E r \in job[p].todo :
          LET rest == job[p].todo \ {r} IN
          IF MayCancel(r, TRUE)
          THEN Enter(p, "cancelWrite", [job[p] EXCEPT !.cur = r, !.todo = rest])
          ELSE IF rest = {} THEN Enter(p, "idle", IdleJob)
               ELSE Enter(p, "sweep", [job[p] EXCEPT !.todo = rest])
    /\ UNCHANGED <<now, res, standing, via>>

\* expireWaitlisted()
ExpireSelect(p) ==
    LET lapsed == {r \in Row : Lapsed(r)} IN
    /\ Accepts("expire", p)
    /\ lapsed # {}
    /\ Enter(p, "expire", [IdleJob EXCEPT !.loop = "expire", !.todo = lapsed])
    /\ UNCHANGED <<now, res, standing, via>>

\* Mutant: the next in line is promoted, and the lapsed row left as it is.
ExpireNextKeeps(p) ==
    /\ pc[p] = "expire"
    /\ \E r \in job[p].todo :
          Enter(p, "promote", [job[p] EXCEPT !.cur = r, !.todo = @ \ {r},
                                            !.left = Promotions("waitlist_expired")])
    /\ UNCHANGED <<now, res, standing, via>>

ExpireNext(p) ==
    /\ pc[p] = "expire"
    /\ \E r \in job[p].todo :
          LET rest == job[p].todo \ {r} IN
          \/ /\ res[r].status = "waitlisted"
             /\ res' = [res EXCEPT ![r].status = "cancelled", ![r].offer = NoOffer]
             /\ Enter(p, "promote", [job[p] EXCEPT !.cur = r, !.todo = rest,
                                                   !.left = Promotions("waitlist_expired")])
          \/ /\ res[r].status # "waitlisted"
             /\ IF rest = {} THEN Enter(p, "idle", IdleJob)
                ELSE Enter(p, "expire", [job[p] EXCEPT !.todo = rest])
             /\ UNCHANGED res
    /\ UNCHANGED <<now, standing, via>>

\* autoCompleteExpired(): one UPDATE over every confirmed row past its end that
\* owes nothing.  What a row owes is not modelled here, so any of them may.
AutoComplete ==
    /\ "autoComplete" \in Handlers
    /\ \E paid \in SUBSET {r \in Row : res[r].status = "confirmed" /\ res[r].win.e < now} :
          res' = [r \in Row |-> IF r \in paid THEN [res[r] EXCEPT !.status = "completed"]
                                ELSE res[r]]
    /\ UNCHANGED <<now, standing, via, pc, job>>

-----------------------------------------------------------------------------
(* Staff at the desk, and payment *)

\* createReservation: the buffered scan is the only gate, and may be overridden.
StaffCheck(p, w) ==
    /\ Accepts("staffCreate", p)
    /\ RowLeft
    /\ "override" \in Handlers \/ BufferedBlockers(w, 0) = {}
    /\ Enter(p, "staffInsert", [IdleJob EXCEPT !.slot = w])
    /\ UNCHANGED <<now, res, standing, via>>

StaffInsert(p) ==
    /\ pc[p] = "staffInsert"
    /\ \E r \in Row :
          /\ IsNext(r)
          /\ res' = [res EXCEPT ![r] = NewRow(job[p].slot, "confirmed")]
          /\ Stand(r, "forced")
    /\ Return(p)
    /\ UNCHANGED <<now, via>>

\* adjustWindow(): checked, then written, and not checked again.
AdjustCheck(p, r, w) ==
    /\ Accepts("adjust", p)
    /\ Exists(r) /\ w # res[r].win
    /\ "override" \in Handlers \/ BufferedBlockers(w, r) = {}
    /\ Enter(p, "adjustWrite", [IdleJob EXCEPT !.cur = r, !.slot = w])
    /\ UNCHANGED <<now, res, standing, via>>

\* Mutant: the re-timing is written by id, on the status read earlier.
AdjustWriteById(p) ==
    LET r == job[p].cur IN
    /\ pc[p] = "adjustWrite"
    /\ res' = [res EXCEPT ![r] = [@ EXCEPT !.win = job[p].slot, !.status = "scheduled"]]
    /\ Stand(r, "forced")
    /\ Return(p)
    /\ UNCHANGED <<now, via>>

AdjustWrite(p) ==
    LET r == job[p].cur IN
    /\ pc[p] = "adjustWrite"
    /\ \/ /\ res[r].status \in Active
          /\ res' = [res EXCEPT ![r].win = job[p].slot]
          /\ Stand(r, "forced")
       \/ res[r].status \notin Active /\ UNCHANGED <<res, standing>>
    /\ Return(p)
    /\ UNCHANGED <<now, via>>

\* updateStatus(): one conditional UPDATE.
UpdateStatus(r, from, to) ==
    /\ "desk" \in Handlers
    /\ res[r].status \in from
    /\ SetStatus(r, to)
    /\ UNCHANGED <<now, standing, via, pc, job>>

Confirm(r)               == UpdateStatus(r, {"scheduled"}, "confirmed")
MarkComplete(r)          == UpdateStatus(r, {"confirmed"}, "completed")
MarkNoShow(r)            == UpdateStatus(r, Active, "no_show")
RecordCashAndComplete(r) == UpdateStatus(r, Active, "completed")

\* handleReservationCheckout(): reads the status ...
CheckoutRead(p, r) ==
    /\ Accepts("checkout", p)
    /\ res[r].status \in Active
    /\ Enter(p, "payWrite", [IdleJob EXCEPT !.cur = r])
    /\ UNCHANGED <<now, res, standing, via>>

\* ... and writes 'confirmed' by id alone, as bookAndPayReservation does.
PayWrite(p) ==
    LET r == job[p].cur IN
    /\ pc[p] = "payWrite"
    /\ IF Exists(r)
       THEN /\ SetStatus(r, "confirmed")
            /\ Stand(r, IF IsLive(r) THEN standing[r] ELSE "forced")
       ELSE UNCHANGED <<res, standing>>
    /\ Return(p)
    /\ UNCHANGED <<now, via>>

-----------------------------------------------------------------------------
(* The environment *)

\* The isolate dies, or a statement throws: the rest of the handler never runs.
Crash(p) ==
    /\ "crash" \in Handlers /\ pc[p] # "idle"
    /\ Enter(p, "idle", IdleJob)
    /\ UNCHANGED <<now, res, standing, via>>

Tick ==
    /\ now < MaxTime
    /\ now' = now + 1
    /\ UNCHANGED <<res, standing, via, pc, job>>

Init ==
    /\ now = 0
    /\ res = [r \in Row |-> NewRow(NoSpan, "absent")]
    /\ standing = [r \in Row |-> "none"]
    /\ via = [r \in Row |-> 0]
    /\ pc = [p \in Proc |-> "idle"]
    /\ job = [p \in Proc |-> IdleJob]

\* The statements of a handler that has been let in.
Step(p) ==
    \/ CreateInsert(p) \/ CreateRecheck(p) \/ CreateBackOut(p) \/ QueueInsert(p)
    \/ AcceptCheck(p) \/ AcceptWrite(p) \/ AcceptRecheck(p) \/ AcceptUndo(p)
    \/ CancelWrite(p) \/ PromoteSelect(p) \/ PromoteCheck(p) \/ PromoteOffer(p)
    \/ SweepNext(p) \/ ExpireNext(p)
    \/ StaffInsert(p) \/ AdjustWrite(p) \/ PayWrite(p)

Cron(p) == SweepSelect(p) \/ ExpireSelect(p)

Request(p) ==
    \/ \E w \in Window : CreateCheck(p, w) \/ StaffCheck(p, w)
    \/ \E r \in Row : AcceptRead(p, r) \/ CancelRead(p, r) \/ CheckoutRead(p, r)
    \/ \E r \in Row, w \in Window : AdjustCheck(p, r, w)

Desk == \E r \in Row :
    Confirm(r) \/ MarkComplete(r) \/ MarkNoShow(r) \/ RecordCashAndComplete(r)

Next ==
    \/ \E p \in Proc : Step(p) \/ Cron(p) \/ Request(p) \/ Crash(p)
    \/ Desk \/ AutoComplete \/ Tick

Spec == Init /\ [][Next]_vars

-----------------------------------------------------------------------------
(* Properties *)

Label ==
    {"idle", "insert", "recheck", "backOut", "queue",
     "acceptCheck", "acceptWrite", "acceptRecheck", "acceptUndo",
     "cancelWrite", "promote", "promoteCheck", "offer", "sweep", "expire",
     "staffInsert", "adjustWrite", "payWrite"}

RowSpace == [status : Status, win : Window \cup {NoSpan}, offer : Expiry]

JobSpace == [cur : {0} \cup Row, slot : Window \cup {NoSpan}, cand : {0} \cup Row,
             left : 0 .. 2, loop : {"idle", "sweep", "expire"}, todo : SUBSET Row]

\* The types of the variables.  standing[r] says how row r holds its window:
\*   none     it holds none (absent, waitlisted, cancelled, deleted)
\*   pending  written live, the scan that must follow the write not yet run
\*   settled  that scan has passed over the window the row now has
\*   forced   live by a write that no scan follows (staffCreate, adjustWindow,
\*            a payment that lands on a row which is no longer live)
TypeOK ==
    /\ now \in Time
    /\ res \in [Row -> RowSpace]
    /\ standing \in [Row -> {"none", "pending", "settled", "forced"}]
    /\ via \in [Row -> {0} \cup Row]
    /\ pc \in [Proc -> Label]
    /\ job \in [Proc -> JobSpace]

\* The history follows the table: a row stands in the calendar exactly while a
\* conflict scan would see it.
StandingIsLive == \A r \in Row : standing[r] # "none" <=> IsLive(r)

\* No double booking.  Two rows whose windows were each scanned after being
\* written (create() and confirmWaitlisted, lines "Post-insert re-check" and
\* "Post-update re-check") never overlap, however the two requests interleave
\* with each other and with every other handler.
SettledDisjoint ==
    \A q, r \in Row :
        q # r /\ standing[q] = "settled" /\ standing[r] = "settled"
            => ~Overlaps(res[q].win, res[r].win)

\* A request that may still take row r's window back: it has written and not
\* yet scanned, or it has seen a rival and is about to back out.
Undecided(r) ==
    \E p \in Proc : /\ job[p].cur = r
                   /\ pc[p] \in {"recheck", "backOut", "acceptRecheck", "acceptUndo"}

\* Two live rows overlap only while a request on one of them is still to run
\* its re-check or to back out: once those requests are over, no double
\* booking is left in the table.  Members' handlers only: staff may force an
\* overlap, and a crash between the write and the scan leaves one.
OverlapIsTransient ==
    \A q, r \in Row :
        q # r /\ IsLive(q) /\ IsLive(r) /\ Overlaps(res[q].win, res[r].win)
            => Undecided(q) \/ Undecided(r)

\* One cancelled booking frees one slot, and it is offered to one member at a
\* time: "promoting again here would ... hand the same slot to two people"
\* (register-listeners.ts), when the expiry job has promoted already.
OneOfferPerCancellation ==
    \A q, r \in Row :
        /\ q # r /\ via[q] # 0
        /\ res[q].status = "waitlisted" /\ res[q].offer # NoOffer
        /\ res[r].status = "waitlisted" /\ res[r].offer # NoOffer
        => via[q] # via[r]

\* First come, first served: whoever is offered a freed slot joined the queue
\* before everyone still waiting for part of it, although the choice and the
\* offer are two statements.
FirstComeFirstServed ==
    [][\A p \in Proc : pc[p] = "offer" /\ res' # res =>
          \A q \in Waiting(res[job[p].cur].win) : job[p].cand <= q]_vars

\* A live row carries no offer: an accepted offer cannot lapse under the
\* member who accepted it, nor be made to a row that is already booked.
OfferOnlyWhileWaiting ==
    \A r \in Row : IsLive(r) => res[r].offer = NoOffer

\* The statements that write a row by its id alone, whatever it has become: a
\* payment, and the two writes of an acceptance.
WrittenById(r) ==
    \E p \in Proc : /\ pc[p] \in {"payWrite", "acceptWrite", "acceptUndo"}
                   /\ job[p].cur = r /\ pc'[p] # pc[p]

\* What staff resolved at the desk stays resolved: a cancel, a re-timing or a
\* cron that read the row before it was completed or marked a no-show changes
\* nothing when its write comes (the conditional UPDATEs).  Only a create()
\* that lost its race may still delete the row it inserted, and only a write
\* by id may reopen it.
ResolvedIsFinal ==
    [][\A r \in Row : res[r].status \in {"completed", "no_show"} =>
          res'[r] = res[r] \/ res'[r].status = "deleted" \/ WrittenById(r)]_vars

\* A cancelled booking never holds the room again, and never moves: "a row
\* cancelled between the read and the write must not silently come back"
\* (adjustWindow), and of all the writes only those by id may bring it back.
CancelledStaysCancelled ==
    [][\A r \in Row : res[r].status = "cancelled" =>
          /\ res'[r].win = res[r].win
          /\ res'[r].status \in {"cancelled", "deleted"} \/ WrittenById(r)]_vars

\* Every step of the calendar is a step of RoomCalendar or a stutter of it:
\* rows that settle are granted their window, and every other write either
\* leaves the settled rows alone or releases one.
Calendar == INSTANCE RoomCalendar WITH
    held <- [r \in Row |-> IF standing[r] = "settled" THEN res[r].win ELSE NoSpan]

CalendarSpec == Calendar!Spec

\* Handlers run to completion and the crons are triggered every quarter of an
\* hour by Cloudflare, whatever the traffic; clients promise nothing.
Fairness == \A p \in Proc : WF_vars(Step(p)) /\ SF_vars(ExpireSelect(p))
FairSpec == Spec /\ Fairness

\* An offer nobody took does not stand for ever: once lapsed, the row is
\* cancelled (or the acceptance already under way wins), so that the slot can
\* pass to the next in line.
LapsedOfferEnds == \A r \in Row : Lapsed(r) ~> ~Lapsed(r)
=============================================================================
