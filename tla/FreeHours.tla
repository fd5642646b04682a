------------------------------ MODULE FreeHours ------------------------------
(***************************************************************************)
(* One member's credits: credit-service.ts, reservation-credit-service.ts, *)
(* the confirm, cancel and refund forms that call it, and the Stripe       *)
(* webhooks that grant credits.  As in RoomBooking a handler is a process, *)
(* an action is one awaited statement, and job[p] holds what it has read.  *)
(*                                                                         *)
(* The ledger is an append-only table.  The code asks it two things, how   *)
(* many rows a (source, source_id) has and what they sum to; ledger[w][t]  *)
(* keeps both for each wallet w and tag t.                                 *)
(*                                                                         *)
(* Left out: Stripe's own records, e-mails, the amount-to-hours arithmetic *)
(* (an invoice or a booking is worth so many units; money is counted in    *)
(* them too), and sessions after the next reset, which spend no hours.     *)
(***************************************************************************)
EXTENDS Integers, FiniteSets, FiniteSetsExt

CONSTANTS
    Proc,           \* requests and webhook deliveries in flight at once
    Res,            \* the member's reservations
    Invoice,        \* the invoices Stripe will report paid
    Ended,          \* the customer.subscription.deleted event
    NoRef,          \* no reservation, no event (NULL)
    Need,           \* Need[r]: units of half an hour that r is long
    Grant,          \* Grant[i]: free-hour units of invoice i
    Dollars,        \* Dollars[i]: its equipment credits
    MaxBalance,     \* creditTypeConfig[w].maxBalance, or -1 (null)
    Opening,        \* the balances to begin with
    OpeningPlan,    \* hoursPerReset of the subscription to begin with
    MaxRetries,     \* MAX_BALANCE_RETRIES
    Adjustments,    \* the amounts staff may add or take
    MaxArrivals,    \* bound: how many arrivals, repeated deliveries and crashes
    Handlers        \* the entry points this instance lets in

Wallet == {"hours", "equipment"}
Event  == Invoice \cup {Ended}

ASSUME FreeHoursAssumption ==
    /\ Need \in [Res -> Nat \ {0}] /\ Grant \in [Invoice -> Nat]
    /\ Dollars \in [Invoice -> Nat \ {0}]
    /\ MaxBalance \in [Wallet -> Nat \cup {-1}] /\ MaxBalance["hours"] = -1
    /\ Opening \in [Wallet -> Nat] /\ OpeningPlan \in Nat
    /\ MaxRetries \in Nat /\ MaxArrivals \in Nat /\ Adjustments \subseteq Nat \ {0}
    /\ Ended \notin Invoice /\ NoRef \notin Res \cup Event
    /\ Handlers \subseteq {"confirm", "cash", "card", "comp", "resolve", "cancel",
                           "refundOnly", "deliver", "add", "take", "overlap", "crash"}

NoPlan == -1            \* user.subscription IS NULL
Unpriced == -1          \* reservation.cash_due_cents IS NULL

\* (source, source_id) of a ledger row
Tag == {<<"reservation", r>> : r \in Res} \cup {<<"cancelled", r>> : r \in Res}
       \cup {<<"monthly_allocation", e>> : e \in Event} \cup {<<"admin_adjustment", NoRef>>}

VARIABLES
    bal,        \* user.creditFreeHours, user.creditEquipment
    plan,       \* user.subscription.hoursPerReset
    ledger,     \* credit_transaction, as above
    row,        \* row[r]: the reservation's status and settlement; whether a card
                \* payment was opened for it, and (history) the rest paid or waived
    stripe,     \* stripe[e]: whether Stripe has still to deliver event e
    applied,    \* history: how many balance writes were made for tag t
    arrivals,   \* how many of these there have been
    pc, job     \* the processes

vars == <<bal, plan, ledger, row, stripe, applied, arrivals, pc, job>>
data == <<bal, plan, ledger, row, applied>>

Wallets == INSTANCE CreditWallet WITH
    call <- [p \in Proc |-> IF pc[p] \in {"read", "swap", "deduct"} THEN job[p].op
                            ELSE [kind |-> "none"]]

-----------------------------------------------------------------------------
(* Processes *)

NoOp == [wallet |-> "hours", kind |-> "set", amount |-> 0]

IdleJob == [about |-> NoRef, op |-> NoOp, tag |-> <<"admin_adjustment", NoRef>>,
            after |-> "idle", seen |-> 0, tries |-> 0, delta |-> 0, units |-> 0,
            cap |-> 0, due |-> 0, paid |-> FALSE, cash |-> FALSE]

Enter(p, label, j) ==
    /\ pc'  = [pc EXCEPT ![p] = label]
    /\ job' = [job EXCEPT ![p] = j]

Goto(p, label) == Enter(p, label, job[p])
Done(p) == Enter(p, "idle", IdleJob)

\* A webhook handler that returns is answered 200, one that throws 500, and
\* Stripe delivers the event again; one whose isolate dies is delivered again too.
Answer(p, outcome) ==
    stripe' = [e \in Event |-> IF e = job[p].about THEN outcome ELSE stripe[e]]

Return(p) == Done(p) /\ Answer(p, "done")
Throw(p)  == Done(p) /\ Answer(p, "due")

\* Unless this instance lets requests about one thing overlap, they follow one
\* another, as they do when a member clicks twice or Stripe delivers again.
InTurn(x) == "overlap" \in Handlers \/ \A q \in Proc : job[q].about # x

Accepts(h, p) == h \in Handlers /\ pc[p] = "idle" /\ arrivals < MaxArrivals

LetIn(p, label, j) ==
    /\ Enter(p, label, j)
    /\ arrivals' = arrivals + 1
    /\ UNCHANGED <<data, stripe>>

-----------------------------------------------------------------------------
(* credit-service.ts *)

\* What the ledger says: hasTransaction() and sumCommittedUnits().
HasRow(w, t) == ledger[w][t].rows > 0
CommittedUnits(r) == -ledger["hours"][<<"reservation", r>>].net

Call(w, kind, n) == [wallet |-> w, kind |-> kind, amount |-> n]

\* A call on the wallet: p goes on at label `after` when it returns.
Asking(p, op, tag, after) ==
    [IdleJob EXCEPT !.about = job[p].about, !.op = op, !.tag = tag, !.after = after,
                    !.cash = job[p].cash]

\* applyBalanceMutation(): read the balance ...
WalletRead(p) ==
    /\ pc[p] = "read"
    /\ Enter(p, "swap", [job[p] EXCEPT !.seen = bal[job[p].op.wallet]])
    /\ UNCHANGED <<data, stripe, arrivals>>

\* The balance is written; the ledger row will say by how much, counting from b.
Write(p, w, n, b) ==
    /\ bal' = [bal EXCEPT ![w] = n]
    /\ applied' = [applied EXCEPT ![w][job[p].tag] = @ + 1]
    /\ Enter(p, "post", [job[p] EXCEPT !.delta = n - b, !.seen = 0])

\* Mutant: the write is made whatever the balance has become.
WalletSwapBlind(p) ==
    LET w == job[p].op.wallet IN
    /\ pc[p] = "swap"
    /\ Write(p, w, Wallets!Effect(job[p].op, job[p].seen), job[p].seen)
    /\ UNCHANGED <<plan, ledger, row, stripe, arrivals>>

\* ... and write what follows from it if it has not changed since.
WalletSwap(p) ==
    LET w == job[p].op.wallet IN
    /\ pc[p] = "swap"
    /\ \/ /\ bal[w] = job[p].seen
          /\ Write(p, w, Wallets!Effect(job[p].op, job[p].seen), job[p].seen)
          /\ UNCHANGED stripe
       \/ /\ bal[w] # job[p].seen /\ job[p].tries < MaxRetries
          /\ Enter(p, "read", [job[p] EXCEPT !.tries = @ + 1, !.seen = 0])
          /\ UNCHANGED <<bal, applied, stripe>>
       \/ /\ bal[w] # job[p].seen /\ job[p].tries = MaxRetries
          /\ Throw(p)
          /\ UNCHANGED <<bal, applied>>
    /\ UNCHANGED <<plan, ledger, row, arrivals>>

\* Mutant: the balance read earlier is taken for enough.
WalletDeductUnguarded(p) ==
    LET op == job[p].op IN
    /\ pc[p] = "deduct"
    /\ Write(p, op.wallet, bal[op.wallet] - op.amount, bal[op.wallet])
    /\ UNCHANGED <<plan, ledger, row, stripe, arrivals>>

\* deductCredits(): one guarded relative decrement.
WalletDeduct(p) ==
    LET op == job[p].op IN
    /\ pc[p] = "deduct"
    /\ \/ /\ bal[op.wallet] >= op.amount
          /\ Write(p, op.wallet, Wallets!Effect(op, bal[op.wallet]), bal[op.wallet])
          /\ UNCHANGED stripe
       \/ /\ bal[op.wallet] < op.amount
          /\ Throw(p)
          /\ UNCHANGED <<bal, applied>>
    /\ UNCHANGED <<plan, ledger, row, arrivals>>

\* The ledger row is a statement of its own.
PostEntry(p) ==
    LET w == job[p].op.wallet IN
    /\ pc[p] = "post"
    /\ ledger' = [ledger EXCEPT ![w][job[p].tag] =
                    [rows |-> @.rows + 1, net |-> @.net + job[p].delta]]
    /\ IF job[p].after = "idle" THEN Return(p)
       ELSE /\ Enter(p, job[p].after, [IdleJob EXCEPT !.about = job[p].about,
                                                      !.due = job[p].due,
                                                      !.cash = job[p].cash])
            /\ UNCHANGED stripe
    /\ UNCHANGED <<bal, plan, row, applied, arrivals>>

-----------------------------------------------------------------------------
(* commitReservationCredits(), and the forms that settle a booking with it *)

Active == {"scheduled", "confirmed"}

\* confirmReservation, payReservation: the row is read and must be live.
ConfirmRead(p, r) ==
    /\ Accepts("confirm", p) /\ InTurn(r)
    /\ row[r].status \in Active
    /\ LetIn(p, "price", [IdleJob EXCEPT !.about = r])

\* cashReceivedReservation asks nothing of the row's status.
CashRead(p, r) ==
    /\ Accepts("cash", p) /\ InTurn(r)
    /\ LetIn(p, "price", [IdleJob EXCEPT !.about = r, !.cash = TRUE])

\* Mutant: a booking its credits cover in full is taken for one not yet priced.
PriceReadFalsy(p) ==
    LET r == job[p].about IN
    /\ pc[p] = "price"
    /\ IF row[r].due > 0 THEN Enter(p, "settle", [job[p] EXCEPT !.due = row[r].due])
       ELSE Goto(p, "plan")
    /\ UNCHANGED <<data, stripe, arrivals>>

\* A booking that has been priced has had its credits committed.
PriceRead(p) ==
    LET r == job[p].about IN
    /\ pc[p] = "price"
    /\ IF row[r].due # Unpriced
       THEN Enter(p, "settle", [job[p] EXCEPT !.due = row[r].due])
       ELSE Goto(p, "plan")
    /\ UNCHANGED <<data, stripe, arrivals>>

\* getFreeHoursWallet(): without a subscription the hours pay for nothing.
PlanRead(p) ==
    /\ pc[p] = "plan"
    /\ Enter(p, "balance", [job[p] EXCEPT !.cap = IF plan = NoPlan THEN 0 ELSE Need[job[p].about]])
    /\ UNCHANGED <<data, stripe, arrivals>>

Smaller(a, b) == IF a < b THEN a ELSE b

BalanceRead(p) ==
    LET r     == job[p].about
        units == Smaller(bal["hours"], job[p].cap) IN
    /\ pc[p] = "balance"
    /\ IF units > 0
       THEN Enter(p, "deduct", [Asking(p, Call("hours", "deduct", units),
                                       <<"reservation", r>>, "mark")
                                EXCEPT !.due = Need[r] - units])
       ELSE Enter(p, "mark", [job[p] EXCEPT !.cap = 0, !.due = Need[r]])
    /\ UNCHANGED <<data, stripe, arrivals>>

\* Mutant: what is due is worked out again, from the wallet as it is by now.
MarkPricedAfresh(p) ==
    LET r == job[p].about IN
    /\ pc[p] = "mark"
    /\ row' = [row EXCEPT ![r].due = Need[r] - Smaller(bal["hours"], Need[r])]
    /\ Goto(p, "settle")
    /\ UNCHANGED <<bal, plan, ledger, stripe, applied, arrivals>>

\* cash_due_cents := what the credits do not cover, by id alone.
MarkPriced(p) ==
    LET r == job[p].about IN
    /\ pc[p] = "mark"
    /\ row' = [row EXCEPT ![r].due = job[p].due]
    /\ Goto(p, "settle")
    /\ UNCHANGED <<bal, plan, ledger, stripe, applied, arrivals>>

\* Covered in full: confirmed if still live, with a record of the payment if Stripe
\* could be reached.
SettleCovered(p) ==
    LET r == job[p].about IN
    /\ pc[p] = "settle" /\ job[p].due = 0
    /\ \/ /\ row[r].status \in Active
          /\ \E recorded \in BOOLEAN :
                row' = [row EXCEPT ![r].status = "confirmed", ![r].due = 0,
                                   ![r].record = recorded]
       \/ row[r].status \notin Active /\ UNCHANGED row
    /\ IF job[p].cash THEN Goto(p, "takeCash") ELSE Done(p)
    /\ UNCHANGED <<bal, plan, ledger, stripe, applied, arrivals>>

\* Otherwise the rest is taken in cash now, is owed at the door once confirm() has
\* run, or waits for a card: a checkout, or the reader.
SettleOwing(p) ==
    LET r == job[p].about IN
    /\ pc[p] = "settle" /\ job[p].due > 0
    /\ \/ job[p].cash /\ Goto(p, "takeCash") /\ UNCHANGED row
       \/ /\ ~job[p].cash /\ Done(p)
          /\ \/ row[r].status \in Active /\ row' = [row EXCEPT ![r].status = "confirmed"]
             \/ row' = [row EXCEPT ![r].session = TRUE]
             \/ UNCHANGED row
    /\ UNCHANGED <<bal, plan, ledger, stripe, applied, arrivals>>

\* The record of the cash, which Stripe may refuse; or that of the hours, if any.
TakeCash(p) ==
    LET paying(paid) == Enter(p, "complete", [job[p] EXCEPT !.paid = paid]) IN
    /\ pc[p] = "takeCash"
    /\ \/ job[p].due = 0 /\ paying(row[job[p].about].record)
       \/ job[p].due > 0 /\ (paying(TRUE) \/ Done(p))
    /\ UNCHANGED <<data, stripe, arrivals>>

\* recordCashAndComplete(), which refuses a row that is not live.
Complete(p) ==
    LET r == job[p].about IN
    /\ pc[p] = "complete"
    /\ \/ /\ row[r].status \in Active
          /\ row' = [row EXCEPT ![r].status = "completed", ![r].record = job[p].paid,
                                ![r].due = 0, ![r].waived = @ \/ job[p].due > 0]
       \/ row[r].status \notin Active /\ UNCHANGED row
    /\ Done(p)
    /\ UNCHANGED <<bal, plan, ledger, stripe, applied, arrivals>>

\* A card was charged for the rest: the webhook reads that the row is live ...
CardRead(p, r) ==
    /\ Accepts("card", p) /\ InTurn(r)
    /\ row[r].session /\ row[r].status \in Active
    /\ LetIn(p, "cardWrite", [IdleJob EXCEPT !.about = r])

\* ... and writes by id. (The reader's webhook does both in one statement.)
CardWrite(p) ==
    /\ pc[p] = "cardWrite"
    /\ row' = [row EXCEPT ![job[p].about] =
                  [@ EXCEPT !.status = "confirmed", !.record = TRUE, !.due = 0, !.waived = TRUE]]
    /\ Done(p)
    /\ UNCHANGED <<bal, plan, ledger, stripe, applied, arrivals>>

\* comp(), and confirmReservation with comp=on, waive what a live booking owes.
CompRead(p, r) ==
    /\ Accepts("comp", p) /\ InTurn(r)
    /\ row[r].status \in Active
    /\ LetIn(p, IF row[r].status = "scheduled" THEN "compConfirm" ELSE "compWrite",
             [IdleJob EXCEPT !.about = r])

\* confirm() refuses a row that is no longer scheduled.
CompConfirm(p) ==
    LET r == job[p].about IN
    /\ pc[p] = "compConfirm"
    /\ \/ /\ row[r].status = "scheduled"
          /\ row' = [row EXCEPT ![r].status = "confirmed"]
          /\ Goto(p, "compWrite")
       \/ row[r].status # "scheduled" /\ Done(p) /\ UNCHANGED row
    /\ UNCHANGED <<bal, plan, ledger, stripe, applied, arrivals>>

\* The form writes by id, comp() only to a confirmed row.
CompWrite(p) ==
    LET r == job[p].about IN
    /\ pc[p] = "compWrite"
    /\ \/ row' = [row EXCEPT ![r].due = 0, ![r].waived = TRUE]
       \/ row[r].status # "confirmed" /\ UNCHANGED row
    /\ Done(p)
    /\ UNCHANGED <<bal, plan, ledger, stripe, applied, arrivals>>

\* markComplete(), markNoShow(), autoCompleteExpired(): one guarded statement each.
Resolve(p, r) ==
    /\ Accepts("resolve", p)
    /\ \/ row[r].status = "confirmed" /\ row' = [row EXCEPT ![r].status = "completed"]
       \/ row[r].status \in Active /\ row' = [row EXCEPT ![r].status = "no_show"]
    /\ arrivals' = arrivals + 1
    /\ UNCHANGED <<bal, plan, ledger, stripe, applied, pc, job>>

-----------------------------------------------------------------------------
(* cancel(), refundOnlyReservation and reverseReservationCredits() *)

CancelRead(p, r) ==
    /\ Accepts("cancel", p) /\ InTurn(r)
    /\ row[r].status \in Active
    /\ LetIn(p, "cancelWrite", [IdleJob EXCEPT !.about = r, !.paid = row[r].record])

CancelWrite(p) ==
    LET r == job[p].about IN
    /\ pc[p] = "cancelWrite"
    /\ \/ /\ row[r].status \in Active
          /\ row' = [row EXCEPT ![r].status = "cancelled", ![r].due = Unpriced]
          /\ Goto(p, IF job[p].paid THEN "cancelRefund" ELSE "backCheck")
       \/ row[r].status \notin Active /\ Done(p) /\ UNCHANGED row
    /\ UNCHANGED <<bal, plan, ledger, stripe, applied, arrivals>>

\* Mutant: a refund that fails ends the cancellation there.
CancelRefundThrows(p) ==
    /\ pc[p] = "cancelRefund"
    /\ \/ row' = [row EXCEPT ![job[p].about].refunded = TRUE] /\ Goto(p, "backCheck")
       \/ Done(p) /\ UNCHANGED row
    /\ UNCHANGED <<bal, plan, ledger, stripe, applied, arrivals>>

\* A refund that fails is reported at the end; the credits go back all the same.
CancelRefund(p) ==
    /\ pc[p] = "cancelRefund"
    /\ \/ row' = [row EXCEPT ![job[p].about].refunded = TRUE]
       \/ UNCHANGED row
    /\ Goto(p, "backCheck")
    /\ UNCHANGED <<bal, plan, ledger, stripe, applied, arrivals>>

\* readRefundableReservation()
RefundRead(p, r) ==
    /\ Accepts("refundOnly", p) /\ InTurn(r)
    /\ row[r].record /\ ~row[r].refunded
    /\ LetIn(p, "backCheck", [IdleJob EXCEPT !.about = r, !.after = "refundMark"])

RefundMark(p) ==
    /\ pc[p] = "refundMark"
    /\ row' = [row EXCEPT ![job[p].about].refunded = TRUE]
    /\ Done(p)
    /\ UNCHANGED <<bal, plan, ledger, stripe, applied, arrivals>>

\* reverseReservationCredits() has nothing to do, or is over.
LeaveReversal(p) == IF job[p].after = "idle" THEN Done(p) ELSE Goto(p, job[p].after)

\* Mutant: no look for an earlier reversal.
BackCheckNever(p) ==
    /\ pc[p] = "backCheck"
    /\ Goto(p, "backSum")
    /\ UNCHANGED <<data, stripe, arrivals>>

\* Each read is a statement of its own.
BackCheck(p) ==
    /\ pc[p] = "backCheck"
    /\ IF HasRow("hours", <<"cancelled", job[p].about>>) THEN LeaveReversal(p)
       ELSE Goto(p, "backSum")
    /\ UNCHANGED <<data, stripe, arrivals>>

BackSum(p) ==
    LET units == CommittedUnits(job[p].about) IN
    /\ pc[p] = "backSum"
    /\ IF units > 0 THEN Enter(p, "backPlan", [job[p] EXCEPT !.units = units]) ELSE LeaveReversal(p)
    /\ UNCHANGED <<data, stripe, arrivals>>

BackPlan(p) ==
    /\ pc[p] = "backPlan"
    /\ Enter(p, "backBalance", [job[p] EXCEPT !.cap = IF plan = NoPlan THEN 0 ELSE plan])
    /\ UNCHANGED <<data, stripe, arrivals>>

\* What goes back is capped by the balance read here; addCredits reads it again.
BackBalance(p) ==
    LET units == Smaller(job[p].units, job[p].cap - bal["hours"]) IN
    /\ pc[p] = "backBalance"
    /\ IF units > 0
       THEN Enter(p, "read", Asking(p, Call("hours", "add", units),
                                    <<"cancelled", job[p].about>>, job[p].after))
       ELSE LeaveReversal(p)
    /\ UNCHANGED <<data, stripe, arrivals>>

-----------------------------------------------------------------------------
(* invoice.paid and customer.subscription.deleted *)

\* Stripe delivers an event until it is answered 200, and may do so again.
Deliver(p, e) ==
    /\ "deliver" \in Handlers /\ pc[p] = "idle" /\ InTurn(e)
    /\ \/ stripe[e] = "due" /\ UNCHANGED arrivals
       \/ stripe[e] # "due" /\ arrivals < MaxArrivals /\ arrivals' = arrivals + 1
    /\ stripe' = [stripe EXCEPT ![e] = "sent"]
    /\ IF e = Ended
       THEN Enter(p, "read", [IdleJob EXCEPT
                    !.about = e, !.op = Call("hours", "set", 0),
                    !.tag = <<"monthly_allocation", e>>, !.after = "zeroEquipment"])
       ELSE Enter(p, "hoursCheck", [IdleJob EXCEPT !.about = e])
    /\ UNCHANGED data

\* Mutant: the guard against a second delivery is left out.
HoursCheckNever(p) ==
    LET t == <<"monthly_allocation", job[p].about>> IN
    /\ pc[p] = "hoursCheck"
    /\ Enter(p, "read", Asking(p, Call("hours", "set", Grant[job[p].about]), t, "equipmentCheck"))
    /\ UNCHANGED <<data, stripe, arrivals>>

\* allocateMonthlyCredits(): a row for this invoice in either wallet will do.
HoursCheck(p) ==
    LET t == <<"monthly_allocation", job[p].about>> IN
    /\ pc[p] = "hoursCheck"
    /\ IF \E w \in Wallet : HasRow(w, t)
       THEN Goto(p, "equipmentCheck")
       ELSE Enter(p, "read", Asking(p, Call("hours", "set", Grant[job[p].about]), t,
                                    "equipmentCheck"))
    /\ UNCHANGED <<data, stripe, arrivals>>

\* Mutant: the guard does not name the wallet it is for.
EquipmentCheckAny(p) ==
    LET t == <<"monthly_allocation", job[p].about>> IN
    /\ pc[p] = "equipmentCheck"
    /\ IF \E w \in Wallet : HasRow(w, t)
       THEN Goto(p, "planWrite")
       ELSE Enter(p, "read", Asking(p, Call("equipment", "add", Dollars[job[p].about]), t,
                                    "planWrite"))
    /\ UNCHANGED <<data, stripe, arrivals>>

\* allocateEquipmentCredits(): a row for this invoice in this wallet.
EquipmentCheck(p) ==
    LET t == <<"monthly_allocation", job[p].about>> IN
    /\ pc[p] = "equipmentCheck"
    /\ IF HasRow("equipment", t)
       THEN Goto(p, "planWrite")
       ELSE Enter(p, "read", Asking(p, Call("equipment", "add", Dollars[job[p].about]), t,
                                    "planWrite"))
    /\ UNCHANGED <<data, stripe, arrivals>>

PlanWrite(p) ==
    /\ pc[p] = "planWrite"
    /\ plan' = Grant[job[p].about]
    /\ Return(p)
    /\ UNCHANGED <<bal, ledger, row, applied, arrivals>>

\* The second setBalance(): its read is the first statement after the ledger row.
ZeroEquipment(p) ==
    /\ pc[p] = "zeroEquipment"
    /\ Enter(p, "swap", [Asking(p, Call("equipment", "set", 0),
                                <<"monthly_allocation", job[p].about>>, "planClear")
                         EXCEPT !.seen = bal["equipment"]])
    /\ UNCHANGED <<data, stripe, arrivals>>

PlanClear(p) ==
    /\ pc[p] = "planClear"
    /\ plan' = NoPlan
    /\ Return(p)
    /\ UNCHANGED <<bal, ledger, row, applied, arrivals>>

-----------------------------------------------------------------------------
(* adjustCredits: staff add credits, or take some the member has *)

Adjust(p, w, n) ==
    LET asking(kind) == [IdleJob EXCEPT !.op = Call(w, kind, n)] IN
    \/ Accepts("add", p) /\ LetIn(p, "read", asking("add"))
    \/ Accepts("take", p) /\ n <= bal[w] /\ LetIn(p, "deduct", asking("deduct"))

\* The isolate dies: the rest of the handler never runs, and an event it was
\* delivering is delivered again.
Crash(p) ==
    /\ "crash" \in Handlers /\ pc[p] # "idle" /\ arrivals < MaxArrivals
    /\ Throw(p)
    /\ arrivals' = arrivals + 1
    /\ UNCHANGED data

Init ==
    /\ bal = Opening
    /\ plan = OpeningPlan
    /\ ledger = [w \in Wallet |-> [t \in Tag |-> [rows |-> 0, net |-> 0]]]
    /\ row = [r \in Res |-> [status |-> "scheduled", due |-> Unpriced,
                             record |-> FALSE, refunded |-> FALSE,
                             session |-> FALSE, waived |-> FALSE]]
    /\ stripe = [e \in Event |-> "due"]
    /\ applied = [w \in Wallet |-> [t \in Tag |-> 0]]
    /\ arrivals = 0
    /\ pc = [p \in Proc |-> "idle"]
    /\ job = [p \in Proc |-> IdleJob]

Step(p) ==
    \/ WalletRead(p) \/ WalletSwap(p) \/ WalletDeduct(p) \/ PostEntry(p)
    \/ PriceRead(p) \/ PlanRead(p) \/ BalanceRead(p) \/ MarkPriced(p)
    \/ SettleCovered(p) \/ SettleOwing(p) \/ TakeCash(p) \/ Complete(p)
    \/ CardWrite(p) \/ CompConfirm(p) \/ CompWrite(p)
    \/ CancelWrite(p) \/ CancelRefund(p) \/ RefundMark(p)
    \/ BackCheck(p) \/ BackSum(p) \/ BackPlan(p) \/ BackBalance(p)
    \/ HoursCheck(p) \/ EquipmentCheck(p) \/ PlanWrite(p)
    \/ ZeroEquipment(p) \/ PlanClear(p)

Request(p) ==
    \/ \E r \in Res : \/ ConfirmRead(p, r) \/ CashRead(p, r) \/ CardRead(p, r)
                      \/ CompRead(p, r) \/ Resolve(p, r)
                      \/ CancelRead(p, r) \/ RefundRead(p, r)
    \/ \E w \in Wallet, n \in Adjustments : Adjust(p, w, n)

Next == \E p \in Proc :
    Step(p) \/ Request(p) \/ Crash(p) \/ \E e \in Event : Deliver(p, e)

Spec == Init /\ [][Next]_vars

-----------------------------------------------------------------------------
(* Properties *)

Label ==
    {"idle", "read", "swap", "deduct", "post", "price", "plan", "balance", "mark",
     "settle", "takeCash", "complete", "cardWrite", "compConfirm", "compWrite",
     "cancelWrite", "cancelRefund", "refundMark", "backCheck", "backSum",
     "backPlan", "backBalance", "hoursCheck", "equipmentCheck", "planWrite",
     "zeroEquipment", "planClear"}

RowSpace == [status : Active \cup {"cancelled", "completed", "no_show"}, due : Int,
             record : BOOLEAN, refunded : BOOLEAN, session : BOOLEAN, waived : BOOLEAN]

JobSpace == [about : Res \cup Event \cup {NoRef}, op : Wallets!Operation, tag : Tag,
             after : Label, seen : Nat, tries : Nat, delta : Int, units : Int,
             cap : Nat, due : Int, paid : BOOLEAN, cash : BOOLEAN]

\* The types of the variables; among them, that no balance is ever negative,
\* however many deductions race (credit_transaction and the guard of
\* deductCredits).
TypeOK ==
    /\ bal \in [Wallet -> Nat]
    /\ plan \in Nat \cup {NoPlan}
    /\ ledger \in [Wallet -> [Tag -> [rows : Nat, net : Int]]]
    /\ row \in [Res -> RowSpace]
    /\ stripe \in [Event -> {"due", "sent", "done"}]
    /\ applied \in [Wallet -> [Tag -> Nat]]
    /\ arrivals \in Nat
    /\ pc \in [Proc -> Label]
    /\ job \in [Proc -> JobSpace]

\* Every call on a wallet is carried out whole, on the balance as it stands, and
\* at most once: the compare-and-swap loop implements the atomic wallet.
WalletSpec == Wallets!Spec

\* What the ledger rows of a wallet come to, tag by tag, and what each call has
\* written to it and is about to insert.
Posted(w) == [t \in Tag |-> ledger[w][t].net]
Unposted(w) ==
    [p \in Proc |-> IF pc[p] = "post" /\ job[p].op.wallet = w THEN job[p].delta ELSE 0]

\* The books balance: a balance is what it was to begin with and all the ledger
\* rows since, but for the rows whose calls have written the balance and are
\* about to insert.  Without crashes, which may lose such a row.
BooksBalance ==
    \A w \in Wallet :
        bal[w] = Opening[w] + SumFunction(Posted(w)) + SumFunction(Unposted(w))

\* "Commit free-hour credits to a reservation exactly once"
\* (reservation-credit-service.ts): a booking takes its hours from the wallet at
\* most once, in whatever way it is settled.
CommittedOnce == \A r \in Res : applied["hours"][<<"reservation", r>>] <= 1

\* What the code does keep of it: once while the booking is not cancelled, and
\* once more for a cancelled one, which "Cash received" charges anew.
SpentOnce ==
    \A r \in Res : applied["hours"][<<"reservation", r>>] <=
                       IF row[r].status = "cancelled" THEN 2 ELSE 1

\* "exactly once" (reverseReservationCredits): and gives them back at most once.
ReversedOnce == \A r \in Res : applied["hours"][<<"cancelled", r>>] <= 1

\* "idempotent by invoice id, so webhook re-delivery can't double-grant"
\* (business-workflows.md): an invoice changes each balance at most once.
GrantedOnce ==
    \A i \in Invoice, w \in Wallet : applied[w][<<"monthly_allocation", i>>] <= 1

Settled(r) == \A p \in Proc : job[p].about # r

\* What a booking still owes and what the ledger took for it make up its price,
\* until the rest is paid in money or waived; then they are no more than it.
PriceMatchesLedger ==
    \A r \in Res : Settled(r) /\ row[r].due # Unpriced /\ row[r].status # "cancelled" =>
        /\ row[r].due + CommittedUnits(r) <= Need[r]
        /\ ~row[r].waived => row[r].due + CommittedUnits(r) = Need[r]

\* Once a cancellation is over, the hours the booking took are back, unless the
\* cancelled row was settled again, which prices it.
CancelReturnsHours ==
    \A r \in Res : Settled(r) /\ row[r].status = "cancelled" /\ row[r].due = Unpriced =>
        ledger["hours"][<<"reservation", r>>].net + ledger["hours"][<<"cancelled", r>>].net = 0

\* An awaited statement completes, and Stripe delivers until it is answered 200.
Fairness ==
    /\ \A p \in Proc : WF_vars(Step(p))
    /\ \A e \in Event : SF_vars(stripe[e] = "due" /\ \E p \in Proc : Deliver(p, e))
FairSpec == Spec /\ Fairness

\* Every paid invoice ends up in both wallets, although a delivery may fail half
\* way, for contention or a crash: what was granted is skipped the next time, and
\* the rest is not.
GrantArrives ==
    \A i \in Invoice : <>(\A w \in Wallet : applied[w][<<"monthly_allocation", i>>] >= 1)
=============================================================================
