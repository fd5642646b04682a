----------------------------- MODULE TicketSale -----------------------------
(***************************************************************************)
(* The tickets of one show: ticket-service.ts, door-sale.ts,               *)
(* checkout-listener.ts, ticket-seller.ts, the ticket forms of             *)
(* events.remote.ts and the two ways an event is cancelled.                *)
(*                                                                         *)
(* As in RoomBooking, an action is one awaited statement: a request, a     *)
(* cron or a webhook is a process p with its next statement in pc[p] and   *)
(* what it has read in job[p].  Stripe is an actor of its own: a Checkout  *)
(* Session or a PaymentIntent is opened, then paid, expired or cancelled,  *)
(* and a payment is announced by an event delivered at least once.         *)
(*                                                                         *)
(* Left out: prices and splits, codes, e-mails, drafts, who may do what.   *)
(***************************************************************************)
EXTENDS Integers, FiniteSets

CONSTANTS
    Online,         \* purchases made through Checkout
    Door,           \* card sales at the door
    Free,           \* free claims, comps and people let in free at the door
    Quantity,       \* Quantity[u]: tickets of purchase u
    Capacity,       \* ticket_sale.quantity
    Sellers,        \* who may be selling: "collective", "band"
    Proc,           \* requests, webhooks and crons in flight at once
    MaxOrders,      \* bound: how many purchases are begun
    MaxExtra,       \* bound: repeated deliveries and crashes
    Handlers,       \* the entry points this instance lets in
    NoOne           \* no purchase, no ticket

Purchase == Online \cup Door \cup Free

ASSUME TicketAssumption ==
    /\ Online \cap Door = {} /\ Online \cap Free = {} /\ Door \cap Free = {}
    /\ Quantity \in [Purchase -> Nat \ {0}]
    /\ Capacity \in Nat /\ MaxOrders \in Nat /\ MaxExtra \in Nat
    /\ Sellers \subseteq {"collective", "band"}
    /\ NoOne \notin Purchase

\* A ticket is the k-th row of its purchase.
Ticket == UNION {{u} \X (1 .. Quantity[u]) : u \in Purchase}
Of(u)  == {t \in Ticket : t[1] = u}

Status == {"none", "pending", "valid", "checked_in", "cancelled"}
Held   == {"valid", "checked_in"}

VARIABLES
    tkt,        \* tkt[t]: the status of the ticket row
    old,        \* purchases whose rows are more than 24 hours old
    listing,    \* event_listing.status
    open,       \* ticket_sale.enabled
    seller,     \* ticket_sale.group_id: the collective or the band
    charge,     \* charge[u]: the session or intent at Stripe
    event,      \* event[u]: the webhook that announces the payment
    refunds,    \* refunds[u]: how often Stripe has sent the money back
    ledger,     \* ledger[u]: sale rows, how many of them (the oldest) are
                \* reversed, and reversal rows
    extra,      \* repeated deliveries and crashes so far
    pc, job

rows == <<tkt, old>>
show == <<listing, open, seller>>
money == <<charge, event, refunds, ledger>>
vars == <<rows, show, money, extra, pc, job>>

-----------------------------------------------------------------------------
(* Database predicates, and processes. *)

With(S, s) == {t \in Ticket : t[1] \in S /\ tkt[t] = s}
IsHeld(u)  == \E t \in Of(u) : tkt[t] \in Held

\* One UPDATE: the rows of `which` whose status is one of `from` become `to`.
Update(which, from, to) ==
    tkt' = [t \in Ticket |-> IF t \in which /\ tkt[t] \in from THEN to ELSE tkt[t]]

\* getTicketsSold(): pending tickets do not count.
Sold == Cardinality({t \in Ticket : tkt[t] \in Held})
Fits(u) == Sold + Quantity[u] <= Capacity

IdleJob == [u |-> NoOne, t |-> NoOne, todo |-> {}, from |-> 0, to |-> 0]

Enter(p, label, j) ==
    /\ pc'  = [pc EXCEPT ![p] = label]
    /\ job' = [job EXCEPT ![p] = j]
Goto(p, label) == Enter(p, label, job[p])
Return(p) == Enter(p, "idle", IdleJob)
About(u)  == [IdleJob EXCEPT !.u = u]

Accepts(h, p) == h \in Handlers /\ pc[p] = "idle"

\* A purchase has a fresh id: one request makes it.
Begun(u) ==
    \/ \E t \in Of(u) : tkt[t] # "none"
    \/ charge[u] # "none"
    \/ \E p \in Proc : job[p].u = u

Unmade(u) == ~Begun(u) /\ Cardinality({v \in Purchase : Begun(v)}) < MaxOrders

-----------------------------------------------------------------------------
(* purchaseTickets *)

OnSale == listing = "published" /\ open

Buy(p, u) ==
    /\ Accepts("buy", p)
    /\ u \in Online /\ Unmade(u)
    /\ OnSale /\ Fits(u)
    /\ Enter(p, "mint", About(u))
    /\ UNCHANGED <<rows, show, money, extra>>

Mint(p) ==
    /\ pc[p] = "mint"
    /\ Update(Of(job[p].u), {"none"}, "pending")
    /\ Goto(p, "session")
    /\ UNCHANGED <<old, show, money, extra>>

OpenSession(p) ==
    /\ pc[p] = "session"
    /\ charge' = [charge EXCEPT ![job[p].u] = "open"]
    /\ Return(p)
    /\ UNCHANGED <<rows, show, event, refunds, ledger, extra>>

-----------------------------------------------------------------------------
(* claimFreeTicket, a scale that runs to free, and compTickets *)

\* compTickets asks neither whether the show is published nor on sale.
Claim(p, u) ==
    /\ u \in Free /\ Unmade(u)
    /\ \/ Accepts("claim", p) /\ OnSale
       \/ Accepts("comp", p)
    /\ Fits(u)
    /\ Enter(p, "issue", About(u))
    /\ UNCHANGED <<rows, show, money, extra>>

Issue(p) ==
    /\ pc[p] = "issue"
    /\ Update(Of(job[p].u), {"none"}, "valid")
    /\ Return(p)
    /\ UNCHANGED <<old, show, money, extra>>

-----------------------------------------------------------------------------
(* startDoorSale and cancelDoorSale *)

\* Only the collective's own shows have a door; it may sell past capacity.
DoorStart(p, u) ==
    /\ Accepts("door", p)
    /\ listing = "published" /\ seller = "collective"
    /\ Unmade(u)
    /\ \/ u \in Door /\ Enter(p, "intent", About(u))
       \/ u \in Free /\ Enter(p, "letIn", About(u))
    /\ UNCHANGED <<rows, show, money, extra>>

LetIn(p) ==
    /\ pc[p] = "letIn"
    /\ Update(Of(job[p].u), {"none"}, "checked_in")
    /\ Return(p)
    /\ UNCHANGED <<old, show, money, extra>>

DoorIntent(p) ==
    /\ pc[p] = "intent"
    /\ charge' = [charge EXCEPT ![job[p].u] = "open"]
    /\ Goto(p, "hold")
    /\ UNCHANGED <<rows, show, event, refunds, ledger, extra>>

DoorHold(p) ==
    /\ pc[p] = "hold"
    /\ Update(Of(job[p].u), {"none"}, "pending")
    /\ Return(p)
    /\ UNCHANGED <<old, show, money, extra>>

\* The phone knows the sale once its rows are there (requireSellerOfSale).
Started(u) == \E t \in Of(u) : tkt[t] # "none"

DoorCancelRead(p, u) ==
    /\ Accepts("doorCancel", p)
    /\ u \in Door /\ Started(u)
    /\ \/ charge[u] = "open" /\ Enter(p, "doorCancel", About(u))
       \/ charge[u] = "closed" /\ Enter(p, "doorVoid", About(u))
    /\ UNCHANGED <<rows, show, money, extra>>

\* Mutant: a card charged meanwhile is no reason to stop.
DoorCancelIntentCareless(p) ==
    LET u == job[p].u IN
    /\ pc[p] = "doorCancel"
    /\ charge' = [charge EXCEPT ![u] = IF @ = "open" THEN "closed" ELSE @]
    /\ Goto(p, "doorVoid")
    /\ UNCHANGED <<rows, show, event, refunds, ledger, extra>>

\* Stripe cancels an intent that is still open, and refuses any other.
DoorCancelIntent(p) ==
    LET u == job[p].u IN
    /\ pc[p] = "doorCancel"
    /\ \/ /\ charge[u] = "open"
          /\ charge' = [charge EXCEPT ![u] = "closed"]
          /\ Goto(p, "doorVoid")
       \/ charge[u] # "open" /\ Return(p) /\ UNCHANGED charge
    /\ UNCHANGED <<rows, show, event, refunds, ledger, extra>>

\* cancelPurchase()
DoorVoid(p) ==
    /\ pc[p] = "doorVoid"
    /\ Update(Of(job[p].u), {"pending", "valid"}, "cancelled")
    /\ Return(p)
    /\ UNCHANGED <<old, show, money, extra>>

-----------------------------------------------------------------------------
(* Stripe, and its webhooks *)

\* The buyer pays, or taps.  The phone has a door intent once its
\* rows are there.
Pay(u) ==
    /\ charge[u] = "open"
    /\ u \in Door => Started(u)
    /\ charge' = [charge EXCEPT ![u] = "paid"]
    /\ event' = [event EXCEPT ![u] = "due"]
    /\ UNCHANGED <<rows, show, refunds, ledger, extra, pc, job>>

\* A Checkout Session is made after its rows, and lives for a day.
SessionExpires(u) ==
    /\ u \in Online /\ u \in old
    /\ charge[u] = "open"
    /\ charge' = [charge EXCEPT ![u] = "closed"]
    /\ UNCHANGED <<rows, show, event, refunds, ledger, extra, pc, job>>

Delivering(u) == \E p \in Proc : pc[p] = "hook" /\ job[p].u = u

\* An event is delivered until it is answered, and now and then once more.
Deliver(p, u) ==
    /\ Accepts("hook", p)
    /\ \/ event[u] = "due" /\ ~Delivering(u) /\ UNCHANGED extra
       \/ /\ event[u] = "answered" \/ (event[u] = "due" /\ Delivering(u))
          /\ extra < MaxExtra /\ extra' = extra + 1
    /\ Enter(p, "hook", [About(u) EXCEPT
          !.todo = IF u \in Online THEN {"flip", "entries"} ELSE {"flip"}])
    /\ UNCHANGED <<rows, show, money>>

Done(p, task) == Enter(p, "hook", [job[p] EXCEPT !.todo = @ \ {task}])

\* Mutant: fulfilment asks for the purchase and not for the status.
FulfilAny(p) ==
    LET u == job[p].u IN
    /\ pc[p] = "hook" /\ "flip" \in job[p].todo /\ u \in Online
    /\ Update(Of(u), {"pending", "cancelled"}, "valid")
    /\ Done(p, "flip")
    /\ UNCHANGED <<old, show, money, extra>>

\* handleTicketCheckout: fulfillPurchase() flips what is still pending.
Fulfil(p) ==
    LET u == job[p].u IN
    /\ pc[p] = "hook" /\ "flip" \in job[p].todo /\ u \in Online
    /\ Update(Of(u), {"pending"}, "valid")
    /\ Done(p, "flip")
    /\ UNCHANGED <<old, show, money, extra>>

\* Mutant: the order is booked whether or not a row was flipped.
FulfilDoorAlways(p) ==
    LET u == job[p].u IN
    /\ pc[p] = "hook" /\ "flip" \in job[p].todo /\ u \in Door
    /\ Update(Of(u), {"pending"}, "checked_in")
    /\ Enter(p, "hook", [job[p] EXCEPT !.todo = {"entries"}])
    /\ UNCHANGED <<old, show, money, extra>>

\* fulfillDoorSale(): rows flipped are what makes it write its entries.
FulfilDoor(p) ==
    LET u == job[p].u IN
    /\ pc[p] = "hook" /\ "flip" \in job[p].todo /\ u \in Door
    /\ Update(Of(u), {"pending"}, "checked_in")
    /\ Enter(p, "hook", [job[p] EXCEPT
          !.todo = IF With({u}, "pending") # {} THEN {"entries"} ELSE {}])
    /\ UNCHANGED <<old, show, money, extra>>

\* recordDoorTicketSale(), or handleCheckoutEntries, a listener that runs
\* beside handleTicketCheckout and asks nothing before it inserts.
RecordSale(p) ==
    LET u == job[p].u IN
    /\ pc[p] = "hook" /\ "entries" \in job[p].todo
    /\ ledger' = [ledger EXCEPT ![u].sale = @ + 1]
    /\ Done(p, "entries")
    /\ UNCHANGED <<rows, show, charge, event, refunds, extra>>

Answer(p) ==
    /\ pc[p] = "hook" /\ job[p].todo = {}
    /\ event' = [event EXCEPT ![job[p].u] = "answered"]
    /\ Return(p)
    /\ UNCHANGED <<rows, show, charge, refunds, ledger, extra>>

-----------------------------------------------------------------------------
(* Single tickets: cancelTicket and checkIn() *)

\* Mutant: the status is not looked at.
ScannableAlways(t) == tkt[t] \notin {"none", "cancelled"}

Scannable(t) == tkt[t] = "valid"

ScanRead(p, t) ==
    /\ Accepts("scan", p)
    /\ Scannable(t)
    /\ Enter(p, "scan", [IdleJob EXCEPT !.t = t])
    /\ UNCHANGED <<rows, show, money, extra>>

\* UPDATE ... WHERE id: whatever the ticket has become since the read.
ScanWrite(p) ==
    /\ pc[p] = "scan"
    /\ tkt' = [tkt EXCEPT ![job[p].t] = "checked_in"]
    /\ Return(p)
    /\ UNCHANGED <<old, show, money, extra>>

DropRead(p, t) ==
    /\ Accepts("drop", p)
    /\ tkt[t] \in {"pending", "valid"}
    /\ Enter(p, "drop", [IdleJob EXCEPT !.t = t])
    /\ UNCHANGED <<rows, show, money, extra>>

\* By id again.
DropWrite(p) ==
    /\ pc[p] = "drop"
    /\ tkt' = [tkt EXCEPT ![job[p].t] = "cancelled"]
    /\ Return(p)
    /\ UNCHANGED <<old, show, money, extra>>

-----------------------------------------------------------------------------
(* event-service.cancel(): the collective cancels its show *)

CancelShow(p) ==
    /\ Accepts("cancelShow", p)
    /\ seller = "collective" /\ listing = "published"
    /\ Enter(p, "showWrite", IdleJob)
    /\ UNCHANGED <<rows, show, money, extra>>

ShowWrite(p) ==
    /\ pc[p] = "showWrite"
    /\ \/ /\ listing = "published"
          /\ listing' = "cancelled"
          /\ Goto(p, "showVoid")
       \/ listing # "published" /\ Return(p) /\ UNCHANGED listing
    /\ UNCHANGED <<rows, open, seller, money, extra>>

\* People already inside keep their tickets.
ShowVoid(p) ==
    /\ pc[p] = "showVoid"
    /\ Update(Ticket, {"pending", "valid"}, "cancelled")
    /\ Return(p)
    /\ UNCHANGED <<old, show, money, extra>>

-----------------------------------------------------------------------------
(* cancelBandEvent: a band cancels its gig and gives the money back *)

CancelGig(p) ==
    /\ Accepts("cancelGig", p)
    /\ seller = "band" /\ listing = "published"
    /\ Enter(p, "gigWrite", IdleJob)
    /\ UNCHANGED <<rows, show, money, extra>>

GigWrite(p) ==
    /\ pc[p] = "gigWrite"
    /\ listing' = "cancelled"
    /\ Goto(p, "gigClose")
    /\ UNCHANGED <<rows, open, seller, money, extra>>

GigClose(p) ==
    /\ pc[p] = "gigClose"
    /\ open' = FALSE
    /\ Goto(p, "gigList")
    /\ UNCHANGED <<rows, listing, seller, money, extra>>

\* refundBandTicketSale(): the purchases somebody holds tickets of ...
NextOf(p, todo) ==
    IF todo = {} THEN Return(p) ELSE Enter(p, "gigNext", [IdleJob EXCEPT !.todo = todo])

GigList(p) ==
    /\ pc[p] = "gigList"
    /\ NextOf(p, {u \in Purchase : IsHeld(u)})
    /\ UNCHANGED <<rows, show, money, extra>>

\* Mutant: each attempt has an idempotency key of its own.
RefundAfresh(u) == refunds[u] + 1

\* One idempotency key for a purchase: Stripe sends its money back once.
Refund(u) == 1

\* ... are refunded one by one; a free one has nothing to give back.
GigRefund(p) ==
    /\ pc[p] = "gigNext"
    /\ \E u \in job[p].todo :
          /\ Enter(p, IF u \in Online THEN "gigReverse" ELSE "gigVoid",
                   [job[p] EXCEPT !.u = u, !.todo = @ \ {u}])
          /\ refunds' = IF u \in Online THEN [refunds EXCEPT ![u] = Refund(u)] ELSE refunds
    /\ UNCHANGED <<rows, show, charge, event, ledger, extra>>

\* Mutant: what is left to reverse is counted the wrong way round.
GigReverseSwapped(p) ==
    LET entries == ledger[job[p].u] IN
    /\ pc[p] = "gigReverse"
    /\ Enter(p, "gigEnter", [job[p] EXCEPT !.from = entries.sale, !.to = entries.undone])
    /\ UNCHANGED <<rows, show, money, extra>>

\* reverseAll() reads which sale rows have no reversal yet ...
GigReverse(p) ==
    LET entries == ledger[job[p].u] IN
    /\ pc[p] = "gigReverse"
    /\ Enter(p, "gigEnter", [job[p] EXCEPT !.from = entries.undone, !.to = entries.sale])
    /\ UNCHANGED <<rows, show, money, extra>>

\* ... and inserts a reversal for each of those.
GigEnter(p) ==
    LET j == job[p] IN
    /\ pc[p] = "gigEnter"
    /\ ledger' = [ledger EXCEPT ![j.u].back = @ + (j.to - j.from),
                                ![j.u].undone = IF j.to > @ THEN j.to ELSE @]
    /\ Goto(p, "gigVoid")
    /\ UNCHANGED <<rows, show, charge, event, refunds, extra>>

GigVoid(p) ==
    /\ pc[p] = "gigVoid"
    /\ Update(Of(job[p].u), Held, "cancelled")
    /\ NextOf(p, job[p].todo)
    /\ UNCHANGED <<old, show, money, extra>>

\* closeBandTicketSale, and the staff form that takes a show off sale.
CloseSale ==
    /\ "closeSale" \in Handlers /\ open
    /\ open' = FALSE
    /\ UNCHANGED <<rows, listing, seller, money, extra, pc, job>>

-----------------------------------------------------------------------------
(* Time, the sweep, and the isolate that dies *)

\* The age of rows matters while they are pending or their session is open.
Age(u) ==
    /\ u \notin old /\ Started(u)
    /\ With({u}, "pending") # {} \/ charge[u] = "open"
    /\ old' = old \cup {u}
    /\ UNCHANGED <<tkt, show, money, extra, pc, job>>

\* Mutant: only orders that reached Stripe are swept.
StaleOpened == {t \in Ticket : t[1] \in old /\ tkt[t] = "pending" /\ charge[t[1]] # "none"}

Stale == {t \in Ticket : t[1] \in old /\ tkt[t] = "pending"}

\* cancelStalePendingTickets(), once a day.
Sweep ==
    /\ "sweep" \in Handlers
    /\ Stale # {}
    /\ Update(Stale, {"pending"}, "cancelled")
    /\ UNCHANGED <<old, show, money, extra, pc, job>>

Crash(p) ==
    /\ "crash" \in Handlers /\ pc[p] # "idle" /\ extra < MaxExtra
    /\ extra' = extra + 1
    /\ Return(p)
    /\ UNCHANGED <<rows, show, money>>

Init ==
    /\ tkt = [t \in Ticket |-> "none"]
    /\ old = {}
    /\ listing = "published"
    /\ open = TRUE
    /\ seller \in Sellers
    /\ charge = [u \in Purchase |-> "none"]
    /\ event = [u \in Purchase |-> "none"]
    /\ refunds = [u \in Purchase |-> 0]
    /\ ledger = [u \in Purchase |-> [sale |-> 0, undone |-> 0, back |-> 0]]
    /\ extra = 0
    /\ pc = [p \in Proc |-> "idle"]
    /\ job = [p \in Proc |-> IdleJob]

Step(p) ==
    \/ Mint(p) \/ OpenSession(p) \/ Issue(p)
    \/ LetIn(p) \/ DoorIntent(p) \/ DoorHold(p) \/ DoorCancelIntent(p) \/ DoorVoid(p)
    \/ Fulfil(p) \/ FulfilDoor(p) \/ RecordSale(p) \/ Answer(p)
    \/ ScanWrite(p) \/ DropWrite(p) \/ ShowWrite(p) \/ ShowVoid(p)
    \/ GigWrite(p) \/ GigClose(p) \/ GigList(p) \/ GigRefund(p)
    \/ GigReverse(p) \/ GigEnter(p) \/ GigVoid(p)

Request(p) ==
    \/ \E u \in Purchase : Buy(p, u) \/ Claim(p, u) \/ DoorStart(p, u) \/ DoorCancelRead(p, u)
    \/ \E t \in Ticket : ScanRead(p, t) \/ DropRead(p, t)
    \/ CancelShow(p) \/ CancelGig(p)

Stripe == \E u \in Purchase : Pay(u) \/ SessionExpires(u)

Next ==
    \/ \E p \in Proc : Step(p) \/ Request(p) \/ Crash(p) \/ \E u \in Purchase : Deliver(p, u)
    \/ Stripe \/ CloseSale \/ Sweep \/ \E u \in Purchase : Age(u)

Spec == Init /\ [][Next]_vars

-----------------------------------------------------------------------------
(* Properties *)

Label ==
    {"idle", "mint", "session", "issue", "letIn", "intent", "hold", "doorCancel",
     "doorVoid", "hook", "scan", "drop", "showWrite", "showVoid", "gigWrite",
     "gigClose", "gigList", "gigNext", "gigReverse", "gigEnter", "gigVoid"}

JobSpace == [u : Purchase \cup {NoOne}, t : Ticket \cup {NoOne},
             todo : SUBSET (Purchase \cup {"flip", "entries"}), from : Nat, to : Nat]

\* The types of the variables.
TypeOK ==
    /\ tkt \in [Ticket -> Status]
    /\ old \subseteq Purchase
    /\ listing \in {"published", "cancelled"}
    /\ open \in BOOLEAN
    /\ seller \in {"collective", "band"}
    /\ charge \in [Purchase -> {"none", "open", "paid", "closed"}]
    /\ event \in [Purchase -> {"none", "due", "answered"}]
    /\ refunds \in [Purchase -> Nat]
    /\ ledger \in [Purchase -> [sale : Nat, undone : Nat, back : Nat]]
    /\ extra \in 0 .. MaxExtra
    /\ pc \in [Proc -> Label]
    /\ job \in [Proc -> JobSpace]

\* Nobody holds or has used a ticket of a paid order whose charge did not go
\* through: neither a scan, nor a webhook, nor a write by id on a row that has
\* changed since turns an unpaid ticket into one that admits.
AdmittedHavePaid ==
    \A t \in Ticket : tkt[t] \in Held /\ t[1] \notin Free => charge[t[1]] = "paid"

\* A void ticket stays void: a late webhook, a second delivery or a fulfilment
\* beside a cancellation never revives it ("pending" is in their WHERE).  Only
\* a scan that had read the ticket as valid may still write it, by id.
VoidStaysVoid ==
    [][\A t \in Ticket : tkt[t] = "cancelled" /\ tkt'[t] # "cancelled" =>
          \E p \in Proc : pc[p] = "scan" /\ job[p].t = t]_vars

\* The staffer backs out of a door sale while the buyer taps: if the card is
\* charged, the cancellation gives up, and the seats stay for the webhook
\* (cancelDoorSale cancels the intent before it voids the rows).
TapWins ==
    [][\A p \in Proc : pc[p] = "doorVoid" /\ tkt' # tkt /\ pc'[p] # "doorVoid" =>
          charge[job[p].u] # "paid"]_vars

\* A door sale is entered in the books at most once however often its event is
\* delivered, and only for a card that was charged ("a redelivered event
\* matches no `pending` row, so it writes nothing and records nothing twice").
DoorSaleBookedOnce ==
    \A u \in Door : ledger[u].sale <= 1 /\ (ledger[u].sale = 1 => charge[u] = "paid")

\* Two cancellations of one gig at once send a buyer's money back once, and
\* never money that was not taken ("each paid purchase is refunded once",
\* refundBandTicketSale).
RefundedOnce ==
    \A u \in Purchase : refunds[u] <= 1 /\ (refunds[u] = 1 => charge[u] = "paid")

\* Handlers run on; Stripe delivers an event until it is answered; the sweep
\* runs every day, and days pass.
Fairness ==
    /\ \A p \in Proc : WF_vars(Step(p))
    /\ \A u \in Online \cup Door : SF_vars(\E p \in Proc : Deliver(p, u) /\ event[u] = "due")
    /\ \A u \in Online \cup Door : WF_vars(Age(u))
    /\ WF_vars(Sweep)
FairSpec == Spec /\ Fairness

\* No order stays pending for ever: it is paid and flipped, given up, or swept,
\* though the isolate may die after the rows and before the session.
PendingResolves ==
    \A u \in Online \cup Door : With({u}, "pending") # {} ~> With({u}, "pending") = {}

Cancelling == \E p \in Proc : pc[p] \in
    {"gigWrite", "gigClose", "gigList", "gigNext", "gigReverse", "gigEnter", "gigVoid"}

\* "A band cannot cancel and keep the money: checkout closes first, so nobody
\* buys into the refund, then every paid ticket is given back" (cancelBandEvent):
\* once the cancellation is over and the payment's event answered, nothing else
\* would give it back.
CancelledGigKeepsNothing ==
    seller = "band" /\ listing = "cancelled" /\ ~Cancelling =>
        \A u \in Purchase : charge[u] = "paid" /\ event[u] = "answered" => refunds[u] = 1
=============================================================================
