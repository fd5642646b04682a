-------------------------- MODULE TicketSaleProofs --------------------------
(***************************************************************************)
(* Proofs about TicketSale, for any purchases of any number of tickets,    *)
(* any number of requests, webhooks and crons, repeats and crashes.        *)
(*                                                                         *)
(* The argument: money only moves forward, none, open, paid or closed, and *)
(* only the request that makes a purchase opens its charge and inserts its *)
(* rows (OneMaker, Fresh).  So a charge seen as paid or closed is so for   *)
(* good, and what a webhook, a scan, a refund or a cancellation has read   *)
(* of it still holds when it writes (Pays), whatever the row has become.   *)
(***************************************************************************)
EXTENDS TicketSale, TLAPS

Making == {"mint", "session", "issue", "letIn", "intent", "hold"}
Gig    == {"gigNext", "gigReverse", "gigEnter", "gigVoid"}

\* What a process at each statement is about.
Whose(p) ==
    /\ pc[p] \in {"mint", "session"} => job[p].u \in Online
    /\ pc[p] \in {"intent", "hold", "doorCancel", "doorVoid"} => job[p].u \in Door
    /\ pc[p] \in {"issue", "letIn"} => job[p].u \in Free
    /\ pc[p] \in {"hook", "gigReverse", "gigEnter", "gigVoid"} => job[p].u \in Purchase
    /\ pc[p] \in {"scan", "drop"} => job[p].t \in Ticket /\ tkt[job[p].t] # "none"
    /\ pc[p] \in Gig => job[p].todo \subseteq Purchase

\* A purchase in the making has no charge; one at the door has no rows until
\* the last statement, and so cannot be paid before.
Fresh(p) ==
    /\ pc[p] \in {"mint", "session", "intent"} => charge[job[p].u] = "none"
    /\ pc[p] \in {"intent", "hold"} => ~Started(job[p].u) /\ charge[job[p].u] # "paid"

\* What a process knows of the money.
Pays(p) ==
    /\ pc[p] = "hook" => charge[job[p].u] = "paid"
    /\ pc[p] = "scan" /\ job[p].t[1] \notin Free => charge[job[p].t[1]] = "paid"
    /\ pc[p] \in Gig => \A u \in job[p].todo \cap Online : charge[u] = "paid"
    /\ pc[p] = "doorVoid" => charge[job[p].u] = "closed"

\* The reversals a cancellation is about to enter are of rows that are there.
Reverses(p) == pc[p] = "gigEnter" =>
    job[p].from <= job[p].to /\ job[p].to <= ledger[job[p].u].sale

Local == \A p \in Proc : Whose(p) /\ Fresh(p) /\ Pays(p) /\ Reverses(p)

OneMaker == \A p, q \in Proc :
    p # q /\ pc[p] \in Making /\ pc[q] \in Making => job[p].u # job[q].u

\* The tables.
PaidEvents == \A u \in Purchase :
    /\ event[u] # "none" => charge[u] = "paid"
    /\ charge[u] # "none" => u \notin Free
    /\ ledger[u].undone <= ledger[u].sale

\* A delivery that has flipped rows of a door sale is about to book it, is the
\* only one, and leaves no row to flip to the next.
Entering(p, u) == pc[p] = "hook" /\ job[p].u = u /\ "entries" \in job[p].todo

Books == \A u \in Door :
    /\ ledger[u].sale <= 1
    /\ ledger[u].sale = 1 => charge[u] = "paid" /\ With({u}, "pending") = {}
    /\ \A p \in Proc : Entering(p, u) => ledger[u].sale = 0 /\ With({u}, "pending") = {}
    /\ \A p, q \in Proc : Entering(p, u) /\ Entering(q, u) => p = q

Inv  == TypeOK /\ Local /\ OneMaker /\ PaidEvents /\ AdmittedHavePaid
IInv == Inv /\ RefundedOnce /\ Books

-----------------------------------------------------------------------------
(* Rows and processes *)

LEMMA Rows ==
    /\ \A t \in Ticket : t[1] \in Purchase /\ t \in Of(t[1])
    /\ \A u : Of(u) \subseteq Ticket /\ \A t \in Of(u) : t[1] = u
    /\ \A u, s : With({u}, s) = {t \in Of(u) : tkt[t] = s}
  BY DEF Ticket, Of, With

LEMMA EnterType ==
    ASSUME TypeOK, NEW p \in Proc, NEW l \in Label, NEW j \in JobSpace, Enter(p, l, j)
    PROVE  pc' \in [Proc -> Label] /\ job' \in [Proc -> JobSpace]
  BY DEF TypeOK, Enter

LEMMA EnterOnly ==
    ASSUME TypeOK, NEW p \in Proc, NEW l, NEW j, Enter(p, l, j)
    PROVE  /\ pc'[p] = l /\ job'[p] = j
           /\ \A q \in Proc \ {p} : pc'[q] = pc[q] /\ job'[q] = job[q]
  BY DEF TypeOK, Enter

LEMMA JobType ==
    ASSUME TypeOK, NEW p \in Proc
    PROVE  /\ IdleJob \in JobSpace /\ job[p] \in JobSpace
           /\ \A u \in Purchase : About(u) \in JobSpace
           /\ \A t \in Ticket : [IdleJob EXCEPT !.t = t] \in JobSpace
           /\ \A u \in Purchase, S \in SUBSET {"flip", "entries"} :
                 [About(u) EXCEPT !.todo = S] \in JobSpace
           /\ \A S \in SUBSET {"flip", "entries"} : [job[p] EXCEPT !.todo = S] \in JobSpace
           /\ \A S \in SUBSET Purchase : [IdleJob EXCEPT !.todo = S] \in JobSpace
           /\ \A x : [job[p] EXCEPT !.todo = @ \ {x}] \in JobSpace
           /\ \A u \in Purchase : [job[p] EXCEPT !.u = u, !.todo = @ \ {u}] \in JobSpace
           /\ \A m, n \in Nat : [job[p] EXCEPT !.from = m, !.to = n] \in JobSpace
  BY DEF TypeOK, IdleJob, About, JobSpace

LEMMA UpdateType ==
    ASSUME TypeOK, NEW S, NEW from, NEW to \in Status, Update(S, from, to)
    PROVE  tkt' \in [Ticket -> Status]
  BY DEF TypeOK, Update

-----------------------------------------------------------------------------
(* Type correctness *)

LEMMA InitType == Init => TypeOK
  <1> SUFFICES ASSUME Init PROVE TypeOK
    OBVIOUS
  <1>1. IdleJob \in JobSpace
    BY DEF IdleJob, JobSpace
  <1>2. pc \in [Proc -> Label] /\ job \in [Proc -> JobSpace]
    BY <1>1 DEF Init, Label
  <1>3. extra \in 0 .. MaxExtra
    BY TicketAssumption DEF Init
  <1>4. /\ tkt \in [Ticket -> Status]
        /\ ledger \in [Purchase -> [sale : Nat, undone : Nat, back : Nat]]
    BY DEF Init, Status
  <1> QED
    BY <1>2, <1>3, <1>4, TicketAssumption DEF Init, TypeOK

\* Where a step leaves its process.
LEMMA ProcessType ==
    ASSUME TypeOK, Local, NEW p \in Proc,
           Step(p) \/ Request(p) \/ Crash(p) \/ \E u \in Purchase : Deliver(p, u)
    PROVE  pc' \in [Proc -> Label] /\ job' \in [Proc -> JobSpace]
  <1> DEFINE Typed == pc' \in [Proc -> Label] /\ job' \in [Proc -> JobSpace]
  <1> USE DEF Label
  <1>1. ASSUME Return(p) PROVE Typed
    BY <1>1, JobType, EnterType DEF Return
  <1>2. ASSUME NEW l \in Label, Goto(p, l) PROVE Typed
    BY <1>2, JobType, EnterType DEF Goto
  <1>3. ASSUME NEW l \in Label, NEW u \in Purchase, Enter(p, l, About(u)) PROVE Typed
    BY <1>3, JobType, EnterType
  <1>4. ASSUME NEW x, Done(p, x) PROVE Typed
    BY <1>4, JobType, EnterType DEF Done
  <1>5. CASE Mint(p) \/ OpenSession(p) \/ Issue(p) \/ LetIn(p) \/ DoorIntent(p) \/ DoorHold(p)
    BY <1>5, <1>1, <1>2 DEF Mint, OpenSession, Issue, LetIn, DoorIntent, DoorHold
  <1>6. CASE DoorCancelIntent(p) \/ DoorVoid(p) \/ Answer(p) \/ ScanWrite(p) \/ DropWrite(p)
    BY <1>6, <1>1, <1>2 DEF DoorCancelIntent, DoorVoid, Answer, ScanWrite, DropWrite
  <1>7. CASE Fulfil(p) \/ RecordSale(p)
    BY <1>7, <1>4 DEF Fulfil, RecordSale
  <1>8. CASE FulfilDoor(p)
    <2>1. PICK S \in SUBSET {"flip", "entries"} : Enter(p, "hook", [job[p] EXCEPT !.todo = S])
      BY <1>8 DEF FulfilDoor
    <2> QED
      BY <2>1, JobType, EnterType
  <1>9. CASE ShowWrite(p) \/ ShowVoid(p) \/ GigWrite(p) \/ GigClose(p) \/ GigEnter(p) \/ Crash(p)
    BY <1>9, <1>1, <1>2 DEF ShowWrite, ShowVoid, GigWrite, GigClose, GigEnter, Crash
  <1>10. ASSUME NEW S \in SUBSET Purchase, NextOf(p, S) PROVE Typed
    BY <1>10, <1>1, JobType, EnterType DEF NextOf
  <1>11. CASE GigList(p)
    BY <1>11, <1>10 DEF GigList
  <1>12. CASE GigVoid(p)
    <2>1. job[p].todo \subseteq Purchase
      BY <1>12 DEF GigVoid, Local, Whose, Gig
    <2> QED
      BY <1>12, <1>10, <2>1 DEF GigVoid
  <1>13. CASE GigRefund(p)
    <2>1. job[p].todo \subseteq Purchase
      BY <1>13 DEF GigRefund, Local, Whose, Gig
    <2>2. PICK u \in job[p].todo, l \in {"gigReverse", "gigVoid"} :
             Enter(p, l, [job[p] EXCEPT !.u = u, !.todo = @ \ {u}])
      BY <1>13 DEF GigRefund
    <2> QED
      BY <2>1, <2>2, JobType, EnterType
  <1>14. CASE GigReverse(p)
    <2>1. ledger[job[p].u].sale \in Nat /\ ledger[job[p].u].undone \in Nat
      BY <1>14 DEF GigReverse, Local, Whose, TypeOK
    <2> QED
      BY <1>14, <2>1, JobType, EnterType DEF GigReverse
  <1>15. CASE \E u \in Purchase :
                 Buy(p, u) \/ Claim(p, u) \/ DoorStart(p, u) \/ DoorCancelRead(p, u)
    BY <1>15, <1>3 DEF Buy, Claim, DoorStart, DoorCancelRead
  <1>16. CASE \E t \in Ticket : ScanRead(p, t) \/ DropRead(p, t)
    BY <1>16, JobType, EnterType DEF ScanRead, DropRead
  <1>17. CASE CancelShow(p) \/ CancelGig(p)
    BY <1>17, JobType, EnterType DEF CancelShow, CancelGig
  <1>18. CASE \E u \in Purchase : Deliver(p, u)
    <2>1. PICK u \in Purchase, S \in SUBSET {"flip", "entries"} :
             Enter(p, "hook", [About(u) EXCEPT !.todo = S])
      BY <1>18 DEF Deliver
    <2> QED
      BY <2>1, JobType, EnterType
  <1> QED
    BY <1>5, <1>6, <1>7, <1>8, <1>9, <1>11, <1>12, <1>13, <1>14, <1>15, <1>16, <1>17, <1>18
       DEF Step, Request

\* What it does to the tables.
LEMMA RowsType ==
    ASSUME TypeOK, [Next]_vars
    PROVE  tkt' \in [Ticket -> Status] /\ old' \subseteq Purchase
  <1> DEFINE Typed == tkt' \in [Ticket -> Status]
  <1>1. ASSUME UNCHANGED tkt PROVE Typed
    BY <1>1 DEF TypeOK
  <1>2. ASSUME NEW S, NEW from, NEW to \in Status, Update(S, from, to) PROVE Typed
    BY <1>2, UpdateType
  <1>3. {"pending", "valid", "checked_in", "cancelled"} \subseteq Status
    BY DEF Status
  <1>4. ASSUME NEW p \in Proc, Step(p) PROVE Typed
    <2>1. CASE Mint(p) \/ Issue(p) \/ LetIn(p) \/ DoorHold(p) \/ DoorVoid(p)
      BY <2>1, <1>2, <1>3 DEF Mint, Issue, LetIn, DoorHold, DoorVoid
    <2>2. CASE Fulfil(p) \/ FulfilDoor(p) \/ ShowVoid(p) \/ GigVoid(p)
      BY <2>2, <1>2, <1>3 DEF Fulfil, FulfilDoor, ShowVoid, GigVoid
    <2>3. CASE ScanWrite(p) \/ DropWrite(p)
      BY <2>3, <1>3 DEF ScanWrite, DropWrite, TypeOK
    <2>4. CASE UNCHANGED tkt
      BY <2>4, <1>1
    <2> QED
      BY <1>4, <2>1, <2>2, <2>3, <2>4
         DEF Step, OpenSession, DoorIntent, DoorCancelIntent, RecordSale, Answer, ShowWrite,
             GigWrite, GigClose, GigList, GigRefund, GigReverse, GigEnter, rows
  <1>5. ASSUME NEW p \in Proc, Request(p) \/ Crash(p) \/ \E u \in Purchase : Deliver(p, u)
        PROVE  UNCHANGED rows
    BY <1>5 DEF Request, Buy, Claim, DoorStart, DoorCancelRead, ScanRead, DropRead, CancelShow,
                CancelGig, Crash, Deliver
  <1>6. CASE Stripe \/ CloseSale \/ UNCHANGED vars
    BY <1>6, <1>1 DEF Stripe, Pay, SessionExpires, CloseSale, vars, rows, TypeOK
  <1>7. CASE Sweep
    BY <1>7, <1>2, <1>3 DEF Sweep, TypeOK
  <1>8. CASE \E u \in Purchase : Age(u)
    BY <1>8, <1>1 DEF Age, TypeOK
  <1>9. ASSUME NEW p \in Proc, Step(p) PROVE UNCHANGED old
    BY <1>9 DEF Step, Mint, OpenSession, Issue, LetIn, DoorIntent, DoorHold, DoorCancelIntent,
                DoorVoid, Fulfil, FulfilDoor, RecordSale, Answer, ScanWrite, DropWrite,
                ShowWrite, ShowVoid, GigWrite, GigClose, GigList, GigRefund, GigReverse,
                GigEnter, GigVoid, rows
  <1> QED
    BY <1>1, <1>4, <1>5, <1>6, <1>7, <1>8, <1>9 DEF Next, rows, TypeOK

LEMMA ShowType ==
    ASSUME TypeOK, [Next]_vars
    PROVE  /\ listing' \in {"published", "cancelled"} /\ open' \in BOOLEAN
           /\ seller' \in {"collective", "band"} /\ extra' \in 0 .. MaxExtra
  <1> USE DEF TypeOK, show
  <1>1. ASSUME NEW p \in Proc, Crash(p) \/ \E u \in Purchase : Deliver(p, u)
        PROVE  UNCHANGED show /\ extra' \in 0 .. MaxExtra
    <2>1. UNCHANGED extra \/ (extra < MaxExtra /\ extra' = extra + 1)
      BY <1>1 DEF Crash, Deliver
    <2>2. extra' \in 0 .. MaxExtra
      BY <2>1, TicketAssumption
    <2> QED
      BY <1>1, <2>2 DEF Crash, Deliver
  <1>2. ASSUME NEW p \in Proc, Request(p) PROVE UNCHANGED <<show, extra>>
    BY <1>2 DEF Request, Buy, Claim, DoorStart, DoorCancelRead, ScanRead, DropRead, CancelShow,
                CancelGig
  <1>3. ASSUME NEW p \in Proc, ShowWrite(p) \/ GigWrite(p) \/ GigClose(p)
        PROVE  /\ listing' \in {"published", "cancelled"} /\ open' \in BOOLEAN
               /\ UNCHANGED <<seller, extra>>
    BY <1>3 DEF ShowWrite, GigWrite, GigClose
  <1>4. ASSUME NEW p \in Proc, Step(p), ~(ShowWrite(p) \/ GigWrite(p) \/ GigClose(p))
        PROVE  UNCHANGED <<show, extra>>
    BY <1>4 DEF Step, Mint, OpenSession, Issue, LetIn, DoorIntent, DoorHold, DoorCancelIntent,
                DoorVoid, Fulfil, FulfilDoor, RecordSale, Answer, ScanWrite, DropWrite,
                ShowVoid, GigList, GigRefund, GigReverse, GigEnter, GigVoid
  <1>5. CASE Stripe \/ CloseSale \/ Sweep \/ UNCHANGED vars \/ \E u \in Purchase : Age(u)
    BY <1>5 DEF Stripe, Pay, SessionExpires, CloseSale, Sweep, Age, vars
  <1> QED
    BY <1>1, <1>2, <1>3, <1>4, <1>5 DEF Next

LEMMA ProcessMoneyType ==
    ASSUME TypeOK, Local, NEW p \in Proc, Step(p)
    PROVE  /\ charge' \in [Purchase -> {"none", "open", "paid", "closed"}]
           /\ event' \in [Purchase -> {"none", "due", "answered"}]
           /\ refunds' \in [Purchase -> Nat]
           /\ ledger' \in [Purchase -> [sale : Nat, undone : Nat, back : Nat]]
  <1> USE DEF TypeOK, money
  <1>1. CASE OpenSession(p) \/ DoorIntent(p) \/ DoorCancelIntent(p)
    BY <1>1 DEF OpenSession, DoorIntent, DoorCancelIntent
  <1> DEFINE Entries == [sale : Nat, undone : Nat, back : Nat]
  <1>2. CASE RecordSale(p)
    <2>1. job[p].u \in Purchase
      BY <1>2 DEF RecordSale, Local, Whose
    <2>2. ledger[job[p].u] \in Entries
      BY <2>1
    <2>3. [ledger[job[p].u] EXCEPT !.sale = @ + 1] \in Entries
      BY <2>2
    <2>4. ledger' = [ledger EXCEPT ![job[p].u] = [ledger[job[p].u] EXCEPT !.sale = @ + 1]]
      BY <1>2 DEF RecordSale
    <2>5. ledger' \in [Purchase -> Entries]
      BY <2>3, <2>4
    <2> QED
      BY <1>2, <2>5 DEF RecordSale
  <1>3. CASE Answer(p)
    BY <1>3 DEF Answer
  <1>4. CASE GigRefund(p)
    <2>1. PICK u : refunds' \in {refunds, [refunds EXCEPT ![u] = 1]}
      BY <1>4 DEF GigRefund, Refund
    <2>2. refunds' \in [Purchase -> Nat]
      BY <2>1
    <2> QED
      BY <1>4, <2>2 DEF GigRefund
  <1>5. CASE GigEnter(p)
    <2>1. job[p].from \in Nat /\ job[p].to \in Nat /\ job[p].from <= job[p].to
      BY <1>5 DEF GigEnter, Local, Reverses, JobSpace
    <2>2. job[p].to - job[p].from \in Nat
      BY <2>1
    <2>3. ledger[job[p].u] \in Entries
      BY <1>5 DEF GigEnter, Local, Whose
    <2> DEFINE u == job[p].u
               m == ledger[u].back + (job[p].to - job[p].from)
               n == IF job[p].to > ledger[u].undone THEN job[p].to ELSE ledger[u].undone
    <2>4. ledger' = [ledger EXCEPT ![u] = [ledger[u] EXCEPT !.back = m, !.undone = n]]
      <3>1. ledger' = [ledger EXCEPT ![u].back = m, ![u].undone = n]
        BY <1>5, <2>3 DEF GigEnter
      <3> HIDE DEF m, n
      <3> QED
        BY <3>1, <2>3
    <2>5. m \in Nat /\ n \in Nat
      BY <2>1, <2>2, <2>3
    <2> HIDE DEF m, n
    <2>6. [ledger[u] EXCEPT !.back = m, !.undone = n] \in Entries
      BY <2>3, <2>5
    <2>7. ledger' \in [Purchase -> Entries]
      BY <2>4, <2>6
    <2> QED
      BY <1>5, <2>7 DEF GigEnter
  <1>6. CASE UNCHANGED money
    BY <1>6
  <1> QED
    BY <1>1, <1>2, <1>3, <1>4, <1>5, <1>6
       DEF Step, Mint, Issue, LetIn, DoorHold, DoorVoid, Fulfil, FulfilDoor, ScanWrite,
           DropWrite, ShowWrite, ShowVoid, GigWrite, GigClose, GigList, GigReverse, GigVoid

\* The tables of money, whoever moves.
LEMMA MoneyFrame ==
    ASSUME [Next]_vars
    PROVE  (\E p \in Proc : Step(p)) \/ (\E u \in Purchase : Pay(u) \/ SessionExpires(u))
              \/ UNCHANGED money
  BY DEF Next, Request, Buy, Claim, DoorStart, DoorCancelRead, ScanRead, DropRead, CancelShow,
         CancelGig, Crash, Deliver, CloseSale, Sweep, Age, Stripe, vars

LEMMA StepType == Inv /\ [Next]_vars => TypeOK'
  <1> SUFFICES ASSUME Inv, [Next]_vars PROVE TypeOK'
    OBVIOUS
  <1> TypeOK /\ Local
    BY DEF Inv
  <1>1. pc' \in [Proc -> Label] /\ job' \in [Proc -> JobSpace]
    <2>1. CASE UNCHANGED <<pc, job>>
      BY <2>1 DEF TypeOK
    <2> QED
      BY <2>1, ProcessType DEF Next, Stripe, Pay, SessionExpires, CloseSale, Sweep, Age, vars
  <1>2. /\ charge' \in [Purchase -> {"none", "open", "paid", "closed"}]
        /\ event' \in [Purchase -> {"none", "due", "answered"}]
        /\ refunds' \in [Purchase -> Nat]
        /\ ledger' \in [Purchase -> [sale : Nat, undone : Nat, back : Nat]]
    <2>1. CASE \E u \in Purchase : Pay(u) \/ SessionExpires(u)
      BY <2>1 DEF Pay, SessionExpires, TypeOK
    <2>2. CASE UNCHANGED money
      BY <2>2 DEF TypeOK, money
    <2> QED
      BY <2>1, <2>2, MoneyFrame, ProcessMoneyType
  <1> QED
    BY <1>1, <1>2, RowsType, ShowType DEF TypeOK

-----------------------------------------------------------------------------
(* What a step does to the charges and to the rows *)

\* A charge that is paid or closed stays so; it is opened by the request that
\* makes the purchase, and a door sale is paid only once its rows are there.
LEMMA ChargeStep ==
    ASSUME Inv, [Next]_vars, NEW u \in Purchase
    PROVE  /\ charge[u] \in {"paid", "closed"} => charge'[u] = charge[u]
           /\ charge'[u] = "none" => charge[u] = "none"
           /\ charge[u] = "none" /\ charge'[u] # "none" =>
                 /\ u \in Online \cup Door /\ charge'[u] = "open"
                 /\ \E p \in Proc : pc[p] \in Making /\ job[p].u = u /\ pc'[p] # pc[p]
           /\ charge'[u] = "paid" /\ charge[u] # "paid" /\ u \in Door => Started(u)
  <1> USE DEF Inv, TypeOK
  <1>1. CASE UNCHANGED charge
    BY <1>1
  <1>2. ASSUME NEW v \in Purchase, Pay(v) \/ SessionExpires(v)
        PROVE  /\ charge[u] \in {"paid", "closed", "none"} => charge'[u] = charge[u]
               /\ charge[u] = "open" => charge'[u] \in {"open", "paid", "closed"}
               /\ charge'[u] = "paid" /\ charge[u] # "paid" /\ u \in Door => Started(u)
    BY <1>2, TicketAssumption DEF Pay, SessionExpires
  <1>3. ASSUME NEW p \in Proc, OpenSession(p) \/ DoorIntent(p)
        PROVE  /\ job[p].u # u => charge'[u] = charge[u]
               /\ job[p].u = u =>
                     charge[u] = "none" /\ charge'[u] = "open" /\ u \in Online \cup Door
               /\ pc[p] \in Making /\ pc'[p] # pc[p]
    <2>1. pc[p] \in {"session", "intent"} /\ pc'[p] \in {"idle", "hold"}
      BY <1>3, EnterOnly DEF OpenSession, DoorIntent, Return, Goto
    <2>2. Whose(p) /\ Fresh(p)
      BY DEF Local
    <2> QED
      BY <1>3, <2>1, <2>2 DEF OpenSession, DoorIntent, Whose, Fresh, Making
  <1>4. ASSUME NEW p \in Proc, DoorCancelIntent(p)
        PROVE  /\ charge[u] \in {"paid", "closed", "none"} => charge'[u] = charge[u]
               /\ charge[u] = "open" => charge'[u] \in {"open", "closed"}
    BY <1>4 DEF DoorCancelIntent
  <1>5. \/ UNCHANGED charge \/ \E v \in Purchase : Pay(v) \/ SessionExpires(v)
        \/ \E p \in Proc : OpenSession(p) \/ DoorIntent(p) \/ DoorCancelIntent(p)
    BY MoneyFrame
       DEF Step, Mint, Issue, LetIn, DoorHold, DoorVoid, Fulfil, FulfilDoor, RecordSale, Answer,
           ScanWrite, DropWrite, ShowWrite, ShowVoid, GigWrite, GigClose, GigList, GigRefund,
           GigReverse, GigEnter, GigVoid, money
  <1> QED
    BY <1>1, <1>2, <1>3, <1>4, <1>5

\* The statements that write rows, and the rest.
LEMMA RowsFrame ==
    ASSUME [Next]_vars, ~UNCHANGED tkt
    PROVE  \/ \E p \in Proc :
                \/ Mint(p) \/ Issue(p) \/ LetIn(p) \/ DoorHold(p) \/ DoorVoid(p) \/ Fulfil(p)
                \/ FulfilDoor(p) \/ ScanWrite(p) \/ DropWrite(p) \/ ShowVoid(p) \/ GigVoid(p)
           \/ Sweep
  <1>1. ASSUME NEW p \in Proc, Request(p) \/ Crash(p) \/ \E u \in Purchase : Deliver(p, u)
        PROVE  UNCHANGED tkt
    BY <1>1 DEF Request, Buy, Claim, DoorStart, DoorCancelRead, ScanRead, DropRead, CancelShow,
                CancelGig, Crash, Deliver, rows
  <1>2. CASE Stripe \/ CloseSale \/ UNCHANGED vars \/ \E u \in Purchase : Age(u)
    BY <1>2 DEF Stripe, Pay, SessionExpires, CloseSale, Age, vars, rows
  <1>3. ASSUME NEW p \in Proc, OpenSession(p) \/ DoorIntent(p) \/ DoorCancelIntent(p)
                               \/ RecordSale(p) \/ Answer(p) \/ ShowWrite(p)
        PROVE  UNCHANGED tkt
    BY <1>3 DEF OpenSession, DoorIntent, DoorCancelIntent, RecordSale, Answer, ShowWrite, rows
  <1>4. ASSUME NEW p \in Proc, GigWrite(p) \/ GigClose(p) \/ GigList(p) \/ GigRefund(p)
                               \/ GigReverse(p) \/ GigEnter(p)
        PROVE  UNCHANGED tkt
    BY <1>4 DEF GigWrite, GigClose, GigList, GigRefund, GigReverse, GigEnter, rows
  <1> QED
    BY <1>1, <1>2, <1>3, <1>4 DEF Next, Step

\* A row is inserted by the request that makes its purchase; that of a door
\* sale, as pending, before the card can be charged.  A row that comes to admit
\* is of a purchase that is paid for or has no price.
LEMMA RowsStep ==
    ASSUME Inv, [Next]_vars, NEW t \in Ticket
    PROVE  /\ tkt[t] # "none" => tkt'[t] # "none"
           /\ tkt[t] = "none" /\ tkt'[t] # "none" =>
                 /\ tkt'[t] = "pending" /\ t[1] \in Door => charge[t[1]] # "paid"
                 /\ \E p \in Proc : pc[p] \in Making /\ job[p].u = t[1] /\ pc'[p] # pc[p]
           /\ tkt'[t] = "pending" => tkt[t] \in {"none", "pending"}
           /\ tkt'[t] \in Held /\ tkt[t] \notin Held /\ t[1] \notin Free => charge[t[1]] = "paid"
  <1> USE Rows, TicketAssumption DEF Inv, TypeOK
  <1>1. CASE UNCHANGED tkt
    BY <1>1 DEF Held
  <1>2. ASSUME NEW p \in Proc, Mint(p) \/ Issue(p) \/ LetIn(p) \/ DoorHold(p)
        PROVE  /\ tkt[t] # "none" => tkt'[t] = tkt[t]
               /\ tkt'[t] # tkt[t] =>
                     /\ job[p].u = t[1] /\ pc[p] \in Making /\ pc'[p] # pc[p]
                     /\ tkt'[t] \in Held => t[1] \in Free
                     /\ tkt'[t] = "pending" /\ t[1] \in Door => charge[t[1]] # "paid"
    <2>1. pc[p] \in {"mint", "issue", "letIn", "hold"} /\ pc'[p] \in {"session", "idle"}
      BY <1>2, EnterOnly DEF Mint, Issue, LetIn, DoorHold, Return, Goto
    <2>2. Whose(p) /\ Fresh(p)
      BY DEF Local
    <2>3. tkt'[t] # tkt[t] => tkt[t] = "none" /\ t \in Of(job[p].u)
      BY <1>2 DEF Mint, Issue, LetIn, DoorHold, Update
    <2>4. /\ pc[p] \in {"mint", "hold"} /\ tkt'[t] # tkt[t] => tkt'[t] = "pending"
          /\ tkt'[t] \in Held /\ tkt'[t] # tkt[t] => pc[p] \in {"issue", "letIn"}
      BY <1>2 DEF Mint, Issue, LetIn, DoorHold, Update, Held
    <2>5. tkt'[t] = "pending" /\ tkt'[t] # tkt[t] => pc[p] \in {"mint", "hold"}
      BY <1>2 DEF Mint, Issue, LetIn, DoorHold, Update
    <2> QED
      BY <2>1, <2>2, <2>3, <2>4, <2>5 DEF Whose, Fresh, Making
  <1>3. ASSUME NEW p \in Proc, Fulfil(p) \/ FulfilDoor(p)
        PROVE  tkt'[t] = tkt[t] \/ /\ tkt[t] = "pending" /\ tkt'[t] \in Held
                                   /\ charge[t[1]] = "paid"
    <2>1. pc[p] = "hook" /\ Pays(p)
      BY <1>3 DEF Fulfil, FulfilDoor, Local
    <2> QED
      BY <1>3, <2>1 DEF Fulfil, FulfilDoor, Update, Held, Pays
  <1>4. CASE Sweep \/ \E p \in Proc : DoorVoid(p) \/ ShowVoid(p) \/ GigVoid(p)
    <2>1. \/ tkt'[t] = tkt[t]
          \/ tkt[t] \in {"pending", "valid", "checked_in"} /\ tkt'[t] = "cancelled"
      BY <1>4 DEF Sweep, DoorVoid, ShowVoid, GigVoid, Update, Held
    <2> QED
      BY <2>1 DEF Held
  <1>5. ASSUME NEW p \in Proc, ScanWrite(p) \/ DropWrite(p)
        PROVE  tkt'[t] = tkt[t] \/ /\ tkt[t] # "none"
                                   /\ \/ tkt'[t] = "cancelled"
                                      \/ /\ tkt'[t] = "checked_in"
                                         /\ t[1] \notin Free => charge[t[1]] = "paid"
    <2>1. pc[p] \in {"scan", "drop"} /\ Pays(p) /\ Whose(p)
      BY <1>5 DEF ScanWrite, DropWrite, Local
    <2> QED
      BY <1>5, <2>1 DEF ScanWrite, DropWrite, Pays, Whose
  <1>6. "cancelled" \notin Held /\ "none" \notin Held /\ "pending" \notin Held
    BY DEF Held
  <1> QED
    BY <1>1, <1>2, <1>3, <1>4, <1>5, <1>6, RowsFrame

\* Sales are entered by a webhook, and reversals only of sales entered.
LEMMA LedgerStep ==
    ASSUME Inv, [Next]_vars, NEW u \in Purchase
    PROVE  /\ \/ ledger'[u].sale = ledger[u].sale
              \/ \E p \in Proc : /\ RecordSale(p) /\ job[p].u = u
                                 /\ ledger'[u].sale = ledger[u].sale + 1
           /\ ledger'[u].undone <= ledger'[u].sale
  <1> USE DEF Inv, TypeOK
  <1>0. /\ ledger[u].undone <= ledger[u].sale
        /\ ledger[u].undone \in Nat /\ ledger[u].sale \in Nat
    BY DEF PaidEvents
  <1>1. CASE UNCHANGED ledger
    BY <1>0, <1>1
  <1>2. ASSUME NEW p \in Proc, RecordSale(p)
        PROVE  /\ ledger'[u].undone = ledger[u].undone
               /\ \/ ledger'[u].sale = ledger[u].sale
                  \/ job[p].u = u /\ ledger'[u].sale = ledger[u].sale + 1
    BY <1>2 DEF RecordSale
  <1>3. ASSUME NEW p \in Proc, GigEnter(p)
        PROVE  /\ ledger'[u].sale = ledger[u].sale
               /\ ledger'[u].undone <= ledger[u].sale
    <2>1. job[p].u = u => job[p].to <= ledger[u].sale
      BY <1>3 DEF GigEnter, Local, Reverses
    <2>2. /\ ledger'[u].sale = ledger[u].sale
          /\ \/ ledger'[u].undone = ledger[u].undone
             \/ job[p].u = u /\ ledger'[u].undone = job[p].to
      BY <1>3 DEF GigEnter
    <2> QED
      BY <1>0, <2>1, <2>2
  <1>4. UNCHANGED ledger \/ \E p \in Proc : RecordSale(p) \/ GigEnter(p)
    BY MoneyFrame
       DEF Step, Mint, OpenSession, Issue, LetIn, DoorIntent, DoorHold, DoorCancelIntent, DoorVoid,
           Fulfil, FulfilDoor, Answer, ScanWrite, DropWrite, ShowWrite, ShowVoid, GigWrite,
           GigClose, GigList, GigRefund, GigReverse, GigVoid, Pay, SessionExpires, money
  <1> QED
    BY <1>0, <1>1, <1>2, <1>3, <1>4

LEMMA StepPaidEvents == Inv /\ [Next]_vars => PaidEvents'
  <1> SUFFICES ASSUME Inv, [Next]_vars, NEW u \in Purchase
               PROVE  /\ event'[u] # "none" => charge'[u] = "paid"
                      /\ charge'[u] # "none" => u \notin Free
                      /\ ledger'[u].undone <= ledger'[u].sale
    BY DEF PaidEvents
  <1> USE DEF Inv
  <1>1. event'[u] # "none" => event[u] # "none" \/ charge'[u] = "paid"
    <2>1. CASE \E v \in Purchase : Pay(v) \/ SessionExpires(v)
      BY <2>1 DEF Pay, SessionExpires, TypeOK
    <2>2. ASSUME NEW p \in Proc, Answer(p)
          PROVE  event'[u] # "none" => event[u] # "none" \/ charge'[u] = "paid"
      BY <2>2 DEF Answer, Local, Pays, TypeOK
    <2>3. CASE UNCHANGED event
      BY <2>3
    <2> QED
      BY <2>1, <2>2, <2>3, MoneyFrame
         DEF Step, Mint, OpenSession, Issue, LetIn, DoorIntent, DoorHold, DoorCancelIntent,
             DoorVoid, Fulfil, FulfilDoor, RecordSale, ScanWrite, DropWrite, ShowWrite, ShowVoid,
             GigWrite, GigClose, GigList, GigRefund, GigReverse, GigEnter, GigVoid, money
  <1>2. charge[u] = "paid" => charge'[u] = "paid"
    BY ChargeStep
  <1> QED
    BY <1>1, <1>2, ChargeStep, LedgerStep, TicketAssumption DEF PaidEvents

-----------------------------------------------------------------------------
(* What a process knows stays true until it writes *)

At(p) == Whose(p) /\ Fresh(p) /\ Pays(p) /\ Reverses(p)

\* ... while others move ...
LEMMA OthersKeep ==
    ASSUME Inv, [Next]_vars, NEW q \in Proc, pc'[q] = pc[q], job'[q] = job[q]
    PROVE  At(q)'
  <1> USE DEF Inv
  <1>1. At(q)
    BY DEF Local, At
  <1>2. Whose(q)'
    BY <1>1, RowsStep DEF At, Whose
  <1>3. Reverses(q)'
    <2>1. SUFFICES ASSUME pc[q] = "gigEnter" PROVE job[q].to <= ledger'[job[q].u].sale
      BY <1>1 DEF At, Reverses
    <2>2. job[q].u \in Purchase /\ job[q].to \in Nat
      BY <1>1, <2>1 DEF At, Whose, TypeOK, JobSpace
    <2>3. job[q].to <= ledger[job[q].u].sale /\ ledger[job[q].u].sale \in Nat
      BY <1>1, <2>1, <2>2 DEF At, Reverses, TypeOK
    <2>4. ledger'[job[q].u].sale \in {ledger[job[q].u].sale, ledger[job[q].u].sale + 1}
      BY <2>2, LedgerStep
    <2> QED
      BY <2>2, <2>3, <2>4
  <1>4. Pays(q)'
    <2>1. \A u \in Purchase : charge[u] \in {"paid", "closed"} => charge'[u] = charge[u]
      BY ChargeStep
    <2>2. pc[q] = "hook" => job[q].u \in Purchase
      BY <1>1 DEF At, Whose
    <2>3. pc[q] = "doorVoid" => job[q].u \in Purchase
      BY <1>1 DEF At, Whose, Purchase
    <2>4. pc[q] = "scan" => job[q].t[1] \in Purchase
      BY <1>1, Rows DEF At, Whose
    <2>5. Online \subseteq Purchase
      BY DEF Purchase
    <2> QED
      BY <1>1, <2>1, <2>2, <2>3, <2>4, <2>5 DEF At, Pays
  <1>5. Fresh(q)'
    <2>1. SUFFICES ASSUME pc[q] \in {"mint", "session", "intent", "hold"} PROVE Fresh(q)'
      BY DEF Fresh
    <2> DEFINE u == job[q].u
    <2>2. u \in Purchase /\ (pc[q] \in {"intent", "hold"} => u \in Door)
      BY <1>1, <2>1 DEF At, Whose, Purchase
    <2>3. ~\E p \in Proc : pc[p] \in Making /\ job[p].u = u /\ pc'[p] # pc[p]
      BY <2>1 DEF OneMaker, Making
    <2>4. charge[u] = "none" => charge'[u] = "none"
      BY <2>2, <2>3, ChargeStep
    <2>5. ~Started(u) => ~Started(u)'
      BY <2>3, Rows, RowsStep DEF Started
    <2>6. ~Started(u) /\ charge[u] # "paid" /\ u \in Door => charge'[u] # "paid"
      BY <2>2, ChargeStep
    <2> HIDE DEF u
    <2> QED
      BY <1>1, <2>2, <2>4, <2>5, <2>6 DEF At, Fresh, u
  <1> QED
    BY <1>2, <1>3, <1>4, <1>5 DEF At

\* ... and holds where a step of its own takes it.
LEMMA Idle ==
    ASSUME NEW p \in Proc,
           pc'[p] \in {"idle", "showWrite", "showVoid", "gigWrite", "gigClose", "gigList"}
    PROVE  At(p)'
  BY DEF At, Whose, Fresh, Pays, Reverses, Gig

\* The first statement of a request finds what it is to know.
LEMMA RequestAt ==
    ASSUME Inv, NEW p \in Proc, Request(p) \/ \E u \in Purchase : Deliver(p, u)
    PROVE  At(p)'
  <1> USE DEF Inv
  <1>1. UNCHANGED <<tkt, charge, ledger>>
    BY DEF Request, Buy, Claim, DoorStart, DoorCancelRead, ScanRead, DropRead, CancelShow,
           CancelGig, Deliver, rows, money
  <1>2. ASSUME NEW u \in Purchase, Unmade(u) PROVE charge[u] = "none" /\ ~Started(u)
    BY <1>2 DEF Unmade, Begun, Started
  <1>3. ASSUME NEW u \in Purchase,
               Buy(p, u) \/ Claim(p, u) \/ DoorStart(p, u) \/ DoorCancelRead(p, u)
        PROVE  At(p)'
    <2>1. PICK l \in {"mint", "issue", "intent", "letIn", "doorCancel", "doorVoid"} :
             /\ Enter(p, l, About(u))
             /\ l = "mint" => u \in Online /\ Unmade(u)
             /\ l = "intent" => u \in Door /\ Unmade(u)
             /\ l \in {"issue", "letIn"} => u \in Free
             /\ l \in {"doorCancel", "doorVoid"} => u \in Door
             /\ l = "doorVoid" => charge[u] = "closed"
      BY <1>3 DEF Buy, Claim, DoorStart, DoorCancelRead
    <2>2. pc'[p] = l /\ job'[p].u = u
      BY <2>1, EnterOnly DEF About, IdleJob
    <2>3. Started(u)' <=> Started(u)
      BY <1>1 DEF Started
    <2> QED
      BY <1>1, <1>2, <2>1, <2>2, <2>3 DEF At, Whose, Fresh, Pays, Reverses, Gig
  <1>4. ASSUME NEW t \in Ticket, ScanRead(p, t) \/ DropRead(p, t) PROVE At(p)'
    <2>1. PICK l \in {"scan", "drop"} : Enter(p, l, [IdleJob EXCEPT !.t = t])
      BY <1>4 DEF ScanRead, DropRead
    <2>2. pc'[p] = l /\ job'[p].t = t
      BY <2>1, EnterOnly DEF IdleJob
    <2>3. /\ tkt[t] # "none"
          /\ l = "scan" /\ t[1] \notin Free => charge[t[1]] = "paid"
      <3>1. pc'[p] = "scan" => ScanRead(p, t)
        BY <1>4, EnterOnly DEF ScanRead, DropRead
      <3> QED
        BY <1>4, <2>2, <3>1 DEF ScanRead, DropRead, Scannable, AdmittedHavePaid, Held
    <2> QED
      BY <1>1, <2>2, <2>3 DEF At, Whose, Fresh, Pays, Reverses, Gig
  <1>5. CASE CancelShow(p) \/ CancelGig(p)
    BY <1>5, EnterOnly, Idle DEF CancelShow, CancelGig
  <1>6. ASSUME NEW u \in Purchase, Deliver(p, u) PROVE At(p)'
    <2>1. charge[u] = "paid"
      BY <1>6 DEF Deliver, PaidEvents
    <2>2. PICK S : Enter(p, "hook", [About(u) EXCEPT !.todo = S])
      BY <1>6 DEF Deliver
    <2>3. pc'[p] = "hook" /\ job'[p].u = u
      <3> DEFINE j == [About(u) EXCEPT !.todo = S]
      <3>1. About(u) \in JobSpace /\ About(u).u = u
        BY JobType DEF About, IdleJob
      <3>2. j.u = u
        BY <3>1 DEF JobSpace
      <3>3. Enter(p, "hook", j)
        BY <2>2
      <3> HIDE DEF j
      <3> QED
        BY <3>2, <3>3, EnterOnly
    <2> QED
      BY <1>1, <2>1, <2>3 DEF At, Whose, Fresh, Pays, Reverses, Gig
  <1> QED
    BY <1>3, <1>4, <1>5, <1>6 DEF Request

LEMMA NextOfAt ==
    ASSUME Inv, NEW p \in Proc, NEW S \in SUBSET Purchase, NextOf(p, S), UNCHANGED charge,
           \A u \in S \cap Online : charge[u] = "paid"
    PROVE  At(p)'
  <1>1. CASE S = {}
    BY <1>1, EnterOnly, Idle DEF NextOf, Return, Inv
  <1>2. CASE S # {}
    <2>1. pc'[p] = "gigNext" /\ job'[p].todo = S
      BY <1>2, EnterOnly DEF NextOf, IdleJob, Inv
    <2> QED
      BY <2>1 DEF At, Whose, Fresh, Pays, Reverses
  <1> QED
    BY <1>1, <1>2

LEMMA StepAt ==
    ASSUME Inv, NEW p \in Proc, Step(p)
    PROVE  At(p)'
  <1> USE DEF Inv
  <1>1. At(p)
    BY DEF Local, At
  <1>2. CASE OpenSession(p) \/ Issue(p) \/ LetIn(p) \/ DoorHold(p) \/ DoorVoid(p) \/ Answer(p)
    BY <1>2, EnterOnly, Idle DEF OpenSession, Issue, LetIn, DoorHold, DoorVoid, Answer, Return
  <1>3. CASE ScanWrite(p) \/ DropWrite(p) \/ ShowWrite(p) \/ ShowVoid(p)
             \/ GigWrite(p) \/ GigClose(p)
    BY <1>3, EnterOnly, Idle
       DEF ScanWrite, DropWrite, ShowWrite, ShowVoid, GigWrite, GigClose, Return, Goto
  <1>4. CASE Mint(p)
    <2>1. pc'[p] = "session" /\ job'[p] = job[p] /\ UNCHANGED charge
      BY <1>4, EnterOnly DEF Mint, Goto, money
    <2> QED
      BY <1>1, <1>4, <2>1 DEF Mint, At, Whose, Fresh, Pays, Reverses, Gig
  <1>5. CASE DoorIntent(p)
    <2>1. pc'[p] = "hold" /\ job'[p] = job[p] /\ UNCHANGED tkt
      BY <1>5, EnterOnly DEF DoorIntent, Goto, rows
    <2>2. job[p].u \in Door /\ ~Started(job[p].u)
      BY <1>1, <1>5 DEF DoorIntent, At, Whose, Fresh
    <2>3. charge'[job[p].u] = "open" /\ ~Started(job[p].u)'
      BY <1>5, <2>1, <2>2 DEF DoorIntent, Started, TypeOK, Purchase
    <2> QED
      BY <2>1, <2>2, <2>3 DEF At, Whose, Fresh, Pays, Reverses, Gig
  <1>6. CASE DoorCancelIntent(p)
    <2>1. CASE Return(p)
      BY <2>1, EnterOnly, Idle DEF Return
    <2>2. CASE Goto(p, "doorVoid") /\ charge' = [charge EXCEPT ![job[p].u] = "closed"]
      <3>1. pc'[p] = "doorVoid" /\ job'[p] = job[p]
        BY <2>2, EnterOnly DEF Goto
      <3>2. job[p].u \in Door
        BY <1>1, <1>6 DEF DoorCancelIntent, At, Whose
      <3>3. charge'[job[p].u] = "closed"
        BY <2>2, <3>2 DEF TypeOK, Purchase
      <3> QED
        BY <3>1, <3>2, <3>3 DEF At, Whose, Fresh, Pays, Reverses, Gig
    <2> QED
      BY <1>6, <2>1, <2>2 DEF DoorCancelIntent
  <1>7. CASE Fulfil(p) \/ FulfilDoor(p) \/ RecordSale(p)
    <2>1. pc[p] = "hook" /\ UNCHANGED charge
      BY <1>7 DEF Fulfil, FulfilDoor, RecordSale, money
    <2>2. pc'[p] = "hook" /\ job'[p].u = job[p].u
      <3>1. PICK S : Enter(p, "hook", [job[p] EXCEPT !.todo = S])
        BY <1>7 DEF Fulfil, FulfilDoor, RecordSale, Done
      <3>2. job[p] \in JobSpace
        BY DEF TypeOK
      <3> QED
        BY <3>1, <3>2, EnterOnly DEF JobSpace
    <2> QED
      BY <1>1, <2>1, <2>2 DEF At, Whose, Fresh, Pays, Reverses, Gig
  <1>8. CASE GigList(p)
    <2> DEFINE S == {u \in Purchase : IsHeld(u)}
    <2>1. \A u \in S \cap Online : charge[u] = "paid"
      BY Rows, TicketAssumption DEF AdmittedHavePaid, IsHeld
    <2>2. NextOf(p, S) /\ UNCHANGED charge
      BY <1>8 DEF GigList, money
    <2> QED
      BY <2>1, <2>2, NextOfAt
  <1>9. CASE GigVoid(p)
    <2>1. /\ job[p].todo \in SUBSET Purchase
          /\ \A u \in job[p].todo \cap Online : charge[u] = "paid"
      BY <1>1, <1>9 DEF GigVoid, At, Whose, Pays, Gig
    <2> QED
      BY <1>9, <2>1, NextOfAt DEF GigVoid, money
  <1>10. CASE GigRefund(p)
    <2>1. PICK u \in job[p].todo, l \in {"gigReverse", "gigVoid"} :
             Enter(p, l, [job[p] EXCEPT !.u = u, !.todo = @ \ {u}])
      BY <1>10 DEF GigRefund
    <2>2. pc'[p] = l /\ job'[p].u = u /\ job'[p].todo = job[p].todo \ {u}
      <3>1. job[p] \in JobSpace
        BY DEF TypeOK
      <3> DEFINE j == [job[p] EXCEPT !.u = u, !.todo = @ \ {u}]
      <3>2. j.u = u /\ j.todo = job[p].todo \ {u}
        BY <3>1 DEF JobSpace
      <3>3. Enter(p, l, j)
        BY <2>1
      <3> HIDE DEF j
      <3> QED
        BY <3>2, <3>3, EnterOnly
    <2>3. job[p].todo \subseteq Purchase /\ \A v \in job[p].todo \cap Online : charge[v] = "paid"
      BY <1>1, <1>10 DEF GigRefund, At, Whose, Pays, Gig
    <2>4. UNCHANGED charge
      BY <1>10 DEF GigRefund
    <2> QED
      BY <2>2, <2>3, <2>4 DEF At, Whose, Fresh, Pays, Reverses
  <1>11. CASE GigReverse(p)
    <2> DEFINE u == job[p].u
    <2>1. u \in Purchase
      BY <1>1, <1>11 DEF GigReverse, At, Whose
    <2>2. /\ pc'[p] = "gigEnter" /\ job'[p].u = u /\ job'[p].todo = job[p].todo
          /\ job'[p].from = ledger[u].undone /\ job'[p].to = ledger[u].sale
      <3> DEFINE j == [job[p] EXCEPT !.from = ledger[u].undone, !.to = ledger[u].sale]
      <3>1. job[p] \in JobSpace
        BY DEF TypeOK
      <3>2. j.u = u /\ j.todo = job[p].todo /\ j.from = ledger[u].undone /\ j.to = ledger[u].sale
        BY <3>1 DEF JobSpace
      <3>3. Enter(p, "gigEnter", j)
        BY <1>11 DEF GigReverse
      <3> HIDE DEF j, u
      <3> QED
        BY <3>2, <3>3, EnterOnly
    <2>3. UNCHANGED <<charge, ledger>>
      BY <1>11 DEF GigReverse, money
    <2>4. ledger[u].undone <= ledger[u].sale /\ ledger[u].sale \in Nat
      BY <2>1 DEF PaidEvents, TypeOK
    <2>5. job[p].todo \subseteq Purchase /\ \A v \in job[p].todo \cap Online : charge[v] = "paid"
      BY <1>1, <1>11 DEF GigReverse, At, Whose, Pays, Gig
    <2> QED
      BY <2>1, <2>2, <2>3, <2>4, <2>5 DEF At, Whose, Fresh, Pays, Reverses
  <1>12. CASE GigEnter(p)
    <2>1. pc'[p] = "gigVoid" /\ job'[p] = job[p] /\ UNCHANGED charge
      BY <1>12, EnterOnly DEF GigEnter, Goto
    <2> QED
      BY <1>1, <1>12, <2>1 DEF GigEnter, At, Whose, Fresh, Pays, Reverses, Gig
  <1> QED
    BY <1>2, <1>3, <1>4, <1>5, <1>6, <1>7, <1>8, <1>9, <1>10, <1>11, <1>12 DEF Step

\* At most one process moves.
LEMMA OneMoves ==
    ASSUME Inv, [Next]_vars
    PROVE  \/ UNCHANGED <<pc, job>>
           \/ \E p \in Proc :
                 /\ Step(p) \/ Request(p) \/ Crash(p) \/ \E u \in Purchase : Deliver(p, u)
                 /\ \A q \in Proc \ {p} : pc'[q] = pc[q] /\ job'[q] = job[q]
  <1> USE DEF Inv
  <1>1. ASSUME NEW p \in Proc,
               Step(p) \/ Request(p) \/ Crash(p) \/ \E u \in Purchase : Deliver(p, u)
        PROVE  \E l, j : Enter(p, l, j)
    <2>1. CASE Step(p)
      <3>1. ASSUME \/ Return(p) \/ \E l : Goto(p, l) \/ \E S : NextOf(p, S)
                   \/ \E x : Done(p, x)
            PROVE  \E l, j : Enter(p, l, j)
        BY <3>1 DEF Return, Goto, NextOf, Done
      <3>2. CASE Mint(p) \/ OpenSession(p) \/ Issue(p) \/ LetIn(p) \/ DoorIntent(p) \/ DoorHold(p)
        BY <3>1, <3>2 DEF Mint, OpenSession, Issue, LetIn, DoorIntent, DoorHold
      <3>3. CASE DoorCancelIntent(p) \/ DoorVoid(p) \/ Fulfil(p) \/ RecordSale(p) \/ Answer(p)
        BY <3>1, <3>3 DEF DoorCancelIntent, DoorVoid, Fulfil, RecordSale, Answer
      <3>4. CASE FulfilDoor(p) \/ GigRefund(p) \/ GigReverse(p)
        BY <3>4 DEF FulfilDoor, GigRefund, GigReverse
      <3>5. CASE ScanWrite(p) \/ DropWrite(p) \/ ShowWrite(p) \/ ShowVoid(p) \/ GigWrite(p)
        BY <3>1, <3>5 DEF ScanWrite, DropWrite, ShowWrite, ShowVoid, GigWrite
      <3>6. CASE GigClose(p) \/ GigList(p) \/ GigEnter(p) \/ GigVoid(p)
        BY <3>1, <3>6 DEF GigClose, GigList, GigEnter, GigVoid
      <3> QED
        BY <2>1, <3>2, <3>3, <3>4, <3>5, <3>6 DEF Step
    <2>2. CASE Request(p)
      BY <2>2 DEF Request, Buy, Claim, DoorStart, DoorCancelRead, ScanRead, DropRead, CancelShow,
                  CancelGig
    <2>3. CASE Crash(p) \/ \E u \in Purchase : Deliver(p, u)
      BY <2>3 DEF Crash, Return, Deliver
    <2> QED
      BY <1>1, <2>1, <2>2, <2>3
  <1>2. CASE \E p \in Proc :
                Step(p) \/ Request(p) \/ Crash(p) \/ \E u \in Purchase : Deliver(p, u)
    <2>1. PICK p \in Proc :
             Step(p) \/ Request(p) \/ Crash(p) \/ \E u \in Purchase : Deliver(p, u)
      BY <1>2
    <2>2. PICK l, j : Enter(p, l, j)
      BY <1>1, <2>1
    <2> QED
      BY <2>1, <2>2, EnterOnly
  <1>3. CASE Stripe \/ CloseSale \/ Sweep \/ UNCHANGED vars \/ \E u \in Purchase : Age(u)
    BY <1>3 DEF Stripe, Pay, SessionExpires, CloseSale, Sweep, Age, vars
  <1> QED
    BY <1>2, <1>3 DEF Next

LEMMA StepLocal == Inv /\ [Next]_vars => Local'
  <1> SUFFICES ASSUME Inv, [Next]_vars, NEW q \in Proc PROVE At(q)'
    BY DEF Local, At
  <1>1. CASE pc'[q] = pc[q] /\ job'[q] = job[q]
    BY <1>1, OthersKeep
  <1>2. CASE ~(pc'[q] = pc[q] /\ job'[q] = job[q])
    <2>1. Step(q) \/ Request(q) \/ Crash(q) \/ \E u \in Purchase : Deliver(q, u)
      BY <1>2, OneMoves
    <2>2. CASE Crash(q)
      BY <2>2, EnterOnly, Idle DEF Crash, Return, Inv
    <2> QED
      BY <2>1, <2>2, StepAt, RequestAt
  <1> QED
    BY <1>1, <1>2

\* A purchase is made by one request: it enters with an id of its own.
LEMMA StepOneMaker == Inv /\ [Next]_vars => OneMaker'
  <1> SUFFICES ASSUME Inv, [Next]_vars PROVE OneMaker'
    OBVIOUS
  <1> USE DEF Inv
  <1>1. ASSUME NEW p \in Proc, Step(p), pc'[p] \in Making
        PROVE  pc[p] \in Making /\ job'[p].u = job[p].u
    <2>1. CASE Mint(p) \/ DoorIntent(p)
      BY <2>1, EnterOnly DEF Mint, DoorIntent, Goto, Making
    <2>2. CASE OpenSession(p) \/ Issue(p) \/ LetIn(p) \/ DoorHold(p) \/ DoorCancelIntent(p)
               \/ DoorVoid(p) \/ Answer(p) \/ ScanWrite(p) \/ DropWrite(p)
      <3>1. pc'[p] \in {"idle", "doorVoid"}
        BY <2>2, EnterOnly DEF OpenSession, Issue, LetIn, DoorHold, DoorCancelIntent, DoorVoid,
                               Answer, ScanWrite, DropWrite, Return, Goto
      <3> QED
        BY <1>1, <3>1 DEF Making
    <2>3. CASE Fulfil(p) \/ FulfilDoor(p) \/ RecordSale(p)
      BY <1>1, <2>3, EnterOnly DEF Fulfil, FulfilDoor, RecordSale, Done, Making
    <2>4. CASE ShowWrite(p) \/ ShowVoid(p) \/ GigWrite(p) \/ GigClose(p) \/ GigEnter(p)
      BY <1>1, <2>4, EnterOnly DEF ShowWrite, ShowVoid, GigWrite, GigClose, GigEnter, Return, Goto,
                                   Making
    <2>5. CASE GigList(p) \/ GigRefund(p) \/ GigReverse(p) \/ GigVoid(p)
      <3>1. pc'[p] \in {"idle", "gigNext", "gigReverse", "gigVoid", "gigEnter"}
        BY <2>5, EnterOnly DEF GigList, GigRefund, GigReverse, GigVoid, NextOf, Return
      <3> QED
        BY <1>1, <3>1 DEF Making
    <2> QED
      BY <1>1, <2>1, <2>2, <2>3, <2>4, <2>5 DEF Step
  <1>2. ASSUME NEW p \in Proc,
               Request(p) \/ Crash(p) \/ \E u \in Purchase : Deliver(p, u),
               pc'[p] \in Making, NEW q \in Proc
        PROVE  job[q].u # job'[p].u
    <2>1. CASE \E u \in Purchase : Buy(p, u) \/ Claim(p, u) \/ DoorStart(p, u)
      <3>1. PICK u \in Purchase : Unmade(u) /\ \E l : Enter(p, l, About(u))
        BY <2>1 DEF Buy, Claim, DoorStart
      <3>2. job'[p].u = u
        BY <3>1, EnterOnly DEF About, IdleJob
      <3> QED
        BY <3>1, <3>2 DEF Unmade, Begun
    <2>2. CASE \E u \in Purchase : DoorCancelRead(p, u) \/ Deliver(p, u)
      BY <1>2, <2>2, EnterOnly DEF DoorCancelRead, Deliver, Making
    <2>3. CASE \/ CancelShow(p) \/ CancelGig(p) \/ Crash(p)
               \/ \E t \in Ticket : ScanRead(p, t) \/ DropRead(p, t)
      <3>1. \E l \in {"showWrite", "gigWrite", "idle", "scan", "drop"} : \E j : Enter(p, l, j)
        BY <2>3 DEF CancelShow, CancelGig, Crash, Return, ScanRead, DropRead
      <3>2. pc'[p] \in {"showWrite", "gigWrite", "idle", "scan", "drop"}
        BY <3>1, EnterOnly
      <3> QED
        BY <1>2, <3>2 DEF Making
    <2> QED
      BY <1>2, <2>1, <2>2, <2>3 DEF Request
  <1> QED
    BY <1>1, <1>2, OneMoves DEF OneMaker

-----------------------------------------------------------------------------
(* What follows for the buyer and for the books *)

LEMMA StepAdmitted == Inv /\ [Next]_vars => AdmittedHavePaid'
  <1> SUFFICES ASSUME Inv, [Next]_vars, NEW t \in Ticket, tkt'[t] \in Held, t[1] \notin Free
               PROVE  charge'[t[1]] = "paid"
    BY DEF AdmittedHavePaid
  <1>1. charge[t[1]] = "paid"
    BY RowsStep DEF Inv, AdmittedHavePaid
  <1> QED
    BY <1>1, ChargeStep, Rows

LEMMA StepRefunded == Inv /\ RefundedOnce /\ [Next]_vars => RefundedOnce'
  <1> SUFFICES ASSUME Inv, RefundedOnce, [Next]_vars, NEW u \in Purchase
               PROVE  refunds'[u] <= 1 /\ (refunds'[u] = 1 => charge'[u] = "paid")
    BY DEF RefundedOnce
  <1>1. refunds'[u] = refunds[u] \/ (refunds'[u] = 1 /\ charge[u] = "paid")
    <2>1. ASSUME NEW p \in Proc, GigRefund(p)
          PROVE  refunds'[u] = refunds[u] \/ (refunds'[u] = 1 /\ charge[u] = "paid")
      <3>1. \A v \in job[p].todo \cap Online : charge[v] = "paid"
        BY <2>1 DEF Inv, Local, Pays, Gig, GigRefund
      <3>2. PICK v \in job[p].todo :
               refunds' = IF v \in Online THEN [refunds EXCEPT ![v] = 1] ELSE refunds
        BY <2>1 DEF GigRefund, Refund
      <3> QED
        BY <3>1, <3>2 DEF Inv, TypeOK
    <2>2. UNCHANGED refunds \/ \E p \in Proc : GigRefund(p)
      BY MoneyFrame
         DEF Step, Mint, OpenSession, Issue, LetIn, DoorIntent, DoorHold, DoorCancelIntent,
             DoorVoid, Fulfil, FulfilDoor, RecordSale, Answer, ScanWrite, DropWrite, ShowWrite,
             ShowVoid, GigWrite, GigClose, GigList, GigReverse, GigEnter, GigVoid, Pay,
             SessionExpires, money
    <2> QED
      BY <2>1, <2>2
  <1> QED
    BY <1>1, ChargeStep DEF RefundedOnce

\* A delivery comes to book a door sale by flipping its pending rows, all of
\* them, and is done with it once it has booked it.
LEMMA EnteringStep ==
    ASSUME Inv, [Next]_vars, NEW u \in Door, NEW p \in Proc, Entering(p, u)'
    PROVE  \/ Entering(p, u) /\ ~RecordSale(p)
           \/ /\ FulfilDoor(p) /\ job[p].u = u
              /\ With({u}, "pending") # {} /\ With({u}, "pending")' = {}
  <1> USE DEF Inv
  <1>0. job[p] \in JobSpace
    BY DEF TypeOK
  <1>1. CASE pc'[p] = pc[p] /\ job'[p] = job[p]
    <2>1. ASSUME RecordSale(p) PROVE FALSE
      <3> DEFINE j == [job[p] EXCEPT !.todo = @ \ {"entries"}]
      <3>1. j.todo = job[p].todo \ {"entries"}
        BY <1>0 DEF JobSpace
      <3>2. Enter(p, "hook", j)
        BY <2>1 DEF RecordSale, Done
      <3> HIDE DEF j
      <3> QED
        BY <3>1, <3>2, EnterOnly DEF Entering
    <2> QED
      BY <1>1, <2>1 DEF Entering
  <1>2. CASE ~(pc'[p] = pc[p] /\ job'[p] = job[p])
    <2>1. Step(p) \/ Request(p) \/ Crash(p) \/ \E v \in Purchase : Deliver(p, v)
      BY <1>2, OneMoves
    <2>2. pc'[p] = "hook" /\ job'[p].u = u /\ "entries" \in job'[p].todo
      BY DEF Entering
    <2>3. ~(Request(p) \/ Crash(p))
      <3>1. ASSUME Request(p) \/ Crash(p)
            PROVE  \E l \in Label \ {"hook"} : \E j : Enter(p, l, j)
        BY <3>1 DEF Request, Buy, Claim, DoorStart, DoorCancelRead, ScanRead, DropRead, CancelShow,
                    CancelGig, Crash, Return, Label
      <3> QED
        BY <2>2, <3>1, EnterOnly
    <2>4. ASSUME NEW v \in Purchase, Deliver(p, v) PROVE FALSE
      <3> DEFINE S == IF v \in Online THEN {"flip", "entries"} ELSE {"flip"}
                 j == [About(v) EXCEPT !.todo = S]
      <3>1. About(v) \in JobSpace /\ About(v).u = v
        BY JobType DEF About, IdleJob
      <3>2. j.u = v /\ j.todo = S
        BY <3>1 DEF JobSpace
      <3>3. Enter(p, "hook", j)
        BY <2>4 DEF Deliver
      <3>4. job'[p] = j
        BY <3>3, EnterOnly
      <3>5. v = u /\ "entries" \in S
        BY <2>2, <3>2, <3>4
      <3> QED
        BY <3>5, TicketAssumption
    <2>5. Fulfil(p) \/ RecordSale(p) \/ FulfilDoor(p)
      <3>1. CASE Mint(p) \/ OpenSession(p) \/ Issue(p) \/ LetIn(p) \/ DoorIntent(p) \/ DoorHold(p)
                 \/ DoorCancelIntent(p) \/ DoorVoid(p)
        <4>1. pc'[p] \in {"session", "idle", "hold", "doorVoid"}
          BY <3>1, EnterOnly DEF Mint, OpenSession, Issue, LetIn, DoorIntent, DoorHold,
                                 DoorCancelIntent, DoorVoid, Return, Goto
        <4> QED
          BY <2>2, <4>1
      <3>2. CASE Answer(p) \/ ScanWrite(p) \/ DropWrite(p) \/ ShowWrite(p) \/ ShowVoid(p)
                 \/ GigWrite(p) \/ GigClose(p) \/ GigEnter(p)
        <4>1. pc'[p] \in {"idle", "showVoid", "gigClose", "gigList", "gigVoid"}
          BY <3>2, EnterOnly DEF Answer, ScanWrite, DropWrite, ShowWrite, ShowVoid, GigWrite,
                                 GigClose, GigEnter, Return, Goto
        <4> QED
          BY <2>2, <4>1
      <3>3. CASE GigList(p) \/ GigRefund(p) \/ GigReverse(p) \/ GigVoid(p)
        <4>1. pc'[p] \in {"idle", "gigNext", "gigReverse", "gigVoid", "gigEnter"}
          BY <3>3, EnterOnly DEF GigList, GigRefund, GigReverse, GigVoid, NextOf, Return
        <4> QED
          BY <2>2, <4>1
      <3> QED
        BY <2>1, <2>3, <2>4, <3>1, <3>2, <3>3 DEF Step
    <2>6. ASSUME NEW x, Done(p, x)
          PROVE  job'[p].u = job[p].u /\ job'[p].todo = job[p].todo \ {x}
      <3> DEFINE j == [job[p] EXCEPT !.todo = @ \ {x}]
      <3>1. j.u = job[p].u /\ j.todo = job[p].todo \ {x}
        BY <1>0 DEF JobSpace
      <3>2. Enter(p, "hook", j)
        BY <2>6 DEF Done
      <3> HIDE DEF j
      <3> QED
        BY <3>1, <3>2, EnterOnly
    <2>7. ~RecordSale(p) /\ ~Fulfil(p)
      BY <2>2, <2>6, TicketAssumption DEF RecordSale, Fulfil
    <2>8. FulfilDoor(p)
      BY <2>5, <2>7
    <2> DEFINE S == IF With({job[p].u}, "pending") # {} THEN {"entries"} ELSE {}
    <2>9. job'[p].u = job[p].u /\ job'[p].todo = S
      <3> DEFINE j == [job[p] EXCEPT !.todo = S]
      <3>1. j.u = job[p].u /\ j.todo = S
        BY <1>0 DEF JobSpace
      <3>2. Enter(p, "hook", j)
        BY <2>8 DEF FulfilDoor
      <3> HIDE DEF j
      <3> QED
        BY <3>1, <3>2, EnterOnly
    <2>10. With({u}, "pending")' = {}
      BY <2>2, <2>8, <2>9, Rows DEF FulfilDoor, Update, With
    <2> QED
      BY <2>2, <2>8, <2>9, <2>10
  <1> QED
    BY <1>1, <1>2

LEMMA StepBooks == Inv /\ Books /\ [Next]_vars => Books'
  <1> SUFFICES ASSUME Inv, Books, [Next]_vars, NEW u \in Door
               PROVE  /\ ledger'[u].sale <= 1
                      /\ ledger'[u].sale = 1 => charge'[u] = "paid" /\ With({u}, "pending")' = {}
                      /\ \A p \in Proc : Entering(p, u)' =>
                            ledger'[u].sale = 0 /\ With({u}, "pending")' = {}
                      /\ \A p, q \in Proc : Entering(p, u)' /\ Entering(q, u)' => p = q
    BY DEF Books, Entering
  <1> USE DEF Inv
  <1>0. u \in Purchase /\ ledger[u].sale \in {0, 1}
    <2>1. u \in Purchase /\ ledger[u].sale \in Nat /\ ledger[u].sale <= 1
      BY DEF Purchase, TypeOK, Books
    <2> QED
      BY <2>1
  <1>1. charge[u] = "paid" /\ With({u}, "pending") = {} =>
            charge'[u] = "paid" /\ With({u}, "pending")' = {}
    <2>1. ASSUME charge[u] = "paid", NEW t \in Ticket, t[1] = u, tkt'[t] = "pending"
          PROVE  tkt[t] = "pending"
      BY <2>1, RowsStep
    <2> QED
      BY <1>0, <2>1, ChargeStep DEF With
  <1>2. ASSUME NEW p \in Proc, Entering(p, u) PROVE charge[u] = "paid"
    BY <1>2 DEF Entering, Local, Pays
  <1>3. ASSUME NEW p \in Proc, RecordSale(p), job[p].u = u PROVE Entering(p, u)
    BY <1>3 DEF RecordSale, Entering
  <1>4. ASSUME NEW p \in Proc, Entering(p, u)'
        PROVE  ledger'[u].sale = 0 /\ With({u}, "pending")' = {}
    <2>1. \A q \in Proc : Entering(q, u) => q = p
      BY <1>4, EnteringStep DEF Books
    <2>2. ledger[u].sale = 0
      <3>1. Entering(p, u) => ledger[u].sale = 0
        BY DEF Books
      <3>2. With({u}, "pending") # {} => ledger[u].sale = 0
        BY <1>0 DEF Books
      <3> QED
        BY <1>4, <3>1, <3>2, EnteringStep
    <2>3. \A q \in Proc : ~(RecordSale(q) /\ job[q].u = u)
      <3>1. SUFFICES ASSUME NEW q \in Proc, RecordSale(q), job[q].u = u PROVE FALSE
        OBVIOUS
      <3>2. q = p /\ Entering(p, u)
        BY <1>3, <2>1, <3>1
      <3> QED
        BY <1>4, <3>1, <3>2, EnteringStep DEF Books
    <2>4. ledger'[u].sale = 0
      BY <1>0, <2>2, <2>3, LedgerStep
    <2>5. With({u}, "pending")' = {}
      BY <1>1, <1>2, <1>4, EnteringStep DEF Books
    <2> QED
      BY <2>4, <2>5
  <1>5. ASSUME NEW p \in Proc, NEW q \in Proc, Entering(p, u)', Entering(q, u)' PROVE p = q
    <2>1. CASE Entering(p, u) /\ Entering(q, u)
      BY <2>1 DEF Books
    <2>2. CASE ~Entering(p, u) /\ ~Entering(q, u)
      <3>1. FulfilDoor(p) /\ FulfilDoor(q)
        BY <1>5, <2>2, EnteringStep
      <3>2. \/ pc'[p] # pc[p] \/ job'[p] # job[p]
        BY <1>5, <2>2 DEF Entering
      <3>3. \/ pc'[q] # pc[q] \/ job'[q] # job[q]
        BY <1>5, <2>2 DEF Entering
      <3> QED
        BY <3>2, <3>3, OneMoves
    <2> QED
      BY <1>5, <2>1, <2>2, EnteringStep DEF Books
  <1>6. \/ ledger'[u].sale = ledger[u].sale
        \/ /\ ledger[u].sale = 0 /\ ledger'[u].sale = 1
           /\ charge[u] = "paid" /\ With({u}, "pending") = {}
    <2>1. CASE \E p \in Proc : /\ RecordSale(p) /\ job[p].u = u
                               /\ ledger'[u].sale = ledger[u].sale + 1
      <3>1. PICK p \in Proc : RecordSale(p) /\ job[p].u = u /\ ledger'[u].sale = ledger[u].sale + 1
        BY <2>1
      <3>2. Entering(p, u) /\ charge[u] = "paid"
        BY <1>2, <1>3, <3>1
      <3>3. ledger[u].sale = 0 /\ With({u}, "pending") = {}
        BY <3>2 DEF Books
      <3> QED
        BY <3>1, <3>2, <3>3
    <2> QED
      BY <1>0, <2>1, LedgerStep
  <1>7. /\ ledger'[u].sale <= 1
        /\ ledger'[u].sale = 1 => charge'[u] = "paid" /\ With({u}, "pending")' = {}
    <2>1. CASE ledger'[u].sale = ledger[u].sale
      <3>1. ledger[u].sale = 1 => charge[u] = "paid" /\ With({u}, "pending") = {}
        BY DEF Books
      <3> QED
        BY <1>0, <1>1, <2>1, <3>1
    <2> QED
      BY <1>1, <1>6, <2>1
  <1> QED
    BY <1>4, <1>5, <1>7

-----------------------------------------------------------------------------
(* The theorems *)

LEMMA InitIInv == Init => IInv
  <1> SUFFICES ASSUME Init PROVE IInv
    OBVIOUS
  <1>1. TypeOK
    BY InitType
  <1>2. \A p \in Proc : pc[p] = "idle"
    BY DEF Init
  <1>3. Local /\ OneMaker
    BY <1>2 DEF Local, OneMaker, Whose, Fresh, Pays, Reverses, Making, Gig
  <1>4. PaidEvents /\ RefundedOnce
    BY DEF Init, PaidEvents, RefundedOnce
  <1>5. AdmittedHavePaid
    BY DEF Init, AdmittedHavePaid, Held
  <1>6. \A u \in Door : ledger[u].sale = 0
    BY DEF Init, Purchase
  <1>7. Books
    BY <1>2, <1>6 DEF Books, Entering
  <1> QED
    BY <1>1, <1>3, <1>4, <1>5, <1>7 DEF IInv, Inv

LEMMA StepIInv == IInv /\ [Next]_vars => IInv'
  <1> SUFFICES ASSUME IInv, [Next]_vars PROVE IInv'
    OBVIOUS
  <1>1. TypeOK' /\ Local' /\ OneMaker' /\ PaidEvents'
    BY StepType, StepLocal, StepOneMaker, StepPaidEvents DEF IInv
  <1>2. AdmittedHavePaid' /\ RefundedOnce' /\ Books'
    BY StepAdmitted, StepRefunded, StepBooks DEF IInv
  <1> QED
    BY <1>1, <1>2 DEF IInv, Inv

LEMMA Invariance == Spec => []IInv
  BY InitIInv, StepIInv, PTL DEF Spec

\* The variables keep their types, whatever the handlers do.
THEOREM TypeCorrect == Spec => []TypeOK
  BY Invariance, PTL DEF IInv, Inv

\* Nobody holds a ticket of an order whose charge did not go through, in
\* whatever order scans, webhooks, cancellations and the sweep write.
THEOREM AdmissionIsPaidFor == Spec => []AdmittedHavePaid
  BY Invariance, PTL DEF IInv, Inv

\* However many cancel the gig at once and wherever they die, the buyer's money
\* goes back at most once, and only if it was taken.
THEOREM OneRefund == Spec => []RefundedOnce
  BY Invariance, PTL DEF IInv

\* However often and in however many copies its event is delivered, a door sale
\* is booked at most once, and only for a card that was charged.
THEOREM OneDoorEntry == Spec => []DoorSaleBookedOnce
  <1>1. IInv => DoorSaleBookedOnce
    BY DEF IInv, Books, DoorSaleBookedOnce
  <1> QED
    BY <1>1, Invariance, PTL

\* A cancelled ticket comes back only by the hand of a scan that had read it.
THEOREM NoRevival == Spec => VoidStaysVoid
  <1>1. TypeOK /\ [Next]_vars =>
           \A t \in Ticket : tkt[t] = "cancelled" /\ tkt'[t] # "cancelled" =>
              \E p \in Proc : pc[p] = "scan" /\ job[p].t = t
    <2> SUFFICES ASSUME TypeOK, [Next]_vars, NEW t \in Ticket,
                        tkt[t] = "cancelled", tkt'[t] # "cancelled"
                 PROVE  \E p \in Proc : pc[p] = "scan" /\ job[p].t = t
      OBVIOUS
    <2>1. ASSUME NEW S, NEW from, NEW to, Update(S, from, to), "cancelled" \notin from PROVE FALSE
      BY <2>1 DEF Update
    <2>2. "cancelled" \notin Held
      BY DEF Held
    <2>3. ~\E p \in Proc : Mint(p) \/ Issue(p) \/ LetIn(p) \/ DoorHold(p) \/ DoorVoid(p)
      BY <2>1 DEF Mint, Issue, LetIn, DoorHold, DoorVoid
    <2>4. ~\E p \in Proc : Fulfil(p) \/ FulfilDoor(p) \/ ShowVoid(p) \/ GigVoid(p)
      BY <2>1, <2>2 DEF Fulfil, FulfilDoor, ShowVoid, GigVoid
    <2>5. ~Sweep
      BY <2>1 DEF Sweep
    <2>6. \E p \in Proc : ScanWrite(p) \/ DropWrite(p)
      BY <2>3, <2>4, <2>5, RowsFrame
    <2> QED
      BY <2>6 DEF ScanWrite, DropWrite, TypeOK
  <1> QED
    BY <1>1, TypeCorrect, PTL DEF Spec, VoidStaysVoid

\* The rows of a door sale are voided only once its intent is closed at Stripe:
\* a card that was charged meanwhile keeps its seats.
THEOREM ChargedSeatsStay == Spec => TapWins
  <1>1. IInv /\ [Next]_vars =>
           \A p \in Proc : pc[p] = "doorVoid" /\ tkt' # tkt /\ pc'[p] # "doorVoid" =>
              charge[job[p].u] # "paid"
    BY DEF IInv, Inv, Local, Pays
  <1> QED
    BY <1>1, Invariance, PTL DEF Spec, TapWins
=============================================================================
