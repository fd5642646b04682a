--------------------------- MODULE FreeHoursProofs ---------------------------
(***************************************************************************)
(* Proofs about FreeHours, for every set of requests, reservations and     *)
(* invoices, every bound and every choice of handlers, crashes and         *)
(* overlapping deliveries among them.                                      *)
(*                                                                         *)
(* The argument: a process at a label has a job that fits the label (Fit): *)
(* it is about a reservation, an invoice or neither, it resumes where that *)
(* makes sense, and the compare-and-swap loop never deducts.  From this no *)
(* balance is negative, and every statement is a step of CreditWallet: the *)
(* swap and the guarded decrement are the points where a call takes effect.*)
(*                                                                         *)
(* The balances and the ledger agree as long as no isolate dies between    *)
(* the two: a statement changes one term of one sum at most, and the sum   *)
(* by as much.                                                             *)
(***************************************************************************)
EXTENDS FreeHours, FiniteSetTheorems, TLAPS

\* Where a call on the wallet can resume.
Resume == {"idle", "mark", "refundMark", "equipmentCheck", "planWrite", "zeroEquipment",
           "planClear"}

\* What a process at label l is about.
Subject(l) ==
    IF l \in {"price", "plan", "balance", "mark", "settle", "takeCash", "complete",
              "cardWrite", "compConfirm", "compWrite", "cancelWrite", "cancelRefund",
              "refundMark", "backCheck", "backSum", "backPlan", "backBalance"} THEN Res
    ELSE IF l \in {"hoursCheck", "equipmentCheck", "planWrite"} THEN Invoice
    ELSE IF l \in {"zeroEquipment", "planClear"} THEN {Ended}
    ELSE Res \cup Event \cup {NoRef}

Fit(j, l) ==
    /\ j \in JobSpace
    /\ j.about \in Subject(l)
    /\ j.after \in Resume /\ j.about \in Subject(j.after)
    /\ l \in {"read", "swap"} => j.op.kind # "deduct"

\* The inductive invariant.
IInv == TypeOK /\ \A p \in Proc : Fit(job[p], pc[p])

\* The statements that settle a booking, in hours or in money, or waive its price.
Settling(p) ==
    \/ SettleCovered(p) \/ SettleOwing(p) \/ TakeCash(p) \/ Complete(p)
    \/ CardWrite(p) \/ CompConfirm(p) \/ CompWrite(p)

-----------------------------------------------------------------------------
(* Operations on a wallet *)

LEMMA OperationParts ==
    ASSUME NEW o \in Wallets!Operation
    PROVE  /\ o.wallet \in Wallet /\ o.kind \in {"add", "set", "deduct"} /\ o.amount \in Nat
           /\ o # [kind |-> "none"] /\ o.kind # "none"
  BY DEF Wallets!Operation

LEMMA CallType ==
    /\ \A w \in Wallet, k \in {"add", "deduct"}, n \in Nat \ {0} :
          Call(w, k, n) \in Wallets!Operation /\ Call(w, k, n).kind = k
    /\ \A w \in Wallet, n \in Nat :
          Call(w, "set", n) \in Wallets!Operation /\ Call(w, "set", n).kind = "set"
  BY DEF Call, Wallets!Operation

\* What a covered operation leaves is a balance.
LEMMA EffectType ==
    ASSUME NEW o \in Wallets!Operation, NEW b \in Nat, Wallets!Covers(o, b)
    PROVE  Wallets!Effect(o, b) \in Nat
  <1>1. o.wallet \in Wallet /\ o.kind \in {"add", "set", "deduct"} /\ o.amount \in Nat
    BY OperationParts
  <1>2. CASE o.kind = "add"
    <2>1. MaxBalance[o.wallet] \in Nat \cup {-1}
      BY <1>1, FreeHoursAssumption
    <2>2. b + o.amount \in Nat
      BY <1>1
    <2>3. Wallets!Capped(o.wallet, b + o.amount) \in Nat
      BY <2>1, <2>2 DEF Wallets!Capped, Wallets!Unlimited
    <2> QED
      BY <1>2, <2>3 DEF Wallets!Effect
  <1>3. CASE o.kind = "set"
    BY <1>1, <1>3 DEF Wallets!Effect
  <1>4. CASE o.kind = "deduct"
    <2>1. b >= o.amount
      BY <1>4 DEF Wallets!Covers
    <2> QED
      BY <1>1, <1>4, <2>1 DEF Wallets!Effect
  <1> QED
    BY <1>1, <1>2, <1>3, <1>4

-----------------------------------------------------------------------------
(* Jobs *)

Anything == Res \cup Event \cup {NoRef}

LEMMA SubjectType ==
    /\ \A l : Subject(l) \subseteq Anything
    /\ \A l \in {"idle", "read", "swap", "deduct", "post"} : Subject(l) = Anything
  BY DEF Subject, Anything, Event

LEMMA TagType ==
    /\ \A x \in Res : <<"reservation", x>> \in Tag /\ <<"cancelled", x>> \in Tag
    /\ \A x \in Event : <<"monthly_allocation", x>> \in Tag
    /\ <<"admin_adjustment", NoRef>> \in Tag
  BY DEF Tag

LEMMA IdleJobType ==
    /\ IdleJob \in JobSpace
    /\ IdleJob.about = NoRef /\ IdleJob.after = "idle" /\ IdleJob.op = NoOp
    /\ NoOp.kind = "set"
  <1>1. NoOp \in Wallets!Operation /\ NoOp.kind = "set"
    BY DEF NoOp, Wallet, Wallets!Operation
  <1>2. IdleJob.about \in Res \cup Event \cup {NoRef} /\ IdleJob.after \in Label
    BY DEF IdleJob, Label
  <1> QED
    BY <1>1, <1>2, TagType DEF IdleJob, JobSpace

\* An idle job that is made about something.
LEMMA FreshFit ==
    ASSUME NEW l \in Label, NEW x \in Subject(l)
    PROVE  Fit([IdleJob EXCEPT !.about = x], l)
  <1>1. x \in Anything
    BY SubjectType
  <1>2. [IdleJob EXCEPT !.about = x] \in JobSpace
    BY <1>1, IdleJobType DEF JobSpace, Anything
  <1>3. /\ [IdleJob EXCEPT !.about = x].about = x
        /\ [IdleJob EXCEPT !.about = x].after = "idle"
        /\ [IdleJob EXCEPT !.about = x].op.kind = "set"
    BY IdleJobType DEF IdleJob
  <1> QED
    BY <1>1, <1>2, <1>3, SubjectType DEF Fit, Resume

\* A job goes on to a label that its subject allows, to no compare-and-swap.
LEMMA FitMoves ==
    ASSUME NEW j, NEW k, NEW l, Fit(j, k), j.about \in Subject(l), l \notin {"read", "swap"}
    PROVE  Fit(j, l)
  BY DEF Fit

\* What the statements note in their jobs leaves them fitting.
LEMMA FitNotes ==
    ASSUME NEW j, NEW l, Fit(j, l)
    PROVE  /\ \A n \in Nat : Fit([j EXCEPT !.seen = n], l)
           /\ \A n \in Nat : Fit([j EXCEPT !.cap = n], l)
           /\ \A n \in Int : Fit([j EXCEPT !.due = n], l)
           /\ \A n \in Int : Fit([j EXCEPT !.units = n], l)
           /\ \A n \in Int, m \in Nat : Fit([j EXCEPT !.delta = n, !.seen = m], l)
           /\ \A n \in Nat, m \in Int : Fit([j EXCEPT !.cap = n, !.due = m], l)
           /\ \A n \in Nat, m \in Nat : Fit([j EXCEPT !.tries = n, !.seen = m], l)
           /\ \A b \in BOOLEAN : Fit([j EXCEPT !.paid = b], l) /\ Fit([j EXCEPT !.cash = b], l)
  <1>1. \A n \in Nat : Fit([j EXCEPT !.seen = n], l)
    BY DEF Fit, JobSpace
  <1>2. \A n \in Nat : Fit([j EXCEPT !.cap = n], l)
    BY DEF Fit, JobSpace
  <1>3. \A n \in Int : Fit([j EXCEPT !.due = n], l)
    BY DEF Fit, JobSpace
  <1>4. \A n \in Int : Fit([j EXCEPT !.units = n], l)
    BY DEF Fit, JobSpace
  <1>5. \A n \in Int, m \in Nat : Fit([j EXCEPT !.delta = n, !.seen = m], l)
    BY DEF Fit, JobSpace
  <1>6. \A n \in Nat, m \in Int : Fit([j EXCEPT !.cap = n, !.due = m], l)
    BY DEF Fit, JobSpace
  <1>7. \A n \in Nat, m \in Nat : Fit([j EXCEPT !.tries = n, !.seen = m], l)
    BY DEF Fit, JobSpace
  <1>8. \A b \in BOOLEAN : Fit([j EXCEPT !.paid = b], l) /\ Fit([j EXCEPT !.cash = b], l)
    BY DEF Fit, JobSpace
  <1> QED
    BY <1>1, <1>2, <1>3, <1>4, <1>5, <1>6, <1>7, <1>8

\* A job that makes a call on the wallet, and resumes about the same subject.
LEMMA CallFit ==
    ASSUME NEW l \in {"read", "swap", "deduct"}, NEW x \in Anything,
           NEW o \in Wallets!Operation, l # "deduct" => o.kind # "deduct",
           NEW t \in Tag, NEW a \in Resume, x \in Subject(a)
    PROVE  Fit([IdleJob EXCEPT !.about = x, !.op = o, !.tag = t, !.after = a], l)
  <1> DEFINE j == [IdleJob EXCEPT !.about = x, !.op = o, !.tag = t, !.after = a]
  <1>1. a \in Label
    BY DEF Resume, Label
  <1>2. j \in JobSpace
    BY <1>1, IdleJobType DEF JobSpace, Anything
  <1>3. j.about = x /\ j.after = a /\ j.op = o
    BY IdleJobType DEF IdleJob
  <1>4. x \in Subject(l)
    BY SubjectType
  <1> QED
    BY <1>2, <1>3, <1>4 DEF Fit

-----------------------------------------------------------------------------
(* The process table *)

\* A process that goes to a label with a job that fits it leaves the process
\* table well typed, and every job fitting.
LEMMA EnterFit ==
    ASSUME IInv, NEW p \in Proc, NEW l \in Label, NEW j, Fit(j, l), Enter(p, l, j)
    PROVE  /\ pc' \in [Proc -> Label] /\ job' \in [Proc -> JobSpace]
           /\ \A q \in Proc : Fit(job'[q], pc'[q])
  <1>1. j \in JobSpace
    BY DEF Fit
  <1>2. pc' \in [Proc -> Label] /\ job' \in [Proc -> JobSpace]
    BY <1>1 DEF IInv, TypeOK, Enter
  <1>3. ASSUME NEW q \in Proc PROVE Fit(job'[q], pc'[q])
    BY DEF IInv, TypeOK, Enter
  <1> QED
    BY <1>2, <1>3

LEMMA DoneFit ==
    ASSUME IInv, NEW p \in Proc, Done(p)
    PROVE  /\ pc' \in [Proc -> Label] /\ job' \in [Proc -> JobSpace]
           /\ \A q \in Proc : Fit(job'[q], pc'[q])
  <1>1. Fit(IdleJob, "idle")
    BY IdleJobType, SubjectType DEF Fit, Resume, Anything
  <1> QED
    BY <1>1, EnterFit DEF Done, Label

LEMMA AnswerType ==
    ASSUME IInv, NEW p \in Proc, NEW x \in {"due", "sent", "done"}, Answer(p, x)
    PROVE  stripe' \in [Event -> {"due", "sent", "done"}]
  BY DEF IInv, TypeOK, Answer

\* A statement that only reads.
LEMMA ReadInv ==
    ASSUME IInv, NEW p \in Proc, NEW l \in Label, NEW j, Fit(j, l), Enter(p, l, j),
           UNCHANGED <<data, stripe>>, arrivals' \in Nat
    PROVE  IInv'
  <1>1. TypeOK'
    BY EnterFit DEF IInv, TypeOK, data
  <1> QED
    BY <1>1, EnterFit DEF IInv

\* One that writes the row of its reservation.
LEMMA RowInv ==
    ASSUME IInv, NEW p \in Proc, NEW l \in Label, NEW j, Fit(j, l), Enter(p, l, j),
           row' \in [Res -> RowSpace],
           UNCHANGED <<bal, plan, ledger, stripe, applied, arrivals>>
    PROVE  IInv'
  <1>1. TypeOK'
    BY EnterFit DEF IInv, TypeOK
  <1> QED
    BY <1>1, EnterFit DEF IInv

LEMMA LetInInv ==
    ASSUME IInv, NEW p \in Proc, NEW l \in Label, NEW j, Fit(j, l), LetIn(p, l, j)
    PROVE  IInv'
  <1>1. arrivals' \in Nat
    BY DEF LetIn, IInv, TypeOK
  <1> QED
    BY <1>1, ReadInv DEF LetIn

LEMMA JobFit ==
    ASSUME IInv, NEW p \in Proc
    PROVE  /\ Fit(job[p], pc[p]) /\ job[p] \in JobSpace /\ job[p].about \in Anything
           /\ job[p].op \in Wallets!Operation /\ job[p].tag \in Tag
           /\ job[p].after \in Resume /\ job[p].after \in Label
           /\ job[p].about \in Subject(job[p].after)
  <1>1. Fit(job[p], pc[p])
    BY DEF IInv
  <1>2. Resume \subseteq Label
    BY DEF Resume, Label
  <1> QED
    BY <1>1, <1>2 DEF Fit, JobSpace, Anything

LEMMA AskingFit ==
    ASSUME IInv, NEW p \in Proc, NEW l \in {"read", "swap", "deduct"},
           job[p].about \in Anything,
           NEW o \in Wallets!Operation, l # "deduct" => o.kind # "deduct",
           NEW t \in Tag, NEW a \in Resume, job[p].about \in Subject(a)
    PROVE  Fit(Asking(p, o, t, a), l)
  <1> DEFINE j == [IdleJob EXCEPT !.about = job[p].about, !.op = o, !.tag = t, !.after = a]
  <1>1. Fit(j, l)
    BY CallFit
  <1>2. job[p].cash \in BOOLEAN
    BY JobFit DEF JobSpace
  <1>3. Fit([j EXCEPT !.cash = job[p].cash], l)
    BY <1>1, <1>2, FitNotes
  <1>4. Asking(p, o, t, a) = [j EXCEPT !.cash = job[p].cash]
    BY DEF Asking, IdleJob
  <1> QED
    BY <1>3, <1>4

-----------------------------------------------------------------------------
(* credit-service.ts *)

LEMMA WalletReadInv ==
    ASSUME IInv, NEW p \in Proc, WalletRead(p)
    PROVE  IInv'
  <1>1. bal[job[p].op.wallet] \in Nat
    BY JobFit, OperationParts DEF IInv, TypeOK
  <1>2. Fit(job[p], "swap")
    BY JobFit, SubjectType DEF WalletRead, Fit
  <1>3. Fit([job[p] EXCEPT !.seen = bal[job[p].op.wallet]], "swap")
    BY <1>1, <1>2, FitNotes
  <1> QED
    BY <1>3, ReadInv DEF WalletRead, Label, IInv, TypeOK

\* The write of either balance operation.
LEMMA WriteInv ==
    ASSUME IInv, NEW p \in Proc, NEW w \in Wallet, NEW n \in Nat, NEW b \in Nat,
           Write(p, w, n, b), UNCHANGED <<plan, ledger, row, stripe, arrivals>>
    PROVE  IInv'
  <1>1. bal' \in [Wallet -> Nat]
    BY DEF Write, IInv, TypeOK
  <1>2. applied' \in [Wallet -> [Tag -> Nat]]
    <2>1. job[p].tag \in Tag /\ applied[w][job[p].tag] + 1 \in Nat
      BY JobFit DEF IInv, TypeOK
    <2> QED
      BY <2>1 DEF Write, IInv, TypeOK
  <1>3. Fit(job[p], "post")
    BY JobFit, SubjectType, FitMoves
  <1>4. Fit([job[p] EXCEPT !.delta = n - b, !.seen = 0], "post")
    <2>1. n - b \in Int /\ 0 \in Nat
      OBVIOUS
    <2> QED
      BY <1>3, <2>1, FitNotes
  <1>5. /\ pc' \in [Proc -> Label] /\ job' \in [Proc -> JobSpace]
        /\ \A q \in Proc : Fit(job'[q], pc'[q])
    BY <1>4, EnterFit DEF Write, Label
  <1> QED
    BY <1>1, <1>2, <1>5 DEF IInv, TypeOK

\* A call that throws.
LEMMA ThrowInv ==
    ASSUME IInv, NEW p \in Proc, Throw(p), UNCHANGED data, arrivals' \in Nat
    PROVE  IInv'
  <1>1. stripe' \in [Event -> {"due", "sent", "done"}]
    BY AnswerType DEF Throw
  <1>2. /\ pc' \in [Proc -> Label] /\ job' \in [Proc -> JobSpace]
        /\ \A q \in Proc : Fit(job'[q], pc'[q])
    BY DoneFit DEF Throw
  <1> QED
    BY <1>1, <1>2 DEF IInv, TypeOK, data

LEMMA WalletSwapInv ==
    ASSUME IInv, NEW p \in Proc, WalletSwap(p)
    PROVE  IInv'
  <1> DEFINE o == job[p].op
  <1>1. /\ o \in Wallets!Operation /\ o.wallet \in Wallet /\ o.kind # "deduct"
        /\ job[p].seen \in Nat /\ job[p].tries \in Nat
    BY JobFit, OperationParts DEF WalletSwap, Fit, JobSpace
  <1>2. CASE /\ bal[o.wallet] = job[p].seen /\ UNCHANGED stripe
             /\ Write(p, o.wallet, Wallets!Effect(o, job[p].seen), job[p].seen)
    <2>1. Wallets!Effect(o, job[p].seen) \in Nat
      BY <1>1, EffectType DEF Wallets!Covers
    <2> HIDE DEF o
    <2> QED
      BY <1>1, <1>2, <2>1, WriteInv DEF WalletSwap
  <1>3. CASE /\ Enter(p, "read", [job[p] EXCEPT !.tries = @ + 1, !.seen = 0])
             /\ UNCHANGED <<bal, applied, stripe>>
    <2>1. Fit(job[p], "read")
      BY <1>1, JobFit, SubjectType DEF Fit
    <2>2. job[p].tries + 1 \in Nat /\ 0 \in Nat
      BY <1>1
    <2>3. Fit([job[p] EXCEPT !.tries = @ + 1, !.seen = 0], "read")
      BY <2>1, <2>2, FitNotes
    <2> QED
      BY <1>3, <2>3, ReadInv DEF WalletSwap, Label, data, IInv, TypeOK
  <1>4. CASE Throw(p) /\ UNCHANGED <<bal, applied>>
    BY <1>4, ThrowInv DEF WalletSwap, data, IInv, TypeOK
  <1> QED
    BY <1>2, <1>3, <1>4 DEF WalletSwap

LEMMA WalletDeductInv ==
    ASSUME IInv, NEW p \in Proc, WalletDeduct(p)
    PROVE  IInv'
  <1> DEFINE o == job[p].op
  <1>1. o \in Wallets!Operation /\ o.wallet \in Wallet /\ bal[o.wallet] \in Nat
    BY JobFit, OperationParts DEF IInv, TypeOK
  <1>2. CASE /\ bal[o.wallet] >= o.amount /\ UNCHANGED stripe
             /\ Write(p, o.wallet, Wallets!Effect(o, bal[o.wallet]), bal[o.wallet])
    <2>1. Wallets!Effect(o, bal[o.wallet]) \in Nat
      BY <1>1, <1>2, EffectType DEF Wallets!Covers
    <2> HIDE DEF o
    <2> QED
      BY <1>1, <1>2, <2>1, WriteInv DEF WalletDeduct
  <1>3. CASE Throw(p) /\ UNCHANGED <<bal, applied>>
    BY <1>3, ThrowInv DEF WalletDeduct, data, IInv, TypeOK
  <1> QED
    BY <1>2, <1>3 DEF WalletDeduct

LEMMA PostEntryInv ==
    ASSUME IInv, NEW p \in Proc, PostEntry(p)
    PROVE  IInv'
  <1> DEFINE w == job[p].op.wallet
             a == job[p].after
             j == [IdleJob EXCEPT !.about = job[p].about, !.due = job[p].due,
                                  !.cash = job[p].cash]
  <1>1. /\ w \in Wallet /\ job[p].tag \in Tag /\ job[p].delta \in Int /\ job[p].due \in Int
        /\ job[p].cash \in BOOLEAN
    BY JobFit, OperationParts DEF JobSpace
  <1>2. ledger' \in [Wallet -> [Tag -> [rows : Nat, net : Int]]]
    BY <1>1 DEF PostEntry, IInv, TypeOK
  <1>3. CASE Return(p)
    <2>1. stripe' \in [Event -> {"due", "sent", "done"}]
      BY <1>3, AnswerType DEF Return
    <2>2. /\ pc' \in [Proc -> Label] /\ job' \in [Proc -> JobSpace]
          /\ \A q \in Proc : Fit(job'[q], pc'[q])
      BY <1>3, DoneFit DEF Return
    <2> QED
      BY <1>2, <2>1, <2>2 DEF PostEntry, IInv, TypeOK
  <1>4. CASE Enter(p, a, j) /\ UNCHANGED stripe
    <2>1. a \in Label /\ job[p].about \in Subject(a)
      BY JobFit
    <2>2. Fit([IdleJob EXCEPT !.about = job[p].about], a)
      BY <2>1, FreshFit
    <2> DEFINE k == [[IdleJob EXCEPT !.about = job[p].about] EXCEPT !.due = job[p].due]
    <2>3. Fit([k EXCEPT !.cash = job[p].cash], a)
      BY <1>1, <2>2, FitNotes
    <2>4. j = [k EXCEPT !.cash = job[p].cash]
      BY DEF IdleJob
    <2>5. /\ pc' \in [Proc -> Label] /\ job' \in [Proc -> JobSpace]
          /\ \A q \in Proc : Fit(job'[q], pc'[q])
      BY <1>4, <2>1, <2>3, <2>4, EnterFit
    <2> QED
      BY <1>2, <1>4, <2>5 DEF PostEntry, IInv, TypeOK
  <1> QED
    BY <1>3, <1>4 DEF PostEntry

-----------------------------------------------------------------------------
(* reservation-credit-service.ts and its callers *)

LEMMA ResSubject ==
    \A l \in {"price", "plan", "balance", "mark", "settle", "takeCash", "complete",
              "cardWrite", "compConfirm", "compWrite", "cancelWrite", "cancelRefund",
              "refundMark", "backCheck", "backSum", "backPlan", "backBalance"} :
        Subject(l) = Res /\ l \in Label
  BY DEF Subject, Label

\* The reservation a settlement or a reversal is about.
LEMMA AboutRes ==
    ASSUME IInv, NEW p \in Proc,
           pc[p] \in {"price", "plan", "balance", "mark", "settle", "takeCash", "complete",
                      "cardWrite", "compConfirm", "compWrite", "cancelWrite",
                      "cancelRefund", "refundMark", "backCheck", "backSum", "backPlan",
                      "backBalance"}
    PROVE  /\ job[p].about \in Res /\ row[job[p].about] \in RowSpace
           /\ row[job[p].about].due \in Int /\ Need[job[p].about] \in Nat \ {0}
           /\ \A l \in {"price", "plan", "balance", "mark", "settle", "takeCash", "complete",
                        "cardWrite", "compConfirm", "compWrite", "cancelWrite",
                        "cancelRefund", "refundMark", "backCheck", "backSum", "backPlan",
                        "backBalance"} : Fit(job[p], l)
  <1>1. job[p].about \in Res
    BY ResSubject DEF IInv, Fit
  <1>2. row[job[p].about] \in RowSpace /\ row[job[p].about].due \in Int
    BY <1>1 DEF IInv, TypeOK, RowSpace
  <1>3. Need[job[p].about] \in Nat \ {0}
    BY <1>1, FreeHoursAssumption
  <1> QED
    BY <1>1, <1>2, <1>3, JobFit, ResSubject, FitMoves

\* What the handlers write in a row leaves it a row.
LEMMA RowPartType ==
    ASSUME NEW r, NEW k \in [Res -> RowSpace]
    PROVE  /\ \A x \in Active \cup {"cancelled", "completed", "no_show"} :
                 [k EXCEPT ![r].status = x] \in [Res -> RowSpace]
           /\ \A x \in Int : [k EXCEPT ![r].due = x] \in [Res -> RowSpace]
           /\ \A x \in BOOLEAN : /\ [k EXCEPT ![r].record = x] \in [Res -> RowSpace]
                                 /\ [k EXCEPT ![r].session = x] \in [Res -> RowSpace]
                                 /\ [k EXCEPT ![r].waived = x] \in [Res -> RowSpace]
  <1>1. \A x \in Active \cup {"cancelled", "completed", "no_show"} :
            [k EXCEPT ![r].status = x] \in [Res -> RowSpace]
    BY DEF RowSpace
  <1>2. \A x \in Int : [k EXCEPT ![r].due = x] \in [Res -> RowSpace]
    BY DEF RowSpace
  <1>3. \A x \in BOOLEAN : [k EXCEPT ![r].record = x] \in [Res -> RowSpace]
    BY DEF RowSpace
  <1>4. \A x \in BOOLEAN : [k EXCEPT ![r].session = x] \in [Res -> RowSpace]
    BY DEF RowSpace
  <1>5. \A x \in BOOLEAN : [k EXCEPT ![r].waived = x] \in [Res -> RowSpace]
    BY DEF RowSpace
  <1> QED
    BY <1>1, <1>2, <1>3, <1>4, <1>5

LEMMA RowType ==
    ASSUME IInv, NEW r
    PROVE  /\ row \in [Res -> RowSpace]
           /\ \A b \in BOOLEAN :
                 [row EXCEPT ![r].status = "confirmed", ![r].due = 0, ![r].record = b]
                     \in [Res -> RowSpace]
           /\ \A b, c \in BOOLEAN, s \in {"completed", "confirmed"} :
                 [row EXCEPT ![r].status = s, ![r].record = b, ![r].due = 0, ![r].waived = c]
                     \in [Res -> RowSpace]
           /\ [row EXCEPT ![r].due = 0, ![r].waived = TRUE] \in [Res -> RowSpace]
           /\ [row EXCEPT ![r].session = TRUE] \in [Res -> RowSpace]
           /\ [row EXCEPT ![r].status = "confirmed"] \in [Res -> RowSpace]
           /\ [row EXCEPT ![r].status = "cancelled", ![r].due = Unpriced] \in [Res -> RowSpace]
           /\ [row EXCEPT ![r].refunded = TRUE] \in [Res -> RowSpace]
  <1>1. row \in [Res -> RowSpace]
    BY DEF IInv, TypeOK
  <1>2. /\ {"confirmed", "completed", "cancelled"}
              \subseteq Active \cup {"cancelled", "completed", "no_show"}
        /\ 0 \in Int /\ Unpriced \in Int /\ TRUE \in BOOLEAN
    BY DEF Active, Unpriced
  <1>3. ASSUME NEW b \in BOOLEAN
        PROVE  [row EXCEPT ![r].status = "confirmed", ![r].due = 0, ![r].record = b]
                   \in [Res -> RowSpace]
    <2> DEFINE f == [row EXCEPT ![r].status = "confirmed"]
               g == [f EXCEPT ![r].due = 0]
               h == [g EXCEPT ![r].record = b]
    <2>1. f \in [Res -> RowSpace]
      BY <1>1, <1>2, RowPartType
    <2>2. g \in [Res -> RowSpace]
      BY <1>2, <2>1, RowPartType
    <2>3. h \in [Res -> RowSpace]
      BY <2>2, RowPartType
    <2>4. [row EXCEPT ![r].status = "confirmed", ![r].due = 0, ![r].record = b] = h
      OBVIOUS
    <2> QED
      BY <2>3, <2>4, Zenon
  <1>4. [row EXCEPT ![r].status = "confirmed"] \in [Res -> RowSpace]
    BY <1>1, <1>2 DEF RowSpace
  <1>5. [row EXCEPT ![r].status = "cancelled", ![r].due = Unpriced] \in [Res -> RowSpace]
    BY <1>1, <1>2 DEF RowSpace
  <1>6. [row EXCEPT ![r].refunded = TRUE] \in [Res -> RowSpace]
    BY <1>1, <1>2 DEF RowSpace
  <1>7. ASSUME NEW b \in BOOLEAN, NEW c \in BOOLEAN, NEW s \in {"completed", "confirmed"}
        PROVE  [row EXCEPT ![r].status = s, ![r].record = b, ![r].due = 0, ![r].waived = c]
                   \in [Res -> RowSpace]
    <2> DEFINE f == [row EXCEPT ![r].status = s]
               g == [f EXCEPT ![r].record = b]
               h == [g EXCEPT ![r].due = 0]
               k == [h EXCEPT ![r].waived = c]
    <2>1. f \in [Res -> RowSpace]
      BY <1>1, <1>2, RowPartType
    <2>2. g \in [Res -> RowSpace]
      BY <2>1, RowPartType
    <2>3. h \in [Res -> RowSpace]
      BY <1>2, <2>2, RowPartType
    <2>4. k \in [Res -> RowSpace]
      BY <2>3, RowPartType
    <2>5. [row EXCEPT ![r].status = s, ![r].record = b, ![r].due = 0, ![r].waived = c] = k
      OBVIOUS
    <2> QED
      BY <2>4, <2>5, Zenon
  <1>8. [row EXCEPT ![r].due = 0, ![r].waived = TRUE] \in [Res -> RowSpace]
    <2> DEFINE f == [row EXCEPT ![r].due = 0]
    <2>1. f \in [Res -> RowSpace]
      BY <1>1, <1>2, RowPartType
    <2>2. [f EXCEPT ![r].waived = TRUE] \in [Res -> RowSpace]
      BY <1>2, <2>1, RowPartType
    <2>3. [row EXCEPT ![r].due = 0, ![r].waived = TRUE] = [f EXCEPT ![r].waived = TRUE]
      OBVIOUS
    <2> QED
      BY <2>2, <2>3, Zenon
  <1>9. [row EXCEPT ![r].session = TRUE] \in [Res -> RowSpace]
    BY <1>1, <1>2, RowPartType
  <1> QED
    BY <1>1, <1>3, <1>4, <1>5, <1>6, <1>7, <1>8, <1>9

LEMMA CommitInv ==
    ASSUME IInv, NEW p \in Proc,
           PriceRead(p) \/ PlanRead(p) \/ BalanceRead(p) \/ MarkPriced(p)
    PROVE  IInv'
  <1> DEFINE r == job[p].about
  <1>1. CASE PriceRead(p)
    <2>1. row[r].due \in Int /\ Fit(job[p], "settle") /\ Fit(job[p], "plan")
      BY <1>1, AboutRes DEF PriceRead
    <2>2. Fit([job[p] EXCEPT !.due = row[r].due], "settle")
      BY <2>1, FitNotes
    <2> QED
      BY <1>1, <2>1, <2>2, ReadInv, ResSubject DEF PriceRead, Goto, IInv, TypeOK
  <1>2. CASE PlanRead(p)
    <2>1. Fit(job[p], "balance") /\ Need[r] \in Nat
      BY <1>2, AboutRes DEF PlanRead
    <2>2. Fit([job[p] EXCEPT !.cap = IF plan = NoPlan THEN 0 ELSE Need[r]], "balance")
      BY <2>1, FitNotes
    <2> QED
      BY <1>2, <2>2, ReadInv, ResSubject DEF PlanRead, IInv, TypeOK
  <1>3. CASE BalanceRead(p)
    <2> DEFINE units == Smaller(bal["hours"], job[p].cap)
               o     == Call("hours", "deduct", units)
               j     == Asking(p, o, <<"reservation", r>>, "mark")
    <2>1. r \in Res /\ Need[r] \in Nat /\ Fit(job[p], "mark")
      BY <1>3, AboutRes DEF BalanceRead
    <2>2. units \in Nat
      BY JobFit DEF Smaller, IInv, TypeOK, Wallet, JobSpace
    <2>3. CASE units > 0
      <3>1. o \in Wallets!Operation
        BY <2>2, <2>3, CallType DEF Wallet
      <3>2. r \in Anything /\ r \in Subject("mark") /\ "mark" \in Resume
        BY <2>1, ResSubject DEF Anything, Resume
      <3>3. <<"reservation", r>> \in Tag
        BY <2>1, TagType
      <3>4. Fit(j, "deduct")
        BY <3>1, <3>2, <3>3, AskingFit
      <3>5. Need[r] - units \in Int
        BY <2>1, <2>2
      <3>6. Fit([j EXCEPT !.due = Need[r] - units], "deduct")
        BY <3>4, <3>5, FitNotes
      <3> QED
        BY <1>3, <2>3, <3>6, ReadInv DEF BalanceRead, Label, IInv, TypeOK
    <2>4. CASE ~(units > 0)
      <3>1. Need[r] \in Int /\ 0 \in Nat
        BY <2>1
      <3>2. Fit([job[p] EXCEPT !.cap = 0, !.due = Need[r]], "mark")
        BY <2>1, <3>1, FitNotes
      <3> QED
        BY <1>3, <2>4, <3>2, ReadInv, ResSubject DEF BalanceRead, IInv, TypeOK
    <2> QED
      BY <2>3, <2>4
  <1>4. CASE MarkPriced(p)
    <2>1. r \in Res /\ Fit(job[p], "settle") /\ job[p].due \in Int
      BY <1>4, AboutRes, JobFit DEF MarkPriced, JobSpace
    <2>2. row' \in [Res -> RowSpace]
      BY <1>4, <2>1 DEF MarkPriced, IInv, TypeOK, RowSpace
    <2> QED
      BY <1>4, <2>1, <2>2, RowInv, ResSubject DEF MarkPriced, Goto
  <1> QED
    BY <1>1, <1>2, <1>3, <1>4

\* What a settlement may do to the row it is about.
SettledRow(r) ==
    \/ UNCHANGED row
    \/ row' = [row EXCEPT ![r].status = "confirmed"]
    \/ row' = [row EXCEPT ![r].session = TRUE]
    \/ \E b \in BOOLEAN :
          row' = [row EXCEPT ![r].status = "confirmed", ![r].due = 0, ![r].record = b]
    \/ \E b, c \in BOOLEAN, s \in {"completed", "confirmed"} :
          row' = [row EXCEPT ![r].status = s, ![r].record = b, ![r].due = 0, ![r].waived = c]
    \/ row' = [row EXCEPT ![r].due = 0, ![r].waived = TRUE]

LEMMA SettledRowType ==
    ASSUME IInv, NEW r, SettledRow(r)
    PROVE  row' \in [Res -> RowSpace]
  <1>1. CASE UNCHANGED row
    BY <1>1, RowType, Zenon
  <1>2. CASE row' = [row EXCEPT ![r].status = "confirmed"]
    BY <1>2, RowType, Zenon
  <1>3. CASE row' = [row EXCEPT ![r].session = TRUE]
    BY <1>3, RowType, Zenon
  <1>4. CASE \E b \in BOOLEAN :
                row' = [row EXCEPT ![r].status = "confirmed", ![r].due = 0, ![r].record = b]
    <2>1. PICK b \in BOOLEAN :
              row' = [row EXCEPT ![r].status = "confirmed", ![r].due = 0, ![r].record = b]
      BY <1>4
    <2>2. [row EXCEPT ![r].status = "confirmed", ![r].due = 0, ![r].record = b]
              \in [Res -> RowSpace]
      BY RowType
    <2> QED
      BY <2>1, <2>2, Zenon
  <1>5. CASE \E b, c \in BOOLEAN, s \in {"completed", "confirmed"} :
                row' = [row EXCEPT ![r].status = s, ![r].record = b, ![r].due = 0,
                                   ![r].waived = c]
    <2>1. PICK b \in BOOLEAN, c \in BOOLEAN, s \in {"completed", "confirmed"} :
              row' = [row EXCEPT ![r].status = s, ![r].record = b, ![r].due = 0,
                                 ![r].waived = c]
      BY <1>5
    <2>2. [row EXCEPT ![r].status = s, ![r].record = b, ![r].due = 0, ![r].waived = c]
              \in [Res -> RowSpace]
      BY RowType
    <2> QED
      BY <2>1, <2>2, Zenon
  <1>6. CASE row' = [row EXCEPT ![r].due = 0, ![r].waived = TRUE]
    BY <1>6, RowType, Zenon
  <1> QED
    BY <1>1, <1>2, <1>3, <1>4, <1>5, <1>6, Zenon DEF SettledRow

\* Each settling statement moves on to a job that fits, and settles the row.
LEMMA SettlingMoves ==
    ASSUME IInv, NEW p \in Proc, Settling(p)
    PROVE  /\ \E l \in Label : \E j : Fit(j, l) /\ Enter(p, l, j)
           /\ SettledRow(job[p].about)
           /\ UNCHANGED <<bal, plan, ledger, stripe, applied, arrivals>>
  <1> DEFINE r == job[p].about
  <1>1. /\ pc[p] \in {"settle", "takeCash", "complete", "cardWrite", "compConfirm", "compWrite"}
        /\ UNCHANGED <<bal, plan, ledger, stripe, applied, arrivals>>
    BY DEF Settling, SettleCovered, SettleOwing, TakeCash, Complete, CardWrite, CompConfirm,
           CompWrite, data
  <1>2. /\ r \in Res /\ row[r] \in RowSpace
        /\ Fit(job[p], "takeCash") /\ Fit(job[p], "complete") /\ Fit(job[p], "compWrite")
        /\ {"idle", "takeCash", "complete", "compWrite"} \subseteq Label
    BY <1>1, AboutRes DEF Label
  <1>3. Fit(IdleJob, "idle")
    BY IdleJobType, SubjectType DEF Fit, Resume, Anything
  <1>4. ASSUME Done(p) PROVE \E l \in Label : \E j : Fit(j, l) /\ Enter(p, l, j)
    BY <1>2, <1>3, <1>4 DEF Done
  <1>5. ASSUME NEW l \in {"takeCash", "compWrite"}, Goto(p, l)
        PROVE  \E m \in Label : \E j : Fit(j, m) /\ Enter(p, m, j)
    BY <1>2, <1>5 DEF Goto
  <1>6. CASE SettleCovered(p)
    <2>1. SettledRow(r)
      BY <1>6 DEF SettleCovered, SettledRow
    <2> QED
      BY <1>1, <1>4, <1>5, <1>6, <2>1 DEF SettleCovered
  <1>7. CASE SettleOwing(p)
    <2>1. SettledRow(r)
      BY <1>7 DEF SettleOwing, SettledRow
    <2> QED
      BY <1>1, <1>4, <1>5, <1>7, <2>1 DEF SettleOwing
  <1>8. CASE TakeCash(p)
    <2>1. row[r].record \in BOOLEAN /\ SettledRow(r)
      BY <1>2, <1>8 DEF RowSpace, TakeCash, data, SettledRow
    <2>2. ASSUME NEW b \in BOOLEAN PROVE Fit([job[p] EXCEPT !.paid = b], "complete")
      BY <1>2, FitNotes
    <2>3. CASE \E b \in BOOLEAN : Enter(p, "complete", [job[p] EXCEPT !.paid = b])
      BY <1>1, <1>2, <2>1, <2>2, <2>3
    <2> QED
      BY <1>1, <1>4, <1>8, <2>1, <2>3 DEF TakeCash
  <1>9. CASE Complete(p)
    <2>1. job[p].paid \in BOOLEAN /\ row[r].waived \in BOOLEAN
      BY <1>2, JobFit DEF RowSpace, JobSpace
    <2>2. SettledRow(r)
      <3>1. CASE row' = [row EXCEPT ![r].status = "completed", ![r].record = job[p].paid,
                                    ![r].due = 0, ![r].waived = @ \/ job[p].due > 0]
        <4>1. PICK c \in BOOLEAN : c = (row[r].waived \/ job[p].due > 0)
          OBVIOUS
        <4>2. row' = [row EXCEPT ![r].status = "completed", ![r].record = job[p].paid,
                                 ![r].due = 0, ![r].waived = c]
          BY <1>2, <3>1, <4>1 DEF IInv, TypeOK, RowSpace
        <4> QED
          BY <2>1, <4>2 DEF SettledRow
      <3> QED
        BY <1>9, <3>1 DEF Complete, SettledRow
    <2> QED
      BY <1>1, <1>4, <1>9, <2>2 DEF Complete
  <1>10. CASE CardWrite(p)
    <2>1. row' = [row EXCEPT ![r].status = "confirmed", ![r].record = TRUE,
                             ![r].due = 0, ![r].waived = TRUE]
      BY <1>2, <1>10 DEF CardWrite, IInv, TypeOK, RowSpace
    <2>2. SettledRow(r)
      BY <2>1 DEF SettledRow
    <2> QED
      BY <1>1, <1>4, <1>10, <2>2 DEF CardWrite
  <1>11. CASE CompConfirm(p)
    BY <1>1, <1>4, <1>5, <1>11 DEF CompConfirm, SettledRow
  <1>12. CASE CompWrite(p)
    BY <1>1, <1>4, <1>12 DEF CompWrite, SettledRow
  <1> QED
    BY <1>6, <1>7, <1>8, <1>9, <1>10, <1>11, <1>12 DEF Settling

LEMMA SettlingInv ==
    ASSUME IInv, NEW p \in Proc, Settling(p)
    PROVE  IInv'
  <1>1. row' \in [Res -> RowSpace]
    BY SettlingMoves, SettledRowType
  <1> QED
    BY <1>1, SettlingMoves, RowInv

LEMMA LeaveReversalFit ==
    ASSUME IInv, NEW p \in Proc, LeaveReversal(p), UNCHANGED <<data, stripe, arrivals>>
    PROVE  IInv'
  <1>1. Fit(IdleJob, "idle")
    BY IdleJobType, SubjectType DEF Fit, Resume, Anything
  <1>2. job[p].after \in Label /\ Fit(job[p], job[p].after)
    BY JobFit DEF Fit, Resume
  <1> QED
    BY <1>1, <1>2, ReadInv DEF LeaveReversal, Done, Goto, Label, IInv, TypeOK

LEMMA CancelInv ==
    ASSUME IInv, NEW p \in Proc,
           \/ CancelWrite(p) \/ CancelRefund(p) \/ RefundMark(p)
           \/ BackCheck(p) \/ BackSum(p) \/ BackPlan(p) \/ BackBalance(p)
    PROVE  IInv'
  <1> DEFINE r == job[p].about
  <1>0. Fit(IdleJob, "idle") /\ "idle" \in Label
    BY IdleJobType, SubjectType DEF Fit, Resume, Anything, Label
  <1>1. CASE CancelWrite(p)
    <2>1. r \in Res /\ Fit(job[p], "cancelRefund") /\ Fit(job[p], "backCheck")
      BY <1>1, AboutRes DEF CancelWrite
    <2>3. \/ row' = [row EXCEPT ![r].status = "cancelled", ![r].due = Unpriced]
          \/ UNCHANGED row
      BY <1>1 DEF CancelWrite
    <2>2. row' \in [Res -> RowSpace]
      <3>1. /\ [row EXCEPT ![r].status = "cancelled", ![r].due = Unpriced] \in [Res -> RowSpace]
            /\ row \in [Res -> RowSpace]
        BY RowType
      <3> QED
        BY <2>3, <3>1, Zenon
    <2> QED
      BY <1>0, <1>1, <2>1, <2>2, RowInv, ResSubject DEF CancelWrite, Goto, Done
  <1>2. CASE CancelRefund(p)
    <2>1. r \in Res /\ Fit(job[p], "backCheck")
      BY <1>2, AboutRes DEF CancelRefund
    <2>3. row' = [row EXCEPT ![r].refunded = TRUE] \/ UNCHANGED row
      BY <1>2 DEF CancelRefund
    <2>2. row' \in [Res -> RowSpace]
      <3>1. [row EXCEPT ![r].refunded = TRUE] \in [Res -> RowSpace] /\ row \in [Res -> RowSpace]
        BY RowType
      <3> QED
        BY <2>3, <3>1, Zenon
    <2> QED
      BY <1>2, <2>1, <2>2, RowInv, ResSubject DEF CancelRefund, Goto
  <1>3. CASE RefundMark(p)
    <2>1. r \in Res
      BY <1>3, AboutRes DEF RefundMark
    <2>2. row' \in [Res -> RowSpace]
      BY <1>3, RowType DEF RefundMark, IInv, TypeOK
    <2> QED
      BY <1>0, <1>3, <2>2, RowInv DEF RefundMark, Done
  <1>4. CASE BackCheck(p)
    <2>1. Fit(job[p], "backSum")
      BY <1>4, AboutRes DEF BackCheck
    <2> QED
      BY <1>4, <2>1, LeaveReversalFit, ReadInv, ResSubject DEF BackCheck, Goto, IInv, TypeOK
  <1>5. CASE BackSum(p)
    <2> DEFINE units == CommittedUnits(r)
    <2>1. r \in Res /\ Fit(job[p], "backPlan")
      BY <1>5, AboutRes DEF BackSum
    <2>2. ledger["hours"][<<"reservation", r>>].net \in Int
      BY <2>1, TagType DEF IInv, TypeOK, Wallet
    <2>3. units \in Int
      BY <2>2 DEF CommittedUnits
    <2>4. Fit([job[p] EXCEPT !.units = units], "backPlan")
      BY <2>1, <2>3, FitNotes
    <2>5. CASE Enter(p, "backPlan", [job[p] EXCEPT !.units = units])
      BY <1>5, <2>4, <2>5, ReadInv, ResSubject DEF BackSum, IInv, TypeOK
    <2>6. CASE LeaveReversal(p)
      BY <1>5, <2>6, LeaveReversalFit DEF BackSum
    <2> QED
      BY <1>5, <2>5, <2>6 DEF BackSum
  <1>6. CASE BackPlan(p)
    <2>1. Fit(job[p], "backBalance")
      BY <1>6, AboutRes DEF BackPlan
    <2>2. (IF plan = NoPlan THEN 0 ELSE plan) \in Nat
      BY DEF IInv, TypeOK
    <2>3. Fit([job[p] EXCEPT !.cap = IF plan = NoPlan THEN 0 ELSE plan], "backBalance")
      BY <2>1, <2>2, FitNotes
    <2> QED
      BY <1>6, <2>3, ReadInv, ResSubject DEF BackPlan, IInv, TypeOK
  <1>7. CASE BackBalance(p)
    <2> DEFINE units == Smaller(job[p].units, job[p].cap - bal["hours"])
               a     == job[p].after
               o     == Call("hours", "add", units)
    <2>1. r \in Res
      BY <1>7, AboutRes DEF BackBalance
    <2>2. units \in Int
      BY JobFit DEF Smaller, IInv, TypeOK, Wallet, JobSpace
    <2>3. CASE units > 0
      <3>1. o \in Wallets!Operation /\ o.kind # "deduct"
        BY <2>2, <2>3, CallType DEF Wallet
      <3>2. a \in Resume /\ r \in Subject(a) /\ r \in Anything
        BY JobFit
      <3>3. <<"cancelled", r>> \in Tag
        BY <2>1, TagType
      <3>4. Fit(Asking(p, o, <<"cancelled", r>>, a), "read")
        BY <3>1, <3>2, <3>3, AskingFit
      <3> QED
        BY <1>7, <2>3, <3>4, ReadInv DEF BackBalance, Label, IInv, TypeOK
    <2>4. CASE ~(units > 0)
      BY <1>7, <2>4, LeaveReversalFit DEF BackBalance
    <2> QED
      BY <2>3, <2>4
  <1> QED
    BY <1>1, <1>2, <1>3, <1>4, <1>5, <1>6, <1>7

-----------------------------------------------------------------------------
(* The webhooks *)

LEMMA EventSubject ==
    /\ \A l \in {"hoursCheck", "equipmentCheck", "planWrite"} :
          Subject(l) = Invoice /\ l \in Label
    /\ \A l \in {"zeroEquipment", "planClear"} : Subject(l) = {Ended} /\ l \in Label
    /\ Invoice \subseteq Event /\ Ended \in Event /\ Event \subseteq Anything
  BY DEF Subject, Label, Event, Anything

LEMMA DeliverInv ==
    ASSUME IInv, NEW p \in Proc, NEW e \in Event, Deliver(p, e)
    PROVE  IInv'
  <1>1. /\ stripe' \in [Event -> {"due", "sent", "done"}]
        /\ arrivals' \in Nat
    BY DEF Deliver, IInv, TypeOK
  <1>2. /\ pc' \in [Proc -> Label] /\ job' \in [Proc -> JobSpace]
        /\ \A q \in Proc : Fit(job'[q], pc'[q])
    <2>1. CASE e = Ended
      <3> DEFINE o == Call("hours", "set", 0)
      <3>1. o \in Wallets!Operation /\ o.kind # "deduct"
        BY CallType DEF Wallet
      <3>2. <<"monthly_allocation", e>> \in Tag
        BY TagType
      <3>3. "zeroEquipment" \in Resume /\ e \in Subject("zeroEquipment") /\ e \in Anything
        BY <2>1, EventSubject DEF Resume
      <3>4. Fit([IdleJob EXCEPT !.about = e, !.op = o,
                                !.tag = <<"monthly_allocation", e>>,
                                !.after = "zeroEquipment"], "read")
        BY <3>1, <3>2, <3>3, CallFit
      <3> QED
        BY <2>1, <3>4, EnterFit DEF Deliver, Label
    <2>2. CASE e # Ended
      <3>1. e \in Subject("hoursCheck") /\ "hoursCheck" \in Label
        BY <2>2, EventSubject DEF Event
      <3>2. Fit([IdleJob EXCEPT !.about = e], "hoursCheck")
        BY <3>1, FreshFit
      <3> QED
        BY <2>2, <3>1, <3>2, EnterFit DEF Deliver
    <2> QED
      BY <2>1, <2>2
  <1> QED
    BY <1>1, <1>2 DEF Deliver, IInv, TypeOK, data

\* Either statement that skips an allocation or asks the wallet for it.
LEMMA GrantFit ==
    ASSUME IInv, NEW p \in Proc, pc[p] \in {"hoursCheck", "equipmentCheck"},
           NEW o \in Wallets!Operation, o.kind # "deduct",
           NEW a \in {"equipmentCheck", "planWrite"}
    PROVE  /\ Fit(job[p], a)
           /\ Fit(Asking(p, o, <<"monthly_allocation", job[p].about>>, a), "read")
  <1>1. job[p].about \in Invoice
    BY EventSubject DEF IInv, Fit
  <1>2. job[p].about \in Subject(a) /\ job[p].about \in Anything /\ a \in Resume
    BY <1>1, EventSubject DEF Resume
  <1>3. <<"monthly_allocation", job[p].about>> \in Tag
    BY <1>1, EventSubject, TagType
  <1>4. Fit(job[p], a)
    BY <1>2, JobFit, FitMoves
  <1>5. Fit(Asking(p, o, <<"monthly_allocation", job[p].about>>, a), "read")
    BY <1>2, <1>3, AskingFit
  <1> QED
    BY <1>4, <1>5

\* A handler that writes the plan and returns.
LEMMA PlanInv ==
    ASSUME IInv, NEW p \in Proc, Return(p), plan' \in Nat \cup {NoPlan},
           UNCHANGED <<bal, ledger, row, applied, arrivals>>
    PROVE  IInv'
  <1>1. stripe' \in [Event -> {"due", "sent", "done"}]
    BY AnswerType DEF Return
  <1>2. /\ pc' \in [Proc -> Label] /\ job' \in [Proc -> JobSpace]
        /\ \A q \in Proc : Fit(job'[q], pc'[q])
    BY DoneFit DEF Return
  <1> QED
    BY <1>1, <1>2 DEF IInv, TypeOK

LEMMA WebhookInv ==
    ASSUME IInv, NEW p \in Proc,
           HoursCheck(p) \/ EquipmentCheck(p) \/ PlanWrite(p) \/ ZeroEquipment(p) \/ PlanClear(p)
    PROVE  IInv'
  <1> DEFINE e == job[p].about
             t == <<"monthly_allocation", e>>
  <1>1. CASE HoursCheck(p)
    <2> DEFINE o == Call("hours", "set", Grant[e])
    <2>1. e \in Invoice
      BY <1>1, EventSubject DEF HoursCheck, IInv, Fit
    <2>2. o \in Wallets!Operation /\ o.kind # "deduct"
      BY <2>1, CallType, FreeHoursAssumption DEF Wallet
    <2>3. Fit(job[p], "equipmentCheck") /\ Fit(Asking(p, o, t, "equipmentCheck"), "read")
      BY <1>1, <2>2, GrantFit DEF HoursCheck
    <2> QED
      BY <1>1, <2>3, ReadInv DEF HoursCheck, Goto, Label, IInv, TypeOK
  <1>2. CASE EquipmentCheck(p)
    <2> DEFINE o == Call("equipment", "add", Dollars[e])
    <2>1. e \in Invoice
      BY <1>2, EventSubject DEF EquipmentCheck, IInv, Fit
    <2>2. o \in Wallets!Operation /\ o.kind # "deduct"
      BY <2>1, CallType, FreeHoursAssumption DEF Wallet
    <2>3. Fit(job[p], "planWrite") /\ Fit(Asking(p, o, t, "planWrite"), "read")
      BY <1>2, <2>2, GrantFit DEF EquipmentCheck
    <2> QED
      BY <1>2, <2>3, ReadInv DEF EquipmentCheck, Goto, Label, IInv, TypeOK
  <1>3. CASE PlanWrite(p)
    <2>1. e \in Invoice
      BY <1>3, EventSubject DEF PlanWrite, IInv, Fit
    <2>2. plan' \in Nat
      BY <1>3, <2>1, FreeHoursAssumption DEF PlanWrite
    <2> QED
      BY <1>3, <2>2, PlanInv DEF PlanWrite
  <1>4. CASE ZeroEquipment(p)
    <2> DEFINE o == Call("equipment", "set", 0)
    <2>1. e = Ended
      BY <1>4, EventSubject DEF ZeroEquipment, IInv, Fit
    <2>2. o \in Wallets!Operation /\ o.kind # "deduct"
      BY CallType DEF Wallet
    <2>3. "planClear" \in Resume /\ e \in Subject("planClear") /\ e \in Anything /\ t \in Tag
      BY <2>1, EventSubject, TagType DEF Resume
    <2>4. Fit(Asking(p, o, t, "planClear"), "swap")
      BY <2>2, <2>3, AskingFit
    <2>5. bal["equipment"] \in Nat
      BY DEF IInv, TypeOK, Wallet
    <2>6. Fit([Asking(p, o, t, "planClear") EXCEPT !.seen = bal["equipment"]], "swap")
      BY <2>4, <2>5, FitNotes
    <2> QED
      BY <1>4, <2>6, ReadInv DEF ZeroEquipment, Label, IInv, TypeOK
  <1>5. CASE PlanClear(p)
    BY <1>5, PlanInv DEF PlanClear
  <1> QED
    BY <1>1, <1>2, <1>3, <1>4, <1>5

-----------------------------------------------------------------------------
(* Requests *)

LEMMA RequestInv ==
    ASSUME IInv, NEW p \in Proc, Request(p)
    PROVE  IInv'
  <1>1. ASSUME NEW r \in Res PROVE ConfirmRead(p, r) => IInv'
    <2>1. Fit([IdleJob EXCEPT !.about = r], "price")
      BY FreshFit, ResSubject
    <2> QED
      BY <2>1, LetInInv, ResSubject DEF ConfirmRead
  <1>2. ASSUME NEW r \in Res PROVE CancelRead(p, r) => IInv'
    <2>1. Fit([IdleJob EXCEPT !.about = r], "cancelWrite")
      BY FreshFit, ResSubject
    <2>2. row[r].record \in BOOLEAN
      BY DEF IInv, TypeOK, RowSpace
    <2>3. Fit([[IdleJob EXCEPT !.about = r] EXCEPT !.paid = row[r].record], "cancelWrite")
      BY <2>1, <2>2, FitNotes
    <2>4. [[IdleJob EXCEPT !.about = r] EXCEPT !.paid = row[r].record]
            = [IdleJob EXCEPT !.about = r, !.paid = row[r].record]
      BY DEF IdleJob
    <2> QED
      BY <2>3, <2>4, LetInInv, ResSubject DEF CancelRead
  <1>3. ASSUME NEW r \in Res PROVE RefundRead(p, r) => IInv'
    <2> DEFINE j == [IdleJob EXCEPT !.about = r, !.after = "refundMark"]
    <2>1. j \in JobSpace /\ j.about = r /\ j.after = "refundMark"
      BY IdleJobType DEF JobSpace, IdleJob, Label
    <2>2. Fit(j, "backCheck")
      BY <2>1, ResSubject DEF Fit, Resume
    <2> QED
      BY <2>2, LetInInv, ResSubject DEF RefundRead
  <1>4. ASSUME NEW w \in Wallet, NEW n \in Adjustments PROVE Adjust(p, w, n) => IInv'
    <2> DEFINE j(k) == [IdleJob EXCEPT !.op = Call(w, k, n)]
    <2>1. n \in Nat \ {0}
      BY FreeHoursAssumption
    <2>2. \A k \in {"add", "deduct"} : Call(w, k, n) \in Wallets!Operation /\ Call(w, k, n).kind = k
      BY <2>1, CallType
    <2>3. \A k \in {"add", "deduct"} :
             /\ j(k) \in JobSpace /\ j(k).op = Call(w, k, n)
             /\ j(k).about = NoRef /\ j(k).after = "idle"
      BY <2>2, IdleJobType DEF JobSpace, IdleJob
    <2>4. NoRef \in Subject("idle") /\ NoRef \in Subject("read") /\ NoRef \in Subject("deduct")
      BY SubjectType DEF Anything
    <2>5. Fit(j("add"), "read") /\ Fit(j("deduct"), "deduct")
      BY <2>2, <2>3, <2>4 DEF Fit, Resume
    <2> QED
      BY <2>5, LetInInv DEF Adjust, Label
  <1>5. ASSUME NEW r \in Res
        PROVE  /\ CashRead(p, r) => IInv'
               /\ CardRead(p, r) => IInv'
               /\ CompRead(p, r) => IInv'
    <2> DEFINE j == [IdleJob EXCEPT !.about = r]
    <2>1. \A l \in {"price", "cardWrite", "compConfirm", "compWrite"} : Fit(j, l) /\ l \in Label
      BY FreshFit, ResSubject
    <2>2. Fit([j EXCEPT !.cash = TRUE], "price")
      BY <2>1, FitNotes
    <2>3. [j EXCEPT !.cash = TRUE] = [IdleJob EXCEPT !.about = r, !.cash = TRUE]
      BY DEF IdleJob
    <2> QED
      BY <2>1, <2>2, <2>3, LetInInv DEF CashRead, CardRead, CompRead
  <1>6. ASSUME NEW r \in Res, Resolve(p, r) PROVE IInv'
    <2>1. PICK s \in {"completed", "no_show"} : row' = [row EXCEPT ![r].status = s]
      BY <1>6 DEF Resolve
    <2>2. row' \in [Res -> RowSpace]
      BY <2>1, RowType, RowPartType
    <2> QED
      BY <1>6, <2>2 DEF Resolve, IInv, TypeOK
  <1> QED
    BY <1>1, <1>2, <1>3, <1>4, <1>5, <1>6 DEF Request

-----------------------------------------------------------------------------
(* The invariant *)

LEMMA InitIInv == Init => IInv
  <1> SUFFICES ASSUME Init PROVE IInv
    OBVIOUS
  <1>1. Fit(IdleJob, "idle") /\ IdleJob \in JobSpace
    BY IdleJobType, SubjectType DEF Fit, Resume, Anything
  <1>2. bal \in [Wallet -> Nat] /\ plan \in Nat \cup {NoPlan}
    BY FreeHoursAssumption DEF Init
  <1>3. row \in [Res -> RowSpace]
    BY DEF Init, RowSpace, Active, Unpriced
  <1>4. /\ ledger \in [Wallet -> [Tag -> [rows : Nat, net : Int]]]
        /\ applied \in [Wallet -> [Tag -> Nat]]
        /\ stripe \in [Event -> {"due", "sent", "done"}] /\ arrivals \in Nat
    BY DEF Init
  <1>5. pc \in [Proc -> Label] /\ job \in [Proc -> JobSpace]
    BY <1>1 DEF Init, Label
  <1>6. \A p \in Proc : Fit(job[p], pc[p])
    BY <1>1 DEF Init
  <1> QED
    BY <1>2, <1>3, <1>4, <1>5, <1>6 DEF IInv, TypeOK

LEMMA CrashInv ==
    ASSUME IInv, NEW p \in Proc, Crash(p)
    PROVE  IInv'
  <1>1. arrivals' \in Nat
    BY DEF Crash, IInv, TypeOK
  <1> QED
    BY <1>1, ThrowInv DEF Crash

LEMMA StepIInv == IInv /\ [Next]_vars => IInv'
  <1> SUFFICES ASSUME IInv, [Next]_vars PROVE IInv'
    OBVIOUS
  <1>1. ASSUME NEW p \in Proc, Step(p) PROVE IInv'
    <2>1. CASE WalletRead(p) \/ WalletSwap(p) \/ WalletDeduct(p) \/ PostEntry(p)
      BY <2>1, WalletReadInv, WalletSwapInv, WalletDeductInv, PostEntryInv
    <2>2. CASE PriceRead(p) \/ PlanRead(p) \/ BalanceRead(p) \/ MarkPriced(p)
      BY <2>2, CommitInv
    <2>5. CASE Settling(p)
      BY <2>5, SettlingInv
    <2>3. CASE \/ CancelWrite(p) \/ CancelRefund(p) \/ RefundMark(p)
               \/ BackCheck(p) \/ BackSum(p) \/ BackPlan(p) \/ BackBalance(p)
      BY <2>3, CancelInv
    <2>4. CASE \/ HoursCheck(p) \/ EquipmentCheck(p) \/ PlanWrite(p)
               \/ ZeroEquipment(p) \/ PlanClear(p)
      BY <2>4, WebhookInv
    <2> QED
      BY <1>1, <2>1, <2>2, <2>3, <2>4, <2>5 DEF Step, Settling
  <1>2. ASSUME NEW p \in Proc, Request(p) \/ Crash(p) PROVE IInv'
    BY <1>2, RequestInv, CrashInv
  <1>3. ASSUME NEW p \in Proc, NEW e \in Event, Deliver(p, e) PROVE IInv'
    BY <1>3, DeliverInv
  <1>4. CASE UNCHANGED vars
    BY <1>4 DEF IInv, TypeOK, vars
  <1> QED
    BY <1>1, <1>2, <1>3, <1>4 DEF Next

\* Every variable keeps its type; in particular no balance is ever negative,
\* whatever overlaps, fails or dies (deductCredits, applyBalanceMutation).
THEOREM BalancesNeverNegative == Spec => []TypeOK
  <1>1. IInv => TypeOK
    BY DEF IInv
  <1> QED
    BY <1>1, InitIInv, StepIInv, PTL DEF Spec

-----------------------------------------------------------------------------
(* Refinement of CreditWallet *)

AskingLabel == {"read", "swap", "deduct"}

\* The call a process at label l with job j has asked for.
Pending(l, j) == IF l \in AskingLabel THEN j.op ELSE [kind |-> "none"]

\* What CreditWallet sees of the process table.
Calls == [p \in Proc |-> IF pc[p] \in {"read", "swap", "deduct"} THEN job[p].op
                         ELSE [kind |-> "none"]]

WalletStep == Wallets!Next \/ UNCHANGED <<bal, Calls>>

LEMMA EnterCalls ==
    ASSUME IInv, NEW p \in Proc, NEW l, NEW j, Enter(p, l, j)
    PROVE  Calls' = [Calls EXCEPT ![p] = Pending(l, j)]
  <1>1. ASSUME NEW q \in Proc PROVE Calls'[q] = [Calls EXCEPT ![p] = Pending(l, j)][q]
    BY DEF Calls, Pending, AskingLabel, Enter, IInv, TypeOK
  <1> QED
    BY <1>1 DEF Calls

\* A statement that has to do with no call on the wallet.
LEMMA Silent ==
    ASSUME IInv, NEW p \in Proc, NEW l, NEW j, Enter(p, l, j), UNCHANGED bal,
           pc[p] \notin AskingLabel, l \notin AskingLabel
    PROVE  WalletStep
  <1>1. Pending(l, j) = Calls[p]
    BY DEF Pending, Calls, AskingLabel
  <1>2. Calls' = [Calls EXCEPT ![p] = Calls[p]]
    BY <1>1, EnterCalls
  <1>3. Calls' = Calls
    BY <1>2 DEF Calls
  <1> QED
    BY <1>3 DEF WalletStep

\* One that ends in a call.
LEMMA Asks ==
    ASSUME IInv, NEW p \in Proc, NEW l \in AskingLabel, NEW j, Enter(p, l, j), UNCHANGED bal,
           pc[p] \notin AskingLabel, j.op \in Wallets!Operation
    PROVE  WalletStep
  <1>1. Calls' = [Calls EXCEPT ![p] = j.op] /\ Calls[p] = [kind |-> "none"]
    BY EnterCalls DEF Pending, Calls, AskingLabel
  <1>2. Calls'[p] = j.op
    BY <1>1 DEF Calls
  <1>3. Wallets!Ask(p)
    BY <1>1, <1>2 DEF Wallets!Ask, Wallets!NoCall, Calls
  <1> QED
    BY <1>3 DEF WalletStep, Wallets!Next

\* The balance is written: the call is performed.
LEMMA Performs ==
    ASSUME IInv, NEW p \in Proc, pc[p] \in AskingLabel,
           Wallets!Covers(job[p].op, bal[job[p].op.wallet]), NEW b,
           Write(p, job[p].op.wallet, Wallets!Effect(job[p].op, bal[job[p].op.wallet]), b)
    PROVE  WalletStep
  <1> DEFINE o == job[p].op
  <1>1. o # [kind |-> "none"] /\ Calls[p] = o
    BY JobFit, OperationParts DEF Calls, AskingLabel
  <1>2. Calls' = [Calls EXCEPT ![p] = [kind |-> "none"]]
    <2>1. Calls' = [Calls EXCEPT ![p] =
                      Pending("post", [job[p] EXCEPT
                        !.delta = Wallets!Effect(o, bal[o.wallet]) - b, !.seen = 0])]
      BY EnterCalls DEF Write
    <2> QED
      BY <2>1 DEF Pending, AskingLabel
  <1>3. bal' = [bal EXCEPT ![o.wallet] = Wallets!Effect(o, bal[o.wallet])]
    BY DEF Write
  <1>4. Wallets!Perform(p)
    BY <1>1, <1>2, <1>3 DEF Wallets!Perform, Wallets!NoCall, Calls
  <1> QED
    BY <1>4 DEF WalletStep, Wallets!Next

\* The caller gives up, or is gone.
LEMMA Refuses ==
    ASSUME IInv, NEW p \in Proc, Throw(p), UNCHANGED bal
    PROVE  WalletStep
  <1>1. CASE pc[p] \notin AskingLabel
    BY <1>1, Silent DEF Throw, Done, AskingLabel
  <1>2. CASE pc[p] \in AskingLabel
    <2>1. Calls[p] # [kind |-> "none"]
      BY <1>2, JobFit, OperationParts DEF Calls, AskingLabel
    <2>2. Calls' = [Calls EXCEPT ![p] = [kind |-> "none"]]
      <3>1. Calls' = [Calls EXCEPT ![p] = Pending("idle", IdleJob)]
        BY EnterCalls DEF Throw, Done
      <3> QED
        BY <3>1 DEF Pending, AskingLabel
    <2>3. Wallets!Refuse(p)
      BY <2>1, <2>2 DEF Wallets!Refuse, Wallets!NoCall, Calls
    <2> QED
      BY <2>3 DEF WalletStep, Wallets!Next
  <1> QED
    BY <1>1, <1>2

\* credit-service.ts: the calls.
LEMMA ServiceStep ==
    ASSUME IInv, NEW p \in Proc,
           WalletRead(p) \/ WalletSwap(p) \/ WalletDeduct(p) \/ PostEntry(p)
    PROVE  WalletStep
  <1> DEFINE o == job[p].op
  <1>0. o \in Wallets!Operation /\ Calls[p] = Pending(pc[p], job[p])
    BY JobFit DEF Calls, Pending, AskingLabel
  <1>1. CASE WalletRead(p)
    <2>1. Calls' = [Calls EXCEPT ![p] =
                      Pending("swap", [job[p] EXCEPT !.seen = bal[o.wallet]])]
      BY <1>1, EnterCalls DEF WalletRead
    <2>2. Pending("swap", [job[p] EXCEPT !.seen = bal[o.wallet]]) = Calls[p]
      BY <1>0, <1>1, JobFit DEF WalletRead, Pending, AskingLabel, JobSpace
    <2>3. Calls' = Calls
      BY <2>1, <2>2 DEF Calls
    <2> QED
      BY <1>1, <2>3 DEF WalletRead, WalletStep, data
  <1>2. CASE WalletSwap(p)
    <2>1. CASE /\ bal[o.wallet] = job[p].seen
               /\ Write(p, o.wallet, Wallets!Effect(o, job[p].seen), job[p].seen)
      <3>1. Wallets!Covers(o, bal[o.wallet])
        BY <1>2, JobFit DEF WalletSwap, Fit, Wallets!Covers
      <3>2. pc[p] \in AskingLabel
        BY <1>2 DEF WalletSwap, AskingLabel
      <3>3. Write(p, o.wallet, Wallets!Effect(o, bal[o.wallet]), job[p].seen)
        BY <2>1
      <3> QED
        BY <3>1, <3>2, <3>3, Performs
    <2>2. CASE /\ Enter(p, "read", [job[p] EXCEPT !.tries = @ + 1, !.seen = 0])
               /\ UNCHANGED <<bal, applied, stripe>>
      <3> DEFINE j == [job[p] EXCEPT !.tries = @ + 1, !.seen = 0]
      <3>1. Calls' = [Calls EXCEPT ![p] = Pending("read", j)]
        BY <2>2, EnterCalls
      <3>2. Pending("read", j) = Calls[p]
        BY <1>0, <1>2, JobFit DEF WalletSwap, Pending, AskingLabel, JobSpace
      <3>3. Calls' = Calls
        BY <3>1, <3>2 DEF Calls
      <3> QED
        BY <2>2, <3>3 DEF WalletStep
    <2>3. CASE Throw(p) /\ UNCHANGED <<bal, applied>>
      BY <2>3, Refuses
    <2> QED
      BY <1>2, <2>1, <2>2, <2>3 DEF WalletSwap
  <1>3. CASE WalletDeduct(p)
    <2>1. CASE /\ bal[o.wallet] >= o.amount
               /\ Write(p, o.wallet, Wallets!Effect(o, bal[o.wallet]), bal[o.wallet])
      <3>1. Wallets!Covers(o, bal[o.wallet]) /\ pc[p] \in AskingLabel
        BY <1>3, <2>1 DEF WalletDeduct, Wallets!Covers, AskingLabel
      <3> QED
        BY <2>1, <3>1, Performs
    <2>2. CASE Throw(p) /\ UNCHANGED <<bal, applied>>
      BY <2>2, Refuses
    <2> QED
      BY <1>3, <2>1, <2>2 DEF WalletDeduct
  <1>4. CASE PostEntry(p)
    <2>1. pc[p] \notin AskingLabel /\ job[p].after \notin AskingLabel /\ UNCHANGED bal
      BY <1>4, JobFit DEF PostEntry, AskingLabel, Resume
    <2>2. CASE Return(p)
      BY <2>1, <2>2, Silent DEF Return, Done, AskingLabel
    <2>3. CASE Enter(p, job[p].after, [IdleJob EXCEPT !.about = job[p].about,
                                                      !.due = job[p].due,
                                                      !.cash = job[p].cash])
      BY <2>1, <2>3, Silent
    <2> QED
      BY <1>4, <2>2, <2>3 DEF PostEntry
  <1> QED
    BY <1>1, <1>2, <1>3, <1>4

\* The statements around them.
LEMMA ReservationStep ==
    ASSUME IInv, NEW p \in Proc,
           \/ PriceRead(p) \/ PlanRead(p) \/ BalanceRead(p) \/ MarkPriced(p) \/ Settling(p)
           \/ CancelWrite(p) \/ CancelRefund(p) \/ RefundMark(p)
           \/ BackCheck(p) \/ BackSum(p) \/ BackPlan(p) \/ BackBalance(p)
    PROVE  WalletStep
  <1>0. job[p].after \notin AskingLabel
    BY JobFit DEF Resume, AskingLabel
  <1>1. ASSUME LeaveReversal(p), UNCHANGED bal, pc[p] \notin AskingLabel PROVE WalletStep
    BY <1>0, <1>1, Silent DEF LeaveReversal, Done, Goto, AskingLabel
  <1>2. CASE PriceRead(p)
    BY <1>2, Silent DEF PriceRead, Goto, data, AskingLabel
  <1>3. CASE PlanRead(p)
    BY <1>3, Silent DEF PlanRead, data, AskingLabel
  <1>4. CASE BalanceRead(p)
    <2> DEFINE r     == job[p].about
               units == Smaller(bal["hours"], job[p].cap)
               o     == Call("hours", "deduct", units)
               j     == [Asking(p, o, <<"reservation", r>>, "mark")
                         EXCEPT !.due = Need[r] - units]
    <2>1. CASE units > 0
      <3>1. units \in Nat
        BY JobFit DEF Smaller, IInv, TypeOK, Wallet, JobSpace
      <3>2. o \in Wallets!Operation
        BY <2>1, <3>1, CallType DEF Wallet
      <3>3. j.op = o
        BY DEF Asking, IdleJob
      <3> QED
        BY <1>4, <2>1, <3>2, <3>3, Asks DEF BalanceRead, data, AskingLabel
    <2>2. CASE ~(units > 0)
      BY <1>4, <2>2, Silent DEF BalanceRead, data, AskingLabel
    <2> QED
      BY <2>1, <2>2
  <1>5. CASE MarkPriced(p)
    BY <1>5, Silent DEF MarkPriced, Goto, AskingLabel
  <1>6. CASE Settling(p)
    <2>1. CASE SettleCovered(p) \/ SettleOwing(p)
      BY <2>1, Silent DEF SettleCovered, SettleOwing, Goto, Done, AskingLabel
    <2>2. CASE TakeCash(p) \/ Complete(p)
      BY <2>2, Silent DEF TakeCash, Complete, Done, data, AskingLabel
    <2>3. CASE CardWrite(p) \/ CompConfirm(p) \/ CompWrite(p)
      BY <2>3, Silent DEF CardWrite, CompConfirm, CompWrite, Goto, Done, AskingLabel
    <2> QED
      BY <1>6, <2>1, <2>2, <2>3 DEF Settling
  <1>7. CASE CancelWrite(p)
    BY <1>7, Silent DEF CancelWrite, Goto, Done, AskingLabel
  <1>8. CASE CancelRefund(p) \/ RefundMark(p)
    BY <1>8, Silent DEF CancelRefund, RefundMark, Goto, Done, AskingLabel
  <1>9. CASE BackCheck(p)
    BY <1>1, <1>9, Silent DEF BackCheck, Goto, data, AskingLabel
  <1>10. CASE BackSum(p)
    BY <1>1, <1>10, Silent DEF BackSum, data, AskingLabel
  <1>11. CASE BackPlan(p)
    BY <1>11, Silent DEF BackPlan, data, AskingLabel
  <1>12. CASE BackBalance(p)
    <2> DEFINE units == Smaller(job[p].units, job[p].cap - bal["hours"])
               o     == Call("hours", "add", units)
               j     == Asking(p, o, <<"cancelled", job[p].about>>, job[p].after)
    <2>1. CASE units > 0
      <3>1. units \in Int
        BY JobFit DEF Smaller, IInv, TypeOK, Wallet, JobSpace
      <3>2. o \in Wallets!Operation
        BY <2>1, <3>1, CallType DEF Wallet
      <3>3. j.op = o
        BY DEF Asking, IdleJob
      <3> QED
        BY <1>12, <2>1, <3>2, <3>3, Asks DEF BackBalance, data, AskingLabel
    <2>2. CASE ~(units > 0)
      BY <1>1, <1>12, <2>2 DEF BackBalance, data, AskingLabel
    <2> QED
      BY <2>1, <2>2
  <1> QED
    BY <1>2, <1>3, <1>4, <1>5, <1>6, <1>7, <1>8, <1>9, <1>10, <1>11, <1>12

LEMMA WebhookStep ==
    ASSUME IInv, NEW p \in Proc,
           HoursCheck(p) \/ EquipmentCheck(p) \/ PlanWrite(p) \/ ZeroEquipment(p) \/ PlanClear(p)
    PROVE  WalletStep
  <1> DEFINE e == job[p].about
             t == <<"monthly_allocation", e>>
  <1>1. ASSUME NEW o, NEW a PROVE Asking(p, o, t, a).op = o
    BY DEF Asking, IdleJob
  <1>2. CASE HoursCheck(p)
    <2> DEFINE o == Call("hours", "set", Grant[e])
    <2>1. e \in Invoice
      BY <1>2, EventSubject DEF HoursCheck, IInv, Fit
    <2>2. o \in Wallets!Operation
      BY <2>1, CallType, FreeHoursAssumption DEF Wallet
    <2>3. Asking(p, o, t, "equipmentCheck").op = o
      BY <1>1
    <2>4. CASE Goto(p, "equipmentCheck")
      BY <1>2, <2>4, Silent DEF HoursCheck, Goto, data, AskingLabel
    <2>5. CASE Enter(p, "read", Asking(p, o, t, "equipmentCheck"))
      BY <1>2, <2>2, <2>3, <2>5, Asks DEF HoursCheck, data, AskingLabel
    <2> QED
      BY <1>2, <2>4, <2>5 DEF HoursCheck
  <1>3. CASE EquipmentCheck(p)
    <2> DEFINE o == Call("equipment", "add", Dollars[e])
    <2>1. e \in Invoice
      BY <1>3, EventSubject DEF EquipmentCheck, IInv, Fit
    <2>2. o \in Wallets!Operation
      BY <2>1, CallType, FreeHoursAssumption DEF Wallet
    <2>3. Asking(p, o, t, "planWrite").op = o
      BY <1>1
    <2>4. CASE Goto(p, "planWrite")
      BY <1>3, <2>4, Silent DEF EquipmentCheck, Goto, data, AskingLabel
    <2>5. CASE Enter(p, "read", Asking(p, o, t, "planWrite"))
      BY <1>3, <2>2, <2>3, <2>5, Asks DEF EquipmentCheck, data, AskingLabel
    <2> QED
      BY <1>3, <2>4, <2>5 DEF EquipmentCheck
  <1>4. CASE PlanWrite(p) \/ PlanClear(p)
    BY <1>4, Silent DEF PlanWrite, PlanClear, Return, Done, AskingLabel
  <1>5. CASE ZeroEquipment(p)
    <2> DEFINE o == Call("equipment", "set", 0)
               j == [Asking(p, o, t, "planClear") EXCEPT !.seen = bal["equipment"]]
    <2>1. o \in Wallets!Operation
      BY CallType DEF Wallet
    <2>2. j.op = o
      BY DEF Asking, IdleJob
    <2> QED
      BY <1>5, <2>1, <2>2, Asks DEF ZeroEquipment, data, AskingLabel
  <1> QED
    BY <1>2, <1>3, <1>4, <1>5

LEMMA RequestStep ==
    ASSUME IInv, NEW p \in Proc, Request(p)
    PROVE  WalletStep
  <1>1. ASSUME NEW r \in Res, ConfirmRead(p, r) \/ CashRead(p, r) \/ CancelRead(p, r)
               \/ RefundRead(p, r)
        PROVE  WalletStep
    BY <1>1, Silent
       DEF ConfirmRead, CashRead, CancelRead, RefundRead, Accepts, LetIn, data, AskingLabel
  <1>3. ASSUME NEW r \in Res, CardRead(p, r) \/ CompRead(p, r)
        PROVE  WalletStep
    BY <1>3, Silent DEF CardRead, CompRead, Accepts, LetIn, data, AskingLabel
  <1>4. ASSUME NEW r \in Res, Resolve(p, r)
        PROVE  WalletStep
    BY <1>4 DEF Resolve, WalletStep, Calls
  <1>2. ASSUME NEW w \in Wallet, NEW n \in Adjustments, Adjust(p, w, n)
        PROVE  WalletStep
    <2>1. n \in Nat \ {0}
      BY FreeHoursAssumption
    <2>2. \A k \in {"add", "deduct"} :
             /\ Call(w, k, n) \in Wallets!Operation
             /\ [IdleJob EXCEPT !.op = Call(w, k, n)].op = Call(w, k, n)
      BY <2>1, CallType DEF IdleJob
    <2> QED
      BY <1>2, <2>2, Asks DEF Adjust, Accepts, LetIn, data, AskingLabel
  <1> QED
    BY <1>1, <1>2, <1>3, <1>4 DEF Request

LEMMA DeliverStep ==
    ASSUME IInv, NEW p \in Proc, NEW e \in Event, Deliver(p, e)
    PROVE  WalletStep
  <1>1. CASE e = Ended
    <2> DEFINE o == Call("hours", "set", 0)
               j == [IdleJob EXCEPT !.about = e, !.op = o,
                                    !.tag = <<"monthly_allocation", e>>,
                                    !.after = "zeroEquipment"]
    <2>1. o \in Wallets!Operation
      BY CallType DEF Wallet
    <2>2. j.op = o
      BY DEF IdleJob
    <2> QED
      BY <1>1, <2>1, <2>2, Asks DEF Deliver, data, AskingLabel
  <1>2. CASE e # Ended
    BY <1>2, Silent DEF Deliver, data, AskingLabel
  <1> QED
    BY <1>1, <1>2

LEMMA WalletInit == Init => Wallets!Init
  BY DEF Init, Wallets!Init, Wallets!NoCall

LEMMA EveryStep == IInv /\ [Next]_vars => WalletStep
  <1> SUFFICES ASSUME IInv, [Next]_vars PROVE WalletStep
    OBVIOUS
  <1>1. ASSUME NEW p \in Proc, Step(p) PROVE WalletStep
    <2>1. CASE WalletRead(p) \/ WalletSwap(p) \/ WalletDeduct(p) \/ PostEntry(p)
      BY <2>1, ServiceStep
    <2>2. CASE \/ PriceRead(p) \/ PlanRead(p) \/ BalanceRead(p) \/ MarkPriced(p) \/ Settling(p)
               \/ CancelWrite(p) \/ CancelRefund(p) \/ RefundMark(p)
               \/ BackCheck(p) \/ BackSum(p) \/ BackPlan(p) \/ BackBalance(p)
      BY <2>2, ReservationStep
    <2>3. CASE \/ HoursCheck(p) \/ EquipmentCheck(p) \/ PlanWrite(p)
               \/ ZeroEquipment(p) \/ PlanClear(p)
      BY <2>3, WebhookStep
    <2> QED
      BY <1>1, <2>1, <2>2, <2>3 DEF Step, Settling
  <1>2. ASSUME NEW p \in Proc, Request(p) PROVE WalletStep
    BY <1>2, RequestStep
  <1>3. ASSUME NEW p \in Proc, Crash(p) PROVE WalletStep
    BY <1>3, Refuses DEF Crash, data
  <1>4. ASSUME NEW p \in Proc, NEW e \in Event, Deliver(p, e) PROVE WalletStep
    BY <1>4, DeliverStep
  <1>5. CASE UNCHANGED vars
    BY <1>5 DEF vars, WalletStep, Calls
  <1> QED
    BY <1>1, <1>2, <1>3, <1>4, <1>5 DEF Next

\* The compare-and-swap loop and the guarded decrement lose no update and make
\* none twice: every behaviour is one of the wallet whose calls are atomic
\* (applyBalanceMutation, deductCredits).
THEOREM ImplementsWallet == Spec => WalletSpec
  <1>1. IInv /\ [Next]_vars => [Wallets!Next]_<<bal, Calls>>
    BY EveryStep DEF WalletStep
  <1> QED
    BY <1>1, InitIInv, StepIInv, WalletInit, PTL
       DEF Spec, WalletSpec, Wallets!Spec, Calls

-----------------------------------------------------------------------------
(* Sums.  The induction is by the smallest counterexample, which exists       *)
(* because the strict subsets of a finite set are well-founded.               *)

\* The element a sum takes next.
One(s) == CHOOSE x \in s : TRUE

\* A set of subsets has one of which no smaller one is in the set: induction on finite sets,
\* by the smallest counterexample.
LEMMA Smallest ==
    ASSUME NEW S, IsFiniteSet(S), NEW B, B \subseteq SUBSET S, B # {}
    PROVE  \E s \in B : \A x \in s : s \ {x} \notin B
  <1>1. IsWellFoundedOn(StrictSubsetOrdering(S), FiniteSubsetsOf(S))
    BY FS_StrictSubsetOrderingWellFounded
  <1>2. FiniteSubsetsOf(S) = SUBSET S
    BY FS_FiniteSubsetsOfFinite
  <1>3. PICK s \in B : \A y \in B : ~(<<y, s>> \in StrictSubsetOrdering(S))
    <2> DEFINE R == StrictSubsetOrdering(S)
               F == FiniteSubsetsOf(S)
    <2>1. IsWellFoundedOn(R, F) /\ B \subseteq F
      BY <1>1, <1>2
    <2> HIDE DEF R, F
    <2>2. \E s \in B : \A y \in B : ~(<<y, s>> \in R)
      BY <2>1, WFMin
    <2> QED
      BY <2>2 DEF R
  <1>4. ASSUME NEW x \in s, s \ {x} \in B PROVE FALSE
    BY <1>3, <1>4 DEF StrictSubsetOrdering
  <1> QED
    BY <1>4

\* The running sum behind SumFunction.
IsSum(sum, f, S) ==
    /\ sum \in [SUBSET S -> Int]
    /\ sum[{}] = 0
    /\ \A s \in SUBSET S : s # {} => sum[s] = f[One(s)] + sum[s \ {One(s)}]

LEMMA SumTable ==
    ASSUME NEW S, IsFiniteSet(S), NEW f \in [S -> Int]
    PROVE  \E sum : IsSum(sum, f, S) /\ SumFunction(f) = sum[S]
  <1> DEFINE Rec(sum) == [s \in SUBSET S |-> IF s = {} THEN 0
                                             ELSE f[One(s)] + sum[s \ {One(s)}]]
             sum == CHOOSE g : g = Rec(g)
  <1>1. SumFunction(f) = sum[S]
    BY DEF SumFunction, SumFunctionOnSet, FoldFunctionOnSet, MapThenFoldSet, One
  \* By induction on T: the table can be filled for the sets no larger than T.
  <1> DEFINE Upto(T) == {s \in SUBSET S : Cardinality(s) <= Cardinality(T)}
             Fills(g, T) == /\ g[{}] = 0
                            /\ \A s \in Upto(T) : s # {} => g[s] = f[One(s)] + g[s \ {One(s)}]
             Bad == {T \in SUBSET S : ~ \E g \in [SUBSET S -> Int] : Fills(g, T)}
  <1>2. \A s \in SUBSET S : IsFiniteSet(s) /\ Cardinality(s) \in Nat
    BY FS_Subset, FS_CardinalityType
  <1>3. ASSUME NEW s \in SUBSET S, s # {}
        PROVE  /\ One(s) \in s /\ s \ {One(s)} \in SUBSET S
               /\ Cardinality(s \ {One(s)}) = Cardinality(s) - 1
    <2>1. One(s) \in s
      BY <1>3 DEF One
    <2> QED
      BY <1>2, <2>1, FS_RemoveElement
  <1>4. Bad = {}
    <2> SUFFICES ASSUME Bad # {} PROVE FALSE
      OBVIOUS
    <2>1. PICK T \in Bad : \A x \in T : T \ {x} \notin Bad
      <3>1. Bad \subseteq SUBSET S
        OBVIOUS
      <3> HIDE DEF Bad
      <3> QED
        BY <3>1, Smallest
    <2>2. T # {}
      <3>1. \A s \in Upto({}) : s = {}
        BY <1>2, FS_EmptySet
      <3>2. PICK z \in [SUBSET S -> Int] : \A s \in SUBSET S : z[s] = 0
        <4>1. [s \in SUBSET S |-> 0] \in [SUBSET S -> Int]
          OBVIOUS
        <4> QED
          BY <4>1
      <3>3. Fills(z, {})
        BY <3>1, <3>2
      <3>4. {} \notin Bad
        BY <3>3
      <3> QED
        BY <2>1, <3>4
    <2>3. PICK U : U = T \ {One(T)} /\ U \in SUBSET S /\ Cardinality(U) = Cardinality(T) - 1
      BY <1>3, <2>2
    <2>4. PICK g \in [SUBSET S -> Int] : Fills(g, U)
      <3>1. U \notin Bad
        BY <2>1, <2>2, <2>3, <1>3
      <3> QED
        BY <2>3, <3>1
    <2>5. PICK h : h = [s \in SUBSET S |-> IF s = {} THEN 0 ELSE f[One(s)] + g[s \ {One(s)}]]
      OBVIOUS
    <2>6. h \in [SUBSET S -> Int]
      <3>1. \A s \in SUBSET S : s # {} => f[One(s)] \in Int /\ g[s \ {One(s)}] \in Int
        BY <1>3
      <3> QED
        BY <2>5, <3>1
    <2>7. \A s \in Upto(U) : h[s] = g[s]
      BY <2>4, <2>5
    <2>8. \A s \in Upto(T) : s # {} => s \ {One(s)} \in Upto(U)
      BY <1>2, <1>3, <2>3
    <2>9. Fills(h, T)
      BY <2>5, <2>7, <2>8
    <2> QED
      BY <2>1, <2>6, <2>9
  <1>5. PICK g \in [SUBSET S -> Int] : Fills(g, S)
    BY <1>4
  <1>6. \A s \in SUBSET S : s \in Upto(S)
    BY <1>2, FS_Subset
  <1>7. g = Rec(g)
    BY <1>5, <1>6
  <1>8. sum = Rec(sum)
    BY <1>7
  <1> HIDE DEF sum
  <1>9. \A s \in SUBSET S : sum[s] = IF s = {} THEN 0 ELSE f[One(s)] + sum[s \ {One(s)}]
    BY <1>8
  <1>10. sum \in [SUBSET S -> Int]
    <2> DEFINE Wrong == {s \in SUBSET S : sum[s] \notin Int}
    <2>1. Wrong = {}
      <3> SUFFICES ASSUME Wrong # {} PROVE FALSE
        OBVIOUS
      <3>1. Wrong \subseteq SUBSET S
        OBVIOUS
      <3>2. PICK s \in Wrong : \A x \in s : s \ {x} \notin Wrong
        <4> HIDE DEF Wrong
        <4> QED
          BY <3>1, Smallest
      <3>3. s \in SUBSET S /\ sum[s] \notin Int
        BY <3>2
      <3>4. s # {} => sum[s \ {One(s)}] \in Int /\ f[One(s)] \in Int
        BY <1>3, <3>2, <3>3
      <3>5. sum[s] = IF s = {} THEN 0 ELSE f[One(s)] + sum[s \ {One(s)}]
        BY <1>9, <3>3
      <3> QED
        BY <3>3, <3>4, <3>5
    <2>2. sum = [s \in SUBSET S |-> sum[s]]
      BY <1>8
    <2> QED
      BY <2>1, <2>2
  <1>11. IsSum(sum, f, S)
    BY <1>9, <1>10 DEF IsSum
  <1> QED
    BY <1>1, <1>11

LEMMA SumType ==
    ASSUME NEW S, IsFiniteSet(S), NEW f \in [S -> Int]
    PROVE  SumFunction(f) \in Int
  <1>1. PICK sum : IsSum(sum, f, S) /\ SumFunction(f) = sum[S]
    BY SumTable
  <1> QED
    BY <1>1 DEF IsSum

LEMMA SumZero ==
    ASSUME NEW S, IsFiniteSet(S), NEW f \in [S -> Int], \A x \in S : f[x] = 0
    PROVE  SumFunction(f) = 0
  <1>1. PICK sum : IsSum(sum, f, S) /\ SumFunction(f) = sum[S]
    BY SumTable
  <1> DEFINE Bad == {s \in SUBSET S : sum[s] # 0}
  <1>2. Bad = {}
    <2> SUFFICES ASSUME Bad # {} PROVE FALSE
      OBVIOUS
    <2>1. Bad \subseteq SUBSET S
      OBVIOUS
    <2>2. PICK s \in Bad : \A x \in s : s \ {x} \notin Bad
      <3> HIDE DEF Bad
      <3> QED
        BY <2>1, Smallest
    <2>3. s \in SUBSET S /\ sum[s] # 0
      BY <2>2
    <2>4. s # {}
      BY <1>1, <2>3 DEF IsSum
    <2>5. PICK c \in s : c = One(s)
      BY <2>4 DEF One
    <2>6. sum[s] = f[c] + sum[s \ {c}] /\ sum[s \ {c}] = 0 /\ f[c] = 0
      BY <1>1, <2>2, <2>3, <2>4, <2>5 DEF IsSum
    <2> QED
      BY <2>3, <2>6
  <1> QED
    BY <1>1, <1>2

\* A sum of which one term changes changes by as much.
LEMMA SumChange ==
    ASSUME NEW S, IsFiniteSet(S), NEW f \in [S -> Int], NEW g \in [S -> Int], NEW t \in S,
           \A x \in S \ {t} : g[x] = f[x]
    PROVE  SumFunction(g) = SumFunction(f) + g[t] - f[t]
  <1>1. PICK sum : IsSum(sum, f, S) /\ SumFunction(f) = sum[S]
    BY SumTable
  <1>2. PICK new : IsSum(new, g, S) /\ SumFunction(g) = new[S]
    BY SumTable
  <1> DEFINE Bad == {s \in SUBSET S : new[s] # sum[s] + IF t \in s THEN g[t] - f[t] ELSE 0}
  <1>3. Bad = {}
    <2> SUFFICES ASSUME Bad # {} PROVE FALSE
      OBVIOUS
    <2>1. Bad \subseteq SUBSET S
      OBVIOUS
    <2>2. PICK s \in Bad : \A x \in s : s \ {x} \notin Bad
      <3> HIDE DEF Bad
      <3> QED
        BY <2>1, Smallest
    <2>3. s \in SUBSET S /\ s # {}
      <3>1. new[{}] = 0 /\ sum[{}] = 0
        BY <1>1, <1>2 DEF IsSum
      <3>2. {} \notin Bad
        BY <3>1
      <3> QED
        BY <2>1, <2>2, <3>2
    <2>4. PICK c \in s : c = One(s)
      BY <2>3 DEF One
    <2>5. /\ new[s] = g[c] + new[s \ {c}] /\ sum[s] = f[c] + sum[s \ {c}]
          /\ new[s] \in Int /\ sum[s] \in Int /\ new[s \ {c}] \in Int /\ sum[s \ {c}] \in Int
      BY <1>1, <1>2, <2>3, <2>4 DEF IsSum
    <2>6. /\ new[s \ {c}] = sum[s \ {c}] + IF t \in s \ {c} THEN g[t] - f[t] ELSE 0
          /\ f[c] \in Int /\ g[c] \in Int /\ f[t] \in Int /\ g[t] \in Int
          /\ (c # t => g[c] = f[c])
      BY <2>2, <2>3, <2>4
    <2>7. new[s] = sum[s] + IF t \in s THEN g[t] - f[t] ELSE 0
      BY <2>4, <2>5, <2>6
    <2> QED
      BY <2>2, <2>7
  <1>4. new[S] = sum[S] + (g[t] - f[t])
    BY <1>3
  <1>5. sum[S] \in Int /\ f[t] \in Int /\ g[t] \in Int
    BY <1>1 DEF IsSum
  <1> QED
    BY <1>1, <1>2, <1>4, <1>5

-----------------------------------------------------------------------------
(* The books balance, if no isolate dies *)

\* At any time there are finitely many requests, bookings and invoices.
Finite == IsFiniteSet(Proc) /\ IsFiniteSet(Res) /\ IsFiniteSet(Invoice)

LEMMA FiniteTag == Finite => IsFiniteSet(Tag)
  <1> SUFFICES ASSUME Finite PROVE IsFiniteSet(Tag)
    OBVIOUS
  <1>1. ASSUME NEW k, NEW S, IsFiniteSet(S) PROVE IsFiniteSet({<<k, x>> : x \in S})
    <2> DEFINE T == {<<k, x>> : x \in S}
    <2>1. [x \in S |-> <<k, x>>] \in Surjection(S, T)
      BY DEF Surjection
    <2> QED
      BY <1>1, <2>1, FS_Surjection
  <1>2. IsFiniteSet(Event)
    BY FS_AddElement DEF Finite, Event
  <1>3. IsFiniteSet({<<"admin_adjustment", NoRef>>})
    BY FS_Singleton
  <1>4. PICK A, B, C, D : /\ A = {<<"reservation", r>> : r \in Res}
                          /\ B = {<<"cancelled", r>> : r \in Res}
                          /\ C = {<<"monthly_allocation", e>> : e \in Event}
                          /\ D = {<<"admin_adjustment", NoRef>>}
    OBVIOUS
  <1>5. IsFiniteSet(A) /\ IsFiniteSet(B) /\ IsFiniteSet(C) /\ IsFiniteSet(D)
    <2>1. IsFiniteSet(A)
      BY <1>1, <1>4 DEF Finite
    <2>2. IsFiniteSet(B)
      BY <1>1, <1>4 DEF Finite
    <2>3. IsFiniteSet(C)
      BY <1>1, <1>2, <1>4
    <2> QED
      BY <1>3, <1>4, <2>1, <2>2, <2>3
  <1>6. IsFiniteSet(A \cup B)
    BY <1>5, FS_Union
  <1>7. IsFiniteSet((A \cup B) \cup C)
    BY <1>5, <1>6, FS_Union
  <1>8. IsFiniteSet(((A \cup B) \cup C) \cup D)
    BY <1>5, <1>7, FS_Union
  <1>9. Tag = ((A \cup B) \cup C) \cup D
    BY <1>4 DEF Tag
  <1> QED
    BY <1>8, <1>9

LEMMA BooksType ==
    ASSUME TypeOK, NEW w \in Wallet
    PROVE  /\ Posted(w) \in [Tag -> Int] /\ Unposted(w) \in [Proc -> Int]
           /\ bal[w] \in Int /\ Opening[w] \in Int
  BY FreeHoursAssumption DEF TypeOK, Posted, Unposted, JobSpace

\* A statement that neither writes a balance nor inserts a row.
LEMMA QuietBalance ==
    ASSUME IInv, BooksBalance, NEW p \in Proc, NEW l, NEW j, Enter(p, l, j),
           pc[p] # "post", l # "post", UNCHANGED <<bal, ledger>>
    PROVE  BooksBalance'
  <1>1. ASSUME NEW w \in Wallet PROVE Posted(w)' = Posted(w) /\ Unposted(w)' = Unposted(w)
    BY DEF Posted, Unposted, Enter, IInv, TypeOK
  <1> QED
    BY <1>1 DEF BooksBalance

\* The balance is written, and the row owed.
LEMMA WriteBalance ==
    ASSUME IInv, IInv', Finite, BooksBalance, NEW p \in Proc, pc[p] # "post", UNCHANGED ledger,
           NEW w, w = job[p].op.wallet, NEW n \in Int, Write(p, w, n, bal[w])
    PROVE  BooksBalance'
  <1>0. TypeOK /\ TypeOK' /\ w \in Wallet
    BY JobFit, OperationParts DEF IInv
  <1>1. /\ bal'[w] = n /\ \A v \in Wallet \ {w} : bal'[v] = bal[v]
        /\ pc'[p] = "post" /\ job'[p].op = job[p].op /\ job'[p].delta = n - bal[w]
        /\ \A q \in Proc \ {p} : pc'[q] = pc[q] /\ job'[q] = job[q]
    BY <1>0 DEF Write, Enter, TypeOK, JobSpace
  <1>2. ASSUME NEW v \in Wallet PROVE Posted(v)' = Posted(v)
    BY DEF Posted
  <1>3. ASSUME NEW v \in Wallet \ {w} PROVE bal'[v] = bal[v] /\ Unposted(v)' = Unposted(v)
    BY <1>1 DEF Unposted
  <1>4. PICK f, g : f = Unposted(w) /\ g = Unposted(w)'
    OBVIOUS
  <1>5. /\ f[p] = 0 /\ g[p] = n - bal[w] /\ \A q \in Proc \ {p} : g[q] = f[q]
        /\ f \in [Proc -> Int] /\ g \in [Proc -> Int]
    BY <1>0, <1>1, <1>4, BooksType DEF Unposted
  <1>6. SumFunction(g) = SumFunction(f) + g[p] - f[p] /\ SumFunction(f) \in Int
    BY <1>5, SumChange, SumType DEF Finite
  <1>7. PICK k : k = Posted(w) /\ k = Posted(w)' /\ k \in [Tag -> Int]
    BY <1>0, <1>2, BooksType
  <1>8. SumFunction(k) \in Int /\ bal[w] \in Int /\ Opening[w] \in Int
    BY <1>0, <1>7, FiniteTag, SumType, BooksType
  <1>9. bal[w] = Opening[w] + SumFunction(k) + SumFunction(f)
    BY <1>0, <1>4, <1>7 DEF BooksBalance
  <1>10. n = Opening[w] + SumFunction(k) + SumFunction(g)
    BY <1>5, <1>6, <1>8, <1>9
  <1>11. bal'[w] = Opening[w] + SumFunction(Posted(w)') + SumFunction(Unposted(w)')
    BY <1>1, <1>4, <1>7, <1>10
  <1> QED
    BY <1>2, <1>3, <1>11 DEF BooksBalance

\* The row is inserted, and owed no more.
LEMMA PostBalance ==
    ASSUME IInv, IInv', Finite, BooksBalance, NEW p \in Proc, PostEntry(p)
    PROVE  BooksBalance'
  <1>0. TypeOK /\ TypeOK' /\ job[p] \in JobSpace /\ job[p].after \in Resume
    BY JobFit DEF IInv
  <1>1. PICK w, t, d : w = job[p].op.wallet /\ t = job[p].tag /\ d = job[p].delta
    OBVIOUS
  <1>2. w \in Wallet /\ t \in Tag /\ d \in Int
    BY <1>0, <1>1, JobFit, OperationParts DEF JobSpace
  <1>3. /\ pc'[p] # "post" /\ \A q \in Proc \ {p} : pc'[q] = pc[q] /\ job'[q] = job[q]
    <2>1. ASSUME NEW l, NEW j, Enter(p, l, j), l # "post"
          PROVE  pc'[p] # "post" /\ \A q \in Proc \ {p} : pc'[q] = pc[q] /\ job'[q] = job[q]
      BY <1>0, <2>1 DEF Enter, TypeOK
    <2> QED
      BY <1>0, <2>1 DEF PostEntry, Return, Done, Resume
  <1>4. /\ UNCHANGED bal /\ pc[p] = "post"
        /\ ledger'[w][t].net = ledger[w][t].net + d
        /\ \A x \in Tag \ {t} : ledger'[w][x] = ledger[w][x]
        /\ \A v \in Wallet \ {w} : ledger'[v] = ledger[v]
    BY <1>0, <1>1, <1>2 DEF PostEntry, TypeOK
  <1>5. ASSUME NEW v \in Wallet \ {w}
        PROVE  Posted(v)' = Posted(v) /\ Unposted(v)' = Unposted(v)
    BY <1>1, <1>3, <1>4 DEF Posted, Unposted
  <1>6. PICK f, g, h, k : /\ f = Unposted(w) /\ g = Unposted(w)'
                          /\ h = Posted(w) /\ k = Posted(w)'
    OBVIOUS
  <1>7. /\ f \in [Proc -> Int] /\ g \in [Proc -> Int] /\ h \in [Tag -> Int] /\ k \in [Tag -> Int]
        /\ bal[w] \in Int /\ Opening[w] \in Int
    <2>1. g \in [Proc -> Int] /\ k \in [Tag -> Int]
      BY <1>0, <1>2, <1>6 DEF TypeOK, Posted, Unposted, JobSpace
    <2> QED
      BY <1>0, <1>2, <1>6, <2>1, BooksType
  <1>8. /\ f[p] = d /\ g[p] = 0 /\ \A q \in Proc \ {p} : g[q] = f[q]
        /\ k[t] = h[t] + d /\ \A x \in Tag \ {t} : k[x] = h[x]
    BY <1>1, <1>2, <1>3, <1>4, <1>6 DEF Posted, Unposted
  <1>9. SumFunction(g) = SumFunction(f) + g[p] - f[p] /\ SumFunction(f) \in Int
    BY <1>7, <1>8, SumChange, SumType DEF Finite
  <1>10. SumFunction(k) = SumFunction(h) + k[t] - h[t] /\ SumFunction(h) \in Int
    BY <1>2, <1>7, <1>8, FiniteTag, SumChange, SumType
  <1>11. bal[w] = Opening[w] + SumFunction(h) + SumFunction(f)
    BY <1>2, <1>6 DEF BooksBalance
  <1>12. h[t] \in Int
    BY <1>2, <1>7
  <1>13. bal[w] = Opening[w] + SumFunction(k) + SumFunction(g)
    BY <1>2, <1>7, <1>8, <1>9, <1>10, <1>11, <1>12
  <1>14. bal'[w] = Opening[w] + SumFunction(Posted(w)') + SumFunction(Unposted(w)')
    BY <1>4, <1>6, <1>13
  <1> QED
    BY <1>4, <1>5, <1>14 DEF BooksBalance

\* Without a crash every balance that is written gets its row.
LEMMA ServiceBalance ==
    ASSUME IInv, IInv', Finite, BooksBalance, NEW p \in Proc,
           WalletRead(p) \/ WalletSwap(p) \/ WalletDeduct(p) \/ PostEntry(p)
    PROVE  BooksBalance'
  <1> DEFINE o == job[p].op
  <1>0. TypeOK /\ o \in Wallets!Operation /\ o.wallet \in Wallet /\ bal[o.wallet] \in Nat
    BY JobFit, OperationParts DEF IInv, TypeOK
  <1>1. CASE WalletRead(p)
    BY <1>1, QuietBalance DEF WalletRead, data
  <1>2. ASSUME Throw(p), pc[p] # "post", UNCHANGED <<bal, ledger>> PROVE BooksBalance'
    BY <1>2, QuietBalance DEF Throw, Done
  <1>3. ASSUME NEW n, pc[p] # "post", UNCHANGED ledger, Write(p, o.wallet, n, bal[o.wallet])
        PROVE  BooksBalance'
    <2>1. n \in Int
      <3>1. bal'[o.wallet] = n /\ bal'[o.wallet] \in Nat
        BY <1>0, <1>3 DEF Write, IInv, TypeOK
      <3> QED
        BY <3>1
    <2> QED
      BY <1>3, <2>1, WriteBalance
  <1>4. CASE WalletSwap(p)
    <2>1. pc[p] # "post" /\ UNCHANGED ledger
      BY <1>4 DEF WalletSwap
    <2>2. CASE /\ bal[o.wallet] = job[p].seen
               /\ Write(p, o.wallet, Wallets!Effect(o, job[p].seen), job[p].seen)
      BY <1>3, <2>1, <2>2
    <2>3. CASE /\ Enter(p, "read", [job[p] EXCEPT !.tries = @ + 1, !.seen = 0])
               /\ UNCHANGED <<bal, applied, stripe>>
      BY <2>1, <2>3, QuietBalance
    <2>4. CASE Throw(p) /\ UNCHANGED <<bal, applied>>
      BY <1>2, <2>1, <2>4
    <2> QED
      BY <1>4, <2>2, <2>3, <2>4 DEF WalletSwap
  <1>5. CASE WalletDeduct(p)
    <2>1. pc[p] # "post" /\ UNCHANGED ledger
      BY <1>5 DEF WalletDeduct
    <2>2. CASE Write(p, o.wallet, Wallets!Effect(o, bal[o.wallet]), bal[o.wallet])
      BY <1>3, <2>1, <2>2
    <2>3. CASE Throw(p) /\ UNCHANGED <<bal, applied>>
      BY <1>2, <2>1, <2>3
    <2> QED
      BY <1>5, <2>2, <2>3 DEF WalletDeduct
  <1>6. CASE PostEntry(p)
    BY <1>6, PostBalance
  <1> QED
    BY <1>1, <1>4, <1>5, <1>6

LEMMA AroundBalance ==
    ASSUME IInv, BooksBalance, NEW p \in Proc,
           \/ PriceRead(p) \/ PlanRead(p) \/ BalanceRead(p) \/ MarkPriced(p) \/ Settling(p)
           \/ CancelWrite(p) \/ CancelRefund(p) \/ RefundMark(p)
           \/ BackCheck(p) \/ BackSum(p) \/ BackPlan(p) \/ BackBalance(p)
           \/ HoursCheck(p) \/ EquipmentCheck(p) \/ PlanWrite(p) \/ ZeroEquipment(p)
           \/ PlanClear(p) \/ Request(p) \/ \E e \in Event : Deliver(p, e)
    PROVE  BooksBalance'
  <1>1. ASSUME NEW l, NEW j, Enter(p, l, j), pc[p] # "post", l # "post",
               UNCHANGED <<bal, ledger>>
        PROVE  BooksBalance'
    BY <1>1, QuietBalance
  <1>2. ASSUME LeaveReversal(p), pc[p] # "post", UNCHANGED <<bal, ledger>> PROVE BooksBalance'
    BY <1>1, <1>2, JobFit DEF LeaveReversal, Done, Goto, Resume
  <1>3. CASE PriceRead(p) \/ PlanRead(p)
    BY <1>1, <1>3 DEF PriceRead, PlanRead, Goto, data
  <1>4. CASE BalanceRead(p)
    BY <1>1, <1>4 DEF BalanceRead, data
  <1>5. CASE MarkPriced(p) \/ RefundMark(p)
    BY <1>1, <1>5 DEF MarkPriced, RefundMark, Goto, Done
  <1>14. CASE Settling(p)
    BY <1>1, <1>14
       DEF Settling, SettleCovered, SettleOwing, TakeCash, Complete, CardWrite, CompConfirm,
           CompWrite, Goto, Done, data
  <1>6. CASE CancelWrite(p) \/ CancelRefund(p)
    BY <1>1, <1>6 DEF CancelWrite, CancelRefund, Goto, Done
  <1>7. CASE BackCheck(p) \/ BackSum(p)
    BY <1>1, <1>2, <1>7 DEF BackCheck, BackSum, Goto, data
  <1>8. CASE BackPlan(p) \/ BackBalance(p)
    BY <1>1, <1>2, <1>8 DEF BackPlan, BackBalance, data
  <1>9. CASE HoursCheck(p) \/ EquipmentCheck(p)
    BY <1>1, <1>9 DEF HoursCheck, EquipmentCheck, Goto, data
  <1>10. CASE PlanWrite(p) \/ PlanClear(p)
    BY <1>1, <1>10 DEF PlanWrite, PlanClear, Return, Done
  <1>11. CASE ZeroEquipment(p)
    BY <1>1, <1>11 DEF ZeroEquipment, data
  <1>12. CASE Request(p)
    <2>1. ASSUME NEW r \in Res, ConfirmRead(p, r) \/ CancelRead(p, r) \/ RefundRead(p, r)
          PROVE  BooksBalance'
      BY <1>1, <2>1 DEF ConfirmRead, CancelRead, RefundRead, Accepts, LetIn, data
    <2>3. ASSUME NEW r \in Res, CashRead(p, r) \/ CardRead(p, r) \/ CompRead(p, r)
          PROVE  BooksBalance'
      BY <1>1, <2>3 DEF CashRead, CardRead, CompRead, Accepts, LetIn, data
    <2>4. ASSUME NEW r \in Res, Resolve(p, r)
          PROVE  BooksBalance'
      BY <2>4 DEF Resolve, BooksBalance, Posted, Unposted
    <2>2. ASSUME NEW w \in Wallet, NEW n \in Adjustments, Adjust(p, w, n)
          PROVE  BooksBalance'
      BY <1>1, <2>2 DEF Adjust, Accepts, LetIn, data
    <2> QED
      BY <1>12, <2>1, <2>2, <2>3, <2>4 DEF Request
  <1>13. ASSUME NEW e \in Event, Deliver(p, e) PROVE BooksBalance'
    BY <1>1, <1>13 DEF Deliver, data
  <1> QED
    BY <1>3, <1>4, <1>5, <1>6, <1>7, <1>8, <1>9, <1>10, <1>11, <1>12, <1>13, <1>14

LEMMA InitBalance == Finite /\ Init => BooksBalance
  <1> SUFFICES ASSUME Finite, Init, NEW w \in Wallet
               PROVE  bal[w] = Opening[w] + SumFunction(Posted(w)) + SumFunction(Unposted(w))
    BY DEF BooksBalance
  <1>1. PICK f, g : f = Posted(w) /\ g = Unposted(w)
    OBVIOUS
  <1>2. f \in [Tag -> Int] /\ \A t \in Tag : f[t] = 0
    BY <1>1 DEF Init, Posted
  <1>3. g \in [Proc -> Int] /\ \A p \in Proc : g[p] = 0
    BY <1>1 DEF Init, Unposted
  <1>4. SumFunction(f) = 0
    BY <1>2, FiniteTag, SumZero
  <1>5. SumFunction(g) = 0
    BY <1>3, SumZero DEF Finite
  <1>6. bal[w] = Opening[w] /\ Opening[w] \in Nat
    BY FreeHoursAssumption DEF Init
  <1> QED
    BY <1>1, <1>4, <1>5, <1>6

LEMMA StepBalance ==
    ASSUME Finite, "crash" \notin Handlers
    PROVE  IInv /\ BooksBalance /\ [Next]_vars => BooksBalance'
  <1> SUFFICES ASSUME IInv, BooksBalance, [Next]_vars PROVE BooksBalance'
    OBVIOUS
  <1>0. IInv'
    BY StepIInv
  <1>1. ASSUME NEW p \in Proc, Step(p) PROVE BooksBalance'
    BY <1>0, <1>1, ServiceBalance, AroundBalance DEF Step, Settling
  <1>2. ASSUME NEW p \in Proc, Request(p) \/ \E e \in Event : Deliver(p, e) PROVE BooksBalance'
    BY <1>2, AroundBalance
  <1>3. ~ \E p \in Proc : Crash(p)
    BY DEF Crash
  <1>4. CASE UNCHANGED vars
    BY <1>4 DEF vars, BooksBalance, Posted, Unposted
  <1> QED
    BY <1>1, <1>2, <1>3, <1>4 DEF Next

\* However many calls race on a wallet, its balance is always accounted for by
\* the ledger rows and those about to be inserted, as long as no isolate dies
\* between the two: a row that is lost is not made good (applyBalanceMutation).
THEOREM LedgerAccountsForBalance ==
    ASSUME Finite, "crash" \notin Handlers
    PROVE  Spec => []BooksBalance
  <1>1. Init => IInv /\ BooksBalance
    BY InitIInv, InitBalance
  <1>2. IInv /\ BooksBalance /\ [Next]_vars => IInv' /\ BooksBalance'
    BY StepIInv, StepBalance
  <1> QED
    BY <1>1, <1>2, PTL DEF Spec
=============================================================================
