------------------------- MODULE FreeHoursOnceProofs -------------------------
(***************************************************************************)
(* What FreeHours does once, for every set of requests, reservations and   *)
(* invoices and every bound: a booking takes its hours once, a reversal    *)
(* gives them back once, an invoice grants once, and a booking's price is  *)
(* what it owes and what the ledger took.                                  *)
(*                                                                         *)
(* Each guard against doing a thing twice is a read some statements before *)
(* the write, so it is as good as the order of the requests: of two about  *)
(* one booking, or one event, the second must begin when the first is over *)
(* (Orderly), and no handler may die between its balance write and the row *)
(* that says it was made.  The code serialises neither, which is why the   *)
(* theorems state the assumption.                                          *)
(*                                                                         *)
(* The argument: the ledger of a subject x (a reservation or an event) and *)
(* the row of x are written by processes that are about x, and in order    *)
(* there is one at a time.  So Books(x), which relates the balance writes  *)
(* made for x to its ledger rows and its price, is only ever disturbed by  *)
(* the process that is about x, and Standing(p) says what that process may *)
(* take for granted of x at each of its labels.                            *)
(*                                                                         *)
(* The last part is about all bookings together: whether there is room     *)
(* under the allocation for what one is to be given back, and whether its  *)
(* reversal can be beaten to the balance too often, depends on what all    *)
(* the others have taken and written.                                      *)
(***************************************************************************)
EXTENDS FreeHoursProofs

\* Requests about one thing follow one another, and no isolate dies.
Orderly == "overlap" \notin Handlers /\ "crash" \notin Handlers

-----------------------------------------------------------------------------
(* The inductive invariant *)

\* The calls on the wallet, and what each is made for.
Taking(j) ==
    /\ j.about \in Res /\ j.tag = <<"reservation", j.about>>
    /\ j.op.wallet = "hours" /\ j.after = "mark"
Returning(j) ==
    /\ j.about \in Res /\ j.tag = <<"cancelled", j.about>>
    /\ j.op.wallet = "hours" /\ j.after # "mark"
Granting(j) ==
    /\ j.about \in Event /\ j.tag = <<"monthly_allocation", j.about>> /\ j.after # "mark"
Adjusting(j) ==
    /\ j.about = NoRef /\ j.tag = <<"admin_adjustment", NoRef>> /\ j.after # "mark"

\* What job a process at label l can have.
Shape(j, l) ==
    /\ l = "idle" => j.about = NoRef
    /\ l \in {"read", "swap"} => Returning(j) \/ Granting(j) \/ Adjusting(j)
    /\ l = "deduct" => Taking(j) \/ Adjusting(j)
    /\ l = "post" => Taking(j) \/ Returning(j) \/ Granting(j) \/ Adjusting(j)
    /\ l \notin {"read", "swap", "deduct", "post"} => j.after # "mark"

\* Of two handlers about one thing the second begins when the first is over.
Alone == \A p, q \in Proc : p # q /\ job[p].about # NoRef => job[q].about # job[p].about

Posts(p, w, t) == pc[p] = "post" /\ job[p].op.wallet = w /\ job[p].tag = t

\* A balance write has its ledger row, or its process is about to insert it.
Counted(w, t) ==
    /\ (\E p \in Proc : Posts(p, w, t)) => applied[w][t] = ledger[w][t].rows + 1
    /\ (\A p \in Proc : ~Posts(p, w, t)) => applied[w][t] = ledger[w][t].rows
    /\ ledger[w][t].rows = 0 => ledger[w][t].net = 0

\* p has taken the hours of r, if any, and not yet noted the price.
Spending(p, r) ==
    /\ job[p].about = r
    /\ pc[p] = "mark" \/ (pc[p] = "post" /\ job[p].tag = <<"reservation", r>>)

Cancelled(r) == row[r].status = "cancelled"

\* How often the hours of r may have been taken: a cancelled booking is priced anew.
Limit(r) == IF Cancelled(r) THEN 2 ELSE 1

Unspent(r) ==
    row[r].due = Unpriced /\ (\A p \in Proc : ~Spending(p, r))
        => applied["hours"][<<"reservation", r>>] < Limit(r)

Priced(r) ==
    ~Cancelled(r) /\ row[r].due # Unpriced =>
        /\ row[r].due \in Nat
        /\ row[r].due + CommittedUnits(r) <= Need[r]
        /\ ~row[r].waived => row[r].due + CommittedUnits(r) = Need[r]

BooksOfRes(r) ==
    /\ Counted("hours", <<"reservation", r>>) /\ Counted("hours", <<"cancelled", r>>)
    /\ Unspent(r) /\ Priced(r)
    /\ applied["hours"][<<"reservation", r>>] <= Limit(r)
    /\ applied["hours"][<<"cancelled", r>>] <= 1

BooksOfEvent(e) ==
    \A w \in Wallet :
        /\ Counted(w, <<"monthly_allocation", e>>)
        /\ e \in Invoice => applied[w][<<"monthly_allocation", e>>] <= 1

Books(x) == (x \in Res => BooksOfRes(x)) /\ (x \in Event => BooksOfEvent(x))

\* The booking p is about is not priced.
Open(p) == row[job[p].about].due = Unpriced

\* The part of its price that p does not take from the wallet.
Owing(p) == job[p].due \in Nat

Standing(p) ==
    LET j == job[p]
        r == job[p].about
        l == pc[p] IN
    /\ l \in {"plan", "balance", "mark"} => Open(p)
    /\ l \in {"deduct", "post"} /\ Taking(j) => Open(p) /\ Owing(p)
    /\ l = "balance" => j.cap <= Need[r]
    /\ l = "deduct" /\ Taking(j) => j.op.kind = "deduct" /\ j.op.amount = Need[r] - j.due
    /\ l = "post" /\ Taking(j) => j.delta = j.due - Need[r]
    /\ l = "mark" => Owing(p) /\ (~Cancelled(r) => j.due + CommittedUnits(r) = Need[r])
    /\ l \in {"settle", "takeCash", "complete"} => j.due = row[r].due /\ j.due # Unpriced
    /\ l \in {"cardWrite", "compConfirm", "compWrite"} => ~Cancelled(r)
    /\ l \in {"backSum", "backPlan", "backBalance"} => applied["hours"][<<"cancelled", r>>] = 0
    /\ l \in {"read", "swap"} /\ Returning(j) => applied["hours"][<<"cancelled", r>>] = 0
    /\ l \in {"read", "swap"} /\ Granting(j) /\ r \in Invoice => applied[j.op.wallet][j.tag] = 0

OnceInv ==
    /\ Alone
    /\ \A p \in Proc : Shape(job[p], pc[p])
    /\ \A p \in Proc : Standing(p)
    /\ \A x \in Res \cup Event : Books(x)

-----------------------------------------------------------------------------
(* One process moves *)

\* What a step leaves alone of y.
SameEntry(w, t) == ledger'[w][t] = ledger[w][t] /\ applied'[w][t] = applied[w][t]

SameRow(y) ==
    /\ row'[y].due = row[y].due /\ row'[y].waived = row[y].waived
    /\ Cancelled(y)' = Cancelled(y)

Untouched(y) ==
    /\ y \in Res => /\ SameRow(y)
                    /\ SameEntry("hours", <<"reservation", y>>)
                    /\ SameEntry("hours", <<"cancelled", y>>)
    /\ y \in Event => \A w \in Wallet : SameEntry(w, <<"monthly_allocation", y>>)

LEMMA EnterOnly ==
    ASSUME IInv, NEW p \in Proc, NEW l, NEW j, Enter(p, l, j)
    PROVE  /\ pc'[p] = l /\ job'[p] = j
           /\ \A q \in Proc \ {p} : pc'[q] = pc[q] /\ job'[q] = job[q]
  BY DEF Enter, IInv, TypeOK

\* Of a subject that p is not about, p posts and spends nothing.
LEMMA NotMine ==
    ASSUME NEW y \in Res \cup Event, NEW p \in Proc, job[p].about # y, Shape(job[p], pc[p])
    PROVE  /\ \A w, k : k \in {"reservation", "cancelled", "monthly_allocation"}
                           => ~Posts(p, w, <<k, y>>)
           /\ ~Spending(p, y)
  <1>1. y # NoRef
    BY FreeHoursAssumption
  <1>2. ASSUME NEW w, NEW k \in {"reservation", "cancelled", "monthly_allocation"},
               Posts(p, w, <<k, y>>)
        PROVE  FALSE
    BY <1>1, <1>2 DEF Posts, Shape, Taking, Returning, Granting, Adjusting
  <1> QED
    BY <1>2 DEF Spending

\* A process that is not about what p works on stands where it stood.
LEMMA OthersStand ==
    ASSUME IInv, NEW q \in Proc, pc'[q] = pc[q], job'[q] = job[q], Standing(q),
           job[q].about # NoRef => Untouched(job[q].about)
    PROVE  Standing(q)'
  <1> DEFINE r == job[q].about
             l == pc[q]
  <1>1. Fit(job[q], l)
    BY DEF IInv
  <1>2. CASE r = NoRef
    <2>1. r \notin Res
      BY <1>2, FreeHoursAssumption
    <2>2. r \notin Event
      BY <1>2, FreeHoursAssumption
    <2>3. l \notin {"plan", "balance", "mark", "settle", "takeCash", "complete", "cardWrite",
                    "compConfirm", "compWrite", "backSum", "backPlan", "backBalance"}
      BY <1>1, <2>1 DEF Fit, Subject
    <2>4. /\ ~Taking(job[q]) /\ ~Returning(job[q]) /\ ~Granting(job[q])
          /\ ~Taking(job'[q]) /\ ~Returning(job'[q]) /\ ~Granting(job'[q])
      BY <2>1, <2>2 DEF Taking, Returning, Granting
    <2> QED
      BY <2>3, <2>4 DEF Standing, Taking, Returning, Granting
  <1>3. CASE r # NoRef
    <2>1. r \in Res =>
             /\ SameRow(r)
             /\ ledger'["hours"][<<"reservation", r>>] = ledger["hours"][<<"reservation", r>>]
             /\ applied'["hours"][<<"cancelled", r>>] = applied["hours"][<<"cancelled", r>>]
      BY <1>3 DEF Untouched, SameEntry
    <2>2. Granting(job[q]) =>
             applied'[job[q].op.wallet][job[q].tag] = applied[job[q].op.wallet][job[q].tag]
      <3>1. job[q].op.wallet \in Wallet
        BY JobFit, OperationParts
      <3> QED
        BY <1>3, <3>1 DEF Untouched, SameEntry, Granting
    <2>3. r \in Res => /\ Open(q)' = Open(q) /\ Owing(q)' = Owing(q)
                       /\ CommittedUnits(r)' = CommittedUnits(r)
      BY <2>1 DEF Open, Owing, CommittedUnits, SameRow
    <2>4. l \in {"plan", "balance", "mark", "settle", "takeCash", "complete", "cardWrite",
                 "compConfirm", "compWrite", "backSum", "backPlan", "backBalance"}
            => r \in Res
      BY <1>1 DEF Fit, Subject
    <2>5. /\ Taking(job[q])' = Taking(job[q]) /\ Returning(job[q])' = Returning(job[q])
          /\ Granting(job[q])' = Granting(job[q])
          /\ Taking(job[q]) => r \in Res
          /\ Returning(job[q]) => r \in Res
      BY DEF Taking, Returning, Granting
    <2>6. CASE r \in Res
      BY <2>1, <2>2, <2>3, <2>5, <2>6 DEF Standing, SameRow, Cancelled
    <2>7. CASE r \notin Res
      BY <2>2, <2>4, <2>5, <2>7 DEF Standing
    <2> QED
      BY <2>6, <2>7
  <1> QED
    BY <1>2, <1>3

\* Who posts and who spends for y is the same after a step of p about x.
LEMMA OthersBooks ==
    ASSUME NEW y \in Res \cup Event, Books(y), Untouched(y),
           \A q \in Proc : \A w, k : k \in {"reservation", "cancelled", "monthly_allocation"}
               => (Posts(q, w, <<k, y>>)' <=> Posts(q, w, <<k, y>>)),
           \A q \in Proc : Spending(q, y)' <=> Spending(q, y)
    PROVE  Books(y)'
  <1>1. ASSUME NEW w \in Wallet, NEW k \in {"reservation", "cancelled", "monthly_allocation"},
               Counted(w, <<k, y>>), SameEntry(w, <<k, y>>)
        PROVE  Counted(w, <<k, y>>)'
    BY <1>1 DEF Counted, SameEntry
  <1>2. y \in Res /\ BooksOfRes(y) => BooksOfRes(y)'
    <2> SUFFICES ASSUME y \in Res, BooksOfRes(y) PROVE BooksOfRes(y)'
      OBVIOUS
    <2>1. /\ SameRow(y)
          /\ SameEntry("hours", <<"reservation", y>>) /\ SameEntry("hours", <<"cancelled", y>>)
      BY DEF Untouched
    <2>2. Unspent(y)' /\ Limit(y)' = Limit(y)
      BY <2>1 DEF BooksOfRes, Unspent, SameEntry, SameRow, Limit
    <2>3. Priced(y)'
      BY <2>1 DEF BooksOfRes, Priced, CommittedUnits, SameEntry, SameRow
    <2>4. Counted("hours", <<"reservation", y>>)' /\ Counted("hours", <<"cancelled", y>>)'
      BY <1>1, <2>1 DEF BooksOfRes, Wallet
    <2> QED
      BY <2>1, <2>2, <2>3, <2>4 DEF BooksOfRes, SameEntry
  <1>3. y \in Event /\ BooksOfEvent(y) => BooksOfEvent(y)'
    BY <1>1 DEF BooksOfEvent, Untouched, SameEntry
  <1> QED
    BY <1>2, <1>3 DEF Books

\* A step of p about x: what is to be shown is what becomes of x and of p.
LEMMA OneMoves ==
    ASSUME IInv, OnceInv, NEW p \in Proc, NEW l, NEW j, Enter(p, l, j), NEW x,
           job[p].about \in {x, NoRef}, j.about \in {x, NoRef},
           x # NoRef => \A q \in Proc \ {p} : job[q].about # x,
           \A y \in (Res \cup Event) \ {x} : Untouched(y),
           x \in Res \cup Event => Books(x)', Shape(j, l), Standing(p)'
    PROVE  OnceInv'
  <1>1. /\ pc'[p] = l /\ job'[p] = j
        /\ \A q \in Proc \ {p} : pc'[q] = pc[q] /\ job'[q] = job[q]
    BY EnterOnly
  <1>2. Alone'
    <2> SUFFICES ASSUME NEW a \in Proc, NEW b \in Proc, a # b, job'[a].about # NoRef
                 PROVE  job'[b].about # job'[a].about
      BY DEF Alone
    <2>1. CASE a = p
      BY <1>1, <2>1
    <2>2. CASE b = p
      BY <1>1, <2>2
    <2>3. CASE a # p /\ b # p
      BY <1>1, <2>3 DEF OnceInv, Alone
    <2> QED
      BY <2>1, <2>2, <2>3
  <1>3. \A q \in Proc : Shape(job[q], pc[q])'
    BY <1>1 DEF OnceInv
  <1>4. ASSUME NEW q \in Proc PROVE Standing(q)'
    <2>1. CASE q = p
      BY <2>1
    <2>2. CASE q # p
      <3>1. job[q].about # NoRef => job[q].about \in (Res \cup Event) \ {x}
        BY <2>2, JobFit DEF Anything
      <3> QED
        BY <1>1, <2>2, <3>1, OthersStand DEF OnceInv
    <2> QED
      BY <2>1, <2>2
  <1>5. ASSUME NEW y \in (Res \cup Event) \ {x} PROVE Books(y)'
    <2>1. y # NoRef
      BY FreeHoursAssumption
    <2>2. job[p].about # y /\ j.about # y /\ Shape(job[p], pc[p])
      BY <2>1 DEF OnceInv
    <2>3. /\ \A w, k : k \in {"reservation", "cancelled", "monthly_allocation"}
                 => ~Posts(p, w, <<k, y>>)
          /\ ~Spending(p, y)
      BY <2>2, NotMine
    <2>4. ASSUME NEW w, NEW k \in {"reservation", "cancelled", "monthly_allocation"}
          PROVE  ~Posts(p, w, <<k, y>>)'
      BY <1>1, <2>1, <2>2 DEF Posts, Shape, Taking, Returning, Granting, Adjusting
    <2>5. ~Spending(p, y)'
      BY <1>1, <2>2 DEF Spending
    <2>6. ASSUME NEW q \in Proc, NEW w, NEW k \in {"reservation", "cancelled", "monthly_allocation"}
          PROVE  Posts(q, w, <<k, y>>)' <=> Posts(q, w, <<k, y>>)
      BY <1>1, <2>3, <2>4 DEF Posts
    <2>7. ASSUME NEW q \in Proc PROVE Spending(q, y)' <=> Spending(q, y)
      BY <1>1, <2>3, <2>5 DEF Spending
    <2> QED
      BY <2>6, <2>7, OthersBooks DEF OnceInv
  <1>6. \A y \in Res \cup Event : Books(y)'
    BY <1>5
  <1> QED
    BY <1>2, <1>3, <1>4, <1>6 DEF OnceInv

\* In order, the process about x is the only one.
LEMMA OnlyOne ==
    ASSUME OnceInv, NEW p \in Proc, job[p].about # NoRef
    PROVE  \A q \in Proc \ {p} : job[q].about # job[p].about
  BY DEF OnceInv, Alone

\* The books of x after a statement of p that only reads.
LEMMA QuietBooks ==
    ASSUME IInv, OnceInv, NEW p \in Proc, NEW l, NEW j, Enter(p, l, j),
           UNCHANGED <<ledger, row, applied>>, pc[p] \notin {"post", "mark"}, l # "post",
           NEW x \in Res \cup Event, l = "mark" => job[p].about = x
    PROVE  Books(x)'
  <1>1. /\ pc'[p] = l /\ job'[p] = j
        /\ \A q \in Proc \ {p} : pc'[q] = pc[q] /\ job'[q] = job[q]
    BY EnterOnly
  <1>2. ASSUME NEW q \in Proc, NEW w, NEW t PROVE Posts(q, w, t)' <=> Posts(q, w, t)
    BY <1>1 DEF Posts
  <1>3. ASSUME NEW q \in Proc PROVE Spending(q, x) => Spending(q, x)'
    BY <1>1 DEF Spending
  <1>4. ASSUME NEW w, NEW t, Counted(w, t) PROVE Counted(w, t)'
    BY <1>2, <1>4 DEF Counted
  <1>5. Limit(x)' = Limit(x) /\ (Unspent(x) => Unspent(x)')
    BY <1>3 DEF Unspent, Limit, Cancelled
  <1>6. Priced(x) => Priced(x)'
    BY DEF Priced, CommittedUnits, Cancelled
  <1>7. BooksOfRes(x) => BooksOfRes(x)'
    BY <1>4, <1>5, <1>6 DEF BooksOfRes
  <1>8. BooksOfEvent(x) => BooksOfEvent(x)'
    BY <1>4 DEF BooksOfEvent
  <1> QED
    BY <1>7, <1>8 DEF OnceInv, Books

\* A statement of a handler that only reads, or returns.
LEMMA QuietStep ==
    ASSUME IInv, OnceInv, NEW p \in Proc, NEW l, NEW j, Enter(p, l, j),
           UNCHANGED <<ledger, row, applied>>, pc[p] \notin {"post", "mark"}, l # "post",
           j.about \in {job[p].about, NoRef}, Shape(j, l), Standing(p)'
    PROVE  OnceInv'
  <1>0. PICK x : x = job[p].about
    OBVIOUS
  <1>1. x # NoRef => \A q \in Proc \ {p} : job[q].about # x
    BY <1>0, OnlyOne
  <1>2. \A y : Untouched(y)
    BY DEF Untouched, SameEntry, SameRow, Cancelled
  <1>3. x \in Res \cup Event => Books(x)'
    BY <1>0, QuietBooks
  <1> QED
    BY <1>0, <1>1, <1>2, <1>3, OneMoves

\* A request or a delivery about x, when no other is under way.
LEMMA Arrives ==
    ASSUME IInv, OnceInv, Orderly, NEW p \in Proc, NEW l, NEW j, Enter(p, l, j),
           UNCHANGED <<ledger, row, applied>>, pc[p] = "idle", l \notin {"post", "mark"},
           j.about # NoRef => InTurn(j.about), Shape(j, l), Standing(p)'
    PROVE  OnceInv'
  <1> DEFINE x == j.about
  <1>1. x # NoRef => \A q \in Proc \ {p} : job[q].about # x
    BY DEF InTurn, Orderly
  <1>2. \A y : Untouched(y)
    BY DEF Untouched, SameEntry, SameRow, Cancelled
  <1>3. x \in Res \cup Event => Books(x)'
    BY QuietBooks
  <1>4. job[p].about = NoRef
    BY DEF OnceInv, Shape
  <1> QED
    BY <1>1, <1>2, <1>3, <1>4, OneMoves

\* A handler that is over leaves nothing to stand.
LEMMA IdleStands ==
    /\ Shape(IdleJob, "idle")
    /\ \A p \in Proc : pc'[p] = "idle" => Standing(p)'
  BY IdleJobType DEF Shape, Standing

LEMMA ReturnStep ==
    ASSUME IInv, OnceInv, NEW p \in Proc, Done(p), UNCHANGED <<ledger, row, applied>>,
           pc[p] \notin {"post", "mark"}
    PROVE  OnceInv'
  <1>1. pc'[p] = "idle"
    BY EnterOnly DEF Done
  <1> QED
    BY <1>1, IdleStands, IdleJobType, QuietStep DEF Done

\* The job is left as it is, and nothing stands at the next label.
LEMMA GoStep ==
    ASSUME IInv, OnceInv, NEW p \in Proc, NEW l, Goto(p, l), UNCHANGED <<ledger, row, applied>>,
           pc[p] \notin {"post", "mark", "read", "swap", "deduct"},
           l \notin {"idle", "post", "read", "swap", "deduct", "mark"},
           Standing(p)'
    PROVE  OnceInv'
  <1>1. Shape(job[p], l)
    BY DEF OnceInv, Shape
  <1> QED
    BY <1>1, QuietStep DEF Goto

-----------------------------------------------------------------------------
(* Requests *)

\* A crew may resolve a booking in the midst of a request about it: no request
\* but a cancellation cares, and none of these cancels.
LEMMA ResolveOnce ==
    ASSUME IInv, OnceInv, NEW p \in Proc, NEW r \in Res, Resolve(p, r)
    PROVE  OnceInv'
  <1>1. UNCHANGED <<ledger, applied, pc, job>>
    BY DEF Resolve
  <1>2. ASSUME NEW y \in Res PROVE SameRow(y)
    <2>1. row \in [Res -> RowSpace]
      BY DEF IInv, TypeOK
    <2>2. PICK s \in {"completed", "no_show"} :
             row' = [row EXCEPT ![r].status = s] /\ row[r].status \in Active
      BY DEF Resolve, Active
    <2>3. CASE y = r
      BY <2>1, <2>2, <2>3 DEF SameRow, Cancelled, Active, RowSpace
    <2>4. CASE y # r
      BY <2>1, <2>2, <2>4 DEF SameRow, Cancelled
    <2> QED
      BY <2>3, <2>4
  <1>3. \A y : Untouched(y)
    BY <1>1, <1>2 DEF Untouched, SameEntry
  <1>4. Alone' /\ \A q \in Proc : Shape(job[q], pc[q])'
    BY <1>1 DEF OnceInv, Alone, Shape, Taking, Returning, Granting, Adjusting
  <1>5. ASSUME NEW q \in Proc PROVE Standing(q)'
    BY <1>1, <1>3, OthersStand DEF OnceInv
  <1>6. ASSUME NEW x \in Res \cup Event PROVE Books(x)'
    <2>1. Books(x) /\ Untouched(x)
      BY <1>3 DEF OnceInv
    <2> QED
      BY <1>1, <2>1, OthersBooks DEF Posts, Spending
  <1> QED
    BY <1>4, <1>5, <1>6 DEF OnceInv

\* A request that begins with a job of its own about r, at a label where nothing
\* is taken for granted but that a live row is not cancelled.
LEMMA RequestArrives ==
    ASSUME IInv, OnceInv, Orderly, NEW p \in Proc, NEW r \in Res, NEW j, NEW l,
           l \in {"price", "cardWrite", "compConfirm", "compWrite"}, LetIn(p, l, j),
           pc[p] = "idle", InTurn(r), j.about = r, j.after = "idle",
           l # "price" => row[r].status \in Active
    PROVE  OnceInv'
  <1>1. Enter(p, l, j) /\ UNCHANGED <<ledger, row, applied>>
    BY DEF LetIn, data
  <1>2. pc'[p] = l /\ job'[p] = j
    BY <1>1, EnterOnly
  <1>3. Standing(p)'
    BY <1>1, <1>2 DEF Standing, Cancelled, Active
  <1> QED
    BY <1>1, <1>3, Arrives DEF Shape

LEMMA RequestOnce ==
    ASSUME IInv, OnceInv, Orderly, NEW p \in Proc, Request(p)
    PROVE  OnceInv'
  <1>1. ASSUME NEW r \in Res,
               \/ ConfirmRead(p, r) \/ CashRead(p, r) \/ CardRead(p, r) \/ CompRead(p, r)
        PROVE  OnceInv'
    <2> DEFINE a == [IdleJob EXCEPT !.about = r]
               b == [IdleJob EXCEPT !.about = r, !.cash = TRUE]
    <2>1. \A j \in {a, b} : j.about = r /\ j.after = "idle"
      BY DEF IdleJob
    <2>2. \E j \in {a, b}, l \in {"price", "cardWrite", "compConfirm", "compWrite"} :
             LetIn(p, l, j) /\ (l # "price" => row[r].status \in Active)
      BY <1>1 DEF ConfirmRead, CashRead, CardRead, CompRead
    <2>3. pc[p] = "idle" /\ InTurn(r)
      BY <1>1 DEF ConfirmRead, CashRead, CardRead, CompRead, Accepts
    <2> HIDE DEF a, b
    <2> QED
      BY <2>1, <2>2, <2>3, RequestArrives
  <1>2. ASSUME NEW r \in Res, CancelRead(p, r) PROVE OnceInv'
    <2> DEFINE j == [IdleJob EXCEPT !.about = r, !.paid = row[r].record]
    <2>1. j.about = r /\ j.after = "idle"
      BY DEF IdleJob
    <2>2. Enter(p, "cancelWrite", j)
      BY <1>2 DEF CancelRead, LetIn
    <2> HIDE DEF j
    <2>3. pc'[p] = "cancelWrite"
      BY <2>2, EnterOnly
    <2>4. Standing(p)'
      BY <2>3 DEF Standing
    <2> QED
      BY <1>2, <2>1, <2>2, <2>4, Arrives DEF CancelRead, Accepts, LetIn, data, Shape
  <1>3. ASSUME NEW r \in Res, RefundRead(p, r) PROVE OnceInv'
    <2> DEFINE j == [IdleJob EXCEPT !.about = r, !.after = "refundMark"]
    <2>1. j.about = r /\ j.after = "refundMark"
      BY DEF IdleJob
    <2>2. Enter(p, "backCheck", j)
      BY <1>3 DEF RefundRead, LetIn
    <2> HIDE DEF j
    <2>3. pc'[p] = "backCheck"
      BY <2>2, EnterOnly
    <2>4. Standing(p)'
      BY <2>3 DEF Standing
    <2> QED
      BY <1>3, <2>1, <2>2, <2>4, Arrives DEF RefundRead, Accepts, LetIn, data, Shape
  <1>4. ASSUME NEW w \in Wallet, NEW n \in Adjustments, Adjust(p, w, n) PROVE OnceInv'
    <2> DEFINE j(k) == [IdleJob EXCEPT !.op = Call(w, k, n)]
    <2>1. ASSUME NEW k
          PROVE  /\ j(k).about = NoRef /\ j(k).after = "idle"
                 /\ j(k).tag = <<"admin_adjustment", NoRef>>
      BY DEF IdleJob
    <2>2. PICK k \in {"add", "deduct"}, l \in {"read", "deduct"} : Enter(p, l, j(k))
      BY <1>4 DEF Adjust, LetIn
    <2>3. pc[p] = "idle" /\ UNCHANGED <<ledger, row, applied>>
      BY <1>4 DEF Adjust, Accepts, LetIn, data
    <2> DEFINE i == j(k)
    <2>4. i.about = NoRef /\ i.after = "idle" /\ i.tag = <<"admin_adjustment", NoRef>>
      BY <2>1
    <2>5. Enter(p, l, i)
      BY <2>2
    <2> HIDE DEF i
    <2>6. pc'[p] = l /\ job'[p] = i
      BY <2>5, EnterOnly
    <2>7. NoRef \notin Res /\ NoRef \notin Event
      BY FreeHoursAssumption
    <2>8. Shape(i, l)
      BY <2>4 DEF Shape, Adjusting
    <2>9. Standing(p)'
      BY <2>4, <2>6, <2>7 DEF Standing, Taking, Returning, Granting
    <2> QED
      BY <2>3, <2>4, <2>5, <2>8, <2>9, Arrives
  <1>5. ASSUME NEW r \in Res, Resolve(p, r) PROVE OnceInv'
    BY <1>5, ResolveOnce
  <1> QED
    BY <1>1, <1>2, <1>3, <1>4, <1>5 DEF Request

LEMMA DeliverOnce ==
    ASSUME IInv, OnceInv, Orderly, NEW p \in Proc, NEW e \in Event, Deliver(p, e)
    PROVE  OnceInv'
  <1>0. /\ InTurn(e) /\ pc[p] = "idle" /\ UNCHANGED <<ledger, row, applied>>
    BY DEF Deliver, data
  <1>1. CASE e = Ended
    <2> DEFINE j == [IdleJob EXCEPT !.about = e, !.op = Call("hours", "set", 0),
                       !.tag = <<"monthly_allocation", e>>, !.after = "zeroEquipment"]
    <2>1. /\ j.about = e /\ j.after = "zeroEquipment" /\ j.tag = <<"monthly_allocation", e>>
      BY DEF IdleJob
    <2>2. Enter(p, "read", j)
      BY <1>1 DEF Deliver
    <2> HIDE DEF j
    <2>3. pc'[p] = "read" /\ job'[p] = j
      BY <2>2, EnterOnly
    <2>4. Shape(j, "read")
      BY <2>1 DEF Shape, Granting
    <2>5. Ended \notin Invoice
      BY FreeHoursAssumption
    <2>6. Standing(p)'
      BY <1>1, <2>1, <2>3, <2>5 DEF Standing, Returning
    <2> QED
      BY <1>0, <2>1, <2>2, <2>4, <2>6, Arrives
  <1>2. CASE e # Ended
    <2> DEFINE j == [IdleJob EXCEPT !.about = e]
    <2>1. j.about = e /\ j.after = "idle"
      BY DEF IdleJob
    <2>2. Enter(p, "hoursCheck", j)
      BY <1>2 DEF Deliver
    <2> HIDE DEF j
    <2>3. pc'[p] = "hoursCheck"
      BY <2>2, EnterOnly
    <2>4. Standing(p)'
      BY <2>3 DEF Standing
    <2> QED
      BY <1>0, <2>1, <2>2, <2>4, Arrives DEF Shape
  <1> QED
    BY <1>1, <1>2

-----------------------------------------------------------------------------
(* The calls on the wallet *)

Kind == {"reservation", "cancelled", "monthly_allocation"}

LEMMA JobParts ==
    ASSUME IInv, NEW p \in Proc
    PROVE  /\ job[p].op.wallet \in Wallet /\ job[p].tag \in Tag
           /\ \A n, m : [job[p] EXCEPT !.delta = n, !.seen = m].about = job[p].about
           /\ \A n, m : [job[p] EXCEPT !.delta = n, !.seen = m].op = job[p].op
           /\ \A n, m : [job[p] EXCEPT !.delta = n, !.seen = m].tag = job[p].tag
           /\ \A n, m : [job[p] EXCEPT !.delta = n, !.seen = m].after = job[p].after
           /\ \A n, m : [job[p] EXCEPT !.delta = n, !.seen = m].due = job[p].due
           /\ \A n, m : [job[p] EXCEPT !.delta = n, !.seen = m].delta = n
  BY JobFit, OperationParts DEF JobSpace

\* A tag says whom it is about.
LEMMA TagsDiffer ==
    \A k, m, x, y : <<k, x>> = <<m, y>> => k = m /\ x = y
  OBVIOUS

\* The count of the balance writes goes up for one wallet and one tag.
AppliedUp(w, t) == applied' = [applied EXCEPT ![w][t] = @ + 1]

LEMMA AppliedOne ==
    ASSUME IInv, NEW w \in Wallet, NEW t \in Tag, AppliedUp(w, t)
    PROVE  /\ applied'[w][t] = applied[w][t] + 1
           /\ \A v \in Wallet, s \in Tag : v # w \/ s # t => applied'[v][s] = applied[v][s]
  <1>1. applied'[w][t] = applied[w][t] + 1
    BY DEF IInv, TypeOK, AppliedUp
  <1>2. ASSUME NEW v \in Wallet, NEW s \in Tag, v # w \/ s # t PROVE applied'[v][s] = applied[v][s]
    <2>1. applied' = [applied EXCEPT ![w] = [applied[w] EXCEPT ![t] = applied[w][t] + 1]]
      BY DEF AppliedUp
    <2>2. CASE v # w
      BY <2>1, <2>2
    <2>3. CASE v = w
      <3>1. applied'[w] = [applied[w] EXCEPT ![t] = applied[w][t] + 1]
        BY <2>1 DEF IInv, TypeOK
      <3> QED
        BY <1>2, <2>3, <3>1
    <2> QED
      BY <2>2, <2>3
  <1> QED
    BY <1>1, <1>2

\* The ledger gets one row.
LedgerUp(w, t, d) ==
    ledger' = [ledger EXCEPT ![w][t] = [rows |-> @.rows + 1, net |-> @.net + d]]

LEMMA LedgerOne ==
    ASSUME IInv, NEW w \in Wallet, NEW t \in Tag, NEW d, LedgerUp(w, t, d)
    PROVE  /\ ledger'[w][t] = [rows |-> ledger[w][t].rows + 1, net |-> ledger[w][t].net + d]
           /\ \A v \in Wallet, s \in Tag : v # w \/ s # t => ledger'[v][s] = ledger[v][s]
  <1> DEFINE e == [rows |-> ledger[w][t].rows + 1, net |-> ledger[w][t].net + d]
  <1>0. ledger' = [ledger EXCEPT ![w] = [ledger[w] EXCEPT ![t] = e]]
    BY DEF LedgerUp
  <1> HIDE DEF e
  <1>1. ledger'[w] = [ledger[w] EXCEPT ![t] = e]
    BY <1>0 DEF IInv, TypeOK
  <1>2. ledger'[w][t] = e
    BY <1>1 DEF IInv, TypeOK
  <1>3. ASSUME NEW v \in Wallet, NEW s \in Tag, v # w \/ s # t PROVE ledger'[v][s] = ledger[v][s]
    <2>2. CASE v # w
      BY <1>0, <2>2 DEF IInv, TypeOK
    <2>3. CASE v = w
      BY <1>1, <1>3, <2>3 DEF IInv, TypeOK
    <2> QED
      BY <2>2, <2>3
  <1> QED
    BY <1>2, <1>3 DEF e

\* Nobody but p posts, or spends, for what p is about.
LEMMA OthersPostNot ==
    ASSUME OnceInv, NEW p \in Proc, job[p].about \in Res \cup Event, NEW q \in Proc \ {p}
    PROVE  /\ \A w, k : k \in Kind => ~Posts(q, w, <<k, job[p].about>>)
           /\ ~Spending(q, job[p].about)
  <1>1. job[p].about # NoRef
    BY FreeHoursAssumption
  <1>2. job[q].about # job[p].about
    BY <1>1, OnlyOne
  <1>3. Shape(job[q], pc[q])
    BY DEF OnceInv
  <1> QED
    BY <1>2, <1>3, NotMine DEF Kind

\* The balance write: until now there was a row for each.
LEMMA WriteCounted ==
    ASSUME IInv, OnceInv, NEW p \in Proc, NEW j, Enter(p, "post", j), UNCHANGED ledger,
           pc[p] # "post", NEW x \in Res \cup Event, job[p].about = x,
           j.op = job[p].op, j.tag = job[p].tag,
           NEW v, NEW u, v = job[p].op.wallet, u = job[p].tag, AppliedUp(v, u),
           NEW w \in Wallet, NEW k \in Kind, <<k, x>> \in Tag, Counted(w, <<k, x>>)
    PROVE  /\ Counted(w, <<k, x>>)'
           /\ w = v /\ <<k, x>> = u
                => applied'[w][<<k, x>>] = applied[w][<<k, x>>] + 1
           /\ w # v \/ <<k, x>> # u
                => applied'[w][<<k, x>>] = applied[w][<<k, x>>]
  <1>0. PICK t : t = <<k, x>>
    OBVIOUS
  <1>1. /\ pc'[p] = "post" /\ job'[p] = j
        /\ \A q \in Proc \ {p} : pc'[q] = pc[q] /\ job'[q] = job[q]
    BY EnterOnly
  <1>2. \A q \in Proc : ~Posts(q, w, t)
    BY <1>0, OthersPostNot DEF Posts
  <1>3. \A q \in Proc \ {p} : ~Posts(q, w, t)'
    BY <1>1, <1>2 DEF Posts
  <1>4. Posts(p, w, t)' <=> w = v /\ t = u
    BY <1>0, <1>1 DEF Posts
  <1>5. v \in Wallet /\ u \in Tag /\ t \in Tag /\ AppliedUp(v, u)
    BY <1>0, JobParts
  <1>6. /\ applied'[v][u] = applied[v][u] + 1
        /\ w # v \/ t # u => applied'[w][t] = applied[w][t]
    BY <1>5, AppliedOne
  <1>7. applied[w][t] = ledger[w][t].rows /\ (ledger[w][t].rows = 0 => ledger[w][t].net = 0)
    BY <1>0, <1>2 DEF Counted
  <1>8. Counted(w, t)'
    BY <1>3, <1>4, <1>6, <1>7 DEF Counted
  <1> QED
    BY <1>0, <1>6, <1>8

\* A row inserted: now there is one for each again.
LEMMA PostCounted ==
    ASSUME IInv, OnceInv, NEW p \in Proc, NEW l, NEW j, Enter(p, l, j), UNCHANGED applied,
           pc[p] = "post", l # "post", NEW x \in Res \cup Event, job[p].about = x,
           NEW v, NEW u, v = job[p].op.wallet, u = job[p].tag, LedgerUp(v, u, job[p].delta),
           NEW w \in Wallet, NEW k \in Kind, <<k, x>> \in Tag, Counted(w, <<k, x>>)
    PROVE  /\ Counted(w, <<k, x>>)'
           /\ w = v /\ <<k, x>> = u
                => /\ ledger'[w][<<k, x>>].net = ledger[w][<<k, x>>].net + job[p].delta
                   /\ applied[w][<<k, x>>] = ledger[w][<<k, x>>].rows + 1
           /\ w # v \/ <<k, x>> # u
                => ledger'[w][<<k, x>>] = ledger[w][<<k, x>>]
  <1>0. PICK t, d : t = <<k, x>> /\ d = job[p].delta
    OBVIOUS
  <1>1. /\ pc'[p] = l /\ job'[p] = j
        /\ \A q \in Proc \ {p} : pc'[q] = pc[q] /\ job'[q] = job[q]
    BY EnterOnly
  <1>2. \A q \in Proc \ {p} : ~Posts(q, w, t)
    BY <1>0, OthersPostNot
  <1>3. \A q \in Proc : ~Posts(q, w, t)'
    BY <1>1, <1>2 DEF Posts
  <1>4. Posts(p, w, t) <=> w = v /\ t = u
    BY <1>0 DEF Posts
  <1>5. v \in Wallet /\ u \in Tag /\ t \in Tag /\ LedgerUp(v, u, d)
    BY <1>0, JobParts
  <1>6. /\ ledger'[v][u] = [rows |-> ledger[v][u].rows + 1, net |-> ledger[v][u].net + d]
        /\ w # v \/ t # u => ledger'[w][t] = ledger[w][t]
    BY <1>5, LedgerOne
  <1>7. ledger[w][t].rows \in Nat /\ t \in Tag
    BY <1>0 DEF IInv, TypeOK
  <1>8. CASE w = v /\ t = u
    <2>1. applied[w][t] = ledger[w][t].rows + 1
      BY <1>0, <1>4, <1>8 DEF Counted
    <2>2. ledger'[w][t].rows = ledger[w][t].rows + 1
          /\ ledger'[w][t].net = ledger[w][t].net + d
      BY <1>6, <1>8
    <2>3. Counted(w, t)'
      BY <1>3, <1>7, <2>1, <2>2 DEF Counted
    <2> QED
      BY <1>0, <1>8, <2>1, <2>2, <2>3
  <1>9. CASE ~(w = v /\ t = u)
    <2>1. \A q \in Proc : ~Posts(q, w, t)
      BY <1>2, <1>4, <1>9
    <2>2. Counted(w, t)'
      BY <1>0, <1>3, <1>6, <1>9, <2>1 DEF Counted
    <2> QED
      BY <1>0, <1>6, <1>9, <2>2
  <1> QED
    BY <1>8, <1>9

\* What a call is for survives what the statements note in its job.
LEMMA SamePurpose ==
    ASSUME NEW i, NEW j, i.about = j.about, i.op = j.op, i.tag = j.tag, i.after = j.after
    PROVE  /\ Taking(i) = Taking(j)
           /\ Returning(i) = Returning(j)
           /\ Granting(i) = Granting(j)
           /\ Adjusting(i) = Adjusting(j)
  BY DEF Taking, Returning, Granting, Adjusting

\* The write of either balance operation.
LEMMA WriteOnce ==
    ASSUME IInv, OnceInv, NEW p \in Proc, NEW j, Enter(p, "post", j),
           pc[p] \in {"swap", "deduct"}, AppliedUp(job[p].op.wallet, job[p].tag),
           UNCHANGED <<ledger, row>>, j.about = job[p].about, j.op = job[p].op,
           j.tag = job[p].tag, j.after = job[p].after, j.due = job[p].due,
           Taking(job[p]) => j.delta = j.due - Need[j.about]
    PROVE  OnceInv'
  <1>0. PICK x, t, w : x = job[p].about /\ t = job[p].tag /\ w = job[p].op.wallet
    OBVIOUS
  <1>1. /\ pc'[p] = "post" /\ job'[p] = j
        /\ \A q \in Proc \ {p} : pc'[q] = pc[q] /\ job'[q] = job[q]
    BY EnterOnly
  <1>2. w \in Wallet /\ t \in Tag
    BY <1>0, JobParts
  <1>3. Shape(job[p], pc[p]) /\ Standing(p)
    BY DEF OnceInv
  <1>4. /\ pc[p] = "swap" => Returning(job[p]) \/ Granting(job[p]) \/ Adjusting(job[p])
        /\ pc[p] = "deduct" => Taking(job[p]) \/ Adjusting(job[p])
    BY <1>3 DEF Shape
  <1>5. /\ Taking(j) = Taking(job[p]) /\ Returning(j) = Returning(job[p])
        /\ Granting(j) = Granting(job[p]) /\ Adjusting(j) = Adjusting(job[p])
    BY SamePurpose
  <1>6. Shape(j, "post")
    BY <1>4, <1>5 DEF Shape
  <1>7. Standing(p)'
    <2>1. Taking(job[p]) => Open(p) /\ Owing(p)
      BY <1>3, <1>4 DEF Standing, Taking, Returning, Granting, Adjusting
    <2>2. Taking(job[p]) => Open(p)' /\ Owing(p)'
      BY <1>1, <2>1 DEF Open, Owing
    <2>3. Taking(job[p])' <=> Taking(j)
      BY <1>1 DEF Taking
    <2> QED
      BY <1>1, <1>5, <2>2, <2>3 DEF Standing
  <1>8. \A v \in Wallet, s \in Tag : v # w \/ s # t => applied'[v][s] = applied[v][s]
    BY <1>0, <1>2, AppliedOne
  <1>9. ASSUME NEW y \in (Res \cup Event) \ {x} PROVE Untouched(y)
    <2>1. \A k : <<k, y>> # t \/ k = "admin_adjustment"
      BY <1>0, <1>4, <1>9 DEF Taking, Returning, Granting, Adjusting
    <2> QED
      BY <1>8, <2>1, TagType DEF Untouched, SameEntry, Wallet, SameRow, Cancelled
  <1>10. UNCHANGED ledger /\ pc[p] # "post" /\ AppliedUp(w, t)
    BY <1>0
  <1>11. ASSUME x \in Res \cup Event, NEW v \in Wallet, NEW k \in Kind, <<k, x>> \in Tag,
                Counted(v, <<k, x>>)
         PROVE  /\ Counted(v, <<k, x>>)'
                /\ v = w /\ <<k, x>> = t
                     => applied'[v][<<k, x>>] = applied[v][<<k, x>>] + 1
                /\ v # w \/ <<k, x>> # t
                     => applied'[v][<<k, x>>] = applied[v][<<k, x>>]
    BY <1>0, <1>10, <1>11, WriteCounted
  <1>12. x \in Res => BooksOfRes(x)'
    <2> SUFFICES ASSUME x \in Res PROVE BooksOfRes(x)'
      OBVIOUS
    <2>0. BooksOfRes(x) /\ job[p].about # NoRef /\ "hours" \in Wallet
      BY <1>0, FreeHoursAssumption DEF OnceInv, Books, Wallet
    <2>1. <<"reservation", x>> \in Tag /\ <<"cancelled", x>> \in Tag
      BY TagType
    <2>2. /\ Counted("hours", <<"reservation", x>>)'
          /\ "hours" = w /\ <<"reservation", x>> = t
               => applied'["hours"][<<"reservation", x>>]
                    = applied["hours"][<<"reservation", x>>] + 1
          /\ "hours" # w \/ <<"reservation", x>> # t
               => applied'["hours"][<<"reservation", x>>] = applied["hours"][<<"reservation", x>>]
      BY <1>11, <2>0, <2>1 DEF BooksOfRes, Kind
    <2>3. /\ Counted("hours", <<"cancelled", x>>)'
          /\ "hours" = w /\ <<"cancelled", x>> = t
               => applied'["hours"][<<"cancelled", x>>] = applied["hours"][<<"cancelled", x>>] + 1
          /\ "hours" # w \/ <<"cancelled", x>> # t
               => applied'["hours"][<<"cancelled", x>>] = applied["hours"][<<"cancelled", x>>]
      BY <1>11, <2>0, <2>1 DEF BooksOfRes, Kind
    <2>4. \A q \in Proc : ~Spending(q, x)
      BY <1>0, OthersPostNot DEF Spending
    <2>5. <<"reservation", x>> = t => Taking(job[p]) /\ pc[p] = "deduct"
      BY <1>0, <1>4 DEF Taking, Returning, Granting, Adjusting
    <2>6. <<"cancelled", x>> = t => Returning(job[p]) /\ pc[p] = "swap"
      BY <1>0, <1>4 DEF Taking, Returning, Granting, Adjusting
    <2>7. <<"reservation", x>> = t => applied["hours"][<<"reservation", x>>] < Limit(x)
      BY <1>0, <1>3, <2>0, <2>4, <2>5 DEF Standing, Open, BooksOfRes, Unspent
    <2>8. <<"cancelled", x>> = t => applied["hours"][<<"cancelled", x>>] = 0
      BY <1>0, <1>3, <2>6 DEF Standing
    <2>9. <<"reservation", x>> = t => Spending(p, x)'
      BY <1>0, <1>1 DEF Spending
    <2>13. Limit(x)' = Limit(x) /\ Limit(x) \in {1, 2}
      BY DEF Limit, Cancelled
    <2>10. Unspent(x)'
      BY <2>0, <2>2, <2>4, <2>9, <2>13 DEF BooksOfRes, Unspent
    <2>11. Priced(x)'
      BY <2>0 DEF BooksOfRes, Priced, CommittedUnits, Cancelled
    <2>14. /\ applied["hours"][<<"reservation", x>>] \in Nat
           /\ applied["hours"][<<"cancelled", x>>] \in Nat
      BY <2>0, <2>1 DEF IInv, TypeOK
    <2>12. /\ applied'["hours"][<<"reservation", x>>] <= Limit(x)'
           /\ applied'["hours"][<<"cancelled", x>>] <= 1
      BY <2>0, <2>2, <2>3, <2>7, <2>8, <2>13, <2>14 DEF BooksOfRes
    <2> QED
      BY <2>2, <2>3, <2>10, <2>11, <2>12 DEF BooksOfRes
  <1>13. x \in Event => BooksOfEvent(x)'
    <2> SUFFICES ASSUME x \in Event, NEW v \in Wallet
                 PROVE  /\ Counted(v, <<"monthly_allocation", x>>)'
                        /\ x \in Invoice => applied'[v][<<"monthly_allocation", x>>] <= 1
      BY DEF BooksOfEvent
    <2>1. /\ Counted(v, <<"monthly_allocation", x>>) /\ <<"monthly_allocation", x>> \in Tag
          /\ x \in Invoice => applied[v][<<"monthly_allocation", x>>] <= 1
      BY TagType DEF OnceInv, Books, BooksOfEvent
    <2>2. /\ Counted(v, <<"monthly_allocation", x>>)'
          /\ v = w /\ <<"monthly_allocation", x>> = t
               => applied'[v][<<"monthly_allocation", x>>]
                    = applied[v][<<"monthly_allocation", x>>] + 1
          /\ v # w \/ <<"monthly_allocation", x>> # t
               => applied'[v][<<"monthly_allocation", x>>] = applied[v][<<"monthly_allocation", x>>]
      BY <1>11, <2>1 DEF Kind
    <2>3. <<"monthly_allocation", x>> = t => Granting(job[p]) /\ pc[p] = "swap"
      BY <1>0, <1>4 DEF Taking, Returning, Granting, Adjusting
    <2>4. <<"monthly_allocation", x>> = t /\ x \in Invoice
            => applied[w][<<"monthly_allocation", x>>] = 0
      BY <1>0, <1>3, <2>3 DEF Standing
    <2> QED
      BY <2>1, <2>2, <2>4
  <1>14. x # NoRef => \A q \in Proc \ {p} : job[q].about # x
    BY <1>0, OnlyOne
  <1> QED
    BY <1>0, <1>6, <1>7, <1>9, <1>12, <1>13, <1>14, OneMoves DEF Books

\* The row is inserted, and the handler goes on to l with job j.
LEMMA PostOnce ==
    ASSUME IInv, OnceInv, NEW p \in Proc, NEW l, NEW j, Enter(p, l, j), pc[p] = "post",
           LedgerUp(job[p].op.wallet, job[p].tag, job[p].delta), UNCHANGED <<row, applied>>,
           l = job[p].after, j.about = IF l = "idle" THEN NoRef ELSE job[p].about,
           j.after = "idle", l # "idle" => j.due = job[p].due
    PROVE  OnceInv'
  <1>0. PICK x, t, w, d : /\ x = job[p].about /\ t = job[p].tag /\ w = job[p].op.wallet
                          /\ d = job[p].delta
    OBVIOUS
  <1>1. /\ pc'[p] = l /\ job'[p] = j
        /\ \A q \in Proc \ {p} : pc'[q] = pc[q] /\ job'[q] = job[q]
    BY EnterOnly
  <1>2. w \in Wallet /\ t \in Tag
    BY <1>0, JobParts
  <1>3. Shape(job[p], pc[p]) /\ Standing(p)
    BY DEF OnceInv
  <1>4. Taking(job[p]) \/ Returning(job[p]) \/ Granting(job[p]) \/ Adjusting(job[p])
    BY <1>3 DEF Shape
  <1>5. /\ l \in {"idle", "mark", "refundMark", "equipmentCheck", "planWrite", "zeroEquipment",
                  "planClear"}
        /\ l = "mark" <=> Taking(job[p])
    BY <1>4, JobFit DEF Taking, Returning, Granting, Adjusting, Resume
  <1>6. Shape(j, l) /\ l # "post" /\ j.about \in {x, NoRef}
    BY <1>0, <1>5 DEF Shape
  <1>7. \A v \in Wallet, s \in Tag : v # w \/ s # t => ledger'[v][s] = ledger[v][s]
    BY <1>0, <1>2, LedgerOne
  <1>8. ASSUME NEW y \in (Res \cup Event) \ {x} PROVE Untouched(y)
    <2>1. \A k : <<k, y>> # t \/ k = "admin_adjustment"
      BY <1>0, <1>4, <1>8 DEF Taking, Returning, Granting, Adjusting
    <2> QED
      BY <1>7, <2>1, TagType DEF Untouched, SameEntry, Wallet, SameRow, Cancelled
  <1>9. UNCHANGED applied /\ LedgerUp(w, t, d)
    BY <1>0
  <1>10. ASSUME x \in Res \cup Event, NEW v \in Wallet, NEW k \in Kind, <<k, x>> \in Tag,
                Counted(v, <<k, x>>)
         PROVE  /\ Counted(v, <<k, x>>)'
                /\ v = w /\ <<k, x>> = t
                     => /\ ledger'[v][<<k, x>>].net = ledger[v][<<k, x>>].net + d
                        /\ applied[v][<<k, x>>] = ledger[v][<<k, x>>].rows + 1
                /\ v # w \/ <<k, x>> # t
                     => ledger'[v][<<k, x>>] = ledger[v][<<k, x>>]
    BY <1>0, <1>6, <1>9, <1>10, PostCounted
  <1>11. Taking(job[p]) => /\ x \in Res /\ Open(p) /\ Owing(p) /\ t = <<"reservation", x>>
                           /\ w = "hours" /\ d = job[p].due - Need[x]
    BY <1>0, <1>3 DEF Standing, Taking
  <1>12. x \in Res =>
           BooksOfRes(x)' /\ (Taking(job[p]) /\ ~Cancelled(x) => CommittedUnits(x)' = -d)
    <2> SUFFICES ASSUME x \in Res
                 PROVE  /\ BooksOfRes(x)'
                        /\ Taking(job[p]) /\ ~Cancelled(x) => CommittedUnits(x)' = -d
      OBVIOUS
    <2>0. BooksOfRes(x) /\ "hours" \in Wallet
      BY <1>0 DEF OnceInv, Books, Wallet
    <2>1. <<"reservation", x>> \in Tag /\ <<"cancelled", x>> \in Tag
      BY TagType
    <2>2. Counted("hours", <<"reservation", x>>)' /\ Counted("hours", <<"cancelled", x>>)'
      BY <1>10, <2>0, <2>1 DEF BooksOfRes, Kind
    <2>3. \/ ~Taking(job[p])
             /\ ledger'["hours"][<<"reservation", x>>] = ledger["hours"][<<"reservation", x>>]
          \/ /\ Taking(job[p])
             /\ ledger'["hours"][<<"reservation", x>>].net
                  = ledger["hours"][<<"reservation", x>>].net + d
             /\ applied["hours"][<<"reservation", x>>]
                  = ledger["hours"][<<"reservation", x>>].rows + 1
      <3>1. ~Taking(job[p]) => <<"reservation", x>> # t
        BY <1>0, <1>4 DEF Returning, Granting, Adjusting
      <3> QED
        BY <1>10, <1>11, <2>0, <2>1, <3>1 DEF BooksOfRes, Kind
    <2>4. Taking(job[p]) /\ ~Cancelled(x) => CommittedUnits(x)' = -d
      <3> SUFFICES ASSUME Taking(job[p]), ~Cancelled(x) PROVE CommittedUnits(x)' = -d
        OBVIOUS
      <3>1. /\ applied["hours"][<<"reservation", x>>] \in Nat
            /\ ledger["hours"][<<"reservation", x>>].rows \in Nat
            /\ ledger["hours"][<<"reservation", x>>].net \in Int
        BY <2>0, <2>1 DEF IInv, TypeOK
      <3>2. ledger["hours"][<<"reservation", x>>].rows = 0
        BY <2>0, <2>3, <3>1 DEF BooksOfRes, Limit
      <3>3. ledger["hours"][<<"reservation", x>>].net = 0
        BY <2>0, <3>2 DEF BooksOfRes, Counted
      <3>4. d \in Int
        BY <1>0, JobFit DEF JobSpace
      <3> QED
        BY <2>3, <3>3, <3>4 DEF CommittedUnits
    <2>5. Unspent(x)'
      <3>1. ASSUME NEW q \in Proc, Spending(q, x) PROVE Spending(q, x)'
        <4>1. q = p
          BY <1>0, <3>1, OthersPostNot
        <4>2. Taking(job[p])
          BY <1>0, <1>4, <3>1, <4>1 DEF Spending, Taking, Returning, Granting, Adjusting
        <4>3. j.about = x /\ l = "mark"
          BY <1>0, <1>5, <4>2
        <4> QED
          BY <1>1, <4>1, <4>3 DEF Spending
      <3> QED
        BY <2>0, <3>1 DEF BooksOfRes, Unspent, Limit, Cancelled
    <2>6. Priced(x)'
      <3>1. CASE Taking(job[p])
        BY <1>0, <1>11, <3>1 DEF Open, Priced
      <3>2. CASE ~Taking(job[p])
        BY <2>0, <2>3, <3>2 DEF BooksOfRes, Priced, CommittedUnits, Cancelled
      <3> QED
        BY <3>1, <3>2
    <2> QED
      BY <2>0, <2>2, <2>4, <2>5, <2>6 DEF BooksOfRes, Limit, Cancelled
  <1>13. x \in Event => BooksOfEvent(x)'
    <2> SUFFICES ASSUME x \in Event, NEW v \in Wallet
                 PROVE  /\ Counted(v, <<"monthly_allocation", x>>)'
                        /\ x \in Invoice => applied'[v][<<"monthly_allocation", x>>] <= 1
      BY DEF BooksOfEvent
    <2>1. /\ Counted(v, <<"monthly_allocation", x>>) /\ <<"monthly_allocation", x>> \in Tag
          /\ x \in Invoice => applied[v][<<"monthly_allocation", x>>] <= 1
      BY <1>0, TagType DEF OnceInv, Books, BooksOfEvent
    <2> QED
      BY <1>10, <2>1 DEF Kind
  <1>14. x # NoRef => \A q \in Proc \ {p} : job[q].about # x
    BY <1>0, OnlyOne
  <1>15. Standing(p)'
    <2>1. CASE Taking(job[p])
      <3>1. j.due = job[p].due /\ j.about = x /\ l = "mark"
        BY <1>0, <1>5, <2>1
      <3>2. Open(p)' /\ Owing(p)'
        BY <1>0, <1>1, <1>11, <2>1, <3>1 DEF Open, Owing
      <3>3. j.due \in Nat /\ Need[x] \in Nat
        BY <1>11, <2>1, <3>1, FreeHoursAssumption DEF Owing
      <3>4. ~Cancelled(x)' => j.due + CommittedUnits(x)' = Need[x]
        BY <1>11, <1>12, <2>1, <3>1, <3>3 DEF Cancelled
      <3> QED
        BY <1>1, <3>1, <3>2, <3>4 DEF Standing, CommittedUnits, Cancelled
    <2>2. CASE ~Taking(job[p])
      BY <1>1, <1>5, <2>2 DEF Standing
    <2> QED
      BY <2>1, <2>2
  <1> QED
    BY <1>0, <1>6, <1>8, <1>12, <1>13, <1>14, <1>15, OneMoves DEF Books

\* p reads the balance, or begins again, for the same call.
LEMMA LoopOnce ==
    ASSUME IInv, OnceInv, NEW p \in Proc, NEW l \in {"read", "swap"}, NEW j, Enter(p, l, j),
           pc[p] \in {"read", "swap"}, UNCHANGED <<ledger, row, applied>>,
           j.about = job[p].about, j.op = job[p].op, j.tag = job[p].tag, j.after = job[p].after
    PROVE  OnceInv'
  <1>1. pc'[p] = l /\ job'[p] = j
    BY EnterOnly
  <1>2. Shape(job[p], pc[p]) /\ Standing(p)
    BY DEF OnceInv
  <1>3. /\ Taking(j) = Taking(job[p]) /\ Returning(j) = Returning(job[p])
        /\ Granting(j) = Granting(job[p]) /\ Adjusting(j) = Adjusting(job[p])
    BY SamePurpose
  <1>4. Shape(j, l)
    BY <1>2, <1>3 DEF Shape
  <1>5. Standing(p)'
    BY <1>1, <1>2, <1>3 DEF Standing
  <1> QED
    BY <1>4, <1>5, QuietStep

LEMMA ServiceOnce ==
    ASSUME IInv, OnceInv, NEW p \in Proc,
           WalletRead(p) \/ WalletSwap(p) \/ WalletDeduct(p) \/ PostEntry(p)
    PROVE  OnceInv'
  <1>0. /\ job[p] \in JobSpace /\ Shape(job[p], pc[p]) /\ Standing(p)
        /\ job[p].op \in Wallets!Operation
    BY JobFit DEF OnceInv
  <1>1. CASE WalletRead(p)
    <2> DEFINE j == [job[p] EXCEPT !.seen = bal[job[p].op.wallet]]
    <2>1. /\ j.about = job[p].about /\ j.op = job[p].op /\ j.tag = job[p].tag
          /\ j.after = job[p].after
      BY <1>0 DEF JobSpace
    <2>2. Enter(p, "swap", j) /\ pc[p] = "read" /\ UNCHANGED <<ledger, row, applied>>
      BY <1>1 DEF WalletRead, data
    <2> HIDE DEF j
    <2> QED
      BY <2>1, <2>2, LoopOnce
  <1>2. ASSUME NEW n, NEW b, Write(p, job[p].op.wallet, n, b), UNCHANGED <<ledger, row>>,
               pc[p] \in {"swap", "deduct"},
               Taking(job[p]) => n - b = job[p].due - Need[job[p].about]
        PROVE  OnceInv'
    <2> DEFINE j == [job[p] EXCEPT !.delta = n - b, !.seen = 0]
    <2>1. /\ j.about = job[p].about /\ j.op = job[p].op /\ j.tag = job[p].tag
          /\ j.after = job[p].after /\ j.due = job[p].due /\ j.delta = n - b
      BY <1>0 DEF JobSpace
    <2>2. Enter(p, "post", j) /\ AppliedUp(job[p].op.wallet, job[p].tag)
      BY <1>2 DEF Write, AppliedUp
    <2> HIDE DEF j
    <2>3. Taking(job[p]) => j.delta = j.due - Need[j.about]
      BY <1>2, <2>1
    <2> QED
      BY <1>2, <2>1, <2>2, <2>3, WriteOnce
  <1>3. CASE WalletSwap(p)
    <2>0. pc[p] = "swap" /\ UNCHANGED <<ledger, row>>
      BY <1>3 DEF WalletSwap
    <2>1. CASE Write(p, job[p].op.wallet, Wallets!Effect(job[p].op, job[p].seen), job[p].seen)
      <3>1. ~Taking(job[p])
        BY <1>0, <2>0 DEF Shape, Taking, Returning, Granting, Adjusting
      <3> QED
        BY <1>2, <2>0, <2>1, <3>1
    <2>2. CASE /\ Enter(p, "read", [job[p] EXCEPT !.tries = @ + 1, !.seen = 0])
               /\ UNCHANGED applied
      <3> DEFINE j == [job[p] EXCEPT !.tries = @ + 1, !.seen = 0]
      <3>1. /\ j.about = job[p].about /\ j.op = job[p].op /\ j.tag = job[p].tag
            /\ j.after = job[p].after
        BY <1>0 DEF JobSpace
      <3>2. Enter(p, "read", j)
        BY <2>2
      <3> HIDE DEF j
      <3> QED
        BY <2>0, <2>2, <3>1, <3>2, LoopOnce
    <2>3. CASE Throw(p) /\ UNCHANGED applied
      BY <2>0, <2>3, ReturnStep DEF Throw
    <2> QED
      BY <1>3, <2>1, <2>2, <2>3 DEF WalletSwap
  <1>4. CASE WalletDeduct(p)
    <2> DEFINE o == job[p].op
    <2>0. pc[p] = "deduct" /\ UNCHANGED <<ledger, row>>
      BY <1>4 DEF WalletDeduct
    <2>1. CASE Write(p, o.wallet, Wallets!Effect(o, bal[o.wallet]), bal[o.wallet])
      <3>1. ASSUME Taking(job[p])
            PROVE  Wallets!Effect(o, bal[o.wallet]) - bal[o.wallet]
                     = job[p].due - Need[job[p].about]
        <4>1. /\ o.kind = "deduct" /\ o.amount = Need[job[p].about] - job[p].due
              /\ job[p].due \in Nat
          BY <1>0, <2>0, <3>1 DEF Standing, Owing
        <4>2. bal[o.wallet] \in Nat /\ o.amount \in Nat
          BY <1>0, OperationParts DEF IInv, TypeOK
        <4>3. Wallets!Effect(o, bal[o.wallet]) = bal[o.wallet] - o.amount
          BY <4>1 DEF Wallets!Effect
        <4>4. Need[job[p].about] \in Nat
          BY <3>1, FreeHoursAssumption DEF Taking
        <4> HIDE DEF o
        <4> QED
          BY <4>1, <4>2, <4>3, <4>4
      <3> QED
        BY <1>2, <2>0, <2>1, <3>1
    <2>2. CASE Throw(p) /\ UNCHANGED applied
      BY <2>0, <2>2, ReturnStep DEF Throw
    <2> QED
      BY <1>4, <2>1, <2>2 DEF WalletDeduct
  <1>5. CASE PostEntry(p)
    <2>0. /\ pc[p] = "post" /\ UNCHANGED <<row, applied>>
          /\ LedgerUp(job[p].op.wallet, job[p].tag, job[p].delta)
      BY <1>5 DEF PostEntry, LedgerUp
    <2>1. CASE job[p].after = "idle"
      <3>1. Enter(p, "idle", IdleJob)
        BY <1>5, <2>1 DEF PostEntry, Return, Done
      <3> QED
        BY <2>0, <2>1, <3>1, IdleJobType, PostOnce
    <2>2. CASE job[p].after # "idle"
      <3> DEFINE j == [IdleJob EXCEPT !.about = job[p].about, !.due = job[p].due,
                                      !.cash = job[p].cash]
      <3>1. j.about = job[p].about /\ j.after = "idle" /\ j.due = job[p].due
        BY DEF IdleJob
      <3>2. Enter(p, job[p].after, j)
        BY <1>5, <2>2 DEF PostEntry
      <3> HIDE DEF j
      <3> QED
        BY <2>0, <2>2, <3>1, <3>2, PostOnce
    <2> QED
      BY <2>1, <2>2
  <1> QED
    BY <1>1, <1>3, <1>4, <1>5

-----------------------------------------------------------------------------
(* A booking's row *)

\* What each write leaves of the row of r, and that it leaves the others alone.
LEMMA RowParts ==
    ASSUME IInv, NEW r \in Res
    PROVE  /\ \A n : row' = [row EXCEPT ![r].due = n] =>
                 /\ row'[r].due = n /\ row'[r].status = row[r].status
                 /\ row'[r].waived = row[r].waived
                 /\ \A y \in Res \ {r} : row'[y] = row[y]
           /\ row' = [row EXCEPT ![r].status = "cancelled", ![r].due = Unpriced] =>
                 /\ row'[r].due = Unpriced /\ row'[r].status = "cancelled"
                 /\ \A y \in Res \ {r} : row'[y] = row[y]
           /\ row' = [row EXCEPT ![r].refunded = TRUE] =>
                 /\ row'[r].due = row[r].due /\ row'[r].status = row[r].status
                 /\ row'[r].waived = row[r].waived
                 /\ \A y \in Res \ {r} : row'[y] = row[y]
  <1>0. row \in [Res -> RowSpace]
    BY DEF IInv, TypeOK
  <1>1. ASSUME NEW n, row' = [row EXCEPT ![r].due = n]
        PROVE  /\ row'[r].due = n /\ row'[r].status = row[r].status
               /\ row'[r].waived = row[r].waived
               /\ \A y \in Res \ {r} : row'[y] = row[y]
    BY <1>0, <1>1 DEF RowSpace
  <1>4. ASSUME row' = [row EXCEPT ![r].status = "cancelled", ![r].due = Unpriced]
        PROVE  /\ row'[r].due = Unpriced /\ row'[r].status = "cancelled"
               /\ \A y \in Res \ {r} : row'[y] = row[y]
    BY <1>0, <1>4 DEF RowSpace
  <1>5. ASSUME row' = [row EXCEPT ![r].refunded = TRUE]
        PROVE  /\ row'[r].due = row[r].due /\ row'[r].status = row[r].status
               /\ row'[r].waived = row[r].waived
               /\ \A y \in Res \ {r} : row'[y] = row[y]
    BY <1>0, <1>5 DEF RowSpace
  <1> QED
    BY <1>1, <1>4, <1>5

\* A statement that writes the row of r.
LEMMA RowOnce ==
    ASSUME IInv, OnceInv, NEW p \in Proc, NEW l, NEW j, Enter(p, l, j), NEW r \in Res,
           job[p].about = r, UNCHANGED <<ledger, applied>>, pc[p] # "post", l # "post",
           \A y \in Res \ {r} : row'[y] = row[y], j.about \in {r, NoRef},
           Shape(j, l), Standing(p)', Unspent(r)', Priced(r)', Limit(r) <= Limit(r)'
    PROVE  OnceInv'
  <1>1. /\ pc'[p] = l /\ job'[p] = j
        /\ \A q \in Proc \ {p} : pc'[q] = pc[q] /\ job'[q] = job[q]
    BY EnterOnly
  <1>2. r # NoRef
    BY FreeHoursAssumption
  <1>3. \A q \in Proc \ {p} : job[q].about # r
    BY <1>2, OnlyOne
  <1>4. \A y \in (Res \cup Event) \ {r} : Untouched(y)
    BY DEF Untouched, SameEntry, SameRow, Cancelled
  <1>5. ASSUME NEW q \in Proc, NEW w, NEW t PROVE Posts(q, w, t)' <=> Posts(q, w, t)
    BY <1>1 DEF Posts
  <1>6. ASSUME NEW w, NEW t, Counted(w, t) PROVE Counted(w, t)'
    BY <1>5, <1>6 DEF Counted
  <1>7. BooksOfRes(r)'
    <2>1. applied["hours"][<<"reservation", r>>] \in Nat /\ BooksOfRes(r)
      BY TagType DEF IInv, TypeOK, Wallet, OnceInv, Books
    <2>2. Limit(r) \in {1, 2} /\ Limit(r)' \in {1, 2}
      BY DEF Limit
    <2> QED
      BY <1>6, <2>1, <2>2 DEF BooksOfRes
  <1>8. r \in Event => BooksOfEvent(r)'
    BY <1>6 DEF OnceInv, Books, BooksOfEvent
  <1> QED
    BY <1>3, <1>4, <1>7, <1>8, OneMoves DEF Books

LEMMA CommitOnce ==
    ASSUME IInv, OnceInv, NEW p \in Proc,
           PriceRead(p) \/ PlanRead(p) \/ BalanceRead(p) \/ MarkPriced(p)
    PROVE  OnceInv'
  <1>0. PICK r : r = job[p].about
    OBVIOUS
  <1>1. /\ r \in Res /\ r \in Anything /\ r # NoRef /\ Need[r] \in Nat \ {0}
        /\ job[p] \in JobSpace /\ Shape(job[p], pc[p]) /\ Standing(p) /\ BooksOfRes(r)
        /\ job[p].after # "mark"
    <2>1. r \in Res /\ Need[r] \in Nat \ {0}
      BY <1>0, AboutRes DEF PriceRead, PlanRead, BalanceRead, MarkPriced
    <2>2. BooksOfRes(r) /\ Shape(job[p], pc[p]) /\ Standing(p)
      BY <2>1 DEF OnceInv, Books
    <2>3. job[p].after # "mark"
      BY <2>2 DEF Shape, PriceRead, PlanRead, BalanceRead, MarkPriced
    <2> QED
      BY <2>1, <2>2, <2>3, JobFit, FreeHoursAssumption DEF Anything
  <1>2. pc[p] \notin {"mark", "post"} => \A q \in Proc : ~Spending(q, r)
    BY <1>0, <1>1, OthersPostNot DEF Spending
  <1>3. CASE PriceRead(p)
    <2>0. pc[p] = "price" /\ UNCHANGED <<ledger, row, applied>>
      BY <1>0, <1>1, <1>3 DEF PriceRead, data
    <2>1. CASE row[r].due # Unpriced
      <3> DEFINE j == [job[p] EXCEPT !.due = row[r].due]
      <3>1. j.about = r /\ j.due = row[r].due /\ j.after # "mark"
        BY <1>0, <1>1 DEF JobSpace
      <3>2. Enter(p, "settle", j)
        BY <1>0, <1>3, <2>1 DEF PriceRead
      <3> HIDE DEF j
      <3>3. pc'[p] = "settle" /\ job'[p] = j
        BY <3>2, EnterOnly
      <3>4. Standing(p)'
        BY <2>0, <2>1, <3>1, <3>3 DEF Standing
      <3>5. Shape(j, "settle")
        BY <3>1 DEF Shape
      <3> QED
        BY <1>0, <2>0, <3>1, <3>2, <3>4, <3>5, QuietStep
    <2>2. CASE row[r].due = Unpriced
      <3>1. Goto(p, "plan")
        BY <1>0, <1>3, <2>2 DEF PriceRead
      <3>2. pc'[p] = "plan" /\ job'[p] = job[p]
        BY <3>1, EnterOnly DEF Goto
      <3>3. Standing(p)'
        BY <1>0, <2>0, <2>2, <3>2 DEF Standing, Open
      <3> QED
        BY <2>0, <3>1, <3>3, GoStep
    <2> QED
      BY <2>1, <2>2
  <1>4. CASE PlanRead(p)
    <2> DEFINE n == IF plan = NoPlan THEN 0 ELSE Need[r]
               j == [job[p] EXCEPT !.cap = n]
    <2>0. pc[p] = "plan" /\ UNCHANGED <<ledger, row, applied>> /\ Open(p)
      BY <1>1, <1>4 DEF PlanRead, data, Standing
    <2>1. j.about = r /\ j.cap = n /\ j.after # "mark"
      BY <1>0, <1>1 DEF JobSpace
    <2>2. Enter(p, "balance", j)
      BY <1>0, <1>4 DEF PlanRead
    <2>3. n <= Need[r]
      BY <1>1
    <2> HIDE DEF j, n
    <2>4. pc'[p] = "balance" /\ job'[p] = j
      BY <2>2, EnterOnly
    <2>5. Standing(p)'
      BY <1>0, <2>0, <2>1, <2>3, <2>4 DEF Standing, Open
    <2>6. Shape(j, "balance")
      BY <2>1 DEF Shape
    <2> QED
      BY <1>0, <2>0, <2>1, <2>2, <2>5, <2>6, QuietStep
  <1>5. CASE BalanceRead(p)
    <2>0. /\ pc[p] = "balance" /\ UNCHANGED <<ledger, row, applied>> /\ Open(p)
          /\ job[p].cap <= Need[r] /\ job[p].cap \in Nat /\ bal["hours"] \in Nat
      BY <1>0, <1>1, <1>5 DEF BalanceRead, data, Standing, JobSpace, IInv, TypeOK, Wallet
    <2>1. PICK units : units = Smaller(bal["hours"], job[p].cap)
      OBVIOUS
    <2>2. units \in Nat /\ units <= Need[r]
      BY <1>1, <2>0, <2>1 DEF Smaller
    <2>3. CASE units > 0
      <3> DEFINE o == Call("hours", "deduct", units)
                 i == Asking(p, o, <<"reservation", r>>, "mark")
                 j == [i EXCEPT !.due = Need[r] - units]
      <3>0. o.wallet = "hours" /\ o.kind = "deduct" /\ o.amount = units
        BY DEF Call
      <3> HIDE DEF o
      <3>1. /\ j.about = r /\ j.op = o /\ j.tag = <<"reservation", r>> /\ j.after = "mark"
            /\ j.due = Need[r] - units
        BY <1>0 DEF Asking, IdleJob
      <3>2. Enter(p, "deduct", j)
        BY <1>0, <1>5, <2>1, <2>3 DEF BalanceRead, o
      <3> HIDE DEF j
      <3>3. pc'[p] = "deduct" /\ job'[p] = j
        BY <3>2, EnterOnly
      <3>4. Taking(j)
        BY <1>1, <3>0, <3>1 DEF Taking
      <3>5. Open(p)' /\ Owing(p)'
        BY <1>0, <1>1, <2>0, <2>2, <3>1, <3>3 DEF Open, Owing
      <3>6. j.op.amount = Need[r] - j.due
        BY <1>1, <2>2, <3>0, <3>1
      <3>7. Standing(p)'
        BY <3>0, <3>1, <3>3, <3>5, <3>6 DEF Standing
      <3>8. Shape(j, "deduct")
        BY <3>4 DEF Shape
      <3> QED
        BY <1>0, <2>0, <3>1, <3>2, <3>7, <3>8, QuietStep
    <2>4. CASE ~(units > 0)
      <3> DEFINE j == [job[p] EXCEPT !.cap = 0, !.due = Need[r]]
      <3>1. j.about = r /\ j.due = Need[r] /\ j.after # "mark"
        BY <1>0, <1>1 DEF JobSpace
      <3>2. Enter(p, "mark", j)
        BY <1>0, <1>5, <2>1, <2>4 DEF BalanceRead
      <3> HIDE DEF j
      <3>3. pc'[p] = "mark" /\ job'[p] = j
        BY <3>2, EnterOnly
      <3>4. ~Cancelled(r) => Need[r] + CommittedUnits(r) = Need[r]
        <4> SUFFICES ASSUME ~Cancelled(r) PROVE Need[r] + CommittedUnits(r) = Need[r]
          OBVIOUS
        <4>0. applied["hours"][<<"reservation", r>>] \in Nat
          BY <1>1, TagType DEF IInv, TypeOK, Wallet
        <4>1. applied["hours"][<<"reservation", r>>] = 0
          BY <1>0, <1>1, <1>2, <2>0, <4>0 DEF BooksOfRes, Unspent, Open, Limit
        <4>2. \A q \in Proc : ~Posts(q, "hours", <<"reservation", r>>)
          BY <1>0, <1>1, <2>0, OthersPostNot DEF Posts, Kind
        <4>3. ledger["hours"][<<"reservation", r>>].net = 0
          BY <1>1, <4>1, <4>2 DEF BooksOfRes, Counted
        <4>4. ledger["hours"][<<"reservation", r>>].net \in Int /\ Need[r] \in Int
          BY <1>1, <4>3
        <4>5. \A n, m \in Int : n = 0 => m + (-n) = m
          OBVIOUS
        <4> QED
          BY <4>3, <4>4, <4>5 DEF CommittedUnits
      <3>5. /\ Open(p)' /\ Owing(p)'
            /\ ~Cancelled(r)' => j.due + CommittedUnits(r)' = Need[r]
        BY <1>0, <1>1, <2>0, <3>1, <3>3, <3>4 DEF Open, Owing, CommittedUnits, Cancelled
      <3>6. Standing(p)'
        BY <3>1, <3>3, <3>5 DEF Standing, CommittedUnits, Cancelled
      <3>7. Shape(j, "mark")
        BY <3>1 DEF Shape
      <3> QED
        BY <1>0, <2>0, <3>1, <3>2, <3>6, <3>7, QuietStep
    <2> QED
      BY <2>3, <2>4
  <1>6. CASE MarkPriced(p)
    <2>0. /\ pc[p] = "mark" /\ UNCHANGED <<ledger, applied>> /\ Owing(p)
          /\ ~Cancelled(r) => job[p].due + CommittedUnits(r) = Need[r]
      BY <1>0, <1>1, <1>6 DEF MarkPriced, Standing
    <2>1. /\ row'[r].due = job[p].due /\ Cancelled(r)' = Cancelled(r)
          /\ \A y \in Res \ {r} : row'[y] = row[y]
      <3>1. row' = [row EXCEPT ![r].due = job[p].due]
        BY <1>0, <1>6 DEF MarkPriced
      <3> QED
        BY <1>1, <3>1, RowParts DEF Cancelled
    <2>2. Enter(p, "settle", job[p])
      BY <1>6 DEF MarkPriced, Goto
    <2>3. pc'[p] = "settle" /\ job'[p] = job[p]
      BY <2>2, EnterOnly
    <2>5. row'[r].due # Unpriced
      BY <2>0, <2>1 DEF Owing, Unpriced
    <2>4. Standing(p)'
      BY <1>0, <2>1, <2>3, <2>5 DEF Standing
    <2>6. Unspent(r)' /\ Priced(r)' /\ Limit(r)' = Limit(r) /\ Limit(r) \in {1, 2}
      BY <1>0, <1>1, <2>0, <2>1, <2>5 DEF Unspent, Priced, CommittedUnits, Owing, Limit
    <2>7. Shape(job[p], "settle")
      BY <1>1 DEF Shape
    <2> QED
      BY <1>0, <1>1, <2>0, <2>1, <2>2, <2>4, <2>6, <2>7, RowOnce
  <1> QED
    BY <1>3, <1>4, <1>5, <1>6

\* A statement of p that settles r in part or in full: what is due may only fall
\* to nothing, and what the wallet did not pay is then paid or waived.
LEMMA SettlesOnce ==
    ASSUME IInv, OnceInv, NEW p \in Proc, NEW r \in Res, job[p].about = r,
           NEW l \in {"idle", "takeCash", "complete", "compWrite"}, NEW j, Enter(p, l, j),
           pc[p] \in {"settle", "takeCash", "complete", "cardWrite", "compConfirm", "compWrite"},
           UNCHANGED <<ledger, applied>>, row' = row \/ row' = [row EXCEPT ![r] = row'[r]],
           Cancelled(r)' = Cancelled(r),
           \/ row'[r].due = row[r].due /\ (row'[r].waived = row[r].waived \/ row'[r].waived)
           \/ ~Cancelled(r) /\ row'[r].due = 0 /\ row'[r].waived,
           l # "idle" => j.about = r /\ j.after = job[p].after,
           l = "idle" => j = IdleJob,
           l \in {"takeCash", "complete"} => j.due = row'[r].due /\ j.due # Unpriced,
           l = "compWrite" => ~Cancelled(r)
    PROVE  OnceInv'
  <1>0. /\ row \in [Res -> RowSpace] /\ Shape(job[p], pc[p]) /\ BooksOfRes(r)
        /\ r # NoRef /\ Need[r] \in Nat \ {0}
        /\ "hours" \in Wallet /\ <<"reservation", r>> \in Tag
    BY TagType, FreeHoursAssumption DEF IInv, TypeOK, OnceInv, Books, Wallet
  <1>1. /\ applied["hours"][<<"reservation", r>>] \in Nat
        /\ ledger["hours"][<<"reservation", r>>].net \in Int /\ row[r].due \in Int
    BY <1>0 DEF IInv, TypeOK, RowSpace
  <1>2. \A q \in Proc : ~Spending(q, r)
    BY <1>0, OthersPostNot DEF Spending
  <1>3. /\ pc'[p] = l /\ job'[p] = j
    BY EnterOnly
  <1>4. \A y \in Res \ {r} : row'[y] = row[y]
    BY <1>0
  <1>5. Limit(r)' = Limit(r) /\ Limit(r) \in {1, 2}
    BY DEF Limit
  <1>6. CommittedUnits(r)' = CommittedUnits(r) /\ CommittedUnits(r) \in Int
    BY <1>1 DEF CommittedUnits
  <1>7. ASSUME row'[r].due = row[r].due, row'[r].waived = row[r].waived \/ row'[r].waived
        PROVE  Unspent(r)' /\ Priced(r)'
    <2>1. Unspent(r)'
      BY <1>0, <1>2, <1>5, <1>7 DEF BooksOfRes, Unspent
    <2>2. Priced(r)'
      <3>1. Priced(r) /\ (row'[r].waived <=> row[r].waived \/ row'[r].waived)
        BY <1>0, <1>7 DEF BooksOfRes
      <3> QED
        BY <1>6, <1>7, <3>1 DEF Priced, Cancelled
    <2> QED
      BY <2>1, <2>2
  <1>8. ASSUME ~Cancelled(r), row'[r].due = 0, row'[r].waived
        PROVE  Unspent(r)' /\ Priced(r)'
    <2>1. CommittedUnits(r) <= Need[r]
      <3>1. CASE row[r].due = Unpriced
        <4>1. applied["hours"][<<"reservation", r>>] = 0
          BY <1>0, <1>1, <1>2, <1>8, <3>1 DEF BooksOfRes, Unspent, Limit
        <4>2. \A q \in Proc : ~Posts(q, "hours", <<"reservation", r>>)
          BY <1>0, OthersPostNot DEF Posts, Kind
        <4>3. ledger["hours"][<<"reservation", r>>].net = 0
          BY <1>0, <4>1, <4>2 DEF BooksOfRes, Counted
        <4> QED
          BY <1>0, <4>3 DEF CommittedUnits
      <3>2. CASE row[r].due # Unpriced
        <4>1. row[r].due \in Nat /\ row[r].due + CommittedUnits(r) <= Need[r]
          BY <1>0, <1>8, <3>2 DEF BooksOfRes, Priced
        <4>2. \A n \in Nat, m, k \in Int : n + m <= k => m <= k
          OBVIOUS
        <4> QED
          BY <1>0, <1>6, <4>1, <4>2
      <3> QED
        BY <3>1, <3>2
    <2>2. Unspent(r)'
      BY <1>8 DEF Unspent, Unpriced
    <2>3. Priced(r)'
      BY <1>0, <1>6, <1>8, <2>1 DEF Priced
    <2> QED
      BY <2>2, <2>3
  <1>9. Unspent(r)' /\ Priced(r)'
    BY <1>7, <1>8
  <1>10. Shape(j, l) /\ j.about \in {r, NoRef}
    BY <1>0, IdleStands, IdleJobType DEF Shape
  <1>11. Standing(p)'
    BY <1>3 DEF Standing
  <1> QED
    BY <1>4, <1>5, <1>9, <1>10, <1>11, RowOnce

LEMMA SettleOnce ==
    ASSUME IInv, OnceInv, NEW p \in Proc, Settling(p)
    PROVE  OnceInv'
  <1>0. PICK r : r = job[p].about
    OBVIOUS
  <1>1. /\ r \in Res /\ job[p] \in JobSpace /\ Standing(p)
        /\ row \in [Res -> RowSpace] /\ row[r] \in RowSpace
    <2>1. r \in Res
      BY <1>0, AboutRes DEF Settling, SettleCovered, SettleOwing, TakeCash, Complete,
                            CardWrite, CompConfirm, CompWrite
    <2> QED
      BY <2>1, JobFit DEF OnceInv, IInv, TypeOK
  <1>2. /\ UNCHANGED <<ledger, applied>>
        /\ pc[p] \in {"settle", "takeCash", "complete", "cardWrite", "compConfirm", "compWrite"}
    BY DEF Settling, SettleCovered, SettleOwing, TakeCash, Complete, CardWrite, CompConfirm,
           CompWrite, data
  <1>3. \A l : Goto(p, l) => Enter(p, l, job[p])
    BY DEF Goto
  <1>4. Done(p) => Enter(p, "idle", IdleJob)
    BY DEF Done
  <1>5. CASE SettleCovered(p)
    <2>1. pc[p] = "settle" /\ job[p].due = 0 /\ row[r].due = 0
      BY <1>0, <1>1, <1>5 DEF SettleCovered, Standing
    <2>2. /\ row' = row \/ row' = [row EXCEPT ![r] = row'[r]]
          /\ row'[r].due = 0 /\ row'[r].waived = row[r].waived
          /\ Cancelled(r)' = Cancelled(r)
      <3>1. CASE UNCHANGED row
        BY <2>1, <3>1 DEF Cancelled
      <3>2. CASE row[r].status \in Active /\ ~(UNCHANGED row)
        <4>1. PICK b \in BOOLEAN :
                 row' = [row EXCEPT ![r].status = "confirmed", ![r].due = 0, ![r].record = b]
          BY <1>0, <1>5, <3>2 DEF SettleCovered
        <4>2. row'[r] = [row[r] EXCEPT !.status = "confirmed", !.due = 0, !.record = b]
          BY <1>1, <4>1
        <4>3. row' = [row EXCEPT ![r] = row'[r]]
          BY <1>1, <4>1
        <4> QED
          BY <1>1, <3>2, <4>2, <4>3 DEF RowSpace, Cancelled, Active
      <3> QED
        BY <1>0, <1>5, <3>1, <3>2 DEF SettleCovered
    <2>3. CASE Goto(p, "takeCash")
      BY <1>0, <1>1, <1>2, <1>3, <2>1, <2>2, <2>3, SettlesOnce DEF Unpriced
    <2>4. CASE Done(p)
      BY <1>0, <1>1, <1>2, <1>4, <2>1, <2>2, <2>4, SettlesOnce
    <2> QED
      BY <1>5, <2>3, <2>4 DEF SettleCovered
  <1>6. CASE SettleOwing(p)
    <2>1. pc[p] = "settle" /\ job[p].due = row[r].due /\ job[p].due # Unpriced
      BY <1>0, <1>1, <1>6 DEF SettleOwing, Standing
    <2>2. CASE Goto(p, "takeCash") /\ UNCHANGED row
      <3>1. Cancelled(r)' = Cancelled(r)
        BY <2>2 DEF Cancelled
      <3> QED
        BY <1>0, <1>1, <1>2, <1>3, <2>1, <2>2, <3>1, SettlesOnce
    <2>3. CASE Done(p)
      <3>1. /\ row' = row \/ row' = [row EXCEPT ![r] = row'[r]]
            /\ row'[r].due = row[r].due /\ row'[r].waived = row[r].waived
            /\ Cancelled(r)' = Cancelled(r)
        <4>1. CASE UNCHANGED row
          BY <4>1 DEF Cancelled
        <4>2. CASE row[r].status \in Active /\ row' = [row EXCEPT ![r].status = "confirmed"]
          BY <1>1, <4>2 DEF RowSpace, Cancelled, Active
        <4>3. CASE row' = [row EXCEPT ![r].session = TRUE]
          BY <1>1, <4>3 DEF RowSpace, Cancelled
        <4>4. CASE Goto(p, "takeCash") /\ UNCHANGED row
          BY <4>4 DEF Cancelled
        <4> QED
          BY <1>0, <1>6, <4>1, <4>2, <4>3, <4>4 DEF SettleOwing
      <3> QED
        BY <1>0, <1>1, <1>2, <1>4, <2>1, <2>3, <3>1, SettlesOnce
    <2> QED
      BY <1>6, <2>2, <2>3 DEF SettleOwing
  <1>7. CASE TakeCash(p)
    <2>1. /\ pc[p] = "takeCash" /\ job[p].due = row[r].due /\ job[p].due # Unpriced
          /\ UNCHANGED row
      BY <1>0, <1>1, <1>7 DEF TakeCash, Standing, data
    <2>2. Cancelled(r)' = Cancelled(r)
      BY <2>1 DEF Cancelled
    <2>3. ASSUME NEW b, Enter(p, "complete", [job[p] EXCEPT !.paid = b]) PROVE OnceInv'
      <3> DEFINE j == [job[p] EXCEPT !.paid = b]
      <3>1. j.about = r /\ j.after = job[p].after /\ j.due = job[p].due
        BY <1>0, <1>1 DEF JobSpace
      <3>2. Enter(p, "complete", j)
        BY <2>3
      <3> HIDE DEF j
      <3> QED
        BY <1>0, <1>1, <1>2, <2>1, <2>2, <3>1, <3>2, SettlesOnce
    <2>4. CASE Done(p)
      BY <1>0, <1>1, <1>2, <1>4, <2>1, <2>2, <2>4, SettlesOnce
    <2> QED
      BY <1>7, <2>3, <2>4 DEF TakeCash
  <1>8. CASE Complete(p)
    <2>1. pc[p] = "complete" /\ job[p].due = row[r].due
      BY <1>0, <1>1, <1>8 DEF Complete, Standing
    <2>2. Enter(p, "idle", IdleJob)
      BY <1>4, <1>8 DEF Complete
    <2>3. CASE UNCHANGED row
      <3>1. Cancelled(r)' = Cancelled(r)
        BY <2>3 DEF Cancelled
      <3> QED
        BY <1>0, <1>1, <1>2, <2>2, <2>3, <3>1, SettlesOnce
    <2>4. CASE row[r].status \in Active /\ ~(UNCHANGED row)
      <3> DEFINE R == [row[r] EXCEPT !.status = "completed", !.record = job[p].paid,
                                     !.due = 0, !.waived = @ \/ job[p].due > 0]
      <3>1. row' = [row EXCEPT ![r] = R]
        BY <1>0, <1>1, <1>8, <2>4 DEF Complete
      <3>2. row'[r] = R
        BY <1>1, <3>1
      <3>3. row'[r].due = 0 /\ row'[r].waived = (row[r].waived \/ job[p].due > 0)
            /\ row'[r].status = "completed"
        BY <1>1, <3>2 DEF RowSpace
      <3>4. ~Cancelled(r) /\ Cancelled(r)' = Cancelled(r)
        BY <2>4, <3>3 DEF Cancelled, Active
      <3>5. row' = [row EXCEPT ![r] = row'[r]]
        BY <3>1, <3>2
      <3>6. row[r].due \in Nat
        BY <1>0, <1>1, <2>1, <3>4 DEF OnceInv, Books, BooksOfRes, Priced, Standing
      <3> HIDE DEF R
      <3>7. \/ row'[r].due = row[r].due
               /\ (row'[r].waived = row[r].waived \/ row'[r].waived)
            \/ ~Cancelled(r) /\ row'[r].due = 0 /\ row'[r].waived
        <4>0. row[r].waived \in BOOLEAN
          BY <1>1 DEF RowSpace
        <4>1. CASE row[r].due = 0
          BY <2>1, <3>3, <4>0, <4>1
        <4>2. CASE row[r].due \in Nat /\ row[r].due # 0
          <5>1. job[p].due > 0
            BY <2>1, <4>2
          <5> QED
            BY <3>3, <3>4, <5>1
        <4> QED
          BY <3>6, <4>1, <4>2
      <3> QED
        BY <1>0, <1>1, <1>2, <2>2, <3>4, <3>5, <3>7, SettlesOnce
    <2> QED
      BY <1>0, <1>8, <2>3, <2>4 DEF Complete
  <1>9. CASE CardWrite(p)
    <2>1. ~Cancelled(r)
      BY <1>0, <1>1, <1>9 DEF CardWrite, Standing
    <2> DEFINE R == [row[r] EXCEPT !.status = "confirmed", !.record = TRUE, !.due = 0,
                                   !.waived = TRUE]
    <2>2. row' = [row EXCEPT ![r] = R]
      BY <1>0, <1>9 DEF CardWrite
    <2>3. row'[r] = R
      BY <1>1, <2>2
    <2>4. row'[r].due = 0 /\ row'[r].waived /\ Cancelled(r)' = Cancelled(r)
      BY <1>1, <2>1, <2>3 DEF RowSpace, Cancelled
    <2>5. row' = [row EXCEPT ![r] = row'[r]]
      BY <2>2, <2>3
    <2>6. Enter(p, "idle", IdleJob)
      BY <1>4, <1>9 DEF CardWrite
    <2> HIDE DEF R
    <2> QED
      BY <1>0, <1>1, <1>2, <2>1, <2>4, <2>5, <2>6, SettlesOnce
  <1>10. CASE CompConfirm(p)
    <2>1. ~Cancelled(r)
      BY <1>0, <1>1, <1>10 DEF CompConfirm, Standing
    <2>2. CASE Done(p) /\ UNCHANGED row
      <3>1. Cancelled(r)' = Cancelled(r)
        BY <2>2 DEF Cancelled
      <3> QED
        BY <1>0, <1>1, <1>2, <1>4, <2>2, <3>1, SettlesOnce
    <2>3. CASE Goto(p, "compWrite") /\ row' = [row EXCEPT ![r].status = "confirmed"]
      <3>1. /\ row' = [row EXCEPT ![r] = row'[r]]
            /\ row'[r].due = row[r].due /\ row'[r].waived = row[r].waived
            /\ Cancelled(r)' = Cancelled(r)
        BY <1>1, <2>1, <2>3 DEF RowSpace, Cancelled
      <3> QED
        BY <1>0, <1>1, <1>2, <1>3, <2>1, <2>3, <3>1, SettlesOnce
    <2> QED
      BY <1>0, <1>10, <2>2, <2>3 DEF CompConfirm
  <1>11. CASE CompWrite(p)
    <2>1. ~Cancelled(r)
      BY <1>0, <1>1, <1>11 DEF CompWrite, Standing
    <2>2. Enter(p, "idle", IdleJob)
      BY <1>4, <1>11 DEF CompWrite
    <2>3. CASE UNCHANGED row
      <3>1. Cancelled(r)' = Cancelled(r)
        BY <2>3 DEF Cancelled
      <3> QED
        BY <1>0, <1>1, <1>2, <2>2, <2>3, <3>1, SettlesOnce
    <2>4. CASE row' = [row EXCEPT ![r].due = 0, ![r].waived = TRUE]
      <3> DEFINE R == [row[r] EXCEPT !.due = 0, !.waived = TRUE]
      <3>1. row' = [row EXCEPT ![r] = R]
        BY <1>1, <2>4
      <3>2. row'[r] = R
        BY <1>1, <3>1
      <3>3. row'[r].due = 0 /\ row'[r].waived /\ Cancelled(r)' = Cancelled(r)
        BY <1>1, <3>2 DEF RowSpace, Cancelled
      <3>4. row' = [row EXCEPT ![r] = row'[r]]
        BY <3>1, <3>2
      <3> HIDE DEF R
      <3> QED
        BY <1>0, <1>1, <1>2, <2>1, <2>2, <3>3, <3>4, SettlesOnce
    <2> QED
      BY <1>0, <1>11, <2>3, <2>4 DEF CompWrite
  <1> QED
    BY <1>5, <1>6, <1>7, <1>8, <1>9, <1>10, <1>11 DEF Settling

\* reverseReservationCredits() goes back to its caller.
LEMMA LeaveOnce ==
    ASSUME IInv, OnceInv, NEW p \in Proc, LeaveReversal(p), UNCHANGED <<ledger, row, applied>>,
           pc[p] \in {"backCheck", "backSum", "backBalance"}
    PROVE  OnceInv'
  <1>1. CASE Done(p)
    BY <1>1, ReturnStep
  <1>2. CASE Goto(p, job[p].after) /\ job[p].after # "idle"
    <2>1. job[p].after \in Resume /\ job[p].after # "mark"
      BY JobFit DEF OnceInv, Shape
    <2>2. pc'[p] = job[p].after
      BY <1>2, EnterOnly DEF Goto
    <2>3. Standing(p)'
      BY <2>1, <2>2 DEF Standing, Resume
    <2> QED
      BY <1>2, <2>1, <2>3, GoStep DEF Resume
  <1> QED
    BY <1>1, <1>2 DEF LeaveReversal

LEMMA CancelOnce ==
    ASSUME IInv, OnceInv, NEW p \in Proc,
           \/ CancelWrite(p) \/ CancelRefund(p) \/ RefundMark(p)
           \/ BackCheck(p) \/ BackSum(p) \/ BackPlan(p) \/ BackBalance(p)
    PROVE  OnceInv'
  <1>0. PICK r : r = job[p].about
    OBVIOUS
  <1>1. /\ r \in Res /\ r # NoRef
        /\ job[p] \in JobSpace /\ Shape(job[p], pc[p]) /\ Standing(p) /\ BooksOfRes(r)
        /\ job[p].after # "mark"
    <2>1. r \in Res
      BY <1>0, AboutRes
         DEF CancelWrite, CancelRefund, RefundMark, BackCheck, BackSum, BackPlan, BackBalance
    <2>2. BooksOfRes(r) /\ Shape(job[p], pc[p]) /\ Standing(p)
      BY <2>1 DEF OnceInv, Books
    <2>3. job[p].after # "mark"
      BY <2>2
         DEF Shape, CancelWrite, CancelRefund, RefundMark, BackCheck, BackSum, BackPlan, BackBalance
    <2> QED
      BY <2>1, <2>2, <2>3, JobFit, FreeHoursAssumption
  <1>2. pc[p] \notin {"mark", "post"} => \A q \in Proc : ~Spending(q, r)
    BY <1>0, <1>1, OthersPostNot DEF Spending
  <1>3. \A l \in {"cancelRefund", "backCheck", "backSum", "backPlan", "backBalance"} :
           Shape(job[p], l)
    BY <1>1 DEF Shape
  <1>4. \* A write of the row that changes neither its price nor its standing.
        ASSUME NEW l \in {"idle", "cancelRefund", "backCheck"}, NEW j, Enter(p, l, j),
               UNCHANGED <<ledger, applied>>, pc[p] \notin {"mark", "post"},
               \A y \in Res \ {r} : row'[y] = row[y], j.about \in {r, NoRef}, Shape(j, l),
               \/ /\ row'[r].due = Unpriced /\ row'[r].status = "cancelled"
                  /\ ~Cancelled(r)
               \/ /\ row'[r].due = row[r].due /\ row'[r].status = row[r].status
                  /\ row'[r].waived = row[r].waived
        PROVE  OnceInv'
    <2>1. pc'[p] = l
      BY <1>4, EnterOnly
    <2>2. Standing(p)'
      BY <1>4, <2>1 DEF Standing
    <2>3. Unspent(r)' /\ Limit(r) <= Limit(r)'
      <3>1. applied["hours"][<<"reservation", r>>] \in Nat
        BY <1>1, TagType DEF IInv, TypeOK, Wallet
      <3> QED
        BY <1>1, <1>2, <1>4, <3>1 DEF BooksOfRes, Unspent, Limit, Cancelled
    <2>4. Priced(r)'
      BY <1>1, <1>4 DEF BooksOfRes, Priced, CommittedUnits, Cancelled
    <2> QED
      BY <1>0, <1>1, <1>4, <2>2, <2>3, <2>4, RowOnce
  <1>5. CASE CancelWrite(p)
    <2>0. pc[p] = "cancelWrite" /\ UNCHANGED <<ledger, applied>>
      BY <1>5 DEF CancelWrite
    <2>1. CASE Done(p) /\ UNCHANGED row
      BY <2>0, <2>1, ReturnStep
    <2>2. CASE /\ row[r].status \in Active
               /\ row' = [row EXCEPT ![r].status = "cancelled", ![r].due = Unpriced]
               /\ Goto(p, IF job[p].paid THEN "cancelRefund" ELSE "backCheck")
      <3>1. /\ row'[r].due = Unpriced /\ row'[r].status = "cancelled"
            /\ ~Cancelled(r) /\ \A y \in Res \ {r} : row'[y] = row[y]
        BY <1>1, <2>2, RowParts DEF Cancelled, Active
      <3>2. PICK l \in {"cancelRefund", "backCheck"} : Enter(p, l, job[p])
        BY <2>2 DEF Goto
      <3> QED
        BY <1>0, <1>3, <1>4, <2>0, <3>1, <3>2
    <2> QED
      BY <1>0, <1>5, <2>1, <2>2 DEF CancelWrite
  <1>6. CASE CancelRefund(p)
    <2>0. /\ pc[p] = "cancelRefund" /\ UNCHANGED <<ledger, applied>>
          /\ Enter(p, "backCheck", job[p])
      BY <1>6 DEF CancelRefund, Goto
    <2>1. /\ row'[r].due = row[r].due /\ row'[r].status = row[r].status
          /\ row'[r].waived = row[r].waived
          /\ \A y \in Res \ {r} : row'[y] = row[y]
      <3>1. row' = [row EXCEPT ![r].refunded = TRUE] \/ UNCHANGED row
        BY <1>0, <1>6 DEF CancelRefund
      <3> QED
        BY <1>1, <3>1, RowParts
    <2> QED
      BY <1>0, <1>3, <1>4, <2>0, <2>1
  <1>7. CASE RefundMark(p)
    <2>0. pc[p] = "refundMark" /\ UNCHANGED <<ledger, applied>> /\ Enter(p, "idle", IdleJob)
      BY <1>7 DEF RefundMark, Done
    <2>1. /\ row'[r].due = row[r].due /\ row'[r].status = row[r].status
          /\ row'[r].waived = row[r].waived
          /\ \A y \in Res \ {r} : row'[y] = row[y]
      <3>1. row' = [row EXCEPT ![r].refunded = TRUE]
        BY <1>0, <1>7 DEF RefundMark
      <3> QED
        BY <1>1, <3>1, RowParts
    <2> QED
      BY <1>4, <2>0, <2>1, IdleStands, IdleJobType
  <1>8. CASE BackCheck(p)
    <2>0. pc[p] = "backCheck" /\ UNCHANGED <<ledger, row, applied>>
      BY <1>8 DEF BackCheck, data
    <2>1. CASE LeaveReversal(p)
      BY <2>0, <2>1, LeaveOnce
    <2>2. CASE Goto(p, "backSum") /\ ~HasRow("hours", <<"cancelled", r>>)
      <3>1. applied["hours"][<<"cancelled", r>>] = 0
        <4>1. \A q \in Proc : ~Posts(q, "hours", <<"cancelled", r>>)
          BY <1>0, <1>1, <2>0, OthersPostNot DEF Posts, Kind
        <4>2. ledger["hours"][<<"cancelled", r>>].rows \in Nat
          BY <1>1, TagType DEF IInv, TypeOK, Wallet
        <4>3. ledger["hours"][<<"cancelled", r>>].rows = 0
          BY <2>2, <4>2 DEF HasRow
        <4> QED
          BY <1>1, <4>1, <4>3 DEF BooksOfRes, Counted
      <3>2. pc'[p] = "backSum" /\ job'[p] = job[p]
        BY <2>2, EnterOnly DEF Goto
      <3>3. Standing(p)'
        BY <1>0, <2>0, <3>1, <3>2 DEF Standing
      <3> QED
        BY <2>0, <2>2, <3>3, GoStep
    <2> QED
      BY <1>0, <1>8, <2>1, <2>2 DEF BackCheck
  <1>9. \* The next statement of a reversal.
        ASSUME NEW l \in {"backPlan", "backBalance"}, NEW j, Enter(p, l, j),
               pc[p] \in {"backSum", "backPlan"}, UNCHANGED <<ledger, row, applied>>,
               j.about = r, j.after = job[p].after
        PROVE  OnceInv'
    <2>1. pc'[p] = l /\ job'[p] = j
      BY <1>9, EnterOnly
    <2>2. Standing(p)'
      BY <1>0, <1>1, <1>9, <2>1 DEF Standing
    <2>3. Shape(j, l)
      BY <1>1, <1>9 DEF Shape
    <2> QED
      BY <1>0, <1>9, <2>2, <2>3, QuietStep
  <1>10. CASE BackSum(p)
    <2>0. pc[p] = "backSum" /\ UNCHANGED <<ledger, row, applied>>
      BY <1>10 DEF BackSum, data
    <2>1. CASE LeaveReversal(p)
      BY <2>0, <2>1, LeaveOnce
    <2>2. CASE Enter(p, "backPlan", [job[p] EXCEPT !.units = CommittedUnits(job[p].about)])
      <3> DEFINE j == [job[p] EXCEPT !.units = CommittedUnits(job[p].about)]
      <3>1. j.about = r /\ j.after = job[p].after
        BY <1>0, <1>1 DEF JobSpace
      <3> HIDE DEF j
      <3>2. Enter(p, "backPlan", j)
        BY <2>2 DEF j
      <3> QED
        BY <1>9, <2>0, <3>1, <3>2
    <2> QED
      BY <1>10, <2>1, <2>2 DEF BackSum
  <1>11. CASE BackPlan(p)
    <2>0. pc[p] = "backPlan" /\ UNCHANGED <<ledger, row, applied>>
      BY <1>11 DEF BackPlan, data
    <2> DEFINE j == [job[p] EXCEPT !.cap = IF plan = NoPlan THEN 0 ELSE plan]
    <2>1. j.about = r /\ j.after = job[p].after
      BY <1>0, <1>1 DEF JobSpace
    <2>2. Enter(p, "backBalance", j)
      BY <1>11 DEF BackPlan
    <2> HIDE DEF j
    <2> QED
      BY <1>9, <2>0, <2>1, <2>2
  <1>12. CASE BackBalance(p)
    <2>0. pc[p] = "backBalance" /\ UNCHANGED <<ledger, row, applied>>
      BY <1>12 DEF BackBalance, data
    <2>1. CASE LeaveReversal(p)
      BY <2>0, <2>1, LeaveOnce
    <2> DEFINE units == Smaller(job[p].units, job[p].cap - bal["hours"])
               o     == Call("hours", "add", units)
    <2>2. CASE Enter(p, "read", Asking(p, o, <<"cancelled", job[p].about>>, job[p].after))
      <3>0. o.wallet = "hours"
        BY DEF Call
      <3> HIDE DEF o
      <3> DEFINE j == Asking(p, o, <<"cancelled", job[p].about>>, job[p].after)
      <3>1. /\ j.about = r /\ j.op = o /\ j.tag = <<"cancelled", r>>
            /\ j.after = job[p].after
        BY <1>0 DEF Asking, IdleJob
      <3>2. Enter(p, "read", j)
        BY <2>2
      <3> HIDE DEF j
      <3>3. pc'[p] = "read" /\ job'[p] = j
        BY <3>2, EnterOnly
      <3>4. Returning(j) /\ ~Granting(j)
        BY <1>1, <3>0, <3>1 DEF Returning, Granting
      <3>5. Standing(p)'
        <4>1. ~Granting(job[p])'
          BY <3>3, <3>4 DEF Granting
        <4> QED
          BY <1>0, <1>1, <2>0, <3>1, <3>3, <4>1 DEF Standing
      <3>6. Shape(j, "read")
        BY <3>4 DEF Shape
      <3> QED
        BY <1>0, <2>0, <3>1, <3>2, <3>5, <3>6, QuietStep
    <2> QED
      BY <1>12, <2>1, <2>2 DEF BackBalance
  <1> QED
    BY <1>5, <1>6, <1>7, <1>8, <1>10, <1>11, <1>12

-----------------------------------------------------------------------------
(* The webhooks *)

\* An allocation asks the wallet only if the ledger has no row of it there.
LEMMA GrantOnce ==
    ASSUME IInv, OnceInv, NEW p \in Proc, pc[p] \in {"hoursCheck", "equipmentCheck"},
           UNCHANGED <<ledger, row, applied>>, NEW w \in Wallet, NEW o, o.wallet = w,
           NEW a, a # "mark", NEW e, job[p].about = e,
           ~HasRow(w, <<"monthly_allocation", e>>),
           Enter(p, "read", Asking(p, o, <<"monthly_allocation", e>>, a))
    PROVE  OnceInv'
  <1> DEFINE t == <<"monthly_allocation", e>>
             j == Asking(p, o, t, a)
  <1>1. e \in Invoice /\ e \in Event /\ e # NoRef /\ t \in Tag
    BY EventSubject, TagType, FreeHoursAssumption DEF IInv, Fit, Event
  <1>2. /\ j.about = e /\ j.op = o /\ j.tag = t /\ j.after = a
    BY DEF Asking, IdleJob
  <1> HIDE DEF j
  <1>3. pc'[p] = "read" /\ job'[p] = j
    BY EnterOnly DEF j
  <1>4. applied[w][t] = 0
    <2>1. \A q \in Proc : ~Posts(q, w, t)
      BY <1>1, OthersPostNot DEF Posts, Kind
    <2>2. ledger[w][t].rows \in Nat
      BY <1>1 DEF IInv, TypeOK
    <2>3. ledger[w][t].rows = 0
      BY <2>2 DEF HasRow
    <2> QED
      BY <1>1, <2>1, <2>3 DEF OnceInv, Books, BooksOfEvent, Counted
  <1>5. Granting(j) /\ ~Returning(j)
    BY <1>1, <1>2 DEF Granting, Returning
  <1>6. Standing(p)'
    <2>1. ~Returning(job[p])'
      BY <1>3, <1>5 DEF Returning
    <2> QED
      BY <1>2, <1>3, <1>4, <2>1 DEF Standing
  <1>7. Shape(j, "read")
    BY <1>5 DEF Shape
  <1> QED
    BY <1>2, <1>6, <1>7, QuietStep DEF j

LEMMA WebhookOnce ==
    ASSUME IInv, OnceInv, NEW p \in Proc,
           HoursCheck(p) \/ EquipmentCheck(p) \/ PlanWrite(p) \/ ZeroEquipment(p) \/ PlanClear(p)
    PROVE  OnceInv'
  <1>0. Shape(job[p], pc[p])
    BY DEF OnceInv
  <1>1. CASE HoursCheck(p)
    <2>0. pc[p] = "hoursCheck" /\ UNCHANGED <<ledger, row, applied>>
      BY <1>1 DEF HoursCheck, data
    <2>1. CASE Goto(p, "equipmentCheck")
      <3>1. pc'[p] = "equipmentCheck"
        BY <2>1, EnterOnly DEF Goto
      <3>2. Standing(p)'
        BY <3>1 DEF Standing
      <3> QED
        BY <2>0, <2>1, <3>2, GoStep
    <2>2. CASE ~Goto(p, "equipmentCheck")
      <3> DEFINE o == Call("hours", "set", Grant[job[p].about])
      <3>0. o.wallet = "hours" /\ "hours" \in Wallet
        BY DEF Call, Wallet
      <3>1. Enter(p, "read", Asking(p, o, <<"monthly_allocation", job[p].about>>,
                                    "equipmentCheck"))
        BY <1>1, <2>2 DEF HoursCheck
      <3>2. ~HasRow("hours", <<"monthly_allocation", job[p].about>>)
        BY <1>1, <2>2, <3>0 DEF HoursCheck
      <3> HIDE DEF o
      <3> QED
        BY <2>0, <3>0, <3>1, <3>2, GrantOnce
    <2> QED
      BY <2>1, <2>2
  <1>2. CASE EquipmentCheck(p)
    <2>0. pc[p] = "equipmentCheck" /\ UNCHANGED <<ledger, row, applied>>
      BY <1>2 DEF EquipmentCheck, data
    <2>1. CASE Goto(p, "planWrite")
      <3>1. pc'[p] = "planWrite"
        BY <2>1, EnterOnly DEF Goto
      <3>2. Standing(p)'
        BY <3>1 DEF Standing
      <3> QED
        BY <2>0, <2>1, <3>2, GoStep
    <2>2. CASE ~Goto(p, "planWrite")
      <3> DEFINE o == Call("equipment", "add", Dollars[job[p].about])
      <3>0. o.wallet = "equipment" /\ "equipment" \in Wallet
        BY DEF Call, Wallet
      <3>1. Enter(p, "read", Asking(p, o, <<"monthly_allocation", job[p].about>>, "planWrite"))
        BY <1>2, <2>2 DEF EquipmentCheck
      <3>2. ~HasRow("equipment", <<"monthly_allocation", job[p].about>>)
        BY <1>2, <2>2 DEF EquipmentCheck
      <3> HIDE DEF o
      <3> QED
        BY <2>0, <3>0, <3>1, <3>2, GrantOnce
    <2> QED
      BY <2>1, <2>2
  <1>3. CASE PlanWrite(p) \/ PlanClear(p)
    BY <1>3, ReturnStep DEF PlanWrite, PlanClear, Return
  <1>4. CASE ZeroEquipment(p)
    <2>0. pc[p] = "zeroEquipment" /\ UNCHANGED <<ledger, row, applied>>
      BY <1>4 DEF ZeroEquipment, data
    <2>1. job[p].about = Ended /\ Ended \in Event /\ Ended \notin Invoice
      BY <2>0, EventSubject, FreeHoursAssumption DEF IInv, Fit
    <2> DEFINE i == Asking(p, Call("equipment", "set", 0),
                           <<"monthly_allocation", job[p].about>>, "planClear")
               j == [i EXCEPT !.seen = bal["equipment"]]
    <2>2. /\ j.about = Ended /\ j.tag = <<"monthly_allocation", Ended>>
          /\ j.after = "planClear"
      BY <2>1 DEF Asking, IdleJob
    <2>3. Enter(p, "swap", j)
      BY <1>4 DEF ZeroEquipment
    <2> HIDE DEF j
    <2>4. pc'[p] = "swap" /\ job'[p] = j
      BY <2>3, EnterOnly
    <2>5. Granting(j) /\ ~Returning(j)
      BY <2>1, <2>2 DEF Granting, Returning
    <2>6. Standing(p)'
      <3>1. ~Returning(job[p])'
        BY <2>4, <2>5 DEF Returning
      <3> QED
        BY <2>1, <2>2, <2>4, <3>1 DEF Standing
    <2>7. Shape(j, "swap")
      BY <2>5 DEF Shape
    <2> QED
      BY <2>0, <2>1, <2>2, <2>3, <2>6, <2>7, QuietStep
  <1> QED
    BY <1>1, <1>2, <1>3, <1>4

-----------------------------------------------------------------------------
(* The invariant, and the theorems *)

LEMMA InitOnce == Init => OnceInv
  <1> SUFFICES ASSUME Init PROVE OnceInv
    OBVIOUS
  <1>1. \A p \in Proc : pc[p] = "idle" /\ job[p] = IdleJob /\ job[p].about = NoRef
    BY IdleJobType DEF Init
  <1>2. Alone
    BY <1>1 DEF Alone
  <1>3. \A p \in Proc : Shape(job[p], pc[p])
    BY <1>1, IdleStands
  <1>4. \A p \in Proc : Standing(p)
    BY <1>1 DEF Standing
  <1>5. ASSUME NEW w \in Wallet, NEW t \in Tag
        PROVE  Counted(w, t) /\ applied[w][t] = 0 /\ ledger[w][t].net = 0
    BY <1>1 DEF Init, Counted, Posts
  <1>6. ASSUME NEW r \in Res PROVE BooksOfRes(r)
    <2>1. /\ <<"reservation", r>> \in Tag /\ <<"cancelled", r>> \in Tag
          /\ "hours" \in Wallet /\ row[r].due = Unpriced
      BY TagType DEF Wallet, Init
    <2>2. Counted("hours", <<"reservation", r>>) /\ Counted("hours", <<"cancelled", r>>)
      BY <1>5, <2>1
    <2>3. /\ applied["hours"][<<"reservation", r>>] = 0
          /\ applied["hours"][<<"cancelled", r>>] = 0
      BY <1>5, <2>1
    <2> QED
      BY <2>1, <2>2, <2>3 DEF BooksOfRes, Unspent, Priced, Limit
  <1>7. ASSUME NEW e \in Event PROVE BooksOfEvent(e)
    <2>1. <<"monthly_allocation", e>> \in Tag
      BY TagType
    <2> QED
      BY <1>5, <2>1 DEF BooksOfEvent
  <1> QED
    BY <1>2, <1>3, <1>4, <1>6, <1>7 DEF OnceInv, Books

LEMMA StepOnce == Orderly /\ IInv /\ OnceInv /\ [Next]_vars => OnceInv'
  <1> SUFFICES ASSUME Orderly, IInv, OnceInv, [Next]_vars PROVE OnceInv'
    OBVIOUS
  <1>1. ASSUME NEW p \in Proc, Step(p) PROVE OnceInv'
    <2>1. CASE WalletRead(p) \/ WalletSwap(p) \/ WalletDeduct(p) \/ PostEntry(p)
      BY <2>1, ServiceOnce
    <2>2. CASE PriceRead(p) \/ PlanRead(p) \/ BalanceRead(p) \/ MarkPriced(p)
      BY <2>2, CommitOnce
    <2>5. CASE Settling(p)
      BY <2>5, SettleOnce
    <2>3. CASE \/ CancelWrite(p) \/ CancelRefund(p) \/ RefundMark(p)
               \/ BackCheck(p) \/ BackSum(p) \/ BackPlan(p) \/ BackBalance(p)
      BY <2>3, CancelOnce
    <2>4. CASE \/ HoursCheck(p) \/ EquipmentCheck(p) \/ PlanWrite(p)
               \/ ZeroEquipment(p) \/ PlanClear(p)
      BY <2>4, WebhookOnce
    <2> QED
      BY <1>1, <2>1, <2>2, <2>3, <2>4, <2>5 DEF Step, Settling
  <1>2. ASSUME NEW p \in Proc, Request(p) PROVE OnceInv'
    BY <1>2, RequestOnce
  <1>3. ASSUME NEW p \in Proc, Crash(p) PROVE OnceInv'
    BY <1>3 DEF Crash, Orderly
  <1>4. ASSUME NEW p \in Proc, NEW e \in Event, Deliver(p, e) PROVE OnceInv'
    BY <1>4, DeliverOnce
  <1>5. CASE UNCHANGED vars
    <2>1. /\ ledger' = ledger /\ row' = row /\ applied' = applied
          /\ pc' = pc /\ job' = job
      BY <1>5 DEF vars
    <2>2. Alone' /\ \A p \in Proc : Shape(job[p], pc[p])'
      BY <2>1 DEF OnceInv, Alone, Shape, Taking, Returning, Granting, Adjusting
    <2>3. ASSUME NEW p \in Proc PROVE Standing(p)'
      <3>1. Untouched(job[p].about) /\ Standing(p)
        BY <2>1 DEF OnceInv, Untouched, SameEntry, SameRow, Cancelled
      <3> QED
        BY <2>1, <3>1, OthersStand
    <2>4. ASSUME NEW x \in Res \cup Event PROVE Books(x)'
      <3>1. Untouched(x) /\ Books(x)
        BY <2>1 DEF OnceInv, Untouched, SameEntry, SameRow, Cancelled
      <3> QED
        BY <2>1, <3>1, OthersBooks DEF Posts, Spending
    <2> QED
      BY <2>2, <2>3, <2>4 DEF OnceInv
  <1> QED
    BY <1>1, <1>2, <1>3, <1>4, <1>5 DEF Next

\* The invariant behind the four theorems below: as long as requests about one
\* thing follow one another and no isolate dies, a process that is past a guard
\* still finds the ledger as the guard read it, whatever the others do meanwhile.
THEOREM OnceInvariant == Orderly /\ Spec => [](IInv /\ OnceInv)
  <1>1. Orderly /\ Init => IInv /\ OnceInv
    BY InitIInv, InitOnce
  <1>2. Orderly /\ (IInv /\ OnceInv) /\ [Next]_vars => (IInv /\ OnceInv)'
    BY StepIInv, StepOnce
  <1> SUFFICES ASSUME Orderly PROVE Spec => [](IInv /\ OnceInv)
    OBVIOUS
  <1>3. Init => IInv /\ OnceInv
    BY <1>1
  <1>4. (IInv /\ OnceInv) /\ [Next]_vars => (IInv /\ OnceInv)'
    BY <1>2
  <1> QED
    BY <1>3, <1>4, PTL DEF Spec

\* However often a booking is confirmed, paid, comped or settled in cash, its
\* hours are taken from the wallet at most once, and at most once more when it is
\* settled after its cancellation (commitReservationCredits).
THEOREM HoursTakenOnce == Orderly /\ Spec => []SpentOnce
  <1>1. OnceInv => SpentOnce
    BY DEF OnceInv, Books, BooksOfRes, SpentOnce, Limit, Cancelled
  <1> QED
    BY <1>1, OnceInvariant, PTL

\* A cancellation and a refund of the same booking give its hours back at most
\* once between them (reverseReservationCredits).
THEOREM HoursReturnedOnce == Orderly /\ Spec => []ReversedOnce
  <1>1. OnceInv => ReversedOnce
    BY DEF OnceInv, Books, BooksOfRes, ReversedOnce
  <1> QED
    BY <1>1, OnceInvariant, PTL

\* However often Stripe delivers an invoice, it changes each wallet at most once
\* (allocateMonthlyCredits, allocateEquipmentCredits).
THEOREM InvoiceGrantedOnce == Orderly /\ Spec => []GrantedOnce
  <1>1. OnceInv => GrantedOnce
    BY DEF OnceInv, Books, BooksOfEvent, GrantedOnce, Event
  <1> QED
    BY <1>1, OnceInvariant, PTL

\* What a priced booking owes and what the ledger took for it are its price, from
\* the write of cash_due_cents until the rest is paid or waived, and no more than
\* it from then on, until the booking is cancelled.
THEOREM PriceIsOwedOrTaken == Orderly /\ Spec => []PriceMatchesLedger
  <1>1. OnceInv => PriceMatchesLedger
    BY DEF OnceInv, Books, BooksOfRes, Priced, PriceMatchesLedger, Cancelled
  <1> QED
    BY <1>1, OnceInvariant, PTL
-----------------------------------------------------------------------------
(* A cancelled booking's hours come back.                                     *)
(*                                                                            *)
(* What bookings have been lent and not given back is no more than has left   *)
(* the wallet, so a reversal is never cut off at the allocation (WholeInv);   *)
(* and its compare-and-swap fails only for another's write, of which there    *)
(* are fewer than it has tries (PatienceInv).                                 *)

\* The hypothesis: hours are spent and returned, none are granted or given, and
\* the member began with no more than the plan's allocation.  A grant or a gift
\* may leave no room under the allocation, and the reversal returns less.
SpendOnly ==
    /\ Orderly /\ Handlers \cap {"deliver", "add"} = {}
    /\ Opening["hours"] <= OpeningPlan

\* Each request writes the balance once at most.  One has taken the hours, one is
\* to return them, and the others are too few to beat it MaxRetries + 1 times.
FewRequests == arrivals <= MaxRetries + 2

\* What has been written to the wallet for r and not posted, l and j being the
\* labels and the jobs of the processes.
Posters(l, j, r) == {p \in Proc : l[p] = "post" /\ j[p].about = r}
DeltaOf(l, j, r) == IF Posters(l, j, r) = {} THEN 0 ELSE j[One(Posters(l, j, r))].delta

\* The units r has taken from the wallet and not given back.
Lent(r) ==
    CommittedUnits(r) - ledger["hours"][<<"cancelled", r>>].net - DeltaOf(pc, job, r)
LentTable == [r \in Res |-> Lent(r)]

\* A reversal returns all, unless the booking is charged again when it is over,
\* and before anything is taken nothing is lent.
ReturnedWhole(r) ==
    /\ applied["hours"][<<"cancelled", r>>] >= 1 /\ applied["hours"][<<"reservation", r>>] <= 1
          => Lent(r) = 0
    /\ applied["hours"][<<"reservation", r>>] = 0 =>
          Lent(r) = 0 /\ applied["hours"][<<"cancelled", r>>] = 0

\* A request knows what is lent, and sets out to return all of it.
Webhook == {"hoursCheck", "equipmentCheck", "planWrite", "zeroEquipment", "planClear"}
Whole(j, l) ==
    /\ l \notin Webhook /\ j.after \notin Webhook
    /\ l \in {"backPlan", "backBalance"} => j.units = Lent(j.about) /\ j.units > 0
    /\ l = "backBalance" => j.cap = OpeningPlan
    /\ l \in {"read", "swap"} =>
          Returning(j) /\ j.op.kind = "add" /\ j.op.amount = Lent(j.about) /\ j.op.amount > 0
    /\ l = "deduct" => j.op.kind = "deduct"
    /\ l = "post" => ~Granting(j)

WholeInv ==
    /\ plan = OpeningPlan
    /\ \A r \in Res : Lent(r) \in Nat /\ ReturnedWhole(r)
    /\ bal["hours"] + SumFunction(LentTable) <= Opening["hours"]
    /\ \A p \in Proc : Whole(job[p], pc[p])

\* The labels of a request that may still write a balance.
Unwritten ==
    {"price", "plan", "balance", "deduct", "cancelWrite", "cancelRefund", "backCheck",
     "backSum", "backPlan", "backBalance", "read", "swap"}
Yet == [p \in Proc |-> IF pc[p] \in Unwritten THEN 1 ELSE 0]
Writes == SumFunction(applied["hours"])

\* How often p has lost the race for the balance, or is bound to.
Beaten(p) == pc[p] = "swap" /\ bal["hours"] # job[p].seen
Lost(p) == job[p].tries + IF Beaten(p) THEN 1 ELSE 0

\* The labels from which a reversal still gets to its balance write.
Reversing == {"cancelRefund", "backCheck", "backSum", "backPlan", "backBalance", "read", "swap"}
Returns(p, r) == job[p].about = r /\ pc[p] \in Reversing

\* Cancelled, and not settled again since.
Cleared(r) == Cancelled(r) /\ row[r].due = Unpriced

\* The hours of r are back, or on their way, or taken anew, or the reversal has
\* been beaten.
ComesBack(r) ==
    \/ Lent(r) = 0 \/ ~FewRequests
    \/ \E p \in Proc : Returns(p, r) \/ Spending(p, r)

PatienceInv ==
    /\ Writes + SumFunction(Yet) <= arrivals
    /\ \A p \in Proc : pc[p] \in {"read", "swap"} => Lost(p) + 1 <= Writes
    /\ \A r \in Res : Cleared(r) => ComesBack(r)

-----------------------------------------------------------------------------
(* Sums of naturals *)

LEMMA SumNat ==
    ASSUME NEW S, IsFiniteSet(S), NEW f \in [S -> Nat]
    PROVE  SumFunction(f) \in Nat
  <1>1. f \in [S -> Int]
    OBVIOUS
  <1>2. PICK sum : IsSum(sum, f, S) /\ SumFunction(f) = sum[S]
    BY <1>1, SumTable
  <1> DEFINE Bad == {s \in SUBSET S : sum[s] \notin Nat}
  <1>3. Bad = {}
    <2> SUFFICES ASSUME Bad # {} PROVE FALSE
      OBVIOUS
    <2>1. Bad \subseteq SUBSET S
      OBVIOUS
    <2>2. PICK s \in Bad : \A x \in s : s \ {x} \notin Bad
      <3> HIDE DEF Bad
      <3> QED
        BY <2>1, Smallest
    <2>3. s \in SUBSET S /\ sum[s] \notin Nat
      BY <2>2
    <2>4. s # {}
      <3>1. sum[{}] \in Nat
        BY <1>2 DEF IsSum
      <3> QED
        BY <2>3, <3>1
    <2>5. PICK c \in s : c = One(s)
      BY <2>4 DEF One
    <2>6. sum[s] = f[c] + sum[s \ {c}] /\ sum[s \ {c}] \in Nat /\ f[c] \in Nat
      BY <1>2, <2>2, <2>3, <2>4, <2>5 DEF IsSum
    <2> QED
      BY <2>3, <2>6
  <1> QED
    BY <1>2, <1>3

\* No term is more than the sum.
LEMMA SumAtLeast ==
    ASSUME NEW S, IsFiniteSet(S), NEW f \in [S -> Nat], NEW t \in S
    PROVE  f[t] <= SumFunction(f)
  <1>1. PICK g : g = [f EXCEPT ![t] = 0]
    OBVIOUS
  <1>2. /\ f \in [S -> Int] /\ g \in [S -> Int] /\ g \in [S -> Nat]
        /\ \A x \in S \ {t} : g[x] = f[x]
    BY <1>1
  <1>3. SumFunction(g) = SumFunction(f) + g[t] - f[t]
    BY <1>2, SumChange
  <1>4. SumFunction(g) \in Nat /\ SumFunction(f) \in Nat /\ g[t] = 0 /\ f[t] \in Nat
    BY <1>1, <1>2, SumNat
  <1> QED
    BY <1>3, <1>4

-----------------------------------------------------------------------------
(* What a booking has been lent *)

LEMMA DeltaMine ==
    ASSUME NEW l, NEW j, NEW r, NEW p \in Proc, l[p] = "post", j[p].about = r,
           \A q \in Proc \ {p} : j[q].about # r
    PROVE  DeltaOf(l, j, r) = j[p].delta
  <1>1. Posters(l, j, r) = {p}
    BY DEF Posters
  <1>2. One({p}) = p
    BY DEF One
  <1> QED
    BY <1>1, <1>2 DEF DeltaOf

LEMMA DeltaNone ==
    ASSUME NEW l, NEW j, NEW r, \A q \in Proc : l[q] = "post" => j[q].about # r
    PROVE  DeltaOf(l, j, r) = 0
  BY DEF DeltaOf, Posters

\* A step of p that is not about to post for y, before or after, changes nothing for it.
LEMMA DeltaSame ==
    ASSUME IInv, NEW p \in Proc, NEW l, NEW j, Enter(p, l, j), NEW y,
           pc[p] # "post" \/ job[p].about # y, l # "post" \/ j.about # y
    PROVE  DeltaOf(pc', job', y) = DeltaOf(pc, job, y)
  <1>1. /\ pc'[p] = l /\ job'[p] = j
        /\ \A q \in Proc \ {p} : pc'[q] = pc[q] /\ job'[q] = job[q]
    BY EnterOnly
  <1>2. PICK s : s = Posters(pc, job, y) /\ s = Posters(pc', job', y)
    BY <1>1 DEF Posters
  <1>3. CASE s = {}
    BY <1>2, <1>3 DEF DeltaOf
  <1>4. CASE s # {}
    <2>1. One(s) \in s
      BY <1>4 DEF One
    <2>2. One(s) \in Proc \ {p}
      BY <1>2, <2>1 DEF Posters
    <2>3. job'[One(s)] = job[One(s)]
      BY <1>1, <2>2
    <2> QED
      BY <1>2, <1>4, <2>3 DEF DeltaOf
  <1> QED
    BY <1>3, <1>4

\* What the ledger says r has taken and not been given back.
Owed(r) == CommittedUnits(r) - ledger["hours"][<<"cancelled", r>>].net

LEMMA LentIs ==
    ASSUME IInv, OnceInv, NEW r \in Res, NEW p \in Proc, job[p].about = r
    PROVE  /\ Owed(r) \in Int /\ job[p].delta \in Int
           /\ Lent(r) = Owed(r) - IF pc[p] = "post" THEN job[p].delta ELSE 0
  <1>1. Owed(r) \in Int
    BY TagType DEF Owed, CommittedUnits, IInv, TypeOK, Wallet
  <1>2. job[p].delta \in Int
    BY JobFit DEF JobSpace
  <1>3. \A q \in Proc \ {p} : job[q].about # r
    BY OnlyOne, FreeHoursAssumption
  <1>4. CASE pc[p] = "post"
    BY <1>1, <1>2, <1>3, <1>4, DeltaMine DEF Lent, Owed
  <1>5. CASE pc[p] # "post"
    <2>1. \A q \in Proc : pc[q] = "post" => job[q].about # r
      BY <1>3, <1>5
    <2>2. DeltaOf(pc, job, r) = 0
      BY <2>1, DeltaNone
    <2> QED
      BY <1>1, <1>2, <1>5, <2>2 DEF Lent, Owed
  <1> QED
    BY <1>1, <1>2, <1>4, <1>5

\* And after a step of p, which is about r before it or after it.
LEMMA LentBecomes ==
    ASSUME IInv, IInv', OnceInv', NEW r \in Res, NEW p \in Proc, NEW l, NEW j, Enter(p, l, j),
           j.about = r \/ (j.about = NoRef /\ \A q \in Proc \ {p} : job[q].about # r)
    PROVE  /\ Owed(r)' \in Int
           /\ Lent(r)' = Owed(r)' - IF l = "post" /\ j.about = r THEN j.delta ELSE 0
  <1>0. r # NoRef
    BY FreeHoursAssumption
  <1>1. Owed(r)' \in Int
    BY TagType DEF Owed, CommittedUnits, IInv, TypeOK, Wallet
  <1>2. /\ pc'[p] = l /\ job'[p] = j
        /\ \A q \in Proc \ {p} : pc'[q] = pc[q] /\ job'[q] = job[q]
    BY EnterOnly
  <1>3. j.delta \in Int
    BY <1>2 DEF IInv, TypeOK, JobSpace
  <1>4. \A q \in Proc \ {p} : job'[q].about # r
    BY <1>0, <1>2 DEF OnceInv, Alone
  <1>5. Lent(r)' = Owed(r)' - DeltaOf(pc', job', r)
    BY DEF Lent, Owed
  <1>6. CASE l = "post" /\ j.about = r
    <2>1. DeltaOf(pc', job', r) = job'[p].delta
      BY <1>2, <1>4, <1>6, DeltaMine
    <2> QED
      BY <1>1, <1>2, <1>3, <1>5, <1>6, <2>1
  <1>7. CASE ~(l = "post" /\ j.about = r)
    <2>1. \A q \in Proc : pc'[q] = "post" => job'[q].about # r
      BY <1>2, <1>4, <1>7
    <2>2. DeltaOf(pc', job', r) = 0
      BY <2>1, DeltaNone
    <2> QED
      BY <1>1, <1>5, <1>7, <2>2
  <1> QED
    BY <1>1, <1>6, <1>7

-----------------------------------------------------------------------------
(* What is lent, when one process moves *)

SameAccounts(r) ==
    SameEntry("hours", <<"reservation", r>>) /\ SameEntry("hours", <<"cancelled", r>>)

LEMMA LentSame ==
    ASSUME IInv, NEW p \in Proc, NEW l, NEW j, Enter(p, l, j), NEW y,
           pc[p] # "post" \/ job[p].about # y, l # "post" \/ j.about # y, SameAccounts(y)
    PROVE  /\ Lent(y)' = Lent(y) /\ ReturnedWhole(y)' = ReturnedWhole(y)
  <1>1. DeltaOf(pc', job', y) = DeltaOf(pc, job, y)
    BY DeltaSame
  <1>2. Lent(y)' = Lent(y)
    BY <1>1 DEF Lent, CommittedUnits, SameAccounts, SameEntry
  <1> QED
    BY <1>2 DEF ReturnedWhole, SameAccounts, SameEntry

\* A reversal that works with what r has been lent is about a booking.
LEMMA LenderIsRes ==
    ASSUME IInv, NEW q \in Proc, Whole(job[q], pc[q]),
           pc[q] \in {"backPlan", "backBalance", "read", "swap"}
    PROVE  job[q].about \in Res
  <1>1. Fit(job[q], pc[q])
    BY DEF IInv
  <1> QED
    BY <1>1 DEF Fit, Subject, Whole, Returning

\* A step of p about x: what is to be shown is what becomes of x and of p.
LEMMA WholeMoves ==
    ASSUME IInv, Finite, WholeInv, NEW p \in Proc, NEW l, NEW j, Enter(p, l, j), NEW x,
           IInv', job[p].about \in {x, NoRef}, j.about \in {x, NoRef},
           x # NoRef => \A q \in Proc \ {p} : job[q].about # x,
           \A y \in Res \ {x} : SameAccounts(y), UNCHANGED plan, Whole(j, l)',
           x \in Res => /\ Lent(x)' \in Nat /\ ReturnedWhole(x)'
                        /\ bal'["hours"] + Lent(x)' <= bal["hours"] + Lent(x),
           x \notin Res => bal'["hours"] <= bal["hours"]
    PROVE  WholeInv'
  <1>1. /\ pc'[p] = l /\ job'[p] = j
        /\ \A q \in Proc \ {p} : pc'[q] = pc[q] /\ job'[q] = job[q]
    BY EnterOnly
  <1>2. ASSUME NEW y \in Res \ {x}
        PROVE  Lent(y)' = Lent(y) /\ ReturnedWhole(y)' = ReturnedWhole(y)
    <2>1. job[p].about # y /\ j.about # y
      BY FreeHoursAssumption
    <2> QED
      BY <2>1, LentSame
  <1>3. \A r \in Res : Lent(r)' \in Nat /\ ReturnedWhole(r)'
    BY <1>2 DEF WholeInv
  <1>4. ASSUME NEW q \in Proc PROVE Whole(job[q], pc[q])'
    <2>1. CASE q = p
      BY <1>1, <2>1 DEF Whole, Returning, Granting
    <2>2. CASE q # p
      <3>1. Whole(job[q], pc[q]) /\ pc'[q] = pc[q] /\ job'[q] = job[q]
        BY <1>1, <2>2 DEF WholeInv
      <3>2. pc[q] \in {"backPlan", "backBalance", "read", "swap"}
              => Lent(job[q].about)' = Lent(job[q].about)
        <4> SUFFICES ASSUME pc[q] \in {"backPlan", "backBalance", "read", "swap"}
                     PROVE  Lent(job[q].about)' = Lent(job[q].about)
          OBVIOUS
        <4>1. job[q].about \in Res \ {x}
          BY <2>2, <3>1, LenderIsRes, FreeHoursAssumption
        <4>2. PICK z \in Res \ {x} : z = job[q].about
          BY <4>1
        <4>3. Lent(z)' = Lent(z)
          BY <1>2
        <4>4. Lent(job[q].about)' = Lent(z)'
          BY <3>1, <4>2 DEF Lent, CommittedUnits
        <4> QED
          BY <4>2, <4>3, <4>4
      <3> QED
        BY <3>1, <3>2 DEF Whole, Returning, Granting, Webhook
    <2> QED
      BY <2>1, <2>2
  <1>5. bal'["hours"] + SumFunction(LentTable') <= Opening["hours"]
    <2>1. PICK f, g : f = LentTable /\ g = LentTable'
      OBVIOUS
    <2>2. /\ f \in [Res -> Nat] /\ g \in [Res -> Nat]
          /\ \A r \in Res : f[r] = Lent(r) /\ g[r] = Lent(r)'
      BY <1>3, <2>1 DEF WholeInv, LentTable
    <2>3. f \in [Res -> Int] /\ g \in [Res -> Int]
      BY <2>2
    <2>4. SumFunction(f) \in Nat /\ SumFunction(g) \in Nat
      BY <2>2, SumNat DEF Finite
    <2>5. bal["hours"] \in Nat /\ bal'["hours"] \in Nat /\ Opening["hours"] \in Nat
      BY FreeHoursAssumption DEF IInv, TypeOK, Wallet
    <2>6. bal["hours"] + SumFunction(f) <= Opening["hours"]
      BY <2>1 DEF WholeInv
    <2>7. CASE x \in Res
      <3>1. \A r \in Res \ {x} : g[r] = f[r]
        BY <1>2, <2>2
      <3>2. SumFunction(g) = SumFunction(f) + g[x] - f[x]
        BY <2>3, <2>7, <3>1, SumChange DEF Finite
      <3>3. bal'["hours"] + g[x] <= bal["hours"] + f[x] /\ f[x] \in Nat /\ g[x] \in Nat
        BY <2>2, <2>7
      <3> QED
        BY <2>1, <2>4, <2>5, <2>6, <3>2, <3>3
    <2>8. CASE x \notin Res
      <3>1. f = g
        BY <1>2, <2>1, <2>8 DEF LentTable
      <3> QED
        BY <2>1, <2>4, <2>5, <2>6, <2>8, <3>1
    <2> QED
      BY <2>7, <2>8
  <1>6. plan' = OpeningPlan
    BY DEF WholeInv
  <1> QED
    BY <1>3, <1>4, <1>5, <1>6 DEF WholeInv

-----------------------------------------------------------------------------
(* The race for the balance, when one process moves *)

\* Whether a process at label l may still write.
May(l) == IF l \in Unwritten THEN 1 ELSE 0

LEMMA WritesType ==
    ASSUME IInv, Finite
    PROVE  /\ Writes \in Nat /\ SumFunction(Yet) \in Nat
           /\ \A t \in Tag : applied["hours"][t] <= Writes
           /\ \A p \in Proc : May(pc[p]) <= SumFunction(Yet)
  <1>1. PICK f : f = applied["hours"] /\ f \in [Tag -> Nat]
    BY DEF IInv, TypeOK, Wallet
  <1>2. SumFunction(f) \in Nat /\ \A t \in Tag : f[t] <= SumFunction(f)
    BY <1>1, FiniteTag, SumNat, SumAtLeast
  <1>3. PICK g : g = Yet /\ g \in [Proc -> Nat] /\ \A p \in Proc : g[p] = May(pc[p])
    <2>1. Yet \in [Proc -> Nat] /\ \A p \in Proc : Yet[p] = May(pc[p])
      BY DEF Yet, May
    <2> QED
      BY <2>1
  <1>4. SumFunction(g) \in Nat /\ \A p \in Proc : g[p] <= SumFunction(g)
    BY <1>3, SumNat, SumAtLeast DEF Finite
  <1> QED
    BY <1>1, <1>2, <1>3, <1>4 DEF Writes

\* A process that is to write does so once.
LEMMA YetMoves ==
    ASSUME IInv, Finite, NEW p \in Proc, NEW l, NEW j, Enter(p, l, j)
    PROVE  SumFunction(Yet)' = SumFunction(Yet) + May(l) - May(pc[p])
  <1>1. /\ pc'[p] = l /\ job'[p] = j
        /\ \A q \in Proc \ {p} : pc'[q] = pc[q] /\ job'[q] = job[q]
    BY EnterOnly
  <1>2. PICK f, g : f = Yet /\ g = Yet'
    OBVIOUS
  <1>3. /\ f \in [Proc -> Int] /\ g \in [Proc -> Int]
        /\ \A q \in Proc \ {p} : g[q] = f[q]
        /\ f[p] = May(pc[p]) /\ g[p] = May(l)
    BY <1>1, <1>2 DEF Yet, May
  <1>4. SumFunction(g) = SumFunction(f) + g[p] - f[p]
    BY <1>3, SumChange DEF Finite
  <1> QED
    BY <1>2, <1>3, <1>4

\* One write more of the hours.
LEMMA WritesUp ==
    ASSUME IInv, IInv', Finite, NEW w \in Wallet, NEW t \in Tag, AppliedUp(w, t)
    PROVE  /\ w = "hours" => Writes' = Writes + 1
           /\ w # "hours" => Writes' = Writes
  <1>1. PICK f, g : f = applied["hours"] /\ g = applied'["hours"]
    OBVIOUS
  <1>2. f \in [Tag -> Int] /\ g \in [Tag -> Int]
    BY <1>1 DEF IInv, TypeOK, Wallet
  <1>3. /\ applied'[w][t] = applied[w][t] + 1
        /\ \A v \in Wallet, s \in Tag : v # w \/ s # t => applied'[v][s] = applied[v][s]
    BY AppliedOne
  <1>4. CASE w = "hours"
    <2>1. g[t] = f[t] + 1 /\ \A s \in Tag \ {t} : g[s] = f[s]
      BY <1>1, <1>3, <1>4 DEF Wallet
    <2>2. SumFunction(g) = SumFunction(f) + g[t] - f[t]
      BY <1>2, <2>1, FiniteTag, SumChange
    <2>3. SumFunction(f) \in Int /\ f[t] \in Int
      BY <1>2, FiniteTag, SumType
    <2>4. SumFunction(g) = SumFunction(f) + 1
      BY <2>1, <2>2, <2>3
    <2> QED
      BY <1>1, <1>4, <2>4 DEF Writes
  <1>5. CASE w # "hours"
    <2>1. \A s \in Tag : g[s] = f[s]
      BY <1>1, <1>3, <1>5 DEF Wallet
    <2>2. f = g
      BY <1>2, <2>1
    <2> QED
      BY <1>1, <1>5, <2>2 DEF Writes
  <1> QED
    BY <1>4, <1>5

\* A cancelled booking that p is about and does not return has nothing lent.
LEMMA NoneReturns ==
    ASSUME PatienceInv, NEW p \in Proc, NEW x \in Res,
           pc[p] \notin Reversing \cup {"post", "mark"},
           \A q \in Proc \ {p} : job[q].about # x, Cleared(x), FewRequests
    PROVE  Lent(x) = 0
  BY DEF PatienceInv, ComesBack, Returns, Spending

LEMMA PatienceMoves ==
    ASSUME IInv, IInv', Finite, WholeInv, PatienceInv, NEW p \in Proc, NEW l, NEW j,
           Enter(p, l, j), NEW x, job[p].about \in {x, NoRef}, j.about \in {x, NoRef},
           x # NoRef => \A q \in Proc \ {p} : job[q].about # x,
           \A y \in Res \ {x} : SameAccounts(y) /\ row'[y] = row[y],
           arrivals <= arrivals', Writes' + May(l) - May(pc[p]) <= Writes + arrivals' - arrivals,
           Writes' = Writes + 1 \/ (Writes' = Writes /\ bal'["hours"] = bal["hours"]),
           l \in {"read", "swap"} => Lost(p)' + 1 <= Writes',
           x \in Res /\ Cleared(x)' /\ FewRequests'
               => Lent(x)' = 0 \/ (j.about = x /\ l \in Reversing) \/ Spending(p, x)'
    PROVE  PatienceInv'
  <1>1. /\ pc'[p] = l /\ job'[p] = j
        /\ \A q \in Proc \ {p} : pc'[q] = pc[q] /\ job'[q] = job[q]
    BY EnterOnly
  <1>2. /\ arrivals \in Nat /\ arrivals' \in Nat /\ Writes \in Nat /\ SumFunction(Yet) \in Nat
        /\ May(l) \in Nat /\ May(pc[p]) \in Nat
    BY WritesType DEF IInv, TypeOK, May
  <1>3. Writes' + SumFunction(Yet)' <= arrivals'
    <2>1. Writes' \in Nat
      BY <1>2
    <2>2. SumFunction(Yet)' = SumFunction(Yet) + May(l) - May(pc[p])
      BY YetMoves
    <2>3. Writes + SumFunction(Yet) <= arrivals
      BY DEF PatienceInv
    <2> QED
      BY <1>2, <2>1, <2>2, <2>3
  <1>4. ASSUME NEW q \in Proc, pc'[q] \in {"read", "swap"} PROVE Lost(q)' + 1 <= Writes'
    <2>1. CASE q = p
      BY <1>1, <1>4, <2>1
    <2>2. CASE q # p
      <3>1. pc'[q] = pc[q] /\ job'[q] = job[q]
        BY <1>1, <2>2
      <3>2. Lost(q) + 1 <= Writes
        BY <1>4, <3>1 DEF PatienceInv
      <3>3. job[q].tries \in Nat
        BY JobFit DEF JobSpace
      <3>4. Writes' = Writes => Lost(q)' = Lost(q)
        BY <1>2, <3>1 DEF Lost, Beaten
      <3>5. Lost(q)' <= Lost(q) + 1 /\ Lost(q) \in Nat /\ Lost(q)' \in Nat
        BY <3>1, <3>3 DEF Lost, Beaten
      <3> QED
        BY <1>2, <3>2, <3>4, <3>5
    <2> QED
      BY <2>1, <2>2
  <1>5. FewRequests' => FewRequests
    BY <1>2, FreeHoursAssumption DEF FewRequests
  <1>6. ASSUME NEW r \in Res, Cleared(r)', FewRequests' PROVE ComesBack(r)'
    <2>1. CASE r = x
      <3>1. j.about = x /\ l \in Reversing => Returns(p, r)'
        BY <1>1, <2>1 DEF Returns
      <3>2. Spending(p, x)' => Spending(p, r)'
        BY <2>1
      <3> QED
        BY <1>6, <2>1, <3>1, <3>2 DEF ComesBack
    <2>2. CASE r # x
      <3>1. job[p].about # r /\ j.about # r
        BY <2>2, FreeHoursAssumption
      <3>2. Lent(r)' = Lent(r)
        BY <2>2, <3>1, LentSame
      <3>3. ASSUME NEW q \in Proc, Returns(q, r) \/ Spending(q, r)
            PROVE  (Returns(q, r) \/ Spending(q, r))'
        BY <1>1, <3>1, <3>3 DEF Returns, Spending
      <3>4. Cleared(r)
        BY <1>6, <2>2 DEF Cleared, Cancelled
      <3> QED
        BY <1>5, <1>6, <3>2, <3>3, <3>4 DEF PatienceInv, ComesBack
    <2> QED
      BY <2>1, <2>2
  <1>7. \A r \in Res : Cleared(r)' => ComesBack(r)'
    BY <1>6 DEF ComesBack
  <1> QED
    BY <1>3, <1>4, <1>7 DEF PatienceInv

\* A statement of p that writes no balance and inserts no row.
LEMMA QuietKeeps ==
    ASSUME IInv, IInv', Finite, WholeInv, NEW p \in Proc, NEW l, NEW j, Enter(p, l, j), NEW x,
           job[p].about \in {x, NoRef}, j.about \in {x, NoRef},
           x # NoRef => \A q \in Proc \ {p} : job[q].about # x,
           UNCHANGED <<bal, plan, ledger, applied>>, pc[p] # "post", l # "post",
           \A y \in Res \ {x} : row'[y] = row[y], Whole(j, l),
           \/ arrivals' = arrivals + 1
           \/ arrivals' = arrivals /\ (l \in Unwritten => pc[p] \in Unwritten),
           PatienceInv /\ l \in {"read", "swap"} => Lost(p)' + 1 <= Writes,
           x \in Res /\ Cleared(x)' /\ PatienceInv /\ FewRequests =>
               \/ (j.about = x /\ l \in Reversing) \/ Lent(x) = 0
               \/ (Cleared(x) /\ pc[p] \notin Reversing \cup {"mark"})
    PROVE  WholeInv' /\ (PatienceInv => PatienceInv')
  <1>1. ASSUME NEW y PROVE SameAccounts(y)
    BY DEF SameAccounts, SameEntry
  <1>2. ASSUME NEW y PROVE Lent(y)' = Lent(y) /\ ReturnedWhole(y)' = ReturnedWhole(y)
    BY <1>1, LentSame
  <1>3. x \in Res => /\ Lent(x)' \in Nat /\ ReturnedWhole(x)'
                     /\ bal'["hours"] + Lent(x)' <= bal["hours"] + Lent(x)
    <2>1. bal["hours"] \in Nat
      BY DEF IInv, TypeOK, Wallet
    <2> QED
      BY <1>2, <2>1 DEF WholeInv
  <1>4. bal'["hours"] <= bal["hours"]
    BY DEF IInv, TypeOK, Wallet
  <1>5. Whole(j, l)'
    <2>1. Lent(j.about)' = Lent(j.about)
      BY <1>2
    <2> QED
      BY <2>1 DEF Whole, Returning, Granting
  <1>6. WholeInv'
    BY <1>1, <1>3, <1>4, <1>5, WholeMoves
  <1>7. ASSUME PatienceInv PROVE PatienceInv'
    <2>1. Writes' = Writes /\ Writes \in Nat /\ arrivals \in Nat
      BY WritesType DEF Writes, IInv, TypeOK
    <2>2. /\ arrivals <= arrivals'
          /\ Writes' + May(l) - May(pc[p]) <= Writes + arrivals' - arrivals
      BY <2>1 DEF May
    <2>3. FewRequests' => FewRequests
      BY <2>1, <2>2, FreeHoursAssumption DEF FewRequests, IInv, TypeOK
    <2>4. x \in Res => x # NoRef
      BY FreeHoursAssumption
    <2>5. x \in Res /\ Cleared(x)' /\ FewRequests'
            => Lent(x)' = 0 \/ (j.about = x /\ l \in Reversing)
      BY <1>2, <1>7, <2>3, <2>4, NoneReturns
    <2>6. l \in {"read", "swap"} => Lost(p)' + 1 <= Writes'
      BY <1>7, <2>1
    <2> QED
      BY <1>1, <1>7, <2>1, <2>2, <2>5, <2>6, PatienceMoves
  <1> QED
    BY <1>6, <1>7

\* A step that leaves the wallet and the processes alone.
LEMMA StillKeeps ==
    ASSUME IInv, IInv', Finite, WholeInv, UNCHANGED <<bal, plan, ledger, applied, pc, job>>,
           arrivals <= arrivals', \A r \in Res : Cleared(r)' => Cleared(r)
    PROVE  WholeInv' /\ (PatienceInv => PatienceInv')
  <1>1. /\ bal' = bal /\ plan' = plan /\ ledger' = ledger
        /\ applied' = applied /\ pc' = pc /\ job' = job
    OBVIOUS
  <1>2. \A r : Lent(r)' = Lent(r) /\ ReturnedWhole(r)' = ReturnedWhole(r)
    BY <1>1 DEF Lent, CommittedUnits, DeltaOf, Posters, ReturnedWhole
  <1>3. LentTable' = LentTable
    BY <1>2 DEF LentTable
  <1>4. \A p \in Proc : Whole(job[p], pc[p])' = Whole(job[p], pc[p])
    <2> SUFFICES ASSUME NEW p \in Proc
                 PROVE  Whole(job[p], pc[p])' = Whole(job[p], pc[p])
      OBVIOUS
    <2>1. Lent(job[p].about)' = Lent(job[p].about)
      BY <1>1 DEF Lent, CommittedUnits, DeltaOf, Posters
    <2> QED
      BY <1>1, <2>1 DEF Whole, Returning, Granting
  <1>5. WholeInv'
    BY <1>1, <1>2, <1>3, <1>4 DEF WholeInv
  <1>6. ASSUME PatienceInv PROVE PatienceInv'
    <2>1. Writes' = Writes /\ Yet' = Yet
      BY <1>1 DEF Writes, Yet
    <2>2. \A p \in Proc : Lost(p)' = Lost(p)
      BY <1>1 DEF Lost, Beaten
    <2>3. FewRequests' => FewRequests
      BY FreeHoursAssumption DEF FewRequests, IInv, TypeOK
    <2>4. \A r \in Res : ComesBack(r) => ComesBack(r)'
      BY <1>1, <1>2, <2>3 DEF ComesBack, Returns, Spending
    <2>5. Writes' + SumFunction(Yet)' <= arrivals'
      <3>1. /\ Writes \in Nat /\ SumFunction(Yet) \in Nat
            /\ arrivals \in Nat /\ arrivals' \in Nat
        BY <1>6, WritesType DEF IInv, TypeOK
      <3> QED
        BY <1>6, <2>1, <3>1 DEF PatienceInv
    <2>6. ASSUME NEW p \in Proc, pc'[p] \in {"read", "swap"} PROVE Lost(p)' + 1 <= Writes'
      BY <1>1, <1>6, <2>1, <2>2, <2>6 DEF PatienceInv
    <2> QED
      BY <1>6, <2>4, <2>5, <2>6 DEF PatienceInv
  <1> QED
    BY <1>5, <1>6

LEMMA CommitKeeps ==
    ASSUME IInv, IInv', OnceInv, Finite, WholeInv, NEW p \in Proc,
           PriceRead(p) \/ PlanRead(p) \/ BalanceRead(p) \/ MarkPriced(p)
    PROVE  WholeInv' /\ (PatienceInv => PatienceInv')
  <1>0. PICK r : r = job[p].about
    OBVIOUS
  <1>1. /\ r \in Res /\ r # NoRef /\ job[p] \in JobSpace /\ Whole(job[p], pc[p])
        /\ \A q \in Proc \ {p} : job[q].about # r
    <2>1. r \in Res
      BY <1>0, AboutRes DEF PriceRead, PlanRead, BalanceRead, MarkPriced
    <2> QED
      BY <1>0, <2>1, JobFit, OnlyOne, FreeHoursAssumption DEF WholeInv
  <1>2. /\ pc[p] \in {"price", "plan", "balance", "mark"}
        /\ UNCHANGED <<bal, plan, ledger, applied, arrivals>>
    BY DEF PriceRead, PlanRead, BalanceRead, MarkPriced, data
  <1>3. /\ \A y \in Res \ {r} : row'[y] = row[y]
        /\ Cleared(r)' => Cleared(r) /\ pc[p] # "mark"
    <2>1. CASE UNCHANGED row /\ pc[p] # "mark"
      BY <2>1 DEF Cleared, Cancelled
    <2>2. CASE MarkPriced(p)
      <3>1. job[p].due \in Nat
        BY <2>2 DEF MarkPriced, OnceInv, Standing, Owing
      <3>2. row'[r].due = job[p].due /\ \A y \in Res \ {r} : row'[y] = row[y]
        BY <1>0, <1>1, <2>2, RowParts DEF MarkPriced
      <3>3. row'[r].due # Unpriced
        BY <3>1, <3>2 DEF Unpriced
      <3> QED
        BY <3>2, <3>3 DEF Cleared
    <2> QED
      BY <1>0, <2>1, <2>2 DEF PriceRead, PlanRead, BalanceRead, data
  <1>4. ASSUME NEW l, NEW j, Enter(p, l, j), j.about \in {r, NoRef}, Whole(j, l),
               l \in {"plan", "balance", "deduct", "mark", "settle"},
               l \in Unwritten => pc[p] \in {"price", "plan", "balance"}
        PROVE  WholeInv' /\ (PatienceInv => PatienceInv')
    <2>1. l \in Unwritten => pc[p] \in Unwritten
      BY <1>4 DEF Unwritten
    <2>2. Cleared(r)' => Cleared(r) /\ pc[p] \notin Reversing \cup {"mark"}
      BY <1>2, <1>3 DEF Reversing
    <2> QED
      BY <1>0, <1>1, <1>2, <1>3, <1>4, <2>1, <2>2, QuietKeeps
  <1>5. ASSUME NEW j, j.after = job[p].after, NEW l \in {"plan", "balance", "mark", "settle"}
        PROVE  Whole(j, l)
    BY <1>1, <1>5 DEF Whole, Webhook
  <1>6. CASE PriceRead(p)
    <2>1. PICK l \in {"plan", "settle"}, n \in {job[p].due, row[r].due} :
             Enter(p, l, [job[p] EXCEPT !.due = n])
      <3>1. [job[p] EXCEPT !.due = job[p].due] = job[p]
        BY <1>1 DEF JobSpace
      <3> QED
        BY <1>0, <1>6, <3>1 DEF PriceRead, Goto
    <2>2. PICK j : j = [job[p] EXCEPT !.due = n]
      OBVIOUS
    <2>3. j.about = r /\ j.after = job[p].after
      BY <1>0, <1>1, <2>2 DEF JobSpace
    <2> QED
      BY <1>4, <1>5, <1>6, <2>1, <2>2, <2>3 DEF PriceRead
  <1>7. CASE PlanRead(p)
    <2>1. PICK j : j = [job[p] EXCEPT !.cap = IF plan = NoPlan THEN 0 ELSE Need[r]]
      OBVIOUS
    <2>2. j.about = r /\ j.after = job[p].after /\ Enter(p, "balance", j)
      BY <1>0, <1>1, <1>7, <2>1 DEF JobSpace, PlanRead
    <2> QED
      BY <1>4, <1>5, <1>7, <2>2 DEF PlanRead
  <1>8. CASE BalanceRead(p)
    <2>1. PICK units : units = Smaller(bal["hours"], job[p].cap)
      OBVIOUS
    <2>2. CASE units > 0
      <3>1. PICK o, i, j : /\ o = Call("hours", "deduct", units)
                           /\ i = Asking(p, o, <<"reservation", r>>, "mark")
                           /\ j = [i EXCEPT !.due = Need[r] - units]
        OBVIOUS
      <3>2. /\ i.about = r /\ i.after = "mark" /\ i.op = o
            /\ j.about = r /\ j.after = "mark" /\ j.op = o
        BY <1>0, <3>1 DEF Asking, IdleJob
      <3>3. o.kind = "deduct"
        BY <3>1 DEF Call
      <3>4. Enter(p, "deduct", j)
        BY <1>0, <1>8, <2>1, <2>2, <3>1 DEF BalanceRead
      <3>5. Whole(j, "deduct")
        BY <3>2, <3>3 DEF Whole, Webhook
      <3> QED
        BY <1>4, <1>8, <3>2, <3>4, <3>5 DEF BalanceRead
    <2>3. CASE ~(units > 0)
      <3>1. PICK j : j = [job[p] EXCEPT !.cap = 0, !.due = Need[r]]
        OBVIOUS
      <3>2. j.about = r /\ j.after = job[p].after
        BY <1>0, <1>1, <3>1 DEF JobSpace
      <3>3. Enter(p, "mark", j)
        BY <1>0, <1>8, <2>1, <2>3, <3>1 DEF BalanceRead
      <3> QED
        BY <1>4, <1>5, <3>2, <3>3 DEF Unwritten
    <2> QED
      BY <2>2, <2>3
  <1>9. CASE MarkPriced(p)
    <2>1. Enter(p, "settle", job[p])
      BY <1>9 DEF MarkPriced, Goto
    <2> QED
      BY <1>0, <1>4, <1>5, <2>1 DEF Unwritten
  <1> QED
    BY <1>6, <1>7, <1>8, <1>9

\* A settling statement touches no wallet, and clears no booking.
LEMMA SettleKeeps ==
    ASSUME IInv, IInv', OnceInv, Finite, WholeInv, NEW p \in Proc, Settling(p)
    PROVE  WholeInv' /\ (PatienceInv => PatienceInv')
  <1>0. PICK r : r = job[p].about
    OBVIOUS
  <1>1. /\ pc[p] \in {"settle", "takeCash", "complete", "cardWrite", "compConfirm", "compWrite"}
        /\ UNCHANGED <<bal, plan, ledger, applied, arrivals>>
    BY DEF Settling, SettleCovered, SettleOwing, TakeCash, Complete, CardWrite, CompConfirm,
           CompWrite, data
  <1>2. /\ r \in Res /\ r # NoRef /\ job[p] \in JobSpace /\ Whole(job[p], pc[p])
        /\ \A q \in Proc \ {p} : job[q].about # r
    <2>1. r \in Res
      BY <1>0, <1>1, AboutRes
    <2> QED
      BY <1>0, <2>1, JobFit, OnlyOne, FreeHoursAssumption DEF WholeInv
  <1>3. /\ \A y \in Res \ {r} : row'[y] = row[y]
        /\ Cleared(r)' => Cleared(r)
    <2>1. row \in [Res -> RowSpace] /\ row[r] \in RowSpace
      BY <1>2 DEF IInv, TypeOK
    <2>2. SettledRow(r)
      BY <1>0, SettlingMoves
    <2>3. CASE UNCHANGED row
      BY <2>3 DEF Cleared, Cancelled
    <2>4. CASE \E b \in BOOLEAN :
                  row' = [row EXCEPT ![r].status = "confirmed", ![r].due = 0, ![r].record = b]
      <3>1. PICK b \in BOOLEAN :
               row' = [row EXCEPT ![r].status = "confirmed", ![r].due = 0, ![r].record = b]
        BY <2>4
      <3>2. row'[r] = [row[r] EXCEPT !.status = "confirmed", !.due = 0, !.record = b]
        BY <1>2, <2>1, <3>1
      <3>3. row'[r].status = "confirmed"
        BY <2>1, <3>2 DEF RowSpace
      <3> QED
        BY <2>1, <3>1, <3>3 DEF Cleared, Cancelled
    <2>5. CASE row' = [row EXCEPT ![r].status = "confirmed"]
      BY <1>2, <2>1, <2>5 DEF Cleared, Cancelled, RowSpace
    <2>6. CASE row' = [row EXCEPT ![r].session = TRUE]
      BY <1>2, <2>1, <2>6 DEF Cleared, Cancelled, RowSpace
    <2>7. CASE \E b, c \in BOOLEAN, s \in {"completed", "confirmed"} :
                  row' = [row EXCEPT ![r].status = s, ![r].record = b, ![r].due = 0,
                                     ![r].waived = c]
      <3>1. PICK b \in BOOLEAN, c \in BOOLEAN, s \in {"completed", "confirmed"} :
               row' = [row EXCEPT ![r].status = s, ![r].record = b, ![r].due = 0,
                                  ![r].waived = c]
        BY <2>7
      <3>2. row'[r] = [row[r] EXCEPT !.status = s, !.record = b, !.due = 0, !.waived = c]
        BY <1>2, <2>1, <3>1
      <3>3. row'[r].status = s
        BY <2>1, <3>2 DEF RowSpace
      <3> QED
        BY <2>1, <3>1, <3>3 DEF Cleared, Cancelled
    <2>8. CASE row' = [row EXCEPT ![r].due = 0, ![r].waived = TRUE]
      <3>1. row'[r] = [row[r] EXCEPT !.due = 0, !.waived = TRUE]
        BY <1>2, <2>1, <2>8
      <3>2. row'[r].due = 0
        BY <2>1, <3>1 DEF RowSpace
      <3> QED
        BY <2>1, <2>8, <3>2 DEF Cleared, Unpriced
    <2> QED
      BY <2>2, <2>3, <2>4, <2>5, <2>6, <2>7, <2>8 DEF SettledRow
  <1>4. PICK l, j : /\ Enter(p, l, j) /\ l \in {"idle", "takeCash", "complete", "compWrite"}
                    /\ j.about \in {r, NoRef} /\ j.after \in {"idle", job[p].after}
    <2>1. Done(p) => Enter(p, "idle", IdleJob)
      BY DEF Done
    <2>2. \A m : Goto(p, m) => Enter(p, m, job[p])
      BY DEF Goto
    <2>3. IdleJob.about = NoRef /\ IdleJob.after = "idle"
      BY DEF IdleJob
    <2>4. \A b : [job[p] EXCEPT !.paid = b].about = r
                 /\ [job[p] EXCEPT !.paid = b].after = job[p].after
      BY <1>0, <1>2 DEF JobSpace
    <2>5. \/ Done(p) \/ Goto(p, "takeCash") \/ Goto(p, "compWrite")
          \/ \E b : Enter(p, "complete", [job[p] EXCEPT !.paid = b])
      BY DEF Settling, SettleCovered, SettleOwing, TakeCash, Complete, CardWrite, CompConfirm,
             CompWrite
    <2> QED
      BY <1>0, <2>1, <2>2, <2>3, <2>4, <2>5
  <1>5. Whole(j, l)
    BY <1>2, <1>4 DEF Whole, Webhook
  <1>6. l \notin Unwritten /\ pc[p] \notin Reversing \cup {"mark"}
    BY <1>1, <1>4 DEF Unwritten, Reversing
  <1> QED
    BY <1>0, <1>1, <1>2, <1>3, <1>4, <1>5, <1>6, QuietKeeps

\* What a reversal reads of the ledger, and what it may rely on.
LEMMA ReversalReads ==
    ASSUME IInv, OnceInv, WholeInv, NEW p \in Proc, NEW r \in Res, job[p].about = r,
           pc[p] # "post"
    PROVE  /\ HasRow("hours", <<"cancelled", r>>) /\ Cleared(r) /\ pc[p] # "mark" => Lent(r) = 0
           /\ applied["hours"][<<"cancelled", r>>] = 0 => Lent(r) = CommittedUnits(r)
           /\ Lent(r) \in Nat
           /\ Lent(r) > 0 => applied["hours"][<<"reservation", r>>] >= 1
  <1>1. PICK t : t = <<"cancelled", r>>
    OBVIOUS
  <1>2. /\ t \in Tag /\ <<"reservation", r>> \in Tag
        /\ ledger["hours"][t].rows \in Nat /\ CommittedUnits(r) \in Int
        /\ applied["hours"][<<"reservation", r>>] \in Nat
    BY <1>1, TagType DEF IInv, TypeOK, Wallet, CommittedUnits
  <1>3. \A q \in Proc : ~Posts(q, "hours", t)
    <2>1. \A q \in Proc \ {p} : ~Posts(q, "hours", t)
      BY <1>1, OthersPostNot DEF Kind
    <2> QED
      BY <2>1 DEF Posts
  <1>4. /\ applied["hours"][t] = ledger["hours"][t].rows
        /\ ledger["hours"][t].rows = 0 => ledger["hours"][t].net = 0
    BY <1>1, <1>3 DEF OnceInv, Books, BooksOfRes, Counted
  <1>5. Lent(r) \in Nat /\ ReturnedWhole(r)
    BY DEF WholeInv
  <1>6. Lent(r) = Owed(r)
    BY LentIs
  <1>7. ASSUME HasRow("hours", t), Cleared(r), pc[p] # "mark" PROVE Lent(r) = 0
    <2>1. \A q \in Proc : ~Spending(q, r)
      BY <1>7, OnlyOne, FreeHoursAssumption DEF Spending
    <2>2. applied["hours"][<<"reservation", r>>] < 2
      BY <1>7, <2>1 DEF Cleared, Limit, OnceInv, Books, BooksOfRes, Unspent
    <2> QED
      BY <1>1, <1>2, <1>4, <1>5, <1>7, <2>2 DEF HasRow, ReturnedWhole
  <1>8. applied["hours"][t] = 0 => Lent(r) = CommittedUnits(r)
    BY <1>1, <1>2, <1>4, <1>6 DEF Owed
  <1>9. Lent(r) > 0 => applied["hours"][<<"reservation", r>>] >= 1
    BY <1>2, <1>5 DEF ReturnedWhole
  <1> QED
    BY <1>1, <1>5, <1>7, <1>8, <1>9

\* There is room for it under the allocation.
LEMMA RoomForReturn ==
    ASSUME IInv, SpendOnly, Finite, WholeInv, NEW r \in Res
    PROVE  Lent(r) <= OpeningPlan - bal["hours"]
  <1>1. PICK f : f = LentTable
    OBVIOUS
  <1>2. f \in [Res -> Nat] /\ f[r] = Lent(r)
    BY <1>1 DEF LentTable, WholeInv
  <1>3. f[r] <= SumFunction(f) /\ SumFunction(f) \in Nat /\ f[r] \in Nat
    BY <1>2, SumNat, SumAtLeast DEF Finite
  <1>4. bal["hours"] + SumFunction(f) <= Opening["hours"] /\ Opening["hours"] <= OpeningPlan
    BY <1>1 DEF WholeInv, SpendOnly
  <1>5. bal["hours"] \in Nat /\ Opening["hours"] \in Nat /\ OpeningPlan \in Nat
    BY FreeHoursAssumption DEF IInv, TypeOK, Wallet
  <1> QED
    BY <1>2, <1>3, <1>4, <1>5

LEMMA CancelKeeps ==
    ASSUME IInv, IInv', OnceInv, SpendOnly, Finite, WholeInv, NEW p \in Proc,
           \/ CancelWrite(p) \/ CancelRefund(p) \/ RefundMark(p)
           \/ BackCheck(p) \/ BackSum(p) \/ BackPlan(p) \/ BackBalance(p)
    PROVE  WholeInv' /\ (PatienceInv => PatienceInv')
  <1>0. PICK r, a : r = job[p].about /\ a = job[p].after
    OBVIOUS
  <1>1. /\ r \in Res /\ r # NoRef /\ job[p] \in JobSpace /\ Whole(job[p], pc[p])
        /\ Standing(p) /\ a # "mark" /\ a \in {"idle", "refundMark"}
        /\ \A q \in Proc \ {p} : job[q].about # r
    <2>1. r \in Res
      BY <1>0, AboutRes
         DEF CancelWrite, CancelRefund, RefundMark, BackCheck, BackSum, BackPlan, BackBalance
    <2>2. Standing(p) /\ Shape(job[p], pc[p])
      BY DEF OnceInv
    <2>3. a # "mark"
      BY <1>0, <2>2
         DEF Shape, CancelWrite, CancelRefund, RefundMark, BackCheck, BackSum, BackPlan, BackBalance
    <2>4. Whole(job[p], pc[p]) /\ job[p].after \in Resume
      BY JobFit DEF WholeInv
    <2>5. a \in {"idle", "refundMark"}
      BY <1>0, <2>3, <2>4 DEF Whole, Webhook, Resume
    <2> QED
      BY <1>0, <2>1, <2>2, <2>3, <2>4, <2>5, JobFit, OnlyOne, FreeHoursAssumption
  <1>2. /\ pc[p] \in {"cancelWrite", "cancelRefund", "refundMark", "backCheck", "backSum",
                      "backPlan", "backBalance"}
        /\ UNCHANGED <<bal, plan, ledger, applied, arrivals>>
    BY DEF CancelWrite, CancelRefund, RefundMark, BackCheck, BackSum, BackPlan, BackBalance, data
  <1>3. \A y \in Res \ {r} : row'[y] = row[y]
    <2>1. CASE UNCHANGED row
      BY <2>1
    <2>2. CASE row' = [row EXCEPT ![r].refunded = TRUE]
      BY <1>1, <2>2, RowParts
    <2>3. CASE row' = [row EXCEPT ![r].status = "cancelled", ![r].due = Unpriced]
      BY <1>1, <2>3, RowParts
    <2> QED
      BY <1>0, <2>1, <2>2, <2>3
         DEF CancelWrite, CancelRefund, RefundMark, BackCheck, BackSum, BackPlan, BackBalance, data
  <1>4. \* The reversal goes on.
        ASSUME NEW l \in {"cancelRefund", "backCheck", "backSum", "backPlan", "backBalance",
                          "read"},
               NEW j, Enter(p, l, j), j.about = r, Whole(j, l), pc[p] # "refundMark",
               PatienceInv /\ l = "read" => Lost(p)' + 1 <= Writes
        PROVE  WholeInv' /\ (PatienceInv => PatienceInv')
    <2>1. pc[p] \in Unwritten /\ l # "swap" /\ l \in Reversing
      BY <1>2, <1>4 DEF Unwritten, Reversing
    <2> QED
      BY <1>0, <1>1, <1>2, <1>3, <1>4, <2>1, QuietKeeps
  <1>5. \* It is over.
        ASSUME NEW l \in {"idle", "refundMark"}, NEW j, Enter(p, l, j), j.about \in {r, NoRef},
               Whole(j, l),
               Cleared(r)' /\ PatienceInv /\ FewRequests =>
                   Lent(r) = 0 \/ (Cleared(r) /\ pc[p] \notin Reversing)
        PROVE  WholeInv' /\ (PatienceInv => PatienceInv')
    <2>1. l \notin Unwritten /\ l \notin {"read", "swap"} /\ pc[p] # "mark"
      BY <1>2, <1>5 DEF Unwritten
    <2> QED
      BY <1>0, <1>1, <1>2, <1>3, <1>5, <2>1, QuietKeeps
  <1>6. ASSUME NEW l \in {"cancelRefund", "backCheck", "backSum", "refundMark"}
        PROVE  Whole(job[p], l)
    BY <1>1, <1>6 DEF Whole, Webhook
  <1>7. Whole(IdleJob, "idle") /\ IdleJob.about = NoRef
    BY IdleJobType DEF Whole, Webhook
  <1>8. ASSUME LeaveReversal(p), Cleared(r)' => Lent(r) = 0
        PROVE  WholeInv' /\ (PatienceInv => PatienceInv')
    <2>1. CASE Done(p)
      BY <1>5, <1>7, <1>8, <2>1 DEF Done
    <2>2. CASE Goto(p, a) /\ a = "refundMark"
      BY <1>0, <1>5, <1>6, <1>8, <2>2 DEF Goto
    <2> QED
      BY <1>0, <1>1, <1>8, <2>1, <2>2 DEF LeaveReversal
  <1>9. CASE CancelWrite(p)
    <2>1. CASE Done(p) /\ UNCHANGED row
      <3>1. Cleared(r)' => Cleared(r)
        BY <2>1 DEF Cleared, Cancelled
      <3> QED
        BY <1>5, <1>7, <1>9, <2>1, <3>1 DEF Done, CancelWrite, Reversing
    <2>2. CASE Goto(p, IF job[p].paid THEN "cancelRefund" ELSE "backCheck")
      <3>1. PICK l \in {"cancelRefund", "backCheck"} : Enter(p, l, job[p])
        BY <2>2 DEF Goto
      <3> QED
        BY <1>0, <1>4, <1>6, <1>9, <3>1 DEF CancelWrite
    <2> QED
      BY <1>9, <2>1, <2>2 DEF CancelWrite
  <1>10. CASE CancelRefund(p)
    BY <1>0, <1>4, <1>6, <1>10 DEF CancelRefund, Goto
  <1>11. CASE RefundMark(p)
    <2>1. Cleared(r)' => Cleared(r)
      BY <1>0, <1>1, <1>11, RowParts DEF RefundMark, Cleared, Cancelled
    <2> QED
      BY <1>5, <1>7, <1>11, <2>1 DEF RefundMark, Done, Reversing
  <1>12. /\ HasRow("hours", <<"cancelled", r>>) /\ Cleared(r) => Lent(r) = 0
         /\ applied["hours"][<<"cancelled", r>>] = 0 => Lent(r) = CommittedUnits(r)
         /\ Lent(r) \in Nat
         /\ Lent(r) > 0 => applied["hours"][<<"reservation", r>>] >= 1
    BY <1>0, <1>1, <1>2, ReversalReads
  <1>13. CASE BackCheck(p)
    <2>1. CASE LeaveReversal(p) /\ HasRow("hours", <<"cancelled", r>>)
      <3>1. Cleared(r)' => Cleared(r)
        BY <1>13 DEF BackCheck, data, Cleared, Cancelled
      <3> QED
        BY <1>8, <1>12, <2>1, <3>1
    <2>2. CASE Goto(p, "backSum")
      BY <1>0, <1>4, <1>6, <1>13, <2>2 DEF BackCheck, Goto
    <2> QED
      BY <1>0, <1>13, <2>1, <2>2 DEF BackCheck
  <1>14. CASE BackSum(p)
    <2>0. pc[p] = "backSum" /\ Lent(r) = CommittedUnits(r)
      BY <1>0, <1>1, <1>12, <1>14 DEF BackSum, Standing
    <2>1. CASE LeaveReversal(p) /\ ~(CommittedUnits(r) > 0)
      BY <1>8, <1>12, <2>0, <2>1
    <2>2. CASE CommittedUnits(r) > 0
      <3>1. PICK j : j = [job[p] EXCEPT !.units = CommittedUnits(r)]
        OBVIOUS
      <3>2. j.about = r /\ j.after = a /\ j.units = CommittedUnits(r)
        BY <1>0, <1>1, <3>1 DEF JobSpace
      <3>3. Enter(p, "backPlan", j)
        BY <1>0, <1>14, <2>2, <3>1 DEF BackSum
      <3>4. Whole(j, "backPlan")
        BY <1>1, <2>0, <2>2, <3>2 DEF Whole, Webhook
      <3> QED
        BY <1>4, <2>0, <3>2, <3>3, <3>4
    <2> QED
      BY <1>0, <1>14, <2>1, <2>2 DEF BackSum
  <1>15. CASE BackPlan(p)
    <2>0. /\ pc[p] = "backPlan" /\ job[p].units = Lent(r) /\ job[p].units > 0
          /\ plan = OpeningPlan /\ OpeningPlan \in Nat
      BY <1>0, <1>1, <1>15, FreeHoursAssumption DEF BackPlan, Whole, WholeInv
    <2>1. PICK j : j = [job[p] EXCEPT !.cap = OpeningPlan]
      OBVIOUS
    <2>2. j.about = r /\ j.after = a /\ j.units = Lent(r) /\ j.cap = OpeningPlan
      BY <1>0, <1>1, <2>0, <2>1 DEF JobSpace
    <2>3. Enter(p, "backBalance", j)
      BY <1>15, <2>0, <2>1 DEF BackPlan, NoPlan
    <2>4. Whole(j, "backBalance")
      BY <1>1, <2>0, <2>2 DEF Whole, Webhook
    <2> QED
      BY <1>4, <2>0, <2>2, <2>3, <2>4
  <1>16. CASE BackBalance(p)
    <2>0. /\ pc[p] = "backBalance" /\ job[p].units = Lent(r) /\ Lent(r) > 0
          /\ job[p].cap = OpeningPlan
      BY <1>0, <1>1, <1>16 DEF BackBalance, Whole
    <2>1. Smaller(job[p].units, job[p].cap - bal["hours"]) = Lent(r)
      <3>1. Lent(r) <= OpeningPlan - bal["hours"] /\ Lent(r) \in Nat
        BY <1>1, <1>12, RoomForReturn
      <3>2. OpeningPlan - bal["hours"] \in Int
        BY FreeHoursAssumption DEF IInv, TypeOK, Wallet
      <3> QED
        BY <2>0, <3>1, <3>2 DEF Smaller
    <2>2. PICK o, j : /\ o = Call("hours", "add", Lent(r))
                      /\ j = Asking(p, o, <<"cancelled", r>>, a)
      OBVIOUS
    <2>3. o.wallet = "hours" /\ o.kind = "add" /\ o.amount = Lent(r)
      BY <2>2 DEF Call
    <2>4. /\ j.about = r /\ j.op = o /\ j.tag = <<"cancelled", r>> /\ j.after = a
          /\ j.tries = 0
      BY <1>0, <2>2 DEF Asking, IdleJob
    <2>5. Enter(p, "read", j)
      BY <1>0, <1>16, <2>0, <2>1, <2>2 DEF BackBalance
    <2>6. Whole(j, "read")
      BY <1>1, <2>0, <2>3, <2>4 DEF Whole, Webhook, Returning
    <2>7. Lost(p)' + 1 <= Writes
      <3>1. pc'[p] = "read" /\ job'[p] = j
        BY <2>5, EnterOnly
      <3>2. Lost(p)' = 0
        BY <2>4, <3>1 DEF Lost, Beaten
      <3>3. applied["hours"][<<"reservation", r>>] <= Writes /\ Writes \in Nat
        BY <1>1, TagType, WritesType
      <3>4. applied["hours"][<<"reservation", r>>] \in Nat
        BY <1>1, TagType DEF IInv, TypeOK, Wallet
      <3> QED
        BY <1>12, <2>0, <3>2, <3>3, <3>4
    <2> QED
      BY <1>4, <2>0, <2>4, <2>5, <2>6, <2>7
  <1> QED
    BY <1>9, <1>10, <1>11, <1>13, <1>14, <1>15, <1>16

LEMMA RequestKeeps ==
    ASSUME IInv, IInv', OnceInv, SpendOnly, Finite, WholeInv, NEW p \in Proc, Request(p)
    PROVE  WholeInv' /\ (PatienceInv => PatienceInv')
  <1>0. job[p].about = NoRef \/ pc[p] # "idle"
    BY DEF OnceInv, Shape
  <1>1. ASSUME NEW l \in {"price", "cardWrite", "compConfirm", "compWrite", "cancelWrite",
                          "backCheck", "deduct"},
               NEW j, LetIn(p, l, j), pc[p] = "idle", NEW x \in Res \cup {NoRef}, j.about = x,
               x # NoRef => InTurn(x), Whole(j, l)
        PROVE  WholeInv' /\ (PatienceInv => PatienceInv')
    <2>1. /\ Enter(p, l, j) /\ pc[p] = "idle" /\ job[p].about = NoRef
          /\ arrivals' = arrivals + 1
          /\ UNCHANGED <<bal, plan, ledger, row, applied>>
      BY <1>0, <1>1 DEF LetIn, data
    <2>2. x # NoRef => \A q \in Proc \ {p} : job[q].about # x
      BY <1>1 DEF InTurn, SpendOnly, Orderly
    <2>3. Cleared(x)' => Cleared(x) /\ pc[p] \notin Reversing \cup {"mark"}
      BY <2>1 DEF Cleared, Cancelled, Reversing
    <2>4. l \notin {"read", "swap", "post"} /\ pc[p] # "post"
      BY <2>1
    <2>5. /\ UNCHANGED <<bal, plan, ledger, applied>>
          /\ \A y \in Res \ {x} : row'[y] = row[y]
          /\ job[p].about \in {x, NoRef} /\ j.about \in {x, NoRef}
          /\ Enter(p, l, j) /\ Whole(j, l)
      BY <1>1, <2>1
    <2>6. arrivals' = arrivals + 1
      BY <2>1
    <2> QED
      BY <2>2, <2>3, <2>4, <2>5, <2>6, QuietKeeps
  <1>2. ASSUME NEW r \in Res,
               \/ ConfirmRead(p, r) \/ CashRead(p, r) \/ CardRead(p, r) \/ CompRead(p, r)
        PROVE  WholeInv' /\ (PatienceInv => PatienceInv')
    <2> DEFINE a == [IdleJob EXCEPT !.about = r]
               b == [IdleJob EXCEPT !.about = r, !.cash = TRUE]
    <2>1. PICK j \in {a, b}, l \in {"price", "cardWrite", "compConfirm", "compWrite"} :
             LetIn(p, l, j)
      BY <1>2 DEF ConfirmRead, CashRead, CardRead, CompRead
    <2>2. j.about = r /\ j.after = "idle"
      BY DEF IdleJob
    <2> HIDE DEF a, b
    <2>3. Whole(j, l)
      BY <2>2 DEF Whole, Webhook
    <2>4. pc[p] = "idle" /\ InTurn(r)
      BY <1>2 DEF ConfirmRead, CashRead, CardRead, CompRead, Accepts
    <2> QED
      BY <1>1, <2>1, <2>2, <2>3, <2>4
  <1>3. ASSUME NEW r \in Res, CancelRead(p, r)
        PROVE  WholeInv' /\ (PatienceInv => PatienceInv')
    <2>1. PICK j : j = [IdleJob EXCEPT !.about = r, !.paid = row[r].record]
      OBVIOUS
    <2>2. j.about = r /\ j.after = "idle"
      BY <2>1 DEF IdleJob
    <2>3. Whole(j, "cancelWrite")
      BY <2>2 DEF Whole, Webhook
    <2> QED
      BY <1>1, <1>3, <2>1, <2>2, <2>3 DEF CancelRead, Accepts
  <1>4. ASSUME NEW r \in Res, RefundRead(p, r)
        PROVE  WholeInv' /\ (PatienceInv => PatienceInv')
    <2>1. PICK j : j = [IdleJob EXCEPT !.about = r, !.after = "refundMark"]
      OBVIOUS
    <2>2. j.about = r /\ j.after = "refundMark"
      BY <2>1 DEF IdleJob
    <2>3. Whole(j, "backCheck")
      BY <2>2 DEF Whole, Webhook
    <2> QED
      BY <1>1, <1>4, <2>1, <2>2, <2>3 DEF RefundRead, Accepts
  <1>5. ASSUME NEW w \in Wallet, NEW n \in Adjustments, Adjust(p, w, n)
        PROVE  WholeInv' /\ (PatienceInv => PatienceInv')
    <2>1. PICK o, j : o = Call(w, "deduct", n) /\ j = [IdleJob EXCEPT !.op = o]
      OBVIOUS
    <2>2. j.about = NoRef /\ j.after = "idle" /\ j.op = o /\ o.kind = "deduct"
      BY <2>1 DEF IdleJob, Call
    <2>3. Whole(j, "deduct")
      BY <2>2 DEF Whole, Webhook
    <2>4. LetIn(p, "deduct", j) /\ pc[p] = "idle"
      BY <1>5, <2>1 DEF Adjust, Accepts, SpendOnly
    <2>5. NoRef \notin Res
      BY FreeHoursAssumption
    <2> QED
      BY <1>1, <2>2, <2>3, <2>4, <2>5
  <1>6. ASSUME NEW r \in Res, Resolve(p, r)
        PROVE  WholeInv' /\ (PatienceInv => PatienceInv')
    <2>1. UNCHANGED <<bal, plan, ledger, applied, pc, job>> /\ arrivals <= arrivals'
      BY <1>6 DEF Resolve, IInv, TypeOK
    <2>2. PICK s \in {"completed", "no_show"} : row' = [row EXCEPT ![r].status = s]
      BY <1>6 DEF Resolve
    <2>3. row \in [Res -> RowSpace]
      BY DEF IInv, TypeOK
    <2>4. \A y \in Res : Cleared(y)' => Cleared(y)
      BY <2>2, <2>3 DEF Cleared, Cancelled, RowSpace
    <2> QED
      BY <2>1, <2>4, StillKeeps
  <1> QED
    BY <1>2, <1>3, <1>4, <1>5, <1>6 DEF Request

\* The write of either balance operation: a reversal's is what its booking was
\* lent, a booking's is the first for it or, when that was returned, the last,
\* and staff take.
LEMMA WriteKeeps ==
    ASSUME IInv, IInv', OnceInv, OnceInv', SpendOnly, Finite, WholeInv, NEW p \in Proc,
           NEW w, w = job[p].op.wallet, NEW n, NEW b, b = bal[w], n \in Nat,
           Write(p, w, n, b), UNCHANGED <<plan, ledger, row, arrivals>>,
           \/ pc[p] = "swap" /\ Returning(job[p]) /\ n - b = Lent(job[p].about) /\ n > b
           \/ pc[p] = "deduct" /\ Taking(job[p]) /\ n <= b
           \/ pc[p] = "deduct" /\ Adjusting(job[p]) /\ n <= b
    PROVE  WholeInv' /\ (PatienceInv => PatienceInv')
  <1>0. PICK x, t, j : /\ x = job[p].about /\ t = job[p].tag
                       /\ j = [job[p] EXCEPT !.delta = n - b, !.seen = 0]
    OBVIOUS
  <1>1. /\ j.about = x /\ j.after = job[p].after /\ j.tag = t /\ j.delta = n - b
        /\ Enter(p, "post", j) /\ w \in Wallet /\ t \in Tag /\ AppliedUp(w, t)
    BY <1>0, JobParts DEF Write, AppliedUp
  <1>2. /\ bal'[w] = n /\ \A v \in Wallet \ {w} : bal'[v] = bal[v]
        /\ bal["hours"] \in Nat /\ bal'["hours"] \in Nat /\ b \in Nat
    BY <1>1 DEF Write, IInv, TypeOK, Wallet
  <1>3. /\ applied'[w][t] = applied[w][t] + 1
        /\ \A v \in Wallet, s \in Tag : v # w \/ s # t => applied'[v][s] = applied[v][s]
    BY <1>1, AppliedOne
  <1>4. Returning(job[p]) \/ Taking(job[p]) \/ Adjusting(job[p])
    OBVIOUS
  <1>5. ASSUME NEW y \in Res \ {x} PROVE SameAccounts(y)
    <2>1. <<"reservation", y>> # t /\ <<"cancelled", y>> # t
      BY <1>0, <1>4, <1>5 DEF Taking, Returning, Adjusting
    <2> QED
      BY <1>3, <2>1, TagType DEF SameAccounts, SameEntry, Wallet
  <1>6. x # NoRef => \A q \in Proc \ {p} : job[q].about # x
    BY <1>0, OnlyOne
  <1>7. Whole(j, "post")'
    <2>1. j.after \notin Webhook
      BY <1>1 DEF WholeInv, Whole
    <2>2. ~Granting(j)
      BY <1>0, <1>1, <1>4, FreeHoursAssumption DEF Granting, Taking, Returning, Adjusting
    <2> QED
      BY <2>1, <2>2 DEF Whole, Webhook, Granting
  <1>8. x \in Res => /\ Lent(x)' = Lent(x) - (n - b) /\ Lent(x) \in Nat /\ w = "hours"
                     /\ bal["hours"] = b /\ bal'["hours"] = n /\ ReturnedWhole(x)
    <2> SUFFICES ASSUME x \in Res
                 PROVE  /\ Lent(x)' = Lent(x) - (n - b) /\ Lent(x) \in Nat /\ w = "hours"
                        /\ bal["hours"] = b /\ bal'["hours"] = n /\ ReturnedWhole(x)
      OBVIOUS
    <2>1. w = "hours"
      BY <1>0, <1>4, FreeHoursAssumption DEF Taking, Returning, Adjusting
    <2>2. Lent(x) = Owed(x) /\ Owed(x) \in Int
      BY <1>0, LentIs
    <2>3. Lent(x)' = Owed(x)' - (n - b)
      BY <1>1, LentBecomes
    <2>4. Owed(x)' = Owed(x)
      BY DEF Owed, CommittedUnits
    <2> QED
      BY <1>2, <2>1, <2>2, <2>3, <2>4 DEF WholeInv
  <1>9. x \in Res => /\ Lent(x)' \in Nat /\ ReturnedWhole(x)'
                     /\ Lent(x)' = 0 \/ Spending(p, x)'
    <2> SUFFICES ASSUME x \in Res
                 PROVE  /\ Lent(x)' \in Nat /\ ReturnedWhole(x)'
                        /\ Lent(x)' = 0 \/ Spending(p, x)'
      OBVIOUS
    <2>0. /\ <<"reservation", x>> \in Tag /\ <<"cancelled", x>> \in Tag
          /\ applied["hours"][<<"reservation", x>>] \in Nat
      BY TagType DEF IInv, TypeOK, Wallet
    <2>1. CASE pc[p] = "swap" /\ Returning(job[p]) /\ n - b = Lent(x) /\ n > b
      <3>1. Lent(x)' = 0
        BY <1>8, <2>1
      <3>2. applied["hours"][<<"reservation", x>>] >= 1
        BY <1>0, <1>2, <1>8, <2>0, <2>1 DEF ReturnedWhole
      <3>3. <<"reservation", x>> # t
        BY <1>0, <2>1 DEF Returning
      <3>4. applied'["hours"][<<"reservation", x>>] = applied["hours"][<<"reservation", x>>]
        BY <1>3, <2>0, <3>3 DEF Wallet
      <3>5. ReturnedWhole(x)'
        BY <2>0, <3>1, <3>2, <3>4 DEF ReturnedWhole
      <3> QED
        BY <3>1, <3>5
    <2>2. CASE pc[p] = "deduct" /\ Taking(job[p]) /\ n <= b
      <3>1. Lent(x)' \in Nat
        BY <1>2, <1>8, <2>2
      <3>2. t = <<"reservation", x>> /\ <<"cancelled", x>> # t
        BY <1>0, <2>2 DEF Taking
      <3>3. /\ applied'["hours"][<<"reservation", x>>]
                  = applied["hours"][<<"reservation", x>>] + 1
            /\ applied'["hours"][<<"cancelled", x>>] = applied["hours"][<<"cancelled", x>>]
        BY <1>3, <1>8, <2>0, <3>2 DEF Wallet
      <3>4. applied["hours"][<<"reservation", x>>] = 0
              => applied["hours"][<<"cancelled", x>>] = 0
        BY <1>8 DEF ReturnedWhole
      <3>5. ReturnedWhole(x)'
        BY <2>0, <3>3, <3>4 DEF ReturnedWhole
      <3>6. pc'[p] = "post" /\ job'[p] = j
        BY <1>1, EnterOnly
      <3>7. Spending(p, x)'
        BY <1>1, <3>2, <3>6 DEF Spending
      <3> QED
        BY <3>1, <3>5, <3>7
    <2>3. CASE Adjusting(job[p])
      BY <1>0, <2>3, FreeHoursAssumption DEF Adjusting
    <2> QED
      BY <1>0, <2>1, <2>2, <2>3
  <1>10. x \notin Res => bal'["hours"] <= bal["hours"]
    <2> SUFFICES ASSUME x \notin Res PROVE bal'["hours"] <= bal["hours"]
      OBVIOUS
    <2>1. n <= b
      BY <1>0 DEF Returning
    <2> QED
      BY <1>2, <2>1 DEF Wallet
  <1>11. x \in Res => bal'["hours"] + Lent(x)' <= bal["hours"] + Lent(x)
    BY <1>2, <1>8
  <1>12. job[p].about \in {x, NoRef} /\ j.about \in {x, NoRef}
    BY <1>0, <1>1
  <1>13. WholeInv'
    BY <1>1, <1>5, <1>6, <1>7, <1>9, <1>10, <1>11, <1>12, WholeMoves
  <1>14. ASSUME PatienceInv PROVE PatienceInv'
    <2>1. /\ w = "hours" => Writes' = Writes + 1
          /\ w # "hours" => Writes' = Writes
      BY <1>1, WritesUp
    <2>2. Writes' = Writes + 1 \/ (Writes' = Writes /\ bal'["hours"] = bal["hours"])
      BY <1>2, <2>1 DEF Wallet
    <2>3. Writes \in Nat /\ arrivals \in Nat
      BY WritesType DEF IInv, TypeOK
    <2>4. May("post") = 0 /\ May(pc[p]) = 1
      BY DEF May, Unwritten
    <2>5. arrivals <= arrivals'
          /\ Writes' + May("post") - May(pc[p]) <= Writes + arrivals' - arrivals
      BY <2>1, <2>3, <2>4
    <2>6. \A y \in Res \ {x} : SameAccounts(y) /\ row'[y] = row[y]
      BY <1>5
    <2> QED
      BY <1>1, <1>6, <1>9, <1>12, <1>14, <2>2, <2>5, <2>6, PatienceMoves
  <1> QED
    BY <1>13, <1>14

\* The row is inserted: what was about to be counted is.
LEMMA PostKeeps ==
    ASSUME IInv, IInv', OnceInv, OnceInv', SpendOnly, Finite, WholeInv, NEW p \in Proc,
           PostEntry(p)
    PROVE  WholeInv' /\ (PatienceInv => PatienceInv')
  <1>0. PICK x, t, w, d, a : /\ x = job[p].about /\ t = job[p].tag /\ w = job[p].op.wallet
                             /\ d = job[p].delta /\ a = job[p].after
    OBVIOUS
  <1>1. /\ w \in Wallet /\ t \in Tag /\ d \in Int /\ pc[p] = "post"
        /\ LedgerUp(w, t, d) /\ UNCHANGED <<bal, plan, row, applied, arrivals>>
    BY <1>0, JobParts, JobFit DEF PostEntry, LedgerUp, JobSpace
  <1>2. /\ ledger'[w][t] = [rows |-> ledger[w][t].rows + 1, net |-> ledger[w][t].net + d]
        /\ \A v \in Wallet, s \in Tag : v # w \/ s # t => ledger'[v][s] = ledger[v][s]
    BY <1>1, LedgerOne
  <1>3. /\ Taking(job[p]) \/ Returning(job[p]) \/ Adjusting(job[p])
        /\ Standing(p) /\ a \notin Webhook /\ a \in Resume
    BY <1>0, <1>1, JobFit DEF OnceInv, Shape, WholeInv, Whole
  <1>4. ASSUME NEW y \in Res \ {x} PROVE SameAccounts(y)
    <2>1. <<"reservation", y>> # t /\ <<"cancelled", y>> # t
      BY <1>0, <1>3, <1>4 DEF Taking, Returning, Adjusting
    <2> QED
      BY <1>1, <1>2, <2>1, TagType DEF SameAccounts, SameEntry, Wallet
  <1>5. x # NoRef => \A q \in Proc \ {p} : job[q].about # x
    BY <1>0, OnlyOne
  <1>6. PICK l, j : /\ Enter(p, l, j) /\ j.about \in {x, NoRef} /\ j.after = "idle"
                    /\ l = a /\ (a = "mark" => j.about = x)
    <2>1. CASE a = "idle"
      BY <1>0, <2>1, IdleJobType DEF PostEntry, Return, Done
    <2>2. CASE a # "idle"
      <3>1. PICK i : i = [IdleJob EXCEPT !.about = x, !.due = job[p].due, !.cash = job[p].cash]
        OBVIOUS
      <3>2. i.about = x /\ i.after = "idle"
        BY <3>1 DEF IdleJob
      <3> QED
        BY <1>0, <2>2, <3>1, <3>2 DEF PostEntry
    <2> QED
      BY <2>1, <2>2
  <1>7. /\ l \notin Unwritten /\ l \notin {"read", "swap", "post"} /\ l \notin Webhook
        /\ l \in {"idle", "mark", "refundMark"}
    BY <1>3, <1>6 DEF Resume, Webhook, Unwritten
  <1>8. Whole(j, l)'
    BY <1>6, <1>7 DEF Whole, Webhook
  <1>9. x \in Res => /\ Lent(x)' = Lent(x) /\ Lent(x) \in Nat /\ ReturnedWhole(x)'
                     /\ Cleared(x)' => Lent(x)' = 0 \/ Spending(p, x)'
    <2> SUFFICES ASSUME x \in Res
                 PROVE  /\ Lent(x)' = Lent(x) /\ Lent(x) \in Nat /\ ReturnedWhole(x)'
                        /\ Cleared(x)' => Lent(x)' = 0 \/ Spending(p, x)'
      OBVIOUS
    <2>0. /\ <<"reservation", x>> \in Tag /\ <<"cancelled", x>> \in Tag
          /\ ledger["hours"][<<"reservation", x>>].net \in Int
          /\ ledger["hours"][<<"cancelled", x>>].net \in Int
          /\ ledger["hours"][<<"cancelled", x>>].rows \in Nat
      BY TagType DEF IInv, TypeOK, Wallet
    <2>1. Lent(x) = Owed(x) - d /\ Owed(x) \in Int
      BY <1>0, <1>1, LentIs
    <2>2. Lent(x)' = Owed(x)' - 0 /\ Owed(x)' \in Int
      BY <1>5, <1>6, <1>7, LentBecomes
    <2>3. w = "hours"
      BY <1>0, <1>3, FreeHoursAssumption DEF Taking, Returning, Adjusting
    <2>4. Owed(x)' = Owed(x) - d
      <3>1. CASE t = <<"reservation", x>>
        <4>1. /\ ledger'["hours"][<<"reservation", x>>].net
                   = ledger["hours"][<<"reservation", x>>].net + d
              /\ ledger'["hours"][<<"cancelled", x>>] = ledger["hours"][<<"cancelled", x>>]
          <5>1. <<"cancelled", x>> # t
            BY <3>1
          <5> QED
            BY <1>1, <1>2, <2>0, <2>3, <3>1, <5>1
        <4> QED
          BY <1>1, <2>0, <4>1 DEF Owed, CommittedUnits
      <3>2. CASE t = <<"cancelled", x>>
        <4>1. /\ ledger'["hours"][<<"cancelled", x>>].net
                   = ledger["hours"][<<"cancelled", x>>].net + d
              /\ ledger'["hours"][<<"reservation", x>>] = ledger["hours"][<<"reservation", x>>]
          <5>1. <<"reservation", x>> # t
            BY <3>2
          <5> QED
            BY <1>1, <1>2, <2>0, <2>3, <3>2, <5>1
        <4> QED
          BY <1>1, <2>0, <4>1 DEF Owed, CommittedUnits
      <3> QED
        BY <1>0, <1>3, <3>1, <3>2, FreeHoursAssumption DEF Taking, Returning, Adjusting
    <2>5. Lent(x)' = Lent(x)
      BY <1>1, <2>1, <2>2, <2>4
    <2>6. Lent(x) \in Nat /\ ReturnedWhole(x)
      BY DEF WholeInv
    <2>7. ReturnedWhole(x)'
      BY <1>1, <2>5, <2>6 DEF ReturnedWhole
    <2>8. CASE Taking(job[p])
      <3>1. pc'[p] = "mark" /\ job'[p].about = x
        BY <1>0, <1>6, <2>8, EnterOnly, FreeHoursAssumption DEF Taking
      <3> QED
        BY <2>5, <2>6, <2>7, <3>1 DEF Spending
    <2>9. CASE Returning(job[p])
      <3>1. Posts(p, "hours", <<"cancelled", x>>)
        BY <1>0, <1>1, <2>9 DEF Posts, Returning
      <3>2. applied["hours"][<<"cancelled", x>>] >= 1
        BY <2>0, <3>1 DEF OnceInv, Books, BooksOfRes, Counted
      <3>3. \A q \in Proc : ~Spending(q, x)
        <4>1. ~Spending(p, x)
          BY <1>1, <2>9 DEF Spending, Returning
        <4> QED
          BY <1>5, <4>1, FreeHoursAssumption DEF Spending
      <3>4. /\ Cleared(x)' => Cleared(x)
            /\ Cleared(x) => applied["hours"][<<"reservation", x>>] < 2
        BY <1>1, <3>3 DEF Cleared, Cancelled, Limit, OnceInv, Books, BooksOfRes, Unspent
      <3>5. applied["hours"][<<"reservation", x>>] \in Nat
        BY TagType DEF IInv, TypeOK, Wallet
      <3> QED
        BY <2>5, <2>6, <2>7, <3>2, <3>4, <3>5 DEF ReturnedWhole
    <2>10. CASE Adjusting(job[p])
      BY <1>0, <2>10, FreeHoursAssumption DEF Adjusting
    <2> QED
      BY <1>3, <2>8, <2>9, <2>10
  <1>10. /\ bal'["hours"] <= bal["hours"]
         /\ x \in Res => bal'["hours"] + Lent(x)' <= bal["hours"] + Lent(x)
    BY <1>1, <1>9 DEF IInv, TypeOK, Wallet
  <1>11. job[p].about \in {x, NoRef} /\ UNCHANGED plan
    BY <1>0, <1>1
  <1>12. WholeInv'
    BY <1>4, <1>5, <1>6, <1>8, <1>9, <1>10, <1>11, WholeMoves
  <1>13. ASSUME PatienceInv PROVE PatienceInv'
    <2>1. Writes' = Writes /\ Writes \in Nat /\ arrivals \in Nat /\ UNCHANGED <<bal, arrivals>>
      BY <1>1, WritesType DEF Writes, IInv, TypeOK
    <2>2. May(l) = 0 /\ May(pc[p]) = 0
      BY <1>1, <1>7 DEF May, Unwritten
    <2>3. arrivals <= arrivals' /\ Writes' + May(l) - May(pc[p]) <= Writes + arrivals' - arrivals
      BY <2>1, <2>2
    <2>4. \A y \in Res \ {x} : SameAccounts(y) /\ row'[y] = row[y]
      BY <1>1, <1>4
    <2> QED
      BY <1>5, <1>6, <1>7, <1>9, <1>11, <1>13, <2>1, <2>3, <2>4, PatienceMoves
  <1> QED
    BY <1>12, <1>13

\* A reversal in the compare-and-swap loop.
LEMMA SwapKeeps ==
    ASSUME IInv, IInv', OnceInv, OnceInv', SpendOnly, Finite, WholeInv, NEW p \in Proc,
           WalletRead(p) \/ WalletSwap(p)
    PROVE  WholeInv' /\ (PatienceInv => PatienceInv')
  <1>0. PICK x, o : x = job[p].about /\ o = job[p].op
    OBVIOUS
  <1>1. /\ pc[p] \in {"read", "swap"} /\ Whole(job[p], pc[p]) /\ job[p] \in JobSpace
        /\ job[p].tries \in Nat /\ bal["hours"] \in Nat
    BY JobFit DEF WalletRead, WalletSwap, WholeInv, JobSpace, IInv, TypeOK, Wallet
  <1>2. /\ Returning(job[p]) /\ x \in Res /\ o.wallet = "hours" /\ o.kind = "add"
        /\ o.amount = Lent(x) /\ o.amount > 0 /\ Lent(x) \in Nat
    BY <1>0, <1>1 DEF Whole, Returning, WholeInv
  <1>3. \A q \in Proc \ {p} : job[q].about # x
    BY <1>0, <1>2, OnlyOne, FreeHoursAssumption
  <1>4. UNCHANGED <<plan, ledger, row, arrivals>>
    BY DEF WalletRead, WalletSwap, data
  <1>5. \* The loop goes on.
        ASSUME NEW l \in {"read", "swap"}, NEW j, Enter(p, l, j), UNCHANGED <<bal, applied>>,
               j.about = x, j.op = o, j.tag = job[p].tag, j.after = job[p].after,
               j.tries \in Nat,
               (l = "swap" /\ bal["hours"] # j.seen) \/ j.tries > Lost(p) => FALSE
        PROVE  WholeInv' /\ (PatienceInv => PatienceInv')
    <2>1. Whole(j, l)
      BY <1>0, <1>1, <1>2, <1>5, SamePurpose DEF Whole, Webhook
    <2>2. pc'[p] = l /\ job'[p] = j
      BY <1>5, EnterOnly
    <2>3. Lost(p)' = j.tries
      BY <1>5, <2>2 DEF Lost, Beaten
    <2>4. Lost(p) \in Nat
      BY <1>1 DEF Lost
    <2>5. PatienceInv => Lost(p)' + 1 <= Writes
      <3>1. PatienceInv => Lost(p) + 1 <= Writes
        BY <1>1 DEF PatienceInv
      <3>2. Writes \in Nat
        BY WritesType
      <3> QED
        BY <1>5, <2>3, <2>4, <3>1, <3>2
    <2>6. l \in Reversing /\ pc[p] \in Unwritten
      BY <1>1 DEF Reversing, Unwritten
    <2> QED
      BY <1>0, <1>1, <1>3, <1>4, <1>5, <2>1, <2>5, <2>6, QuietKeeps
  <1>6. CASE WalletRead(p)
    <2>1. PICK j : j = [job[p] EXCEPT !.seen = bal["hours"]]
      OBVIOUS
    <2>2. /\ j.about = x /\ j.op = o /\ j.tag = job[p].tag /\ j.after = job[p].after
          /\ j.tries = job[p].tries /\ j.seen = bal["hours"]
      BY <1>0, <1>1, <2>1 DEF JobSpace
    <2>3. Enter(p, "swap", j) /\ UNCHANGED <<bal, applied>> /\ pc[p] = "read"
      BY <1>0, <1>2, <1>6, <2>1 DEF WalletRead, data
    <2>4. Lost(p) = job[p].tries
      BY <1>1, <2>3 DEF Lost, Beaten
    <2> QED
      BY <1>1, <1>5, <2>2, <2>3, <2>4
  <1>7. CASE WalletSwap(p)
    <2>0. pc[p] = "swap"
      BY <1>7 DEF WalletSwap
    <2>1. CASE /\ bal["hours"] = job[p].seen
               /\ Write(p, "hours", Wallets!Effect(o, job[p].seen), job[p].seen)
      <3>1. PICK n, b : n = Wallets!Effect(o, b) /\ b = job[p].seen
        OBVIOUS
      <3>2. n = b + Lent(x)
        BY <1>2, <3>1, FreeHoursAssumption
           DEF Wallets!Effect, Wallets!Capped, Wallets!Unlimited
      <3>3. b = bal["hours"] /\ n \in Nat /\ n - b = Lent(x) /\ n > b
        BY <1>1, <1>2, <2>1, <3>1, <3>2
      <3>4. Write(p, "hours", n, b)
        BY <2>1, <3>1
      <3> QED
        BY <1>0, <1>2, <1>4, <2>0, <3>3, <3>4, WriteKeeps
    <2>2. CASE /\ bal["hours"] # job[p].seen /\ UNCHANGED <<bal, applied>>
               /\ Enter(p, "read", [job[p] EXCEPT !.tries = @ + 1, !.seen = 0])
      <3>1. PICK j : j = [job[p] EXCEPT !.tries = @ + 1, !.seen = 0]
        OBVIOUS
      <3>2. /\ j.about = x /\ j.op = o /\ j.tag = job[p].tag /\ j.after = job[p].after
            /\ j.tries = job[p].tries + 1
        BY <1>0, <1>1, <3>1 DEF JobSpace
      <3>3. Lost(p) = job[p].tries + 1
        BY <2>0, <2>2 DEF Lost, Beaten
      <3>4. Enter(p, "read", j) /\ UNCHANGED <<bal, applied>>
        BY <2>2, <3>1
      <3>5. j.tries \in Nat /\ ~(j.tries > Lost(p))
        BY <1>1, <3>2, <3>3
      <3> QED
        BY <1>5, <3>2, <3>4, <3>5
    <2>3. CASE /\ bal["hours"] # job[p].seen /\ job[p].tries = MaxRetries
               /\ Throw(p) /\ UNCHANGED <<bal, applied>>
      <3>1. Enter(p, "idle", IdleJob)
        BY <2>3 DEF Throw, Done
      <3>2. Whole(IdleJob, "idle") /\ IdleJob.about = NoRef
        BY IdleJobType DEF Whole, Webhook
      <3>3. ~(PatienceInv /\ FewRequests)
        <4> SUFFICES ASSUME PatienceInv, FewRequests PROVE FALSE
          OBVIOUS
        <4>1. Lost(p) = MaxRetries + 1 /\ MaxRetries \in Nat
          BY <2>0, <2>3, FreeHoursAssumption DEF Lost, Beaten
        <4>2. Lost(p) + 1 <= Writes /\ Writes + SumFunction(Yet) <= arrivals
          BY <2>0 DEF PatienceInv
        <4>3. May(pc[p]) = 1 /\ May(pc[p]) <= SumFunction(Yet)
          BY <2>0, WritesType DEF May, Unwritten
        <4>4. Writes \in Nat /\ SumFunction(Yet) \in Nat /\ arrivals \in Nat
          BY WritesType DEF IInv, TypeOK
        <4>5. arrivals <= MaxRetries + 2
          BY DEF FewRequests
        <4> QED
          BY <4>1, <4>2, <4>3, <4>4, <4>5
      <3>4. "idle" \notin Unwritten /\ pc[p] # "post"
        BY <2>0 DEF Unwritten
      <3> QED
        BY <1>0, <1>3, <1>4, <2>3, <3>1, <3>2, <3>3, <3>4, QuietKeeps
    <2> QED
      BY <1>0, <1>2, <1>7, <2>1, <2>2, <2>3 DEF WalletSwap
  <1> QED
    BY <1>6, <1>7

LEMMA DeductKeeps ==
    ASSUME IInv, IInv', OnceInv, OnceInv', SpendOnly, Finite, WholeInv, NEW p \in Proc,
           WalletDeduct(p)
    PROVE  WholeInv' /\ (PatienceInv => PatienceInv')
  <1>0. PICK x, o, w : x = job[p].about /\ o = job[p].op /\ w = o.wallet
    OBVIOUS
  <1>1. /\ pc[p] = "deduct" /\ UNCHANGED <<plan, ledger, row, arrivals>>
        /\ Taking(job[p]) \/ Adjusting(job[p])
        /\ o.kind = "deduct" /\ o.amount \in Nat /\ w \in Wallet /\ bal[w] \in Nat
    <2>1. pc[p] = "deduct" /\ UNCHANGED <<plan, ledger, row, arrivals>>
      BY DEF WalletDeduct
    <2>2. o.kind = "deduct" /\ (Taking(job[p]) \/ Adjusting(job[p]))
      BY <1>0, <2>1 DEF WholeInv, Whole, OnceInv, Shape
    <2>3. o.amount \in Nat /\ w \in Wallet
      BY <1>0, JobFit, OperationParts
    <2> QED
      BY <2>1, <2>2, <2>3 DEF IInv, TypeOK
  <1>2. CASE bal[w] >= o.amount /\ Write(p, w, Wallets!Effect(o, bal[w]), bal[w])
    <2>1. PICK n, b : n = Wallets!Effect(o, b) /\ b = bal[w]
      OBVIOUS
    <2>2. n = b - o.amount
      BY <1>1, <2>1 DEF Wallets!Effect
    <2>3. n \in Nat /\ n <= b
      BY <1>1, <1>2, <2>1, <2>2
    <2>4. Write(p, w, n, b)
      BY <1>2, <2>1
    <2> QED
      BY <1>0, <1>1, <2>1, <2>3, <2>4, WriteKeeps
  <1>3. CASE Throw(p) /\ UNCHANGED <<bal, applied>>
    <2>1. Enter(p, "idle", IdleJob)
      BY <1>3 DEF Throw, Done
    <2>2. Whole(IdleJob, "idle") /\ IdleJob.about = NoRef
      BY IdleJobType DEF Whole, Webhook
    <2>3. "idle" \notin Unwritten /\ pc[p] \notin Reversing \cup {"mark"}
      BY <1>1 DEF Unwritten, Reversing
    <2>8. Cleared(x)' => Cleared(x)
      BY <1>1 DEF Cleared, Cancelled
    <2>4. x # NoRef => \A q \in Proc \ {p} : job[q].about # x
      BY <1>0, OnlyOne
    <2>5. job[p].about \in {x, NoRef} /\ IdleJob.about \in {x, NoRef}
      BY <1>0, <2>2
    <2>6. UNCHANGED <<bal, plan, ledger, applied>> /\ \A y \in Res \ {x} : row'[y] = row[y]
      BY <1>1, <1>3
    <2>7. arrivals' = arrivals /\ row' = row /\ pc[p] # "post" /\ "idle" \notin {"read", "swap"}
      BY <1>1
    <2> QED
      BY <2>1, <2>2, <2>3, <2>4, <2>5, <2>6, <2>7, <2>8, QuietKeeps
  <1> QED
    BY <1>0, <1>2, <1>3 DEF WalletDeduct

-----------------------------------------------------------------------------
(* The invariants, and the theorems *)

LEMMA InitWhole == SpendOnly /\ Finite /\ Init => WholeInv /\ PatienceInv
  <1> SUFFICES ASSUME SpendOnly, Finite, Init PROVE WholeInv /\ PatienceInv
    OBVIOUS
  <1>0. IInv
    BY InitIInv
  <1>1. \A p \in Proc : pc[p] = "idle" /\ job[p] = IdleJob
    BY DEF Init
  <1>2. ASSUME NEW r \in Res
        PROVE  /\ Lent(r) = 0 /\ ~Cleared(r)
               /\ applied["hours"][<<"cancelled", r>>] = 0
    <2>1. DeltaOf(pc, job, r) = 0
      BY <1>1, DeltaNone
    <2>2. /\ ledger["hours"][<<"reservation", r>>].net = 0
          /\ ledger["hours"][<<"cancelled", r>>].net = 0
          /\ applied["hours"][<<"cancelled", r>>] = 0
      BY TagType DEF Init, Wallet
    <2> QED
      BY <2>1, <2>2 DEF Lent, CommittedUnits, Init, Cleared, Cancelled
  <1>3. ASSUME NEW r \in Res PROVE Lent(r) \in Nat /\ ReturnedWhole(r)
    <2>1. PICK u, c : u = Lent(r) /\ c = applied["hours"][<<"cancelled", r>>]
      OBVIOUS
    <2>2. u = 0 /\ c = 0
      BY <1>2, <2>1
    <2>3. u \in Nat /\ ~(c >= 1)
      BY <2>2
    <2> QED
      BY <2>1, <2>2, <2>3 DEF ReturnedWhole
  <1>4. bal["hours"] + SumFunction(LentTable) <= Opening["hours"]
    <2>1. PICK f : f = LentTable
      OBVIOUS
    <2>2. f = [r \in Res |-> 0]
      BY <1>2, <2>1 DEF LentTable
    <2>3. SumFunction(f) = 0
      BY <2>2, SumZero DEF Finite
    <2>4. bal["hours"] = Opening["hours"] /\ Opening["hours"] \in Nat
      BY FreeHoursAssumption DEF Init, Wallet
    <2> QED
      BY <2>1, <2>3, <2>4
  <1>5. \A p \in Proc : Whole(job[p], pc[p])
    BY <1>1, IdleJobType DEF Whole, Webhook
  <1>6. WholeInv
    BY <1>3, <1>4, <1>5 DEF WholeInv, Init
  <1>7. Writes = 0
    <2>1. PICK f : f = applied["hours"]
      OBVIOUS
    <2>2. f \in [Tag -> Int] /\ \A t \in Tag : f[t] = 0
      BY <2>1 DEF Init, Wallet
    <2> QED
      BY <2>1, <2>2, FiniteTag, SumZero DEF Writes
  <1>8. SumFunction(Yet) = 0
    <2>1. PICK f : f = Yet
      OBVIOUS
    <2>2. f \in [Proc -> Int] /\ \A p \in Proc : f[p] = 0
      BY <1>1, <2>1 DEF Yet, Unwritten
    <2> QED
      BY <2>1, <2>2, SumZero DEF Finite
  <1>9. arrivals = 0
    BY DEF Init
  <1>10. PatienceInv
    <2>1. \A p \in Proc : pc[p] \notin {"read", "swap"}
      BY <1>1
    <2>2. \A r \in Res : ~Cleared(r)
      BY <1>2
    <2>3. Writes + SumFunction(Yet) <= arrivals
      BY <1>7, <1>8, <1>9
    <2> QED
      BY <2>1, <2>2, <2>3 DEF PatienceInv
  <1> QED
    BY <1>6, <1>10

LEMMA StepWhole ==
    ASSUME SpendOnly, Finite
    PROVE  IInv /\ OnceInv /\ WholeInv /\ [Next]_vars
               => WholeInv' /\ (PatienceInv => PatienceInv')
  <1> SUFFICES ASSUME IInv, OnceInv, WholeInv, [Next]_vars
               PROVE  WholeInv' /\ (PatienceInv => PatienceInv')
    OBVIOUS
  <1>0. IInv' /\ OnceInv'
    BY StepIInv, StepOnce DEF SpendOnly
  <1>1. ASSUME NEW p \in Proc, Step(p) PROVE WholeInv' /\ (PatienceInv => PatienceInv')
    <2>1. CASE WalletRead(p) \/ WalletSwap(p)
      BY <1>0, <2>1, SwapKeeps
    <2>2. CASE WalletDeduct(p)
      BY <1>0, <2>2, DeductKeeps
    <2>3. CASE PostEntry(p)
      BY <1>0, <2>3, PostKeeps
    <2>4. CASE PriceRead(p) \/ PlanRead(p) \/ BalanceRead(p) \/ MarkPriced(p)
      BY <1>0, <2>4, CommitKeeps
    <2>8. CASE Settling(p)
      BY <1>0, <2>8, SettleKeeps
    <2>5. CASE \/ CancelWrite(p) \/ CancelRefund(p) \/ RefundMark(p)
               \/ BackCheck(p) \/ BackSum(p) \/ BackPlan(p) \/ BackBalance(p)
      BY <1>0, <2>5, CancelKeeps
    <2>6. pc[p] \notin Webhook
      BY DEF WholeInv, Whole
    <2>7. ~(\/ HoursCheck(p) \/ EquipmentCheck(p) \/ PlanWrite(p)
            \/ ZeroEquipment(p) \/ PlanClear(p))
      BY <2>6 DEF Webhook, HoursCheck, EquipmentCheck, PlanWrite, ZeroEquipment, PlanClear
    <2> QED
      BY <1>1, <2>1, <2>2, <2>3, <2>4, <2>5, <2>7, <2>8 DEF Step, Settling
  <1>2. ASSUME NEW p \in Proc, Request(p) PROVE WholeInv' /\ (PatienceInv => PatienceInv')
    BY <1>0, <1>2, RequestKeeps
  <1>3. ~ \E p \in Proc : Crash(p) \/ \E e \in Event : Deliver(p, e)
    BY DEF Crash, Deliver, SpendOnly, Orderly
  <1>4. CASE UNCHANGED vars
    <2>1. /\ UNCHANGED <<bal, plan, ledger, applied, pc, job>> /\ arrivals <= arrivals'
          /\ \A r \in Res : Cleared(r)' => Cleared(r)
      BY <1>4 DEF vars, Cleared, Cancelled, IInv, TypeOK
    <2> QED
      BY <1>0, <2>1, StillKeeps
  <1> QED
    BY <1>1, <1>2, <1>3, <1>4 DEF Next

\* Nothing of a booking that nobody works on is about to be posted.
LEMMA SettledLent ==
    ASSUME IInv, NEW r \in Res, Settled(r)
    PROVE  /\ Owed(r) \in Int /\ Lent(r) = Owed(r)
           /\ Owed(r) = 0 => ledger["hours"][<<"reservation", r>>].net
                               + ledger["hours"][<<"cancelled", r>>].net = 0
  <1>1. /\ ledger["hours"][<<"reservation", r>>].net \in Int
        /\ ledger["hours"][<<"cancelled", r>>].net \in Int
    BY TagType DEF IInv, TypeOK, Wallet
  <1>2. DeltaOf(pc, job, r) = 0
    BY DeltaNone DEF Settled
  <1> QED
    BY <1>1, <1>2 DEF Lent, Owed, CommittedUnits

\* Whoever asks for it, and whatever else is spent meanwhile, a reversal that
\* gives anything back gives all: what a settled booking took and what it was
\* given back cancel out (reverseReservationCredits), unless the booking was
\* cancelled and then settled again.
ReversalsWhole ==
    \A r \in Res : Settled(r) /\ ledger["hours"][<<"cancelled", r>>].rows >= 1
                     /\ (row[r].status = "cancelled" => row[r].due = Unpriced) =>
        ledger["hours"][<<"reservation", r>>].net + ledger["hours"][<<"cancelled", r>>].net = 0

THEOREM ReversalsReturnAll ==
    ASSUME SpendOnly, Finite
    PROVE  Spec => []ReversalsWhole
  <1>1. Init => IInv /\ OnceInv /\ WholeInv
    BY InitIInv, InitOnce, InitWhole
  <1>2. (IInv /\ OnceInv /\ WholeInv) /\ [Next]_vars => (IInv /\ OnceInv /\ WholeInv)'
    BY StepIInv, StepOnce, StepWhole DEF SpendOnly
  <1>3. IInv /\ OnceInv /\ WholeInv => ReversalsWhole
    <2> SUFFICES ASSUME IInv, OnceInv, WholeInv, NEW r \in Res, Settled(r),
                        ledger["hours"][<<"cancelled", r>>].rows >= 1,
                        Cancelled(r) => row[r].due = Unpriced
                 PROVE  ledger["hours"][<<"reservation", r>>].net
                          + ledger["hours"][<<"cancelled", r>>].net = 0
      BY DEF ReversalsWhole, Cancelled
    <2>1. \A q \in Proc : ~Posts(q, "hours", <<"cancelled", r>>) /\ ~Spending(q, r)
      <3>1. ASSUME NEW q \in Proc PROVE job[q].about # r /\ Shape(job[q], pc[q])
        BY DEF Settled, OnceInv
      <3> QED
        BY <3>1, NotMine
    <2>2. applied["hours"][<<"cancelled", r>>] >= 1
      BY <2>1 DEF OnceInv, Books, BooksOfRes, Counted
    <2>3. applied["hours"][<<"reservation", r>>] <= 1
      <3>1. /\ applied["hours"][<<"reservation", r>>] \in Nat
            /\ applied["hours"][<<"reservation", r>>] <= Limit(r) /\ Unspent(r)
        BY TagType DEF IInv, TypeOK, Wallet, OnceInv, Books, BooksOfRes
      <3> QED
        BY <2>1, <3>1 DEF Limit, Unspent
    <2>4. Lent(r) = 0
      BY <2>2, <2>3 DEF WholeInv, ReturnedWhole
    <2> QED
      BY <2>4, SettledLent
  <1> QED
    BY <1>1, <1>2, <1>3, PTL DEF Spec

\* The hours of a cancelled booking are back when its cancellation is over, unless
\* the cancelled row is settled again, as long as no more than MaxRetries + 2
\* requests have been made: one took the hours, one returns them, and the others
\* cannot beat its compare-and-swap often enough for it to give up (cancel,
\* addCredits).
THEOREM CancelledHoursReturn ==
    ASSUME SpendOnly, Finite
    PROVE  Spec => [](FewRequests => CancelReturnsHours)
  <1> DEFINE I == IInv /\ OnceInv /\ WholeInv /\ PatienceInv
  <1>1. Init => I
    BY InitIInv, InitOnce, InitWhole
  <1>2. I /\ [Next]_vars => I'
    BY StepIInv, StepOnce, StepWhole DEF SpendOnly
  <1>3. I => (FewRequests => CancelReturnsHours)
    <2> SUFFICES ASSUME I, FewRequests, NEW r \in Res, Settled(r), Cleared(r)
                 PROVE  ledger["hours"][<<"reservation", r>>].net
                          + ledger["hours"][<<"cancelled", r>>].net = 0
      BY DEF CancelReturnsHours, Cleared, Cancelled
    <2>1. Lent(r) = 0
      BY DEF PatienceInv, ComesBack, Returns, Spending, Settled
    <2> QED
      BY <2>1, SettledLent
  <1> QED
    BY <1>1, <1>2, <1>3, PTL DEF Spec

\* Arrivals are counted, and stop at the bound.
LEMMA CountedArrivals ==
    ASSUME IInv, arrivals <= MaxArrivals, [Next]_vars
    PROVE  arrivals' <= MaxArrivals
  <1>0. arrivals \in Nat /\ MaxArrivals \in Nat
    BY FreeHoursAssumption DEF IInv, TypeOK
  <1>1. ASSUME NEW p \in Proc, Step(p) PROVE arrivals' = arrivals
    BY <1>1 DEF Step, WalletRead, WalletSwap, WalletDeduct, PostEntry, PriceRead, PlanRead,
                BalanceRead, MarkPriced, SettleCovered, SettleOwing, TakeCash, Complete,
                CardWrite, CompConfirm, CompWrite, CancelWrite, CancelRefund, RefundMark,
                BackCheck, BackSum, BackPlan, BackBalance, HoursCheck, EquipmentCheck,
                PlanWrite, ZeroEquipment, PlanClear
  <1>2. ASSUME NEW p \in Proc, Request(p) \/ Crash(p) \/ \E e \in Event : Deliver(p, e)
        PROVE  arrivals' = arrivals \/ (arrivals' = arrivals + 1 /\ arrivals < MaxArrivals)
    BY <1>2 DEF Request, ConfirmRead, CashRead, CardRead, CompRead, Resolve, CancelRead,
                RefundRead, Adjust, Deliver, Crash, Accepts, LetIn
  <1>3. CASE UNCHANGED vars
    BY <1>3 DEF vars
  <1> QED
    BY <1>0, <1>1, <1>2, <1>3 DEF Next

\* And where no more requests can be made than that, as in an instance of the
\* model with so small a bound, they are back whenever the cancellation is over.
THEOREM CancellationReturnsHours ==
    ASSUME SpendOnly, Finite, MaxArrivals <= MaxRetries + 2
    PROVE  Spec => []CancelReturnsHours
  <1> DEFINE I == IInv /\ arrivals <= MaxArrivals
  <1>1. Init => I
    BY InitIInv, FreeHoursAssumption DEF Init
  <1>2. I /\ [Next]_vars => I'
    BY StepIInv, CountedArrivals
  <1>3. I => FewRequests
    BY FreeHoursAssumption DEF FewRequests, IInv, TypeOK
  <1> QED
    BY <1>1, <1>2, <1>3, CancelledHoursReturn, PTL DEF Spec
=============================================================================
