---------------------------- MODULE CreditWallet ----------------------------
(***************************************************************************)
(* What credit-service.ts promises of a member's two balances: each call   *)
(* is carried out whole, on the balance as it stands, and at most once.    *)
(* No reads that go stale, no retries, no lost update.  FreeHours is shown *)
(* to implement this with a compare-and-swap loop.                         *)
(***************************************************************************)
EXTENDS Integers

CONSTANTS
    Proc,           \* the calls that may be under way at once
    Wallet,         \* the columns that hold a balance
    MaxBalance,     \* creditTypeConfig[w].maxBalance, or Unlimited (null)
    Opening         \* the balances to begin with

Unlimited == -1

VARIABLES
    bal,            \* bal[w]: the balance
    call            \* call[p]: the operation p has asked for and not yet had

\* amount > 0 for an addition or a deduction: the service throws otherwise.
Operation ==
    [wallet : Wallet, kind : {"add", "deduct"}, amount : Nat \ {0}]
        \cup [wallet : Wallet, kind : {"set"}, amount : Nat]

NoCall == [kind |-> "none"]

Capped(w, n) == IF MaxBalance[w] = Unlimited \/ n <= MaxBalance[w] THEN n ELSE MaxBalance[w]

\* The balance after operation o on a balance of b.
Effect(o, b) ==
    CASE o.kind = "add"    -> Capped(o.wallet, b + o.amount)
      [] o.kind = "set"    -> o.amount
      [] o.kind = "deduct" -> b - o.amount

Covers(o, b) == o.kind = "deduct" => b >= o.amount

Init ==
    /\ bal = Opening
    /\ call = [p \in Proc |-> NoCall]

Ask(p) ==
    /\ call[p] = NoCall
    /\ call'[p] \in Operation
    /\ call' = [call EXCEPT ![p] = call'[p]]
    /\ UNCHANGED bal

Perform(p) ==
    /\ call[p] # NoCall
    /\ Covers(call[p], bal[call[p].wallet])
    /\ bal' = [bal EXCEPT ![call[p].wallet] = Effect(call[p], @)]
    /\ call' = [call EXCEPT ![p] = NoCall]

\* Too little in the wallet, too much contention, or the caller is gone.
Refuse(p) ==
    /\ call[p] # NoCall
    /\ call' = [call EXCEPT ![p] = NoCall]
    /\ UNCHANGED bal

Next == \E p \in Proc : Ask(p) \/ Perform(p) \/ Refuse(p)

Spec == Init /\ [][Next]_<<bal, call>>
=============================================================================
