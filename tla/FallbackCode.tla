---------------------------- MODULE FallbackCode ----------------------------
(***************************************************************************)
(* The break-glass door code: fallback-code-service.ts, as the daily lock  *)
(* job, its "Run now" button and the staff rotation run it.                *)
(*                                                                         *)
(* A code is a row of lock_fallback_code and a user on the lock.  U-tec's  *)
(* cloud accepts every change and pushes it down when the lock is online,  *)
(* so there are two copies of each user: what the cloud lists and what the *)
(* lock itself accepts.  One action is one awaited statement or U-tec call *)
(* of a run p; another run may come between any two of them.               *)
(***************************************************************************)
EXTENDS Naturals, FiniteSets

CONSTANTS
    MaxCode,        \* bound: how many codes are ever minted
    Run,            \* daily jobs, Run now and rotations in flight at once
    MaxDay,         \* bound: the last day
    RotationDays,   \* FALLBACK_ROTATION_DAYS
    MaxFault,       \* bound: crashes, failed U-tec calls and lost ids
    Handlers        \* the entry points and faults this instance lets in

ASSUME FallbackAssumption ==
    /\ MaxCode \in Nat \ {0} /\ MaxDay \in Nat /\ MaxFault \in Nat
    /\ RotationDays \in Nat

\* Codes are numbered in the order they are minted (createdAt, id); 0 is none.
Code == 1 .. MaxCode
None == 0

VARIABLES
    day,        \* Date.now()
    row,        \* row[c]: the lock_fallback_code row
    cloud,      \* the users U-tec's cloud lists
    lock,       \* the users the lock lets in
    minted,     \* how many codes have been added
    faults,     \* faults so far
    pc, job

vars == <<day, row, cloud, lock, minted, faults, pc, job>>

-----------------------------------------------------------------------------
(* The table *)

Pending    == {c \in Code : row[c].stage = "pending"}
Active     == {c \in Code : row[c].stage = "active"}

Newest(S)  == {c \in S : \A d \in S : d <= c}

\* getPendingFallbackCode(): the newest row, or none.
PendingRow == IF Pending = {} THEN {None} ELSE Newest(Pending)

\* getActiveFallbackCode(): the row synced last, or none.
ActiveRow ==
    IF Active = {} THEN {None}
    ELSE {c \in Active : \A d \in Active : row[d].since <= row[c].since}

\* The codes that would be handed out to somebody locked out now.
HandedOut == ActiveRow \ {None}

Due(c) == day - row[c].since > RotationDays

-----------------------------------------------------------------------------
(* Runs *)

IdleJob == [c |-> None, out |-> None]

Enter(p, label, j) ==
    /\ pc'  = [pc EXCEPT ![p] = label]
    /\ job' = [job EXCEPT ![p] = j]
Goto(p, label) == Enter(p, label, job[p])
Return(p) == Enter(p, "idle", IdleJob)

Maintaining ==
    {p \in Run : pc[p] \in {"pending", "probe", "drop", "outgoing", "stamp", "retire",
                            "remove", "active", "again"}}

Fault == faults < MaxFault /\ faults' = faults + 1

\* maintainFallbackCode(), from the daily job.  Run now may start a second one.
Maintain(p) ==
    /\ "daily" \in Handlers /\ pc[p] = "idle"
    /\ Maintaining = {} \/ "overlap" \in Handlers
    /\ Goto(p, "pending")
    /\ UNCHANGED <<day, row, cloud, lock, minted, faults>>

\* Mutant: a pending row without an id is kept, to be tried again.
PendingReadKeeping(p) ==
    /\ pc[p] = "pending"
    /\ \E c \in PendingRow :
          Enter(p, IF c \in Pending /\ row[c].known THEN "probe" ELSE "active",
                [IdleJob EXCEPT !.c = c])
    /\ UNCHANGED <<day, row, cloud, lock, minted, faults>>

\* A pending row without an id is no handle on its user: it is dropped.
PendingRead(p) ==
    /\ pc[p] = "pending"
    /\ \E c \in PendingRow :
          Enter(p, IF c = None THEN "active" ELSE IF row[c].known THEN "probe" ELSE "drop",
                [IdleJob EXCEPT !.c = c])
    /\ UNCHANGED <<day, row, cloud, lock, minted, faults>>

Drop(p) ==
    /\ pc[p] = "drop"
    /\ row' = [row EXCEPT ![job[p].c].stage = "deleted"]
    /\ Goto(p, "active")
    /\ UNCHANGED <<day, cloud, lock, minted, faults>>

\* sync_status is 1 when the lock holds what the cloud does.
Synced(c) == c \in cloud /\ c \in lock

\* Mutant: the cloud's acknowledgement is taken for the lock's.
ProbeTrusting(p) ==
    /\ pc[p] = "probe"
    /\ Goto(p, IF job[p].c \in cloud THEN "outgoing" ELSE "active")
    /\ UNCHANGED <<day, row, cloud, lock, minted, faults>>

\* getLockUser(): only a successor the lock has confirmed is promoted.
Probe(p) ==
    /\ pc[p] = "probe"
    /\ Goto(p, IF Synced(job[p].c) THEN "outgoing" ELSE "active")
    /\ UNCHANGED <<day, row, cloud, lock, minted, faults>>

\* Mutant: the outgoing code is retired before its successor is stamped.
OutgoingReadRetiring(p) ==
    /\ pc[p] = "outgoing"
    /\ \E c \in ActiveRow :
          /\ Enter(p, "stamp", [job[p] EXCEPT !.out = c])
          /\ row' = IF c = None THEN row ELSE [row EXCEPT ![c].stage = "retired"]
    /\ UNCHANGED <<day, cloud, lock, minted, faults>>

\* promotePendingCode(): what is in service now ...
OutgoingRead(p) ==
    /\ pc[p] = "outgoing"
    /\ \E c \in ActiveRow : Enter(p, "stamp", [job[p] EXCEPT !.out = c])
    /\ UNCHANGED <<day, row, cloud, lock, minted, faults>>

\* Mutant: the code is dated from the day after.
StampLate(p) ==
    LET c == job[p].c IN
    /\ pc[p] = "stamp"
    /\ row' = [row EXCEPT ![c].since = day + 1,
                          ![c].stage = IF @ = "pending" THEN "active" ELSE @]
    /\ Goto(p, IF job[p].out = None THEN "active" ELSE "retire")
    /\ UNCHANGED <<day, cloud, lock, minted, faults>>

\* ... the successor comes into service, UPDATE by id ...
Stamp(p) ==
    LET c == job[p].c IN
    /\ pc[p] = "stamp"
    /\ row' = [row EXCEPT ![c].since = day,
                          ![c].stage = IF @ = "pending" THEN "active" ELSE @]
    /\ Goto(p, IF job[p].out = None THEN "active" ELSE "retire")
    /\ UNCHANGED <<day, cloud, lock, minted, faults>>

\* ... and only then the incumbent goes, from the table ...
Retire(p) ==
    LET c == job[p].out IN
    /\ pc[p] = "retire"
    /\ row' = [row EXCEPT ![c].stage = IF @ = "active" THEN "retired" ELSE @]
    /\ Goto(p, IF row[c].known THEN "remove" ELSE "active")
    /\ UNCHANGED <<day, cloud, lock, minted, faults>>

\* ... and from the lock; an error here is noted and not retried.
Remove(p) ==
    /\ pc[p] = "remove"
    /\ \/ cloud' = cloud \ {job[p].out} /\ UNCHANGED faults
       \/ Fault /\ UNCHANGED cloud
    /\ Goto(p, "active")
    /\ UNCHANGED <<day, row, lock, minted>>

\* Is there a code in service, and is it young enough?
ActiveRead(p) ==
    /\ pc[p] = "active"
    /\ \E c \in ActiveRow :
          IF c \in Active /\ ~Due(c) THEN Return(p) ELSE Goto(p, "again")
    /\ UNCHANGED <<day, row, cloud, lock, minted, faults>>

\* Mutant: every run mints while the lock is offline.
PendingAgainMinting(p) ==
    /\ pc[p] = "again"
    /\ Goto(p, "add")
    /\ UNCHANGED <<day, row, cloud, lock, minted, faults>>

\* Mint only if nothing is in flight, or an outage would fill the lock.
PendingAgain(p) ==
    /\ pc[p] = "again"
    /\ IF Pending = {} THEN Goto(p, "add") ELSE Return(p)
    /\ UNCHANGED <<day, row, cloud, lock, minted, faults>>

\* rotateFallbackCodeNow(), from the settings page.
Rotate(p) ==
    /\ "rotate" \in Handlers /\ pc[p] = "idle"
    /\ Pending = {}
    /\ Goto(p, "add")
    /\ UNCHANGED <<day, row, cloud, lock, minted, faults>>

\* mintFallbackCode(): addLockUser() ...
Add(p) ==
    /\ pc[p] = "add"
    /\ \/ /\ minted < MaxCode
          /\ minted' = minted + 1
          /\ cloud' = cloud \cup {minted + 1}
          /\ Enter(p, "insert", [IdleJob EXCEPT !.c = minted + 1])
       \/ minted = MaxCode /\ Return(p) /\ UNCHANGED <<cloud, minted>>
    /\ UNCHANGED <<day, row, lock, faults>>

\* ... and the row, without an id when the list before and the list after the
\* add differ by none or by several.  (That they differ by somebody else's user
\* is left to DoorCodes.)
Insert(p) ==
    /\ pc[p] = "insert"
    /\ \E known \in BOOLEAN :
          /\ IF known THEN UNCHANGED faults ELSE "lag" \in Handlers /\ Fault
          /\ row' = [row EXCEPT ![job[p].c] = [stage |-> "pending", known |-> known, since |-> 0]]
    /\ Return(p)
    /\ UNCHANGED <<day, cloud, lock, minted>>

-----------------------------------------------------------------------------
(* The lock, the clock, and what goes wrong *)

\* The lock is online for a moment and takes what is queued for one user.
Push(c) ==
    /\ (c \in cloud) # (c \in lock)
    /\ lock' = IF c \in cloud THEN lock \cup {c} ELSE lock \ {c}
    /\ UNCHANGED <<day, row, cloud, minted, faults, pc, job>>

\* The isolate dies, or a U-tec call throws (cooldown, network): maintain and
\* mint catch it, and the rest of the run never happens.
Fail(p) ==
    /\ "fail" \in Handlers /\ pc[p] # "idle"
    /\ Fault
    /\ Return(p)
    /\ UNCHANGED <<day, row, cloud, lock, minted>>

NextDay ==
    /\ day < MaxDay /\ day' = day + 1
    /\ UNCHANGED <<row, cloud, lock, minted, faults, pc, job>>

Init ==
    /\ day = 0
    /\ row = [c \in Code |-> [stage |-> "none", known |-> FALSE, since |-> 0]]
    /\ cloud = {} /\ lock = {}
    /\ minted = 0 /\ faults = 0
    /\ pc = [p \in Run |-> "idle"]
    /\ job = [p \in Run |-> IdleJob]

Step(p) ==
    \/ PendingRead(p) \/ Drop(p) \/ Probe(p)
    \/ OutgoingRead(p) \/ Stamp(p) \/ Retire(p) \/ Remove(p)
    \/ ActiveRead(p) \/ PendingAgain(p) \/ Add(p) \/ Insert(p)

Next ==
    \/ \E p \in Run : Step(p) \/ Maintain(p) \/ Rotate(p) \/ Fail(p)
    \/ \E c \in Code : Push(c)
    \/ NextDay

Spec == Init /\ [][Next]_vars

-----------------------------------------------------------------------------
(* Properties *)

Label == {"idle", "pending", "probe", "drop", "outgoing", "stamp", "retire",
          "remove", "active", "again", "add", "insert"}

RowSpace == [stage : {"none", "pending", "active", "retired", "deleted"},
             known : BOOLEAN, since : 0 .. MaxDay]

\* The types of the variables.
TypeOK ==
    /\ day \in 0 .. MaxDay
    /\ row \in [Code -> RowSpace]
    /\ cloud \subseteq Code /\ lock \subseteq Code
    /\ minted \in 0 .. MaxCode /\ faults \in 0 .. MaxFault
    /\ pc \in [Run -> Label]
    /\ job \in [Run -> [c : 0 .. MaxCode, out : 0 .. MaxCode]]

\* The code that is handed out opens the door, although the lock may have been
\* offline since it was minted: it is promoted on the lock's own word, and not
\* taken off the lock while it is the one in service.
HandedOutOpens == HandedOut \subseteq lock

\* "The successor is live before the incumbent goes, so there is never a gap"
\* (promotePendingCode): once a code is in service, one always is.
NeverAGap == [][Active # {} => Active' # {}]_vars

\* The daily job is triggered every day and its runs go on; the lock comes back
\* online now and then.
Fairness ==
    /\ \A p \in Run : WF_vars(Step(p))
    /\ SF_vars(\E p \in Run : Maintain(p))
    /\ \A c \in Code : WF_vars(Push(c))
FairSpec == Spec /\ Fairness

\* Whatever fails on the way, a break-glass code comes into service, as long as
\* codes are left to mint: a lost id is minted again, a crash is made good.
ComesIntoService == <>(HandedOut # {} \/ minted = MaxCode)

\* "Only mint if nothing is already in flight, or every run during an outage
\* would add another unusable user to the lock" (maintainFallbackCode): the lock
\* holds the code in service, one more for each run that may race, and one for
\* each thing that went wrong.
LockDoesNotFill == Cardinality(cloud) <= 1 + Cardinality(Run) + faults
=============================================================================
