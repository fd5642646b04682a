------------------------------ MODULE DoorCodes ------------------------------
(***************************************************************************)
(* The door codes of bookings: lock-service.ts over ultraloc-client.ts,    *)
(* with the listeners that call it, the daily lock job, the 15-minute pass *)
(* and the staff retry of lock.remote.ts.                                  *)
(*                                                                         *)
(* A booking's row says which code it holds, which user of the lock that   *)
(* is (its id) and whether the lock is known to have it.  U-tec's cloud    *)
(* takes every change and the lock learns of it when it is next online, so *)
(* a user has two copies: `user`, which list and get answer from, and      *)
(* `lock`, which opens the door.                                           *)
(*                                                                         *)
(* One action is one awaited statement or U-tec call of a process p (the   *)
(* list and the gets of one loop are a single read).  The room is booked   *)
(* once a day, so a day stands for a window.  Left out: standing member    *)
(* codes, which only keep a booking from being given a code, the           *)
(* self-test, the alerts, and two bookings drawing the same 4 digits.      *)
(***************************************************************************)
EXTENDS Naturals, FiniteSets

CONSTANTS
    Booking,
    MaxUser,        \* bound: how many users are ever added to the lock
    MaxDay,         \* bound: the last day; nothing is booked for it
    Window,         \* CONFIRMATION_WINDOW_DAYS
    Caller,         \* requests and listeners in flight at once
    Job,            \* scheduled jobs in flight at once
    MaxFault,       \* bound: crashes, failed U-tec calls and lost ids
    NoBooking,      \* no booking
    Handlers        \* the entry points and faults this instance lets in

ASSUME DoorAssumption ==
    /\ MaxUser \in Nat /\ MaxFault \in Nat /\ Window \in Nat
    /\ MaxDay \in Nat \ {0}
    /\ NoBooking \notin Booking

Proc == Caller \cup Job

\* Users are numbered as they are added; a fresh code has its user's number.
User == 1 .. MaxUser
None == 0

VARIABLES
    day,        \* the date
    row,        \* row[b]: the reservation
    user,       \* user[u]: the lock user in U-tec's cloud
    lock,       \* lock[u]: the lock's own copy
    added,      \* how many users have been added
    faults,     \* faults so far
    pc, job

vars == <<day, row, user, lock, added, faults, pc, job>>
utec == <<user, lock, added>>

-----------------------------------------------------------------------------
NewRow  == [status |-> "none", start |-> 0, code |-> None, id |-> None, synced |-> FALSE]
NoUser  == [on |-> FALSE, at |-> 0, code |-> None]
NoRows  == [b \in Booking |-> NewRow]

\* The rows of S as they are now.
Snapshot(S) == [b \in Booking |-> IF b \in S THEN row[b] ELSE NewRow]

\* b: the booking in hand; from: where it was moved from; u, id: the user added
\* and the id found for it; rows, users: the rest of a loop; snap: the rows as
\* last read; then: where to go on when the booking in hand is done.
IdleJob == [b |-> NoBooking, from |-> 0, u |-> None, id |-> None, rows |-> {}, users |-> {},
            snap |-> NoRows, then |-> "idle"]
About(b) == [IdleJob EXCEPT !.b = b]

Enter(p, label, j) ==
    /\ pc'  = [pc EXCEPT ![p] = label]
    /\ job' = [job EXCEPT ![p] = IF label = "idle" THEN IdleJob ELSE j]
Goto(p, label) == Enter(p, label, job[p])
Return(p) == Goto(p, "idle")

Accepts(h, p) ==
    /\ h \in Handlers /\ pc[p] = "idle"
    /\ p \in IF h \in {"daily", "upcoming"} THEN Job ELSE Caller
Fault == faults < MaxFault /\ faults' = faults + 1

Listed == {u \in User : user[u].on}

\* sync_status = 1
Landed(u) == u \in Listed /\ lock[u] = user[u]

Delete(u) == user' = [user EXCEPT ![u].on = FALSE]

\* provisioningWindow()
InWindow(s) == day <= s /\ s <= day + Window

Clear(r) == [r EXCEPT !.code = None, !.id = None, !.synced = FALSE]

Free(s) == \A b \in Booking : row[b].status = "confirmed" => row[b].start # s

-----------------------------------------------------------------------------
(* provisionAccessFor(), for the booking in hand as it was last read *)

\* addLockUser() lists the users, adds one, and lists them again.
ListBefore(p) ==
    /\ pc[p] = "before"
    /\ Enter(p, "add", [job[p] EXCEPT !.users = Listed])
    /\ UNCHANGED <<day, row, utec, faults>>

Add(p) ==
    LET r == job[p].snap[job[p].b]
        u == added + 1 IN
    /\ pc[p] = "add" /\ added < MaxUser
    /\ added' = u
    /\ user' = [user EXCEPT ![u] =
          [on |-> TRUE, at |-> r.start, code |-> IF r.code = None THEN u ELSE r.code]]
    /\ Enter(p, "after", [job[p] EXCEPT !.u = u])
    /\ UNCHANGED <<day, row, lock, faults>>

\* The bound is reached: as if U-tec refused.
AddRefused(p) ==
    /\ pc[p] = "add" /\ added = MaxUser
    /\ Goto(p, job[p].then)
    /\ UNCHANGED <<day, row, utec, faults>>

\* Mutant: the number the next user would get, if the lists do not tell.
OnlyOneOrNext(S) == IF Cardinality(S) = 1 THEN CHOOSE u \in S : TRUE ELSE added + 1

\* Mutant: of several new users the first is taken.
OnlyOneOrFirst(S) == IF S = {} THEN None ELSE CHOOSE u \in S : \A v \in S : u <= v

\* The id is the one user the second list has and the first has not.
OnlyOne(S) == IF Cardinality(S) = 1 THEN CHOOSE u \in S : TRUE ELSE None

\* The new user may not be in the second list yet.
ListAfter(p) ==
    LET j == job[p]
        Found(new) == Enter(p, "record", [j EXCEPT !.id = OnlyOne(new), !.users = {}]) IN
    /\ pc[p] = "after"
    /\ \/ Found(Listed \ j.users) /\ UNCHANGED faults
       \/ "lag" \in Handlers /\ Fault /\ Found(Listed \ (j.users \cup {j.u}))
    /\ UNCHANGED <<day, row, utec>>

\* UPDATE by id, whatever the booking has become.
Record(p) ==
    LET j == job[p] IN
    /\ pc[p] = "record"
    /\ row' = [row EXCEPT ![j.b].code = user[j.u].code, ![j.b].id = j.id, ![j.b].synced = FALSE]
    /\ Enter(p, j.then, [j EXCEPT !.u = None, !.id = None])
    /\ UNCHANGED <<day, utec, faults>>

-----------------------------------------------------------------------------
(* Confirmed, cancelled, moved, retried *)

\* A booking is confirmed, and reservation.confirmed is emitted.
Confirm(p, b, s) ==
    /\ Accepts("confirm", p)
    /\ row[b].status = "none"
    /\ s >= day /\ s < MaxDay /\ Free(s)
    /\ row' = [row EXCEPT ![b].status = "confirmed", ![b].start = s]
    /\ Enter(p, "listener", About(b))
    /\ UNCHANGED <<day, utec, faults>>

\* provisionOnConfirm()
ListenerRead(p) ==
    LET r == row[job[p].b] IN
    /\ pc[p] = "listener"
    /\ IF r.status = "confirmed" /\ r.code = None /\ InWindow(r.start)
       THEN Enter(p, "before", [job[p] EXCEPT !.snap = Snapshot({job[p].b})])
       ELSE Return(p)
    /\ UNCHANGED <<day, row, utec, faults>>

Cancel(p, b) ==
    /\ Accepts("cancel", p)
    /\ row[b].status = "confirmed"
    /\ row' = [row EXCEPT ![b].status = "cancelled"]
    /\ Enter(p, "revoke", About(b))
    /\ UNCHANGED <<day, utec, faults>>

HoldsAccess(r) == r.code # None \/ r.id # None

\* revokeAccessFor()
RevokeRead(p) ==
    /\ pc[p] = "revoke"
    /\ IF row[job[p].b].status # "confirmed" /\ HoldsAccess(row[job[p].b])
       THEN Enter(p, "held", [job[p] EXCEPT !.snap = Snapshot({job[p].b})])
       ELSE Return(p)
    /\ UNCHANGED <<day, row, utec, faults>>

\* A row without an id finds its user by its window, and by its code where get
\* returns one (for the users `shown`).
UsersOf(r, shown) ==
    IF r.id # None THEN {r.id}
    ELSE {u \in Listed : user[u].at = r.start /\
                            (u \in shown /\ r.code # None => user[u].code = r.code)}

\* The users whose code get may return: all, or as U-tec pleases.
Shown == IF "hidden" \in Handlers THEN SUBSET Listed ELSE {Listed}

\* removeHeldAccess() throws if U-tec does, and then leaves the columns set.
Held(p) ==
    /\ pc[p] = "held"
    /\ \E shown \in Shown :
          Enter(p, "heldDelete", [job[p] EXCEPT !.users = UsersOf(job[p].snap[job[p].b], shown)])
    /\ UNCHANGED <<day, row, utec, faults>>

\* Mutant: the columns are cleared and no user is deleted.
HeldDeleteNobody(p) ==
    /\ pc[p] = "heldDelete"
    /\ Enter(p, "heldClear", [job[p] EXCEPT !.users = {}])
    /\ UNCHANGED <<day, row, utec, faults>>

HeldDelete(p) ==
    /\ pc[p] = "heldDelete"
    /\ \/ \E u \in job[p].users :
             /\ Delete(u)
             /\ Enter(p, "heldDelete", [job[p] EXCEPT !.users = @ \ {u}])
       \/ job[p].users = {} /\ Goto(p, "heldClear") /\ UNCHANGED user
    /\ UNCHANGED <<day, row, lock, added, faults>>

HeldClear(p) ==
    /\ pc[p] = "heldClear"
    /\ row' = [row EXCEPT ![job[p].b] = Clear(@)]
    /\ Goto(p, job[p].then)
    /\ UNCHANGED <<day, utec, faults>>

\* A show and its hold move; syncAccessWindow() follows.
Move(p, b, s) ==
    /\ Accepts("move", p)
    /\ row[b].status = "confirmed" /\ row[b].start >= day
    /\ s >= day /\ s < MaxDay /\ Free(s)
    /\ row' = [row EXCEPT ![b].start = s]
    /\ Enter(p, "follow", [About(b) EXCEPT !.from = row[b].start])
    /\ UNCHANGED <<day, utec, faults>>

FollowRead(p) ==
    LET j == [job[p] EXCEPT !.snap = Snapshot({job[p].b})]
        r == row[j.b] IN
    /\ pc[p] = "follow"
    /\ CASE r.status # "confirmed"        -> Return(p)
         [] r.code = None                 -> IF InWindow(r.start) THEN Enter(p, "before", j)
                                             ELSE Return(p)
         [] r.start = j.from              -> Return(p)
         [] r.id # None                   -> Enter(p, "repoint", j)
         [] OTHER                         -> Enter(p, "followFind", j)
    /\ UNCHANGED <<day, row, utec, faults>>

Repoint(p) ==
    LET r == job[p].snap[job[p].b] IN
    /\ pc[p] = "repoint"
    /\ user' = [user EXCEPT ![r.id].at = IF user[r.id].on THEN r.start ELSE @]
    /\ Goto(p, "repointed")
    /\ UNCHANGED <<day, row, lock, added, faults>>

Repointed(p) ==
    /\ pc[p] = "repointed"
    /\ row' = [row EXCEPT ![job[p].b].synced = FALSE]
    /\ Return(p)
    /\ UNCHANGED <<day, utec, faults>>

\* Without an id the old user is looked for by its old window, whatever its code.
FollowFind(p) ==
    /\ pc[p] = "followFind"
    /\ Enter(p, "followDelete", [job[p] EXCEPT !.users = {u \in Listed : user[u].at = job[p].from}])
    /\ UNCHANGED <<day, row, utec, faults>>

FollowDelete(p) ==
    /\ pc[p] = "followDelete"
    /\ \/ \E u \in job[p].users :
             /\ Delete(u)
             /\ Enter(p, "followDelete", [job[p] EXCEPT !.users = @ \ {u}])
       \/ job[p].users = {} /\ Goto(p, "before") /\ UNCHANGED user
    /\ UNCHANGED <<day, row, lock, added, faults>>

\* retryDoorCodes: this booking's code again, the same one, then the whole job.
Retry(p, b) ==
    /\ Accepts("retry", p)
    /\ row[b].status = "confirmed"
    /\ Enter(p, "before", [About(b) EXCEPT !.snap = Snapshot({b}), !.then = "cleanFind"])
    /\ UNCHANGED <<day, row, utec, faults>>

-----------------------------------------------------------------------------
(* runDailyLockJob(): cleanup, provisioning, reconciliation, sweep *)

Daily(p) ==
    /\ Accepts("daily", p)
    /\ Goto(p, "cleanFind")
    /\ UNCHANGED <<day, row, utec, faults>>

\* Mutant: only the users that rows know of are looked at.
ExpiredRecorded == {u \in Listed : user[u].at < day /\ \E b \in Booking : row[b].id = u}

Expired == {u \in Listed : user[u].at < day}

CleanFind(p) ==
    /\ pc[p] = "cleanFind"
    /\ Enter(p, "cleanDelete", [IdleJob EXCEPT !.users = Expired])
    /\ UNCHANGED <<day, row, utec, faults>>

\* One that cannot be deleted does not stop the others.
CleanDelete(p) ==
    /\ pc[p] = "cleanDelete"
    /\ \/ \E u \in job[p].users :
             /\ Enter(p, "cleanDelete", [job[p] EXCEPT !.users = @ \ {u}])
             /\ \/ Delete(u) /\ UNCHANGED faults
                \/ "fail" \in Handlers /\ Fault /\ UNCHANGED user
       \/ job[p].users = {} /\ Goto(p, "cleanRows") /\ UNCHANGED <<user, faults>>
    /\ UNCHANGED <<day, row, lock, added>>

CleanRows(p) ==
    /\ pc[p] = "cleanRows"
    /\ row' = [b \in Booking |->
          IF row[b].code # None /\ row[b].start < day THEN Clear(row[b]) ELSE row[b]]
    /\ Goto(p, "provision")
    /\ UNCHANGED <<day, utec, faults>>

Due(b) == row[b].status = "confirmed" /\ row[b].code = None /\ InWindow(row[b].start)

Provision(p) ==
    /\ pc[p] = "provision"
    /\ LET due == {b \in Booking : Due(b)} IN
       Enter(p, "provisionNext", [job[p] EXCEPT
          !.rows = due, !.snap = Snapshot(due), !.then = "provisionNext"])
    /\ UNCHANGED <<day, row, utec, faults>>

ProvisionNext(p) ==
    /\ pc[p] = "provisionNext"
    /\ \/ \E b \in job[p].rows :
             Enter(p, "before", [job[p] EXCEPT !.b = b, !.rows = @ \ {b}])
       \/ job[p].rows = {} /\ Enter(p, "syncRead", [IdleJob EXCEPT !.then = "sweep"])
    /\ UNCHANGED <<day, row, utec, faults>>

\* reconcileUpcomingSync(), every 15 minutes if the lock is online.
Upcoming(p) ==
    /\ Accepts("upcoming", p)
    /\ Goto(p, "syncRead")
    /\ UNCHANGED <<day, row, utec, faults>>

\* reconcileSyncState(); the 15-minute pass only asks about what is upcoming.
SyncRead(p) ==
    LET rows == {b \in Booking :
          /\ row[b].status = "confirmed" /\ row[b].id # None /\ ~row[b].synced
          /\ job[p].then = "idle" => InWindow(row[b].start)} IN
    /\ pc[p] = "syncRead"
    /\ IF rows = {} THEN Goto(p, job[p].then)
       ELSE Enter(p, "syncList", [job[p] EXCEPT !.rows = rows, !.snap = Snapshot(rows)])
    /\ UNCHANGED <<day, row, utec, faults>>

\* Mutant: a user in the list is taken for one on the lock.
SyncListed(p) ==
    /\ pc[p] = "syncList"
    /\ Enter(p, "syncStamp", [job[p] EXCEPT !.rows = {b \in @ : job[p].snap[b].id \in Listed}])
    /\ UNCHANGED <<day, row, utec, faults>>

SyncList(p) ==
    /\ pc[p] = "syncList"
    /\ Enter(p, "syncStamp", [job[p] EXCEPT !.rows = {b \in @ : Landed(job[p].snap[b].id)}])
    /\ UNCHANGED <<day, row, utec, faults>>

\* UPDATE by id: lockSyncedAt is set whichever code the row now holds.
SyncStamp(p) ==
    /\ pc[p] = "syncStamp"
    /\ \/ \E b \in job[p].rows :
             /\ row' = [row EXCEPT ![b].synced = TRUE]
             /\ Enter(p, "syncStamp", [job[p] EXCEPT !.rows = @ \ {b}])
       \/ job[p].rows = {} /\ Goto(p, job[p].then) /\ UNCHANGED row
    /\ UNCHANGED <<day, utec, faults>>

\* revokeCancelledAccess()
Sweep(p) ==
    LET rows == {b \in Booking : row[b].status = "cancelled" /\ HoldsAccess(row[b])} IN
    /\ pc[p] = "sweep"
    /\ Enter(p, "sweepNext", [IdleJob EXCEPT
          !.rows = rows, !.snap = Snapshot(rows), !.then = "sweepNext"])
    /\ UNCHANGED <<day, row, utec, faults>>

SweepNext(p) ==
    /\ pc[p] = "sweepNext"
    /\ \/ \E b \in job[p].rows : Enter(p, "held", [job[p] EXCEPT !.b = b, !.rows = @ \ {b}])
       \/ job[p].rows = {} /\ Return(p)
    /\ UNCHANGED <<day, row, utec, faults>>

-----------------------------------------------------------------------------
(* The lock, the clock, and what goes wrong *)

\* The lock is online for a moment and takes what is queued for one user, unless
\* this instance has it offline throughout.
Push(u) ==
    /\ "offline" \notin Handlers
    /\ lock[u] # user[u]
    /\ lock' = [lock EXCEPT ![u] = user[u]]
    /\ UNCHANGED <<day, row, user, added, faults, pc, job>>

\* Nothing is in flight at midnight: the job runs in the morning, and a request
\* is a matter of seconds.
NextDay ==
    /\ day < MaxDay /\ \A p \in Proc : pc[p] = "idle"
    /\ day' = day + 1
    /\ UNCHANGED <<row, utec, faults, pc, job>>

\* Where each caller of U-tec goes on when the call throws.
Caught(p) ==
    CASE pc[p] \in {"before", "add", "after", "syncList", "held", "heldDelete"} -> job[p].then
      [] pc[p] = "cleanFind" -> "cleanRows"
      [] pc[p] = "repoint" -> "followFind"
      [] pc[p] \in {"followFind", "followDelete"} -> "before"
      [] OTHER -> pc[p]

UtecFails(p) ==
    /\ "fail" \in Handlers /\ Caught(p) # pc[p]
    /\ Fault
    /\ Goto(p, Caught(p))
    /\ UNCHANGED <<day, row, utec>>

Crash(p) ==
    /\ "crash" \in Handlers /\ pc[p] # "idle"
    /\ Fault
    /\ Return(p)
    /\ UNCHANGED <<day, row, utec>>

Init ==
    /\ day = 0
    /\ row = NoRows
    /\ user = [u \in User |-> NoUser] /\ lock = [u \in User |-> NoUser]
    /\ added = 0 /\ faults = 0
    /\ pc = [p \in Proc |-> "idle"]
    /\ job = [p \in Proc |-> IdleJob]

Step(p) ==
    \/ ListBefore(p) \/ Add(p) \/ AddRefused(p) \/ ListAfter(p) \/ Record(p)
    \/ ListenerRead(p) \/ RevokeRead(p) \/ Held(p) \/ HeldDelete(p) \/ HeldClear(p)
    \/ FollowRead(p) \/ Repoint(p) \/ Repointed(p) \/ FollowFind(p) \/ FollowDelete(p)
    \/ CleanFind(p) \/ CleanDelete(p) \/ CleanRows(p)
    \/ Provision(p) \/ ProvisionNext(p)
    \/ SyncRead(p) \/ SyncList(p) \/ SyncStamp(p)
    \/ Sweep(p) \/ SweepNext(p)

Request(p) ==
    \/ \E b \in Booking : Cancel(p, b) \/ Retry(p, b)
    \/ \E b \in Booking, s \in 0 .. MaxDay : Confirm(p, b, s) \/ Move(p, b, s)
    \/ Daily(p) \/ Upcoming(p)

Next ==
    \/ \E p \in Proc : Step(p) \/ Request(p) \/ UtecFails(p) \/ Crash(p)
    \/ \E u \in User : Push(u)
    \/ NextDay

Spec == Init /\ [][Next]_vars

-----------------------------------------------------------------------------
(* Properties *)

Label ==
    {"idle", "before", "add", "after", "record", "listener", "revoke", "held",
     "heldDelete", "heldClear", "follow", "repoint", "repointed", "followFind",
     "followDelete", "cleanFind", "cleanDelete", "cleanRows", "provision",
     "provisionNext", "syncRead", "syncList", "syncStamp", "sweep", "sweepNext"}

Day == 0 .. MaxDay
RowSpace == [status : {"none", "confirmed", "cancelled"}, start : Day,
             code : 0 .. MaxUser, id : 0 .. MaxUser, synced : BOOLEAN]
UserSpace == [on : BOOLEAN, at : Day, code : 0 .. MaxUser]
\* The types of the variables.
TypeOK ==
    /\ day \in Day
    /\ row \in [Booking -> RowSpace]
    /\ user \in [User -> UserSpace] /\ lock \in [User -> UserSpace]
    /\ added \in 0 .. MaxUser /\ faults \in 0 .. MaxFault
    /\ pc \in [Proc -> Label]
    /\ DOMAIN job = Proc /\ \A p \in Proc :
          /\ job[p].b \in Booking \cup {NoBooking} /\ job[p].from \in Day /\ job[p].then \in Label
          /\ job[p].u \in 0 .. MaxUser /\ job[p].id \in 0 .. MaxUser
          /\ job[p].rows \subseteq Booking /\ job[p].users \subseteq User
          /\ job[p].snap \in [Booking -> RowSpace]

Upheld(b) == row[b].status = "confirmed" /\ row[b].start >= day

\* Nobody takes the code of a confirmed booking off the lock before its window
\* is over: not the sweep, not the cleanup, not the revocation of another
\* booking that was once in the same window.  Only syncAccessWindow may, and
\* it adds the code again.
LiveCodeStays ==
    [][\A u \in User, b \in Booking :
          /\ user[u].on /\ ~user'[u].on
          /\ Upheld(b) /\ user[u].at = row[b].start /\ user[u].code = row[b].code
          => \E p \in Proc : pc[p] = "followDelete" /\ u \in job[p].users]_vars

\* The lock itself opens for the booking's code in the booking's window.
Opens(b) ==
    \E u \in User : lock[u].on /\ lock[u].code = row[b].code /\ lock[u].at = row[b].start

\* A booking is marked ready on the lock's word ("only sync_status on the user
\* itself says the code is on the device", reconcileSyncState): if its row is
\* still as the pass read it, and its id that of its code, the code opens the
\* door, whatever has been queued, deleted or added since the list.  (Not so for
\* a booking that has moved.)
ReadyOnTheLocksWord ==
    [][\A b \in Booking : Upheld(b) /\ ~row[b].synced /\ row'[b].synced =>
          \E p \in Proc : pc[p] = "syncStamp" /\ b \in job[p].rows /\
              (job[p].snap[b] = row[b] /\ user[row[b].id].code = row[b].code => Opens(b))]_vars

\* The daily job runs, handlers run on, the lock is online now and then.
Fairness ==
    /\ \A p \in Proc : WF_vars(Step(p))
    /\ SF_vars(\E p \in Proc : Daily(p))
    /\ \A u \in User : WF_vars(Push(u))
FairSpec == Spec /\ Fairness

\* The row knows this lock user as its own.
Names(r, u) ==
    IF r.id # None THEN u = r.id
    ELSE r.code # None /\ user[u].code = r.code /\ user[u].at = r.start

\* No process has the booking in hand or on its list.
Unattended(b) == \A p \in Proc : job[p].b # b /\ b \notin job[p].rows

\* "A cancelled booking's code stops opening the door" (revokeAccessFor), as far
\* as its row tells: whoever the row of a cancelled booking names when the
\* handlers that had it in hand are done, though U-tec was unreachable when it
\* was cancelled or the code was recorded after the cancellation, is taken off
\* the lock itself by a later sweep.  (A second user with the same code, which
\* the row does not name, stays.)
CancelledLosesCode ==
    \A b \in Booking, u \in User :
        row[b].status = "cancelled" /\ Names(row[b], u) /\ Unattended(b)
            ~> ~user[u].on /\ ~lock[u].on

\* No temporary user outlives its window, be it one no row knows of any more: a
\* second code, one whose add was recorded by nobody, one taken off by half.
EveryUserExpires == day = MaxDay ~> \A u \in User : ~lock[u].on
=============================================================================
