--------------------------- MODULE DoorCodesProofs ---------------------------
(***************************************************************************)
(* Proofs about DoorCodes, for every set of bookings, callers and jobs and *)
(* every bound.                                                            *)
(*                                                                         *)
(* The argument for the second half: every number that a row, a handler's  *)
(* copy of a row, or a handler that adds or deletes a user carries is a    *)
(* claim of one booking on that user of the lock.  Only Add makes a claim  *)
(* on a user nobody claimed; every other statement copies claims or drops  *)
(* them.  So no two bookings ever claim one user, and whatever is deleted  *)
(* for a cancelled booking was never another booking's code.               *)
(***************************************************************************)
EXTENDS DoorCodes, FiniteSetTheorems, TLAPS

-----------------------------------------------------------------------------
(* Type correctness *)

\* Where a handler goes on when the booking in hand is done.
Resume == {"idle", "cleanFind", "provisionNext", "sweep", "sweepNext"}

JobSpace == [b : Booking \cup {NoBooking}, from : Day, u : 0 .. MaxUser, id : 0 .. MaxUser,
             rows : SUBSET Booking, users : SUBSET User, snap : [Booking -> RowSpace],
             then : Resume]

\* The statements about one booking have one in hand, and a user where they need it.
OnBooking == {"before", "add", "after", "record", "listener", "revoke", "held", "heldDelete",
              "heldClear", "follow", "repoint", "repointed", "followFind", "followDelete"}
Fits(l, j) ==
    /\ l \in OnBooking => j.b \in Booking
    /\ l \in {"after", "record"} => j.u \in User
    /\ l = "repoint" => j.snap[j.b].id \in User

\* TypeOK is not inductive: it does not say that a handler has a booking in hand.
Typed == TypeOK /\ job \in [Proc -> JobSpace] /\ \A p \in Proc : Fits(pc[p], job[p])

\* Only p has moved.
OnlyMoves(p) == \A q \in Proc \ {p} : pc'[q] = pc[q] /\ job'[q] = job[q]

LEMMA IdleJobType ==
    IdleJob \in JobSpace /\ NoRows \in [Booking -> RowSpace] /\ NoUser \in UserSpace
  <1>1. 0 \in Day /\ 0 \in 0 .. MaxUser
    BY DoorAssumption DEF Day
  <1>2. NewRow \in RowSpace
    BY <1>1 DEF NewRow, RowSpace, None
  <1> QED
    BY <1>1, <1>2 DEF IdleJob, JobSpace, NoRows, None, Resume, NoUser, UserSpace

LEMMA SnapshotType == ASSUME TypeOK, NEW S PROVE Snapshot(S) \in [Booking -> RowSpace]
  BY IdleJobType DEF TypeOK, Snapshot, NoRows

\* The variables but for the handlers'.
Data == /\ day \in Day
        /\ row \in [Booking -> RowSpace]
        /\ user \in [User -> UserSpace] /\ lock \in [User -> UserSpace]
        /\ added \in 0 .. MaxUser /\ faults \in 0 .. MaxFault
Control == /\ pc \in [Proc -> Label] /\ job \in [Proc -> JobSpace]
           /\ \A p \in Proc : Fits(pc[p], job[p])

LEMMA TypedParts == Typed <=> Data /\ Control
  BY DEF Typed, TypeOK, Data, Control, JobSpace, Resume, Label

LEMMA TypedPartsNext == Typed' <=> Data' /\ Control'
  BY DEF Typed, TypeOK, Data, Control, JobSpace, Resume, Label

LEMMA EnterType ==
    ASSUME Typed, NEW p \in Proc, NEW l \in Label, NEW j \in JobSpace, Fits(l, j), Enter(p, l, j)
    PROVE  Control'
  <1>1. pc' \in [Proc -> Label] /\ job' \in [Proc -> JobSpace]
    BY IdleJobType DEF Typed, TypeOK, Enter
  <1>2. ASSUME NEW q \in Proc PROVE Fits(pc'[q], job'[q])
    <2>1. Fits("idle", IdleJob)
      BY DEF Fits, OnBooking
    <2>2. CASE q = p
      <3>1. pc'[q] = l /\ job'[q] = IF l = "idle" THEN IdleJob ELSE j
        BY <2>2 DEF Enter, Typed, TypeOK
      <3> QED
        BY <3>1, <2>1
    <2>3. CASE q # p
      <3>1. pc'[q] = pc[q] /\ job'[q] = job[q]
        BY <2>3 DEF Enter, Typed, TypeOK
      <3> QED
        BY <3>1 DEF Typed
    <2> QED
      BY <2>2, <2>3
  <1> QED
    BY <1>1, <1>2 DEF Control

\* The jobs that the handlers store.
LEMMA JobTypes ==
    ASSUME TypeOK, NEW j \in JobSpace
    PROVE  /\ \A S \in SUBSET User : [j EXCEPT !.users = S] \in JobSpace
           /\ \A n \in 0 .. MaxUser : [j EXCEPT !.u = n] \in JobSpace
           /\ \A n \in 0 .. MaxUser, S \in SUBSET User :
                 [j EXCEPT !.id = n, !.users = S] \in JobSpace
           /\ \A m, n \in 0 .. MaxUser : [j EXCEPT !.u = m, !.id = n] \in JobSpace
           /\ \A S : [j EXCEPT !.snap = Snapshot(S)] \in JobSpace
           /\ \A S : \A l \in Resume :
                 [j EXCEPT !.snap = Snapshot(S), !.then = l] \in JobSpace
           /\ \A l \in Resume : [j EXCEPT !.then = l] \in JobSpace
           /\ \A b \in Booking, R \in SUBSET Booking :
                 [j EXCEPT !.b = b, !.rows = R] \in JobSpace
           /\ \A R \in SUBSET Booking : [j EXCEPT !.rows = R] \in JobSpace
           /\ \A R \in SUBSET Booking : [j EXCEPT !.rows = R, !.snap = Snapshot(R)] \in JobSpace
           /\ \A R \in SUBSET Booking, l \in Resume :
                 [j EXCEPT !.rows = R, !.snap = Snapshot(R), !.then = l] \in JobSpace
           /\ \A b \in Booking : [j EXCEPT !.b = b] \in JobSpace
           /\ \A d \in Day : [j EXCEPT !.from = d] \in JobSpace
           /\ j.then \in Label /\ ~(j.then \in OnBooking)
  BY SnapshotType DEF JobSpace, Resume, Label, OnBooking

LEMMA RowTypes ==
    ASSUME TypeOK, NEW b \in Booking
    PROVE  /\ \A s \in {"none", "confirmed", "cancelled"} :
                 [row EXCEPT ![b].status = s] \in [Booking -> RowSpace]
           /\ \A d \in Day : [row EXCEPT ![b].start = d] \in [Booking -> RowSpace]
           /\ \A d \in Day : [row EXCEPT ![b].status = "confirmed", ![b].start = d]
                                \in [Booking -> RowSpace]
           /\ \A v \in BOOLEAN : [row EXCEPT ![b].synced = v] \in [Booking -> RowSpace]
           /\ \A m, n \in 0 .. MaxUser :
                 [row EXCEPT ![b].code = m, ![b].id = n, ![b].synced = FALSE]
                    \in [Booking -> RowSpace]
           /\ [row EXCEPT ![b] = Clear(@)] \in [Booking -> RowSpace]
           /\ Clear(row[b]) \in RowSpace
  <1>1. row \in [Booking -> RowSpace] /\ None \in 0 .. MaxUser
    BY DoorAssumption DEF TypeOK, None
  <1> QED
    BY <1>1 DEF RowSpace, Clear

LEMMA UserTypes ==
    ASSUME TypeOK, NEW u \in User
    PROVE  /\ [user EXCEPT ![u].on = FALSE] \in [User -> UserSpace]
           /\ \A d \in Day : [user EXCEPT ![u].at = d] \in [User -> UserSpace]
           /\ \A d \in Day, c \in 0 .. MaxUser :
                 [user EXCEPT ![u] = [on |-> TRUE, at |-> d, code |-> c]] \in [User -> UserSpace]
           /\ [lock EXCEPT ![u] = user[u]] \in [User -> UserSpace]
  BY DEF TypeOK, UserSpace

LEMMA OnlyOneType == \A S \in SUBSET User : OnlyOne(S) \in 0 .. MaxUser
  <1> SUFFICES ASSUME NEW S \in SUBSET User PROVE OnlyOne(S) \in 0 .. MaxUser
    OBVIOUS
  <1>1. CASE Cardinality(S) = 1
    <2>1. S # {}
      BY <1>1, FS_EmptySet
    <2>2. PICK u \in S : u = (CHOOSE v \in S : TRUE)
      BY <2>1
    <2>3. OnlyOne(S) = u
      BY <1>1, <2>2 DEF OnlyOne
    <2> QED
      BY <2>3, DoorAssumption DEF User
  <1>2. CASE Cardinality(S) # 1
    <2>1. OnlyOne(S) = 0
      BY <1>2 DEF OnlyOne, None
    <2> QED
      BY <2>1, DoorAssumption
  <1> QED
    BY <1>1, <1>2

\* A handler that is done with its booking goes on to a statement that needs none.
LEMMA GoOnType ==
    ASSUME Typed, NEW p \in Proc, NEW j \in JobSpace, Enter(p, j.then, j)
    PROVE  Control'
  <1>1. j.then \in Label /\ Fits(j.then, j)
    BY JobTypes DEF Fits, OnBooking, Typed
  <1> QED
    BY <1>1, EnterType

LEMMA ReturnType ==
    ASSUME Typed, NEW p \in Proc, Return(p)
    PROVE  Control'
  <1>1. "idle" \in Label /\ Fits("idle", job[p]) /\ job[p] \in JobSpace
    BY DEF Label, Fits, OnBooking, Typed
  <1> QED
    BY <1>1, EnterType DEF Return, Goto

\* A statement that only moves the handler on, or fails.
LEMMA StaysTyped ==
    ASSUME Typed, Control', UNCHANGED <<day, row, utec>>, Fault \/ UNCHANGED faults
    PROVE  Typed'
  <1>1. faults' \in 0 .. MaxFault
    BY TypedParts, DoorAssumption DEF Data, Fault
  <1> QED
    BY <1>1, TypedParts, TypedPartsNext DEF Data, utec

LEMMA TypeAdding ==
    ASSUME Typed, NEW p \in Proc,
           ListBefore(p) \/ Add(p) \/ AddRefused(p) \/ ListAfter(p) \/ Record(p)
    PROVE  Typed'
  <1> USE DoorAssumption
  <1>0. /\ job[p] \in JobSpace /\ Fits(pc[p], job[p])
        /\ Listed \in SUBSET User /\ {} \in SUBSET User /\ None \in 0 .. MaxUser
    BY DEF Typed, Listed, None
  <1>1. CASE ListBefore(p)
    <2> DEFINE j == [job[p] EXCEPT !.users = Listed]
    <2>1. j \in JobSpace /\ "add" \in Label
      BY <1>0, JobTypes DEF Typed, Label
    <2>2. Fits("add", j) /\ Enter(p, "add", j)
      BY <1>0, <1>1 DEF Fits, OnBooking, ListBefore, JobSpace
    <2> HIDE DEF j
    <2> QED
      BY <1>1, <2>1, <2>2, EnterType, StaysTyped DEF ListBefore
  <1>2. CASE Add(p)
    <2> DEFINE r == job[p].snap[job[p].b]
               u == added + 1
               j == [job[p] EXCEPT !.u = u]
    <2>1. u \in User /\ u \in 0 .. MaxUser
      BY <1>2 DEF Add, Typed, TypeOK, User
    <2>2. j \in JobSpace /\ "after" \in Label
      BY <1>0, <2>1, JobTypes DEF Typed, Label
    <2>3. Fits("after", j) /\ Enter(p, "after", j)
      BY <1>0, <1>2, <2>1 DEF Fits, OnBooking, Add, JobSpace
    <2>4. r \in RowSpace
      BY <1>0, <1>2 DEF Fits, OnBooking, Add, JobSpace
    <2>5. user' \in [User -> UserSpace]
      BY <1>2, <2>1, <2>4, UserTypes DEF Add, Typed, RowSpace
    <2>6. added' \in 0 .. MaxUser
      BY <1>2, <2>1 DEF Add
    <2> HIDE DEF j, u, r
    <2>7. UNCHANGED <<day, row, lock, faults>>
      BY <1>2 DEF Add
    <2> QED
      BY <2>2, <2>3, <2>5, <2>6, <2>7, EnterType, TypedParts, TypedPartsNext DEF Data
  <1>3. CASE AddRefused(p)
    <2>1. Enter(p, job[p].then, job[p])
      BY <1>3 DEF AddRefused, Goto
    <2> QED
      BY <1>3, <1>0, <2>1, GoOnType, StaysTyped DEF AddRefused
  <1>4. CASE ListAfter(p)
    <2>1. PICK S \in SUBSET User :
             Enter(p, "record", [job[p] EXCEPT !.id = OnlyOne(S), !.users = {}])
      BY <1>0, <1>4 DEF ListAfter
    <2> DEFINE j == [job[p] EXCEPT !.id = OnlyOne(S), !.users = {}]
    <2>2. j \in JobSpace /\ "record" \in Label
      BY <1>0, OnlyOneType, JobTypes DEF Typed, Label
    <2>3. Fits("record", j) /\ Enter(p, "record", j)
      BY <1>0, <1>4, <2>1 DEF Fits, OnBooking, ListAfter, JobSpace
    <2> HIDE DEF j
    <2>4. UNCHANGED <<day, row, utec>> /\ (Fault \/ UNCHANGED faults)
      BY <1>4 DEF ListAfter
    <2> QED
      BY <2>2, <2>3, <2>4, EnterType, StaysTyped
  <1>5. CASE Record(p)
    <2> DEFINE j == [job[p] EXCEPT !.u = None, !.id = None]
    <2>1. j \in JobSpace /\ j.then = job[p].then
      BY <1>0, JobTypes DEF Typed, JobSpace
    <2>2. Enter(p, job[p].then, j)
      BY <1>5 DEF Record
    <2> HIDE DEF j
    <2>3. Enter(p, j.then, j)
      BY <2>1, <2>2
    <2>4. job[p].b \in Booking /\ job[p].id \in 0 .. MaxUser /\ user[job[p].u].code \in 0 .. MaxUser
      BY <1>0, <1>5 DEF Record, Fits, OnBooking, Typed, TypeOK, JobSpace, UserSpace
    <2>5. row' \in [Booking -> RowSpace]
      BY <1>5, <2>4, RowTypes DEF Record, Typed
    <2>6. UNCHANGED <<day, utec, faults>>
      BY <1>5 DEF Record
    <2> QED
      BY <2>1, <2>3, <2>5, <2>6, GoOnType, TypedParts, TypedPartsNext DEF Data, utec
  <1> QED
    BY <1>1, <1>2, <1>3, <1>4, <1>5

LEMMA TypeRequests ==
    ASSUME Typed, NEW p \in Proc,
           \/ \E b \in Booking : Cancel(p, b) \/ Retry(p, b)
           \/ \E b \in Booking, s \in 0 .. MaxDay : Confirm(p, b, s) \/ Move(p, b, s)
           \/ Daily(p) \/ Upcoming(p)
    PROVE  Typed'
  <1> USE DoorAssumption
  <1>1. ASSUME NEW b \in Booking
        PROVE  /\ About(b) \in JobSpace /\ About(b).b = b
               /\ [About(b) EXCEPT !.from = row[b].start] \in JobSpace
               /\ [About(b) EXCEPT !.from = row[b].start].b = b
               /\ [About(b) EXCEPT !.snap = Snapshot({b}), !.then = "cleanFind"] \in JobSpace
               /\ [About(b) EXCEPT !.snap = Snapshot({b}), !.then = "cleanFind"].b = b
    <2>1. About(b) \in JobSpace
      BY IdleJobType, JobTypes DEF About, Typed
    <2>3. About(b).b = b
      BY DEF About, IdleJob
    <2>2. row[b].start \in Day /\ "cleanFind" \in Resume
      BY DEF Typed, TypeOK, RowSpace, Resume
    <2>4. /\ [About(b) EXCEPT !.from = row[b].start] \in JobSpace
          /\ [About(b) EXCEPT !.snap = Snapshot({b}), !.then = "cleanFind"] \in JobSpace
      BY <2>1, <2>2, JobTypes DEF Typed
    <2>5. /\ [About(b) EXCEPT !.from = row[b].start].b = About(b).b
          /\ [About(b) EXCEPT !.snap = Snapshot({b}), !.then = "cleanFind"].b = About(b).b
      BY <2>1 DEF JobSpace
    <2> QED
      BY <2>1, <2>3, <2>4, <2>5
  <1>2. ASSUME NEW b \in Booking, Cancel(p, b) PROVE Typed'
    <2>1. "revoke" \in Label /\ Fits("revoke", About(b))
      BY <1>1 DEF Label, Fits, OnBooking
    <2>2. Control' /\ row' \in [Booking -> RowSpace]
      BY <1>1, <1>2, <2>1, EnterType, RowTypes DEF Cancel, Typed
    <2> QED
      BY <1>2, <2>2, TypedParts, TypedPartsNext DEF Cancel, Data, utec
  <1>3. ASSUME NEW b \in Booking, Retry(p, b) PROVE Typed'
    <2> DEFINE j == [About(b) EXCEPT !.snap = Snapshot({b}), !.then = "cleanFind"]
    <2>1. "before" \in Label /\ Fits("before", j) /\ Enter(p, "before", j)
      BY <1>1, <1>3 DEF Label, Fits, OnBooking, Retry
    <2>2. j \in JobSpace
      BY <1>1
    <2> HIDE DEF j
    <2> QED
      BY <1>3, <2>1, <2>2, EnterType, StaysTyped DEF Retry
  <1>4. ASSUME NEW b \in Booking, NEW s \in 0 .. MaxDay, Confirm(p, b, s) PROVE Typed'
    <2>1. "listener" \in Label /\ Fits("listener", About(b))
      BY <1>1 DEF Label, Fits, OnBooking
    <2>2. Control' /\ row' \in [Booking -> RowSpace]
      BY <1>1, <1>4, <2>1, EnterType, RowTypes DEF Confirm, Typed, Day
    <2> QED
      BY <1>4, <2>2, TypedParts, TypedPartsNext DEF Confirm, Data, utec
  <1>5. ASSUME NEW b \in Booking, NEW s \in 0 .. MaxDay, Move(p, b, s) PROVE Typed'
    <2> DEFINE j == [About(b) EXCEPT !.from = row[b].start]
    <2>1. "follow" \in Label /\ Fits("follow", j) /\ Enter(p, "follow", j)
      BY <1>1, <1>5 DEF Label, Fits, OnBooking, Move
    <2>2. j \in JobSpace
      BY <1>1
    <2> HIDE DEF j
    <2>3. Control' /\ row' \in [Booking -> RowSpace]
      BY <1>5, <2>1, <2>2, EnterType, RowTypes DEF Move, Typed, Day
    <2> QED
      BY <1>5, <2>3, TypedParts, TypedPartsNext DEF Move, Data, utec
  <1>6. ASSUME Daily(p) \/ Upcoming(p) PROVE Typed'
    <2>1. PICK l \in {"cleanFind", "syncRead"} : Enter(p, l, job[p])
      BY <1>6 DEF Daily, Upcoming, Goto
    <2>2. l \in Label /\ Fits(l, job[p]) /\ job[p] \in JobSpace
      BY DEF Label, Fits, OnBooking, Typed
    <2> QED
      BY <1>6, <2>1, <2>2, EnterType, StaysTyped DEF Daily, Upcoming
  <1> QED
    BY <1>2, <1>3, <1>4, <1>5, <1>6

LEMMA TypeRevoking ==
    ASSUME Typed, NEW p \in Proc,
           ListenerRead(p) \/ RevokeRead(p) \/ Held(p) \/ HeldDelete(p) \/ HeldClear(p)
    PROVE  Typed'
  <1> USE DoorAssumption
  <1>0. job[p] \in JobSpace /\ Fits(pc[p], job[p])
    BY DEF Typed
  <1>1. CASE ListenerRead(p) \/ RevokeRead(p)
    <2>1. CASE Return(p)
      BY <1>1, <2>1, ReturnType, StaysTyped DEF ListenerRead, RevokeRead
    <2>2. CASE ~Return(p)
      <3> DEFINE j == [job[p] EXCEPT !.snap = Snapshot({job[p].b})]
      <3>1. PICK l \in {"before", "held"} : Enter(p, l, j)
        BY <1>1, <2>2 DEF ListenerRead, RevokeRead
      <3>2. l \in Label /\ Fits(l, j)
        BY <1>0, <1>1 DEF Label, Fits, OnBooking, ListenerRead, RevokeRead, JobSpace
      <3>3. j \in JobSpace
        BY <1>0, JobTypes DEF Typed
      <3> HIDE DEF j
      <3> QED
        BY <1>1, <3>1, <3>2, <3>3, EnterType, StaysTyped DEF ListenerRead, RevokeRead
    <2> QED
      BY <2>1, <2>2
  <1>2. CASE Held(p)
    <2> DEFINE r == job[p].snap[job[p].b]
    <2>1. r \in RowSpace
      BY <1>0, <1>2 DEF Fits, OnBooking, Held, JobSpace
    <2>2. PICK shown \in Shown :
             Enter(p, "heldDelete", [job[p] EXCEPT !.users = UsersOf(r, shown)])
      BY <1>2 DEF Held
    <2> DEFINE j == [job[p] EXCEPT !.users = UsersOf(r, shown)]
    <2>3. UsersOf(r, shown) \in SUBSET User
      BY <2>1 DEF UsersOf, Listed, User, RowSpace, None
    <2>4. j \in JobSpace /\ "heldDelete" \in Label
      BY <1>0, <2>3, JobTypes DEF Typed, Label
    <2>5. Fits("heldDelete", j) /\ Enter(p, "heldDelete", j)
      BY <1>0, <1>2, <2>2 DEF Fits, OnBooking, Held, JobSpace
    <2> HIDE DEF j
    <2> QED
      BY <1>2, <2>4, <2>5, EnterType, StaysTyped DEF Held
  <1>3. CASE HeldDelete(p)
    <2>1. CASE job[p].users = {} /\ Goto(p, "heldClear") /\ UNCHANGED user
      <3>1. "heldClear" \in Label /\ Fits("heldClear", job[p])
        BY <1>0, <1>3 DEF Fits, OnBooking, HeldDelete, Label
      <3> QED
        BY <1>0, <1>3, <2>1, <3>1, EnterType, StaysTyped DEF HeldDelete, Goto, utec
    <2>2. CASE \E u \in job[p].users :
                  Delete(u) /\ Enter(p, "heldDelete", [job[p] EXCEPT !.users = @ \ {u}])
      <3>1. PICK u \in job[p].users :
                    Delete(u) /\ Enter(p, "heldDelete", [job[p] EXCEPT !.users = @ \ {u}])
        BY <2>2
      <3> DEFINE j == [job[p] EXCEPT !.users = @ \ {u}]
      <3>2. u \in User /\ j \in JobSpace /\ "heldDelete" \in Label
        BY <1>0, JobTypes DEF Typed, Label, JobSpace
      <3>3. Fits("heldDelete", j) /\ Enter(p, "heldDelete", j)
        BY <1>0, <1>3, <3>1 DEF Fits, OnBooking, HeldDelete, JobSpace
      <3> HIDE DEF j
      <3>4. user' \in [User -> UserSpace]
        BY <3>1, <3>2, UserTypes DEF Delete, Typed
      <3> QED
        BY <1>3, <3>2, <3>3, <3>4, EnterType, TypedParts, TypedPartsNext DEF HeldDelete, Data
    <2> QED
      BY <1>3, <2>1, <2>2 DEF HeldDelete
  <1>4. CASE HeldClear(p)
    <2>1. job[p].b \in Booking
      BY <1>0, <1>4 DEF Fits, OnBooking, HeldClear
    <2>2. Control' /\ row' \in [Booking -> RowSpace]
      BY <1>0, <1>4, <2>1, GoOnType, RowTypes DEF HeldClear, Goto, Typed
    <2> QED
      BY <1>4, <2>2, TypedParts, TypedPartsNext DEF HeldClear, Data, utec
  <1> QED
    BY <1>1, <1>2, <1>3, <1>4

LEMMA TypeFollowing ==
    ASSUME Typed, NEW p \in Proc,
           FollowRead(p) \/ Repoint(p) \/ Repointed(p) \/ FollowFind(p) \/ FollowDelete(p)
    PROVE  Typed'
  <1> USE DoorAssumption
  <1>0. job[p] \in JobSpace /\ Fits(pc[p], job[p])
    BY DEF Typed
  <1>1. CASE FollowRead(p)
    <2>1. CASE Return(p)
      BY <1>1, <2>1, ReturnType, StaysTyped DEF FollowRead
    <2>2. CASE ~Return(p)
      <3> DEFINE j == [job[p] EXCEPT !.snap = Snapshot({job[p].b})]
                 r == row[j.b]
      <3>1. \/ Enter(p, "before", j) \/ Enter(p, "followFind", j)
            \/ r.id # None /\ Enter(p, "repoint", j)
        BY <1>1, <2>2 DEF FollowRead
      <3>2. j \in JobSpace
        BY <1>0, JobTypes DEF Typed
      <3>8. j.b = job[p].b
        BY <1>0 DEF JobSpace
      <3>3. job[p].b \in Booking /\ row[job[p].b] \in RowSpace
        BY <1>0, <1>1 DEF Fits, OnBooking, FollowRead, Typed, TypeOK
      <3>4. j.snap[j.b] = row[j.b]
        BY <1>0, <3>8, <3>3 DEF Snapshot, JobSpace
      <3>5. r.id # None => j.snap[j.b].id \in User
        BY <3>8, <3>3, <3>4 DEF RowSpace, User, None
      <3> HIDE DEF j, r
      <3>6. PICK l \in {"before", "followFind", "repoint"} :
                Enter(p, l, j) /\ (l = "repoint" => r.id # None)
        BY <3>1
      <3>7. l \in Label /\ Fits(l, j)
        BY <3>8, <3>3, <3>5, <3>6 DEF Label, Fits, OnBooking
      <3> QED
        BY <1>1, <3>2, <3>6, <3>7, EnterType, StaysTyped DEF FollowRead
    <2> QED
      BY <2>1, <2>2
  <1>2. CASE Repoint(p)
    <2> DEFINE r == job[p].snap[job[p].b]
    <2>1. r.id \in User /\ job[p].b \in Booking
      BY <1>0, <1>2 DEF Fits, OnBooking, Repoint
    <2>2. r \in RowSpace /\ r.start \in Day /\ user[r.id].at \in Day
      BY <1>0, <2>1 DEF JobSpace, RowSpace, Typed, TypeOK, UserSpace
    <2>3. user' \in [User -> UserSpace]
      BY <1>2, <2>1, <2>2, UserTypes DEF Repoint, Typed
    <2>4. "repointed" \in Label /\ Fits("repointed", job[p])
      BY <2>1 DEF Label, Fits, OnBooking
    <2>5. Control'
      BY <1>0, <1>2, <2>4, EnterType DEF Repoint, Goto
    <2> QED
      BY <1>2, <2>3, <2>5, TypedParts, TypedPartsNext DEF Repoint, Data
  <1>3. CASE Repointed(p)
    <2>1. job[p].b \in Booking
      BY <1>0, <1>3 DEF Fits, OnBooking, Repointed
    <2>2. Control' /\ row' \in [Booking -> RowSpace]
      BY <1>3, <2>1, ReturnType, RowTypes DEF Repointed, Typed
    <2> QED
      BY <1>3, <2>2, TypedParts, TypedPartsNext DEF Repointed, Data, utec
  <1>4. CASE FollowFind(p)
    <2>1. PICK S \in SUBSET User : Enter(p, "followDelete", [job[p] EXCEPT !.users = S])
      BY <1>4 DEF FollowFind, Listed
    <2> DEFINE j == [job[p] EXCEPT !.users = S]
    <2>2. j \in JobSpace /\ "followDelete" \in Label
      BY <1>0, JobTypes DEF Typed, Label
    <2>3. Fits("followDelete", j) /\ Enter(p, "followDelete", j)
      BY <1>0, <1>4, <2>1 DEF Fits, OnBooking, FollowFind, JobSpace
    <2> HIDE DEF j
    <2> QED
      BY <1>4, <2>2, <2>3, EnterType, StaysTyped DEF FollowFind
  <1>5. CASE FollowDelete(p)
    <2>1. CASE job[p].users = {} /\ Goto(p, "before") /\ UNCHANGED user
      <3>1. "before" \in Label /\ Fits("before", job[p])
        BY <1>0, <1>5 DEF Fits, OnBooking, FollowDelete, Label
      <3> QED
        BY <1>0, <1>5, <2>1, <3>1, EnterType, StaysTyped DEF FollowDelete, Goto, utec
    <2>2. CASE \E u \in job[p].users :
                  Delete(u) /\ Enter(p, "followDelete", [job[p] EXCEPT !.users = @ \ {u}])
      <3>1. PICK u \in job[p].users :
                    Delete(u) /\ Enter(p, "followDelete", [job[p] EXCEPT !.users = @ \ {u}])
        BY <2>2
      <3> DEFINE j == [job[p] EXCEPT !.users = @ \ {u}]
      <3>2. u \in User /\ j \in JobSpace /\ "followDelete" \in Label
        BY <1>0, JobTypes DEF Typed, Label, JobSpace
      <3>3. Fits("followDelete", j) /\ Enter(p, "followDelete", j)
        BY <1>0, <1>5, <3>1 DEF Fits, OnBooking, FollowDelete, JobSpace
      <3> HIDE DEF j
      <3>4. user' \in [User -> UserSpace]
        BY <3>1, <3>2, UserTypes DEF Delete, Typed
      <3> QED
        BY <1>5, <3>2, <3>3, <3>4, EnterType, TypedParts, TypedPartsNext DEF FollowDelete, Data
    <2> QED
      BY <1>5, <2>1, <2>2 DEF FollowDelete
  <1> QED
    BY <1>1, <1>2, <1>3, <1>4, <1>5

\* A statement of a job, which has no booking in hand.
LEMMA FreeType ==
    ASSUME Typed, NEW p \in Proc, NEW l \in Label \ OnBooking, NEW j \in JobSpace, Enter(p, l, j)
    PROVE  Control'
  <1>1. Fits(l, j)
    BY DEF Fits, OnBooking
  <1> QED
    BY <1>1, EnterType

LEMMA TypeCleaning ==
    ASSUME Typed, NEW p \in Proc, CleanFind(p) \/ CleanDelete(p) \/ CleanRows(p)
    PROVE  Typed'
  <1> USE DoorAssumption
  <1>0. job[p] \in JobSpace
    BY DEF Typed
  <1>1. CASE CleanFind(p)
    <2>1. [IdleJob EXCEPT !.users = Expired] \in JobSpace
      BY IdleJobType, JobTypes DEF Typed, Expired, Listed
    <2>2. "cleanDelete" \in Label \ OnBooking
      BY DEF Label, OnBooking
    <2> QED
      BY <1>1, <2>1, <2>2, FreeType, StaysTyped DEF CleanFind
  <1>2. CASE CleanDelete(p)
    <2>1. CASE job[p].users = {} /\ Goto(p, "cleanRows") /\ UNCHANGED <<user, faults>>
      <3>1. "cleanRows" \in Label \ OnBooking
        BY DEF Label, OnBooking
      <3> QED
        BY <1>0, <1>2, <2>1, <3>1, FreeType, StaysTyped DEF CleanDelete, Goto, utec
    <2>2. CASE \E u \in job[p].users :
                 /\ Enter(p, "cleanDelete", [job[p] EXCEPT !.users = @ \ {u}])
                 /\ \/ Delete(u) /\ UNCHANGED faults
                    \/ "fail" \in Handlers /\ Fault /\ UNCHANGED user
      <3>1. PICK u \in job[p].users :
                 /\ Enter(p, "cleanDelete", [job[p] EXCEPT !.users = @ \ {u}])
                 /\ \/ Delete(u) /\ UNCHANGED faults
                    \/ "fail" \in Handlers /\ Fault /\ UNCHANGED user
        BY <2>2
      <3>2. u \in User /\ job[p].users \ {u} \in SUBSET User
        BY <1>0 DEF JobSpace
      <3>3. [job[p] EXCEPT !.users = @ \ {u}] \in JobSpace /\ "cleanDelete" \in Label \ OnBooking
        BY <1>0, <3>2, JobTypes DEF Typed, Label, OnBooking
      <3>4. Control'
        BY <3>1, <3>3, FreeType
      <3>5. user' \in [User -> UserSpace] /\ faults' \in 0 .. MaxFault
        BY <3>1, <3>2, UserTypes DEF Delete, Fault, Typed, TypeOK
      <3> QED
        BY <1>2, <3>4, <3>5, TypedParts, TypedPartsNext DEF CleanDelete, Data
    <2> QED
      BY <1>2, <2>1, <2>2 DEF CleanDelete
  <1>3. CASE CleanRows(p)
    <2>1. row' \in [Booking -> RowSpace]
      BY <1>3, RowTypes DEF CleanRows, Typed, TypeOK
    <2>2. "provision" \in Label \ OnBooking
      BY DEF Label, OnBooking
    <2>3. Control'
      BY <1>0, <1>3, <2>2, FreeType DEF CleanRows, Goto
    <2> QED
      BY <1>3, <2>1, <2>3, TypedParts, TypedPartsNext DEF CleanRows, Data, utec
  <1> QED
    BY <1>1, <1>2, <1>3

LEMMA TypeProvisioning ==
    ASSUME Typed, NEW p \in Proc,
           Provision(p) \/ ProvisionNext(p) \/ Sweep(p) \/ SweepNext(p)
    PROVE  Typed'
  <1> USE DoorAssumption
  <1>0. job[p] \in JobSpace /\ IdleJob \in JobSpace
    BY IdleJobType DEF Typed
  <1>1. CASE Provision(p) \/ Sweep(p)
    <2>1. PICK R \in SUBSET Booking, l \in {"provisionNext", "sweepNext"}, j \in {job[p], IdleJob} :
             Enter(p, l, [j EXCEPT !.rows = R, !.snap = Snapshot(R), !.then = l])
      BY <1>1 DEF Provision, Sweep
    <2>2. l \in Label \ OnBooking /\ l \in Resume /\ j \in JobSpace
      BY <1>0 DEF Label, OnBooking, Resume
    <2>3. [j EXCEPT !.rows = R, !.snap = Snapshot(R), !.then = l] \in JobSpace
      BY <2>2, JobTypes DEF Typed
    <2> QED
      BY <1>1, <2>1, <2>2, <2>3, FreeType, StaysTyped DEF Provision, Sweep
  <1>2. CASE ProvisionNext(p) \/ SweepNext(p)
    <2>1. CASE \E b \in job[p].rows, l \in {"before", "held"} :
                  Enter(p, l, [job[p] EXCEPT !.b = b, !.rows = @ \ {b}])
      <3>1. PICK b \in job[p].rows, l \in {"before", "held"} :
                  Enter(p, l, [job[p] EXCEPT !.b = b, !.rows = @ \ {b}])
        BY <2>1
      <3> DEFINE j == [job[p] EXCEPT !.b = b, !.rows = @ \ {b}]
      <3>2. b \in Booking /\ job[p].rows \ {b} \in SUBSET Booking
        BY <1>0 DEF JobSpace
      <3>3. j \in JobSpace
        BY <1>0, <3>2, JobTypes DEF Typed
      <3>4. l \in Label /\ Fits(l, j) /\ Enter(p, l, j)
        BY <1>0, <3>1, <3>2 DEF Fits, OnBooking, Label, JobSpace
      <3> HIDE DEF j
      <3> QED
        BY <1>2, <3>3, <3>4, EnterType, StaysTyped DEF ProvisionNext, SweepNext
    <2>2. CASE Enter(p, "syncRead", [IdleJob EXCEPT !.then = "sweep"])
      <3>1. [IdleJob EXCEPT !.then = "sweep"] \in JobSpace
        BY <1>0, JobTypes DEF Typed, Resume
      <3>2. "syncRead" \in Label \ OnBooking
        BY DEF Label, OnBooking
      <3> QED
        BY <1>2, <2>2, <3>1, <3>2, FreeType, StaysTyped DEF ProvisionNext, SweepNext
    <2>3. CASE Return(p)
      BY <1>2, <2>3, ReturnType, StaysTyped DEF ProvisionNext, SweepNext
    <2> QED
      BY <1>2, <2>1, <2>2, <2>3 DEF ProvisionNext, SweepNext
  <1> QED
    BY <1>1, <1>2

LEMMA TypeSyncing ==
    ASSUME Typed, NEW p \in Proc, SyncRead(p) \/ SyncList(p) \/ SyncStamp(p)
    PROVE  Typed'
  <1> USE DoorAssumption
  <1>0. job[p] \in JobSpace
    BY DEF Typed
  <1>1. CASE SyncRead(p)
    <2>1. CASE Goto(p, job[p].then)
      BY <1>0, <1>1, <2>1, GoOnType, StaysTyped DEF SyncRead, Goto
    <2>2. CASE \E R \in SUBSET Booking :
                  Enter(p, "syncList", [job[p] EXCEPT !.rows = R, !.snap = Snapshot(R)])
      <3>1. PICK R \in SUBSET Booking :
                  Enter(p, "syncList", [job[p] EXCEPT !.rows = R, !.snap = Snapshot(R)])
        BY <2>2
      <3>2. [job[p] EXCEPT !.rows = R, !.snap = Snapshot(R)] \in JobSpace
        BY <1>0, JobTypes DEF Typed
      <3>3. "syncList" \in Label \ OnBooking
        BY DEF Label, OnBooking
      <3> QED
        BY <1>1, <3>1, <3>2, <3>3, FreeType, StaysTyped DEF SyncRead
    <2> QED
      BY <1>1, <2>1, <2>2 DEF SyncRead
  <1>2. CASE SyncList(p)
    <2>1. PICK R \in SUBSET Booking : Enter(p, "syncStamp", [job[p] EXCEPT !.rows = R])
      BY <1>0, <1>2 DEF SyncList, JobSpace
    <2>2. [job[p] EXCEPT !.rows = R] \in JobSpace /\ "syncStamp" \in Label \ OnBooking
      BY <1>0, JobTypes DEF Typed, Label, OnBooking
    <2> QED
      BY <1>2, <2>1, <2>2, FreeType, StaysTyped DEF SyncList
  <1>3. CASE SyncStamp(p)
    <2>1. CASE job[p].rows = {} /\ Goto(p, job[p].then) /\ UNCHANGED row
      BY <1>0, <1>3, <2>1, GoOnType, StaysTyped DEF SyncStamp, Goto
    <2>2. CASE \E b \in job[p].rows :
                 /\ row' = [row EXCEPT ![b].synced = TRUE]
                 /\ Enter(p, "syncStamp", [job[p] EXCEPT !.rows = @ \ {b}])
      <3>1. PICK b \in job[p].rows :
                 /\ row' = [row EXCEPT ![b].synced = TRUE]
                 /\ Enter(p, "syncStamp", [job[p] EXCEPT !.rows = @ \ {b}])
        BY <2>2
      <3>2. b \in Booking /\ job[p].rows \ {b} \in SUBSET Booking
        BY <1>0 DEF JobSpace
      <3>3. [job[p] EXCEPT !.rows = @ \ {b}] \in JobSpace /\ "syncStamp" \in Label \ OnBooking
        BY <1>0, <3>2, JobTypes DEF Typed, Label, OnBooking
      <3>4. Control' /\ row' \in [Booking -> RowSpace]
        BY <3>1, <3>2, <3>3, FreeType, RowTypes DEF Typed
      <3> QED
        BY <1>3, <3>4, TypedParts, TypedPartsNext DEF SyncStamp, Data, utec
    <2> QED
      BY <1>3, <2>1, <2>2 DEF SyncStamp
  <1> QED
    BY <1>1, <1>2, <1>3

LEMMA TypeFaults ==
    ASSUME Typed, NEW p \in Proc, UtecFails(p) \/ Crash(p)
    PROVE  Typed'
  <1>0. job[p] \in JobSpace /\ Fits(pc[p], job[p])
    BY DEF Typed
  <1>1. CASE Crash(p)
    BY <1>1, ReturnType, StaysTyped DEF Crash
  <1>2. CASE UtecFails(p)
    <2>1. CASE Caught(p) = job[p].then
      BY <1>0, <1>2, <2>1, GoOnType, StaysTyped DEF UtecFails, Goto
    <2>2. CASE Caught(p) # job[p].then
      <3>1. Caught(p) \in {"cleanRows", "followFind", "before"} /\ Fits(Caught(p), job[p])
        BY <1>0, <1>2, <2>2 DEF UtecFails, Caught, Fits, OnBooking
      <3>2. Caught(p) \in Label
        BY <3>1 DEF Label
      <3> QED
        BY <1>0, <1>2, <3>1, <3>2, EnterType, StaysTyped DEF UtecFails, Goto
    <2> QED
      BY <2>1, <2>2
  <1> QED
    BY <1>1, <1>2

LEMMA TypeWorld ==
    ASSUME Typed, (\E u \in User : Push(u)) \/ NextDay
    PROVE  Typed'
  <1>1. ASSUME NEW u \in User, Push(u) PROVE Typed'
    <2>1. lock' \in [User -> UserSpace]
      BY <1>1, UserTypes DEF Push, Typed
    <2> QED
      BY <1>1, <2>1, TypedParts, TypedPartsNext DEF Push, Data, Control
  <1>2. CASE NextDay
    <2>1. day' \in Day
      BY <1>2, DoorAssumption DEF NextDay, Typed, TypeOK, Day
    <2> QED
      BY <1>2, <2>1, TypedParts, TypedPartsNext DEF NextDay, Data, Control, utec
  <1> QED
    BY <1>1, <1>2

LEMMA TypeStep == Typed /\ [Next]_vars => Typed'
  <1> SUFFICES ASSUME Typed, [Next]_vars PROVE Typed'
    OBVIOUS
  <1>1. CASE UNCHANGED vars
    BY <1>1, TypedParts, TypedPartsNext DEF vars, Data, Control
  <1>2. ASSUME NEW p \in Proc, Step(p) PROVE Typed'
    BY <1>2, TypeAdding, TypeRevoking, TypeFollowing, TypeCleaning, TypeProvisioning, TypeSyncing
       DEF Step
  <1>3. ASSUME NEW p \in Proc, Request(p) PROVE Typed'
    BY <1>3, TypeRequests DEF Request
  <1> QED
    BY <1>1, <1>2, <1>3, TypeFaults, TypeWorld DEF Next

LEMMA TypeInit == Init => Typed
  <1> SUFFICES ASSUME Init PROVE Typed
    OBVIOUS
  <1>1. Data
    BY IdleJobType, DoorAssumption DEF Init, Data, Day
  <1>2. "idle" \in Label /\ Fits("idle", IdleJob)
    BY DEF Label, Fits, OnBooking
  <1> QED
    BY <1>1, <1>2, IdleJobType, TypedParts DEF Init, Control

\* The variables keep their types in every reachable state, whatever the bookings, the number
\* of handlers and the bounds: a handler that writes a row or a user of the lock by number has
\* the booking and the user in hand, after every fault and whichever job it resumes.
THEOREM TypeCorrect == Spec => []TypeOK
  <1>1. Typed => TypeOK
    BY DEF Typed
  <1> QED
    BY <1>1, TypeInit, TypeStep, PTL DEF Spec

-----------------------------------------------------------------------------
(* Whose code is whose *)

\* Nothing is moved or retried, the second list has the new user, and get shows every code.
\* Each part is needed: with a lagging list a handler can take another's new user for its
\* own; so it can when a move, or the cancellation a retry races with, finds the user it has
\* just added by window and code and deletes it; and a cancellation then deletes the other's.
\* So it does at once, for a row without an id, if get hides the codes.
PlainUse == Handlers \cap {"move", "retry", "lag", "hidden"} = {}

InRow(r, u) == r.code = u \/ r.id = u

\* A handler at l with j carries the number of a user of booking b: in its copy of the row,
\* in what it is about to record, or in what it deletes.
Carries(l, j, b, u) ==
    \/ InRow(j.snap[b], u)
    \/ l = "record" /\ j.b = b /\ u \in {j.u, j.id}
    \/ l = "heldDelete" /\ j.b = b /\ u \in j.users
Knows(p, b, u) == Carries(pc[p], job[p], b, u)
Recorded(b, u) == InRow(row[b], u) \/ \E p \in Proc : Knows(p, b, u)

\* The user has been added and nobody but the adder knows it.
Adding(p, b, u) == pc[p] = "after" /\ job[p].b = b /\ job[p].u = u
Claims(b, u) == Recorded(b, u) \/ \E p \in Proc : Adding(p, b, u)

ClaimsAreUsers ==
    \A b \in Booking, u \in User : Claims(b, u) =>
        u <= added /\ user[u].at = row[b].start /\ user[u].code = u /\ row[b].status # "none"
ClaimsApart ==
    \A b, c \in Booking, u \in User : Claims(b, u) /\ Claims(c, u) => b = c

\* So the second list has exactly one user the first has not, or it has several.
AddsAlone ==
    \A p \in Proc, u \in User : pc[p] = "after" /\ job[p].u = u =>
        /\ user[u].on /\ u \notin job[p].users
        /\ \A b \in Booking : ~Recorded(b, u)
        /\ \A q \in Proc \ {p} : pc[q] = "after" => job[q].u # u
OwnCode == \A u \in User : user[u].on => u <= added /\ user[u].code = u

\* What a handler has in hand is still true of the rows.
DueRow(r) == r.status = "confirmed" /\ r.code = None /\ r.start >= day
InHand(l, j) ==
    /\ ~(l \in {"follow", "repoint", "repointed", "followFind", "followDelete"})
    /\ \A b \in Booking : j.snap[b].status # "none" =>
          j.snap[b].start = row[b].start /\ row[b].status # "none"
    /\ l \in {"before", "add"} => DueRow(j.snap[j.b])
    /\ l \in {"add", "cleanDelete"} => \A u \in j.users : u <= added
    /\ l = "after" => row[j.b].start >= day
    /\ l \in {"before", "add", "after", "record"} => j.then \in {"idle", "provisionNext"}
    /\ l \in {"revoke", "held", "heldDelete", "heldClear"} =>
          row[j.b].status = "cancelled" /\ j.then \in {"idle", "sweepNext"}
    /\ l = "held" => HoldsAccess(j.snap[j.b])
    /\ l \in {"idle", "listener", "revoke"} => j.then = "idle"
    /\ l \in {"syncRead", "syncList", "syncStamp"} => j.then \in {"idle", "sweep"}
    /\ l \in {"provisionNext", "sweepNext"} => j.then = l
    /\ j.then = "provisionNext" => \A b \in j.rows : DueRow(j.snap[b])
    /\ j.then = "sweepNext" =>
          \A b \in j.rows : row[b].status = "cancelled" /\ HoldsAccess(j.snap[b])
    /\ l = "cleanDelete" => \A u \in j.users : user[u].at < day
    /\ l \in {"syncList", "syncStamp"} => \A b \in j.rows : row[b].status # "none"
    /\ l = "syncList" => \A b \in j.rows : j.snap[b].id # None
    /\ l = "syncStamp" =>
          \A b \in j.rows : Upheld(b) => j.snap[b].id # None /\ Landed(j.snap[b].id)
Hand(p) == InHand(pc[p], job[p])

CodeInv ==
    /\ ClaimsAreUsers /\ ClaimsApart /\ AddsAlone /\ OwnCode
    /\ \A p \in Proc : Hand(p)

\* What every statement but Add keeps to: it copies claims or drops them, it takes nothing off
\* the lock that it does not carry, and what it has in hand afterwards is true.
UsersKept(p) ==
    /\ \A u \in User : user'[u].at = user[u].at /\ user'[u].code = user[u].code
    /\ \A u \in User : \/ user'[u] = user[u]
                       \/ /\ ~user'[u].on /\ u \in job[p].users
                          /\ pc[p] \in {"heldDelete", "cleanDelete"}
RowsKept ==
    /\ \A b \in Booking : row[b].status # "none" =>
          row'[b].start = row[b].start /\ row'[b].status # "none"
    /\ \A b \in Booking : row[b].status = "cancelled" => row'[b].status = "cancelled"
    /\ \A b \in Booking, u \in User : InRow(row'[b], u) => Recorded(b, u)
PlainStep(p) ==
    /\ OnlyMoves(p)
    /\ UNCHANGED <<day, added, lock>>
    /\ UsersKept(p) /\ RowsKept
    /\ \A b \in Booking, u \in User :
          Carries(pc'[p], job'[p], b, u) => Recorded(b, u) \/ Adding(p, b, u)
    /\ pc'[p] # "after"
    /\ Hand(p)'

LEMMA ClaimsOfStep ==
    ASSUME Typed, NEW p \in Proc, PlainStep(p), NEW b \in Booking, NEW u \in User
    PROVE  /\ Recorded(b, u)' => Recorded(b, u) \/ Adding(p, b, u)
           /\ \A q \in Proc : Adding(q, b, u)' => q # p /\ Adding(q, b, u)
           /\ Claims(b, u)' => Claims(b, u)
  <1>1. Recorded(b, u)' => Recorded(b, u) \/ Adding(p, b, u)
    <2> SUFFICES ASSUME Recorded(b, u)' PROVE Recorded(b, u) \/ Adding(p, b, u)
      OBVIOUS
    <2>1. CASE InRow(row'[b], u)
      BY <2>1 DEF PlainStep, UsersKept, RowsKept
    <2>2. ASSUME NEW q \in Proc, Carries(pc'[q], job'[q], b, u)
          PROVE  Recorded(b, u) \/ Adding(p, b, u)
      <3>1. CASE q = p
        BY <2>2, <3>1 DEF PlainStep, UsersKept, RowsKept
      <3>2. CASE q # p
        BY <2>2, <3>2 DEF PlainStep, UsersKept, RowsKept, OnlyMoves, Recorded, Knows
      <3> QED
        BY <3>1, <3>2
    <2> QED
      BY <2>1, <2>2 DEF Recorded, Knows
  <1>2. \A q \in Proc : Adding(q, b, u)' => q # p /\ Adding(q, b, u)
    BY DEF PlainStep, UsersKept, RowsKept, OnlyMoves, Adding
  <1> QED
    BY <1>1, <1>2 DEF Claims

\* Nobody takes off the lock what another booking still claims.
LEMMA DeletesItsOwn ==
    ASSUME Typed, CodeInv, NEW p \in Proc, PlainStep(p), NEW b \in Booking, NEW u \in User,
           Claims(b, u), user'[u] # user[u]
    PROVE  \/ row[b].start < day
           \/ row[b].status = "cancelled" /\ Recorded(b, u)
  <1>1. u \in job[p].users /\ pc[p] \in {"heldDelete", "cleanDelete"}
    BY DEF PlainStep, UsersKept, RowsKept
  <1>2. user[u].at = row[b].start
    BY DEF CodeInv, ClaimsAreUsers
  <1>3. CASE pc[p] = "cleanDelete"
    BY <1>1, <1>2, <1>3 DEF CodeInv, Hand, InHand
  <1>4. CASE pc[p] = "heldDelete"
    <2>1. job[p].b \in Booking
      BY <1>4 DEF Typed, Fits, OnBooking
    <2>2. Recorded(job[p].b, u)
      BY <1>1, <1>4, <2>1 DEF Recorded, Knows, Carries
    <2>3. job[p].b = b
      BY <2>1, <2>2 DEF CodeInv, ClaimsApart, Claims
    <2>4. row[b].status = "cancelled"
      BY <1>4, <2>3 DEF CodeInv, Hand, InHand
    <2> QED
      BY <2>2, <2>3, <2>4
  <1> QED
    BY <1>1, <1>3, <1>4

LEMMA HandsOfStep ==
    ASSUME Typed, Typed', CodeInv, NEW p \in Proc, PlainStep(p), NEW q \in Proc
    PROVE  Hand(q)'
  <1>1. CASE q = p
    BY <1>1 DEF PlainStep, UsersKept, RowsKept
  <1>2. CASE q # p
    <2>1. pc'[q] = pc[q] /\ job'[q] = job[q] /\ Hand(q)
      BY <1>2 DEF PlainStep, UsersKept, RowsKept, OnlyMoves, CodeInv
    <2>2. job[q] \in JobSpace /\ Fits(pc[q], job[q])
      BY DEF Typed
    <2>3. day' = day /\ added' = added /\ lock' = lock
      BY DEF PlainStep, UsersKept, RowsKept
    <2>4. /\ \A b \in Booking : row[b].status # "none" =>
                row'[b].start = row[b].start /\ row'[b].status # "none"
          /\ \A b \in Booking : row[b].status = "cancelled" => row'[b].status = "cancelled"
          /\ \A u \in User : user'[u].at = user[u].at
      BY DEF PlainStep, UsersKept, RowsKept
    <2>5. pc[q] = "after" => row'[job[q].b].start >= day
      <3> SUFFICES ASSUME pc[q] = "after" PROVE row'[job[q].b].start >= day
        OBVIOUS
      <3>1. job[q].b \in Booking /\ job[q].u \in User
        BY <2>2 DEF Fits, OnBooking
      <3>2. Claims(job[q].b, job[q].u)
        BY <3>1 DEF Claims, Adding
      <3>3. row[job[q].b].status # "none"
        BY <3>1, <3>2 DEF CodeInv, ClaimsAreUsers
      <3> QED
        BY <2>1, <2>4, <3>1, <3>3 DEF Hand, InHand
    <2>6. ASSUME pc[q] = "syncStamp", NEW b \in job[q].rows, Upheld(b)'
          PROVE  \E u \in User : u = job[q].snap[b].id /\ u # None /\ Landed(u)'
      <3>1. b \in Booking /\ row[b].status # "none" /\ row[b] \in RowSpace /\ row'[b] \in RowSpace
        BY <2>1, <2>2, <2>6 DEF Hand, InHand, JobSpace, Typed, TypeOK
      <3>2. Upheld(b)
        BY <2>3, <2>4, <2>6, <3>1 DEF Upheld, RowSpace
      <3>3. PICK u \in User : u = job[q].snap[b].id
        BY <2>1, <2>6, <3>2 DEF Hand, InHand, Landed, Listed
      <3>4. u # None /\ Landed(u)
        BY <2>1, <2>6, <3>2, <3>3 DEF Hand, InHand
      <3>5. Claims(b, u)
        BY <3>1, <3>3 DEF Claims, Recorded, Knows, Carries, InRow
      <3>6. ~(row[b].start < day) /\ row[b].status # "cancelled"
        BY <3>1, <3>2 DEF Upheld, Typed, TypeOK, Day, RowSpace
      <3>7. user'[u] = user[u]
        BY <3>1, <3>5, <3>6, DeletesItsOwn
      <3>8. Landed(u)'
        BY <2>3, <3>4, <3>7 DEF Landed, Listed
      <3> QED
        BY <3>3, <3>4, <3>8
    <2>7. job[q].rows \subseteq Booking /\ job[q].users \subseteq User
      BY <2>2 DEF JobSpace
    <2>8. pc[q] \in OnBooking => job[q].b \in Booking
      BY <2>2 DEF Fits
    <2>9. InHand(pc[q], job[q])
      BY <2>1 DEF Hand
    <2>10. pc[q] = "syncStamp" => \A b \in job[q].rows : Upheld(b)' =>
              job[q].snap[b].id # None /\ Landed(job[q].snap[b].id)'
      <3> SUFFICES ASSUME pc[q] = "syncStamp", NEW b \in job[q].rows, Upheld(b)'
                   PROVE  job[q].snap[b].id # None /\ Landed(job[q].snap[b].id)'
        OBVIOUS
      <3>1. PICK u \in User : u = job[q].snap[b].id /\ u # None /\ Landed(u)'
        BY <2>6
      <3> QED
        BY <2>1, <3>1 DEF Landed, Listed
    <2>11. Hand(q)'
      BY <2>1, <2>3, <2>4, <2>5, <2>7, <2>8, <2>9, <2>10 DEF Hand, InHand, DueRow, OnBooking
    <2> QED
      BY <2>11
  <1> QED
    BY <1>1, <1>2

LEMMA Carry ==
    ASSUME Typed, Typed', CodeInv, NEW p \in Proc, PlainStep(p)
    PROVE  CodeInv'
  <1>1. ClaimsAreUsers'
    <2> SUFFICES ASSUME NEW b \in Booking, NEW u \in User, Claims(b, u)'
                 PROVE  /\ u <= added' /\ user'[u].at = row'[b].start /\ user'[u].code = u
                        /\ row'[b].status # "none"
      BY DEF ClaimsAreUsers
    <2>1. Claims(b, u)
      BY ClaimsOfStep
    <2>2. u <= added /\ user[u].at = row[b].start /\ user[u].code = u /\ row[b].status # "none"
      BY <2>1 DEF CodeInv, ClaimsAreUsers
    <2> QED
      BY <2>2 DEF PlainStep, UsersKept, RowsKept
  <1>2. ClaimsApart'
    BY ClaimsOfStep DEF CodeInv, ClaimsApart
  <1>3. AddsAlone'
    <2> SUFFICES ASSUME NEW q \in Proc, NEW u \in User, pc'[q] = "after", job'[q].u = u
                 PROVE  /\ user'[u].on /\ u \notin job'[q].users
                        /\ \A b \in Booking : ~Recorded(b, u)'
                        /\ \A r \in Proc \ {q} : pc'[r] = "after" => job'[r].u # u
      BY DEF AddsAlone
    <2>1. q # p /\ pc[q] = "after" /\ job'[q] = job[q]
      BY DEF PlainStep, UsersKept, RowsKept, OnlyMoves
    <2>2. u = job[q].u
      BY <2>1
    <2>3. /\ user[u].on /\ u \notin job[q].users
          /\ \A b \in Booking : ~Recorded(b, u)
          /\ \A r \in Proc \ {q} : pc[r] = "after" => job[r].u # u
      BY <2>1, <2>2 DEF CodeInv, AddsAlone
    <2>4. \A b \in Booking : ~Adding(p, b, u)
      BY <2>1, <2>3 DEF Adding
    <2>5. \A b \in Booking : ~Recorded(b, u)'
      BY <2>3, <2>4, ClaimsOfStep
    <2>6. \A r \in Proc \ {q} : pc'[r] = "after" => job'[r].u # u
      BY <2>3 DEF PlainStep, UsersKept, RowsKept, OnlyMoves
    <2>7. user'[u].on
      <3>1. job[q].b \in Booking
        BY <2>1 DEF Typed, Fits, OnBooking
      <3>2. Claims(job[q].b, u)
        BY <2>1, <2>2 DEF Claims, Adding
      <3>3. row[job[q].b].start >= day
        BY <2>1 DEF CodeInv, Hand, InHand
      <3>4. ~(row[job[q].b].start < day)
        BY <3>1, <3>3 DEF Typed, TypeOK, Day, RowSpace
      <3>5. user'[u] = user[u]
        BY <2>3, <3>1, <3>2, <3>4, DeletesItsOwn
      <3> QED
        BY <2>3, <3>5
    <2> QED
      BY <2>1, <2>2, <2>3, <2>5, <2>6, <2>7
  <1>4. OwnCode'
    <2> SUFFICES ASSUME NEW u \in User, user'[u].on PROVE u <= added' /\ user'[u].code = u
      BY DEF OwnCode
    <2>1. user[u].on /\ added' = added /\ user'[u].code = user[u].code
      BY DEF PlainStep, UsersKept, RowsKept
    <2> QED
      BY <2>1 DEF CodeInv, OwnCode
  <1>5. \A q \in Proc : Hand(q)'
    BY HandsOfStep
  <1> QED
    BY <1>1, <1>2, <1>3, <1>4, <1>5 DEF CodeInv

LEMMA EnterMoves ==
    ASSUME Typed, NEW p \in Proc, NEW l, NEW j, Enter(p, l, j)
    PROVE  /\ pc'[p] = l /\ OnlyMoves(p)
           /\ job'[p] = IF l = "idle" THEN IdleJob ELSE j
  BY DEF Typed, TypeOK, Enter, OnlyMoves

\* A statement that enters l with j.
LEMMA WriteStep ==
    ASSUME Typed, NEW p \in Proc, NEW l \in Label \ {"after"}, NEW j \in JobSpace, Enter(p, l, j),
           UNCHANGED <<day, added, lock>>, UsersKept(p), RowsKept,
           l # "idle" => InHand(l, j)',
           \A b \in Booking, u \in User :
               Carries(l, j, b, u) => Recorded(b, u) \/ Adding(p, b, u)
    PROVE  PlainStep(p)
  <1>1. CASE l = "idle"
    <2>1. pc'[p] = "idle" /\ job'[p] = IdleJob /\ OnlyMoves(p)
      BY <1>1, EnterMoves
    <2>2. \A b \in Booking, u \in User : ~Carries("idle", IdleJob, b, u)
      BY DoorAssumption DEF Carries, InRow, IdleJob, NoRows, NewRow, None, User
    <2>3. Hand(p)'
      BY <2>1 DEF Hand, InHand, IdleJob, NoRows, NewRow
    <2> QED
      BY <2>1, <2>2, <2>3 DEF PlainStep
  <1>2. CASE l # "idle"
    <2>1. pc'[p] = l /\ job'[p] = j /\ OnlyMoves(p)
      BY <1>2, EnterMoves
    <2>2. Hand(p)'
      BY <1>2, <2>1 DEF Hand
    <2> QED
      BY <2>1, <2>2 DEF PlainStep
  <1> QED
    BY <1>1, <1>2

LEMMA KeepUsers == ASSUME NEW p \in Proc, UNCHANGED user PROVE UsersKept(p)
  BY DEF UsersKept

LEMMA KeepRows == ASSUME UNCHANGED row PROVE RowsKept
  BY DEF RowsKept, Recorded

\* One that only reads.
LEMMA ReadStep ==
    ASSUME Typed, NEW p \in Proc, NEW l \in Label \ {"after"}, NEW j \in JobSpace, Enter(p, l, j),
           UNCHANGED <<day, row, utec>>,
           l # "idle" => InHand(l, j),
           \A b \in Booking, u \in User :
               Carries(l, j, b, u) => Recorded(b, u) \/ Adding(p, b, u)
    PROVE  PlainStep(p)
  <1>1. InHand(l, j)' <=> InHand(l, j)
    BY DEF InHand, DueRow, Upheld, Landed, Listed, utec
  <1> QED
    BY <1>1, KeepUsers, KeepRows, WriteStep DEF utec

\* One that only goes on.
LEMMA GotoStep ==
    ASSUME Typed, NEW p \in Proc, NEW l \in Label \ {"after", "record", "heldDelete"}, Goto(p, l),
           UNCHANGED <<day, row, utec>>,
           l # "idle" => InHand(l, job[p])
    PROVE  PlainStep(p)
  <1>1. PICK j \in JobSpace : j = job[p]
    BY DEF Typed
  <1>2. \A b \in Booking, u \in User : Carries(l, j, b, u) => Recorded(b, u)
    BY <1>1 DEF Carries, Recorded, Knows
  <1> QED
    BY <1>1, <1>2, ReadStep DEF Goto

LEMMA ReturnStep ==
    ASSUME Typed, NEW p \in Proc, Return(p), UNCHANGED <<day, row, utec>>
    PROVE  PlainStep(p)
  BY GotoStep DEF Return, Label

\* What a handler with a copy of rows taken just now carries is what the rows say.
LEMMA FreshCopy ==
    ASSUME Typed, NEW S \in SUBSET Booking
    PROVE  /\ \A b \in Booking, u \in User : InRow(Snapshot(S)[b], u) => Recorded(b, u)
           /\ \A b \in Booking : Snapshot(S)[b].status # "none" =>
                 Snapshot(S)[b].start = row[b].start /\ row[b].status # "none"
           /\ \A b \in S : Snapshot(S)[b] = row[b]
  BY DoorAssumption DEF Snapshot, InRow, Recorded, NewRow, None, User

\* The bookings in hand are done, or a call threw: on to the next.
LEMMA ResumeStep ==
    ASSUME Typed, CodeInv, NEW p \in Proc, UNCHANGED <<day, row, utec>>, Goto(p, job[p].then),
           pc[p] \in {"before", "add", "after", "held", "heldDelete", "syncRead", "syncList",
                      "syncStamp"}
    PROVE  PlainStep(p)
  <1>1. Hand(p) /\ job[p] \in JobSpace
    BY DEF CodeInv, Typed
  <1>2. PICK l \in {"idle", "provisionNext", "sweepNext", "sweep"} : l = job[p].then
    BY <1>1 DEF Hand, InHand
  <1>3. l \in Label \ {"after", "record", "heldDelete"}
    BY DEF Label
  <1>4. l # "idle" => InHand(l, job[p])
    BY <1>1, <1>2 DEF Hand, InHand
  <1>5. Goto(p, l)
    BY <1>2
  <1> QED
    BY <1>3, <1>4, <1>5, GotoStep

LEMMA FoundIsAdded ==
    ASSUME Typed, CodeInv, NEW p \in Proc, pc[p] = "after"
    PROVE  OnlyOne(Listed \ job[p].users) \in {job[p].u, None}
  <1>1. PICK u \in User : u = job[p].u
    BY DEF Typed, Fits
  <1> DEFINE S == Listed \ job[p].users
  <1>2. u \in S
    BY <1>1 DEF CodeInv, AddsAlone, Listed
  <1>3. CASE Cardinality(S) = 1
    <2>1. S = {u}
      <3>1. IsFiniteSet(S)
        <4>1. IsFiniteSet(User)
          BY FS_Interval, DoorAssumption DEF User
        <4> QED
          BY <4>1, FS_Subset DEF Listed
      <3>2. PICK x : S = {x}
        BY <1>3, <3>1, FS_Singleton
      <3> QED
        BY <1>2, <3>2
    <2>2. (CHOOSE v \in S : TRUE) = u
      BY <2>1
    <2> QED
      BY <1>1, <1>3, <2>2 DEF OnlyOne
  <1>4. CASE Cardinality(S) # 1
    BY <1>4 DEF OnlyOne
  <1> QED
    BY <1>3, <1>4

LEMMA AddingSteps ==
    ASSUME PlainUse, Typed, CodeInv, NEW p \in Proc,
           ListBefore(p) \/ AddRefused(p) \/ ListAfter(p) \/ Record(p)
    PROVE  PlainStep(p)
  <1>0. Hand(p) /\ job[p] \in JobSpace /\ Fits(pc[p], job[p])
    BY DEF CodeInv, Typed
  <1>1. CASE ListBefore(p)
    <2>1. [job[p] EXCEPT !.users = Listed] \in JobSpace
      BY <1>0, JobTypes DEF Typed, Listed
    <2>2. PICK j \in JobSpace : j = [job[p] EXCEPT !.users = Listed]
      BY <2>1
    <2>3. /\ j.b = job[p].b /\ j.snap = job[p].snap /\ j.rows = job[p].rows
          /\ j.then = job[p].then /\ j.users = Listed
      BY <1>0, <2>2 DEF JobSpace
    <2>4. \A u \in Listed : u <= added
      BY DEF CodeInv, OwnCode, Listed
    <2>5. pc[p] = "before" /\ Enter(p, "add", j) /\ UNCHANGED <<day, row, utec>>
      BY <1>1, <2>2 DEF ListBefore
    <2>6. InHand("add", j)
      BY <1>0, <2>3, <2>4, <2>5 DEF Hand, InHand, DueRow
    <2>7. \A b \in Booking, u \in User : Carries("add", j, b, u) => Recorded(b, u)
      BY <2>3, <2>5 DEF Carries, Recorded, Knows
    <2>8. "add" \in Label \ {"after"}
      BY DEF Label
    <2> QED
      BY <2>5, <2>6, <2>7, <2>8, ReadStep
  <1>2. CASE AddRefused(p)
    BY <1>2, ResumeStep DEF AddRefused
  <1>3. CASE ListAfter(p)
    <2>1. Enter(p, "record", [job[p] EXCEPT !.id = OnlyOne(Listed \ job[p].users), !.users = {}])
      BY <1>3 DEF ListAfter, PlainUse
    <2>2. PICK id \in 0 .. MaxUser : id = OnlyOne(Listed \ job[p].users)
      BY OnlyOneType DEF Listed
    <2>3. [job[p] EXCEPT !.id = id, !.users = {}] \in JobSpace
      BY <1>0, JobTypes DEF Typed
    <2>4. PICK j \in JobSpace : j = [job[p] EXCEPT !.id = id, !.users = {}]
      BY <2>3
    <2>5. /\ j.b = job[p].b /\ j.snap = job[p].snap /\ j.rows = job[p].rows /\ j.u = job[p].u
          /\ j.then = job[p].then /\ j.users = {} /\ j.id = id
      BY <1>0, <2>4 DEF JobSpace
    <2>6. pc[p] = "after" /\ Enter(p, "record", j) /\ UNCHANGED <<day, row, utec>>
      BY <1>3, <2>1, <2>2, <2>4 DEF ListAfter
    <2>7. InHand("record", j)
      BY <1>0, <2>5, <2>6 DEF Hand, InHand, DueRow
    <2>8. id \in {job[p].u, None}
      BY <2>2, <2>6, FoundIsAdded
    <2>9. \A b \in Booking, u \in User :
             Carries("record", j, b, u) => Recorded(b, u) \/ Adding(p, b, u)
      BY <2>5, <2>6, <2>8, DoorAssumption DEF Carries, Recorded, Knows, Adding, User, None
    <2>10. "record" \in Label \ {"after"}
      BY DEF Label
    <2> QED
      BY <2>6, <2>7, <2>9, <2>10, ReadStep
  <1>4. CASE Record(p)
    <2>1. [job[p] EXCEPT !.u = None, !.id = None] \in JobSpace
      <3>1. None \in 0 .. MaxUser
        BY DoorAssumption DEF None
      <3> QED
        BY <1>0, <3>1, JobTypes DEF Typed
    <2>2. PICK j \in JobSpace : j = [job[p] EXCEPT !.u = None, !.id = None]
      BY <2>1
    <2>3. /\ j.b = job[p].b /\ j.snap = job[p].snap /\ j.rows = job[p].rows
          /\ j.then = job[p].then
      BY <1>0, <2>2 DEF JobSpace
    <2>4. pc[p] = "record" /\ UNCHANGED <<day, utec>> /\ job[p].b \in Booking /\ job[p].u \in User
      BY <1>0, <1>4 DEF Record, Fits, OnBooking
    <2>5. PICK l \in {"idle", "provisionNext"} : l = job[p].then
      BY <1>0, <2>4 DEF Hand, InHand
    <2>6. Enter(p, l, j)
      BY <1>4, <2>2, <2>5 DEF Record
    <2>7. Knows(p, job[p].b, job[p].u)
      BY <2>4 DEF Knows, Carries
    <2>8. user[job[p].u].code = job[p].u
      BY <2>4, <2>7 DEF CodeInv, ClaimsAreUsers, Claims, Recorded
    <2>9. /\ \A b \in Booking : row'[b].start = row[b].start /\ row'[b].status = row[b].status
          /\ \A b \in Booking : b # job[p].b => row'[b] = row[b]
          /\ row'[job[p].b].code = job[p].u /\ row'[job[p].b].id = job[p].id
      BY <1>4, <2>4, <2>8 DEF Record, Typed, TypeOK, RowSpace
    <2>10. \A b \in Booking, u \in User : InRow(row'[b], u) => Recorded(b, u)
      BY <2>4, <2>9 DEF InRow, Recorded, Knows, Carries
    <2>11. RowsKept
      BY <2>9, <2>10 DEF RowsKept
    <2>12. l # "idle" => InHand(l, j)'
      BY <1>0, <2>3, <2>4, <2>5, <2>9 DEF Hand, InHand, DueRow, JobSpace
    <2>13. \A b \in Booking, u \in User : Carries(l, j, b, u) => Recorded(b, u)
      BY <2>3, <2>5 DEF Carries, Recorded, Knows
    <2>14. l \in Label \ {"after"}
      BY DEF Label
    <2> QED
      BY <2>4, <2>6, <2>11, <2>12, <2>13, <2>14, KeepUsers, WriteStep DEF utec
  <1> QED
    BY <1>1, <1>2, <1>3, <1>4

LEMMA RevokingSteps ==
    ASSUME PlainUse, Typed, CodeInv, NEW p \in Proc,
           ListenerRead(p) \/ RevokeRead(p) \/ Held(p) \/ HeldDelete(p) \/ HeldClear(p)
    PROVE  PlainStep(p)
  <1>0. Hand(p) /\ job[p] \in JobSpace /\ Fits(pc[p], job[p])
    BY DEF CodeInv, Typed
  <1>1. CASE ListenerRead(p) \/ RevokeRead(p)
    <2>1. CASE Return(p)
      BY <1>1, <2>1, ReturnStep DEF ListenerRead, RevokeRead
    <2>2. CASE ~Return(p)
      <3>1. PICK c \in Booking : c = job[p].b
        BY <1>0, <1>1 DEF ListenerRead, RevokeRead, Fits, OnBooking
      <3>2. [job[p] EXCEPT !.snap = Snapshot({c})] \in JobSpace
        BY <1>0, JobTypes DEF Typed
      <3>3. PICK j \in JobSpace : j = [job[p] EXCEPT !.snap = Snapshot({c})]
        BY <3>2
      <3>4. /\ j.b = c /\ j.snap = Snapshot({c}) /\ j.rows = job[p].rows /\ j.then = job[p].then
            /\ j.users = job[p].users
        BY <1>0, <3>1, <3>3 DEF JobSpace
      <3>5. /\ \A b \in Booking, u \in User : InRow(j.snap[b], u) => Recorded(b, u)
            /\ \A b \in Booking : j.snap[b].status # "none" =>
                  j.snap[b].start = row[b].start /\ row[b].status # "none"
            /\ j.snap[c] = row[c]
        BY <3>4, FreshCopy
      <3>6. PICK l \in {"before", "held"} :
               /\ Enter(p, l, j) /\ UNCHANGED <<day, row, utec>>
               /\ l = "before" => pc[p] = "listener" /\ Due(c)
               /\ l = "held" => pc[p] = "revoke" /\ HoldsAccess(row[c])
        BY <1>1, <2>2, <3>1, <3>3 DEF ListenerRead, RevokeRead, Due
      <3>7. Due(c) => DueRow(row[c])
        BY DEF Due, DueRow, InWindow, Typed, TypeOK, Day, RowSpace
      <3>8. InHand(l, j)
        <4>1. l = "held" => HoldsAccess(j.snap[j.b])
          BY <3>4, <3>5, <3>6
        <4> QED
          BY <1>0, <4>1, <3>1, <3>4, <3>5, <3>6, <3>7 DEF Hand, InHand
      <3>9. \A b \in Booking, u \in User : Carries(l, j, b, u) => Recorded(b, u)
        BY <3>5, <3>6 DEF Carries
      <3>10. l \in Label \ {"after"}
        BY DEF Label
      <3> QED
        BY <3>6, <3>8, <3>9, <3>10, ReadStep
    <2> QED
      BY <2>1, <2>2
  <1>2. CASE Held(p)
    <2>1. PICK c \in Booking : c = job[p].b
      BY <1>0, <1>2 DEF Held, Fits, OnBooking
    <2>2. PICK r \in RowSpace : r = job[p].snap[c]
      BY <1>0, <2>1 DEF JobSpace
    <2> DEFINE Own == UsersOf(r, Listed)
    <2>3. \A u \in User : u \in Own => InRow(r, u)
      <3>1. HoldsAccess(r)
        BY <1>0, <1>2, <2>1, <2>2 DEF Held, Hand, InHand
      <3> QED
        BY <3>1 DEF HoldsAccess, UsersOf, InRow, Listed, CodeInv, OwnCode
    <2>4. PICK U \in SUBSET User : U = Own
      <3>1. Own \in SUBSET User
        BY DEF UsersOf, Listed, User, RowSpace, None
      <3> QED
        BY <3>1
    <2>5. [job[p] EXCEPT !.users = U] \in JobSpace
      BY <1>0, JobTypes DEF Typed
    <2>6. PICK j \in JobSpace : j = [job[p] EXCEPT !.users = U]
      BY <2>5
    <2>7. /\ j.b = c /\ j.snap = job[p].snap /\ j.rows = job[p].rows /\ j.then = job[p].then
          /\ j.users = U
      BY <1>0, <2>1, <2>6 DEF JobSpace
    <2>8. pc[p] = "held" /\ Enter(p, "heldDelete", j) /\ UNCHANGED <<day, row, utec>>
      <3>1. Shown = {Listed}
        BY DEF Shown, PlainUse
      <3> QED
        BY <1>2, <2>1, <2>2, <2>4, <2>6, <3>1 DEF Held
    <2>9. InHand("heldDelete", j)
      BY <1>0, <2>1, <2>7, <2>8 DEF Hand, InHand
    <2>10. \A b \in Booking, u \in User : InRow(job[p].snap[b], u) => Recorded(b, u)
      BY DEF Recorded, Knows, Carries
    <2>11. \A b \in Booking, u \in User : Carries("heldDelete", j, b, u) => Recorded(b, u)
      BY <2>2, <2>3, <2>4, <2>7, <2>10 DEF Carries
    <2>12. "heldDelete" \in Label \ {"after"}
      BY DEF Label
    <2> QED
      BY <2>8, <2>9, <2>11, <2>12, ReadStep
  <1>3. CASE HeldDelete(p)
    <2>1. CASE job[p].users = {} /\ Goto(p, "heldClear") /\ UNCHANGED user
      <3>1. InHand("heldClear", job[p])
        BY <1>0, <1>3 DEF HeldDelete, Hand, InHand
      <3>2. "heldClear" \in Label \ {"after", "record", "heldDelete"}
        BY DEF Label
      <3>3. UNCHANGED <<day, row, utec>>
        BY <1>3, <2>1 DEF HeldDelete, utec
      <3> QED
        BY <2>1, <3>1, <3>2, <3>3, GotoStep
    <2>2. CASE \E u \in job[p].users :
                  Delete(u) /\ Enter(p, "heldDelete", [job[p] EXCEPT !.users = @ \ {u}])
      <3>1. PICK u \in job[p].users :
                    Delete(u) /\ Enter(p, "heldDelete", [job[p] EXCEPT !.users = @ \ {u}])
        BY <2>2
      <3>2. u \in User /\ [job[p] EXCEPT !.users = @ \ {u}] \in JobSpace
        BY <1>0, JobTypes DEF Typed, JobSpace
      <3>3. PICK j \in JobSpace : j = [job[p] EXCEPT !.users = @ \ {u}]
        BY <3>2
      <3>4. /\ j.b = job[p].b /\ j.snap = job[p].snap /\ j.rows = job[p].rows
            /\ j.then = job[p].then /\ j.users = job[p].users \ {u}
        BY <1>0, <3>3 DEF JobSpace
      <3>5. /\ pc[p] = "heldDelete" /\ UNCHANGED <<day, row, lock, added>>
            /\ Enter(p, "heldDelete", j)
        BY <1>3, <3>1, <3>3 DEF HeldDelete
      <3>6. UsersKept(p)
        BY <3>1, <3>2, <3>5 DEF UsersKept, Delete, Typed, TypeOK, UserSpace
      <3>7. InHand("heldDelete", j)'
        BY <1>0, <3>4, <3>5 DEF Hand, InHand
      <3>8. \A b \in Booking, v \in User : Carries("heldDelete", j, b, v) => Recorded(b, v)
        BY <3>4, <3>5 DEF Carries, Recorded, Knows
      <3>9. "heldDelete" \in Label \ {"after"}
        BY DEF Label
      <3> QED
        BY <3>5, <3>6, <3>7, <3>8, <3>9, KeepRows, WriteStep
    <2> QED
      BY <1>3, <2>1, <2>2 DEF HeldDelete
  <1>4. CASE HeldClear(p)
    <2>1. PICK j \in JobSpace : j = job[p]
      BY <1>0
    <2>2. pc[p] = "heldClear" /\ UNCHANGED <<day, utec>> /\ j.b \in Booking
      BY <1>0, <1>4, <2>1 DEF HeldClear, Fits, OnBooking
    <2>3. PICK l \in {"idle", "sweepNext"} : l = j.then
      BY <1>0, <2>1, <2>2 DEF Hand, InHand
    <2>4. Enter(p, l, j)
      BY <1>4, <2>1, <2>3 DEF HeldClear, Goto
    <2>5. /\ \A b \in Booking : row'[b].start = row[b].start /\ row'[b].status = row[b].status
          /\ \A b \in Booking : b # j.b => row'[b] = row[b]
          /\ row'[j.b].code = None /\ row'[j.b].id = None
      BY <1>4, <2>1, <2>2 DEF HeldClear, Clear, Typed, TypeOK, RowSpace
    <2>6. \A b \in Booking, u \in User : InRow(row'[b], u) => Recorded(b, u)
      BY <2>5, DoorAssumption DEF InRow, Recorded, None, User
    <2>7. RowsKept
      BY <2>5, <2>6 DEF RowsKept
    <2>8. l # "idle" => InHand(l, j)'
      BY <1>0, <2>1, <2>2, <2>3, <2>5 DEF Hand, InHand, JobSpace
    <2>9. \A b \in Booking, u \in User : Carries(l, j, b, u) => Recorded(b, u)
      BY <2>1, <2>3 DEF Carries, Recorded, Knows
    <2>10. l \in Label \ {"after"}
      BY DEF Label
    <2> QED
      BY <2>2, <2>4, <2>7, <2>8, <2>9, <2>10, KeepUsers, WriteStep DEF utec
  <1> QED
    BY <1>1, <1>2, <1>3, <1>4

\* The jobs start each part from nothing.
LEMMA BlankJob ==
    /\ \A S \in SUBSET User : [IdleJob EXCEPT !.users = S] \in JobSpace
    /\ \A j \in JobSpace : j.snap = NoRows =>
          \A b \in Booking, u \in User : ~InRow(j.snap[b], u) /\ j.snap[b].status = "none"
  <1>1. IdleJob \in JobSpace
    BY IdleJobType
  <1>2. \A S \in SUBSET User : [IdleJob EXCEPT !.users = S] \in JobSpace
    BY <1>1 DEF JobSpace
  <1> QED
    BY <1>2, DoorAssumption DEF InRow, NoRows, NewRow, None, User

LEMMA CleaningSteps ==
    ASSUME Typed, CodeInv, NEW p \in Proc, CleanFind(p) \/ CleanDelete(p) \/ CleanRows(p)
    PROVE  PlainStep(p)
  <1>0. Hand(p) /\ job[p] \in JobSpace
    BY DEF CodeInv, Typed
  <1>1. CASE CleanFind(p)
    <2>1. Expired \in SUBSET User /\ \A u \in Expired : user[u].at < day /\ u <= added
      BY DEF Expired, Listed, CodeInv, OwnCode
    <2>2. PICK j \in JobSpace : j = [IdleJob EXCEPT !.users = Expired]
      BY <2>1, BlankJob
    <2>3. j.snap = NoRows /\ j.then = "idle" /\ j.users = Expired
      BY <2>2 DEF IdleJob
    <2>4. /\ pc[p] = "cleanFind" /\ Enter(p, "cleanDelete", j)
          /\ UNCHANGED <<day, row, utec>>
      BY <1>1, <2>2 DEF CleanFind
    <2>5. \A b \in Booking, u \in User : ~InRow(j.snap[b], u) /\ j.snap[b].status = "none"
      BY <2>3, BlankJob
    <2>6. \A b \in Booking : j.snap[b].status = "none"
      BY <2>3 DEF NoRows, NewRow
    <2>7. InHand("cleanDelete", j)
      BY <2>1, <2>3, <2>6 DEF InHand
    <2>8. \A b \in Booking, u \in User : ~Carries("cleanDelete", j, b, u)
      BY <2>5 DEF Carries
    <2>9. "cleanDelete" \in Label \ {"after"}
      BY DEF Label
    <2> QED
      BY <2>4, <2>7, <2>8, <2>9, ReadStep
  <1>2. CASE CleanDelete(p)
    <2>1. CASE job[p].users = {} /\ Goto(p, "cleanRows") /\ UNCHANGED <<user, faults>>
      <3>1. InHand("cleanRows", job[p])
        BY <1>0, <1>2 DEF CleanDelete, Hand, InHand
      <3>2. "cleanRows" \in Label \ {"after", "record", "heldDelete"}
        BY DEF Label
      <3>3. UNCHANGED <<day, row, utec>>
        BY <1>2, <2>1 DEF CleanDelete, utec
      <3> QED
        BY <2>1, <3>1, <3>2, <3>3, GotoStep
    <2>2. CASE \E u \in job[p].users :
                 /\ Enter(p, "cleanDelete", [job[p] EXCEPT !.users = @ \ {u}])
                 /\ \/ Delete(u) /\ UNCHANGED faults
                    \/ "fail" \in Handlers /\ Fault /\ UNCHANGED user
      <3>1. PICK u \in job[p].users :
                 /\ Enter(p, "cleanDelete", [job[p] EXCEPT !.users = @ \ {u}])
                 /\ Delete(u) \/ UNCHANGED user
        BY <2>2
      <3>2. u \in User /\ [job[p] EXCEPT !.users = @ \ {u}] \in JobSpace
        BY <1>0, JobTypes DEF Typed, JobSpace
      <3>3. PICK j \in JobSpace : j = [job[p] EXCEPT !.users = @ \ {u}]
        BY <3>2
      <3>4. /\ j.b = job[p].b /\ j.snap = job[p].snap /\ j.rows = job[p].rows
            /\ j.then = job[p].then /\ j.users = job[p].users \ {u}
        BY <1>0, <3>3 DEF JobSpace
      <3>5. /\ pc[p] = "cleanDelete" /\ UNCHANGED <<day, row, lock, added>>
            /\ Enter(p, "cleanDelete", j)
        BY <1>2, <3>1, <3>3 DEF CleanDelete
      <3>6. UsersKept(p)
        BY <3>1, <3>2, <3>5 DEF UsersKept, Delete, Typed, TypeOK, UserSpace
      <3>7. InHand("cleanDelete", j)'
        BY <1>0, <3>4, <3>5, <3>6 DEF Hand, InHand, DueRow, UsersKept, JobSpace
      <3>8. \A b \in Booking, v \in User : Carries("cleanDelete", j, b, v) => Recorded(b, v)
        BY <3>4, <3>5 DEF Carries, Recorded, Knows
      <3>9. "cleanDelete" \in Label \ {"after"}
        BY DEF Label
      <3> QED
        BY <3>5, <3>6, <3>7, <3>8, <3>9, KeepRows, WriteStep
    <2> QED
      BY <1>2, <2>1, <2>2 DEF CleanDelete
  <1>3. CASE CleanRows(p)
    <2>1. PICK j \in JobSpace : j = job[p]
      BY <1>0
    <2>2. pc[p] = "cleanRows" /\ UNCHANGED <<day, utec>> /\ Enter(p, "provision", j)
      BY <1>3, <2>1 DEF CleanRows, Goto
    <2>3. /\ \A b \in Booking : row'[b].start = row[b].start /\ row'[b].status = row[b].status
          /\ \A b \in Booking :
                row'[b] # row[b] => row'[b].code = None /\ row'[b].id = None
      <3> SUFFICES ASSUME NEW b \in Booking
                   PROVE  /\ row'[b].start = row[b].start /\ row'[b].status = row[b].status
                          /\ row'[b] # row[b] => row'[b].code = None /\ row'[b].id = None
        OBVIOUS
      <3>1. row[b] \in RowSpace /\ row'[b] \in {row[b], Clear(row[b])}
        BY <1>3 DEF CleanRows, Typed, TypeOK
      <3> QED
        BY <3>1 DEF Clear, RowSpace
    <2>4. \A b \in Booking, u \in User : InRow(row'[b], u) => Recorded(b, u)
      BY <2>3, DoorAssumption DEF InRow, Recorded, None, User
    <2>5. RowsKept
      BY <2>3, <2>4 DEF RowsKept
    <2>6. InHand("provision", j)'
      BY <1>0, <2>1, <2>2, <2>3 DEF Hand, InHand, DueRow, JobSpace
    <2>7. \A b \in Booking, u \in User : Carries("provision", j, b, u) => Recorded(b, u)
      BY <2>1 DEF Carries, Recorded, Knows
    <2>8. "provision" \in Label \ {"after"}
      BY DEF Label
    <2> QED
      BY <2>2, <2>5, <2>6, <2>7, <2>8, KeepUsers, WriteStep DEF utec
  <1> QED
    BY <1>1, <1>2, <1>3

LEMMA LoopSteps ==
    ASSUME Typed, CodeInv, NEW p \in Proc,
           Provision(p) \/ ProvisionNext(p) \/ Sweep(p) \/ SweepNext(p)
    PROVE  PlainStep(p)
  <1>0. Hand(p) /\ job[p] \in JobSpace /\ IdleJob \in JobSpace
    BY IdleJobType DEF CodeInv, Typed
  <1>1. CASE Provision(p) \/ Sweep(p)
    <2>1. PICK R \in SUBSET Booking, l \in {"provisionNext", "sweepNext"}, k \in JobSpace :
             /\ Enter(p, l, [k EXCEPT !.rows = R, !.snap = Snapshot(R), !.then = l])
             /\ l = "provisionNext" => \A b \in R : Due(b)
             /\ l = "sweepNext" => \A b \in R : row[b].status = "cancelled" /\ HoldsAccess(row[b])
      <3>1. CASE Provision(p)
        <4> DEFINE due == {b \in Booking : Due(b)}
        <4>1. /\ due \in SUBSET Booking /\ \A b \in due : Due(b)
              /\ Enter(p, "provisionNext", [job[p] EXCEPT
                    !.rows = due, !.snap = Snapshot(due), !.then = "provisionNext"])
          BY <3>1 DEF Provision
        <4> HIDE DEF due
        <4> QED
          BY <1>0, <4>1
      <3>2. CASE Sweep(p)
        <4> DEFINE rows == {b \in Booking : row[b].status = "cancelled" /\ HoldsAccess(row[b])}
        <4>1. /\ rows \in SUBSET Booking
              /\ \A b \in rows : row[b].status = "cancelled" /\ HoldsAccess(row[b])
              /\ Enter(p, "sweepNext", [IdleJob EXCEPT
                    !.rows = rows, !.snap = Snapshot(rows), !.then = "sweepNext"])
          BY <3>2 DEF Sweep
        <4> HIDE DEF rows
        <4> QED
          BY <1>0, <4>1
      <3> QED
        BY <1>1, <3>1, <3>2
    <2>2. l \in Label \ {"after"} /\ l \in Resume
      BY DEF Label, Resume
    <2>3. [k EXCEPT !.rows = R, !.snap = Snapshot(R), !.then = l] \in JobSpace
      BY <2>2, JobTypes DEF Typed
    <2>4. PICK j \in JobSpace : j = [k EXCEPT !.rows = R, !.snap = Snapshot(R), !.then = l]
      BY <2>3
    <2>5. j.rows = R /\ j.snap = Snapshot(R) /\ j.then = l
      BY <2>4 DEF JobSpace
    <2>6. Enter(p, l, j) /\ UNCHANGED <<day, row, utec>>
      BY <1>1, <2>1, <2>4 DEF Provision, Sweep
    <2>7. /\ \A b \in Booking, u \in User : InRow(j.snap[b], u) => Recorded(b, u)
          /\ \A b \in Booking : j.snap[b].status # "none" =>
                j.snap[b].start = row[b].start /\ row[b].status # "none"
          /\ \A b \in R : j.snap[b] = row[b]
      BY <2>5, FreshCopy
    <2>8. \A b \in Booking : Due(b) => DueRow(row[b])
      BY DEF Due, DueRow, InWindow, Typed, TypeOK, Day, RowSpace
    <2>9. l = "provisionNext" => \A b \in R : DueRow(j.snap[b])
      BY <2>1, <2>7, <2>8
    <2>10. InHand(l, j)
      BY <2>1, <2>5, <2>7, <2>9 DEF InHand, HoldsAccess
    <2>11. \A b \in Booking, u \in User : Carries(l, j, b, u) => Recorded(b, u)
      BY <2>1, <2>7 DEF Carries
    <2> QED
      BY <2>2, <2>6, <2>10, <2>11, ReadStep
  <1>2. CASE ProvisionNext(p) \/ SweepNext(p)
    <2>1. CASE \E b \in job[p].rows, l \in {"before", "held"} :
                  /\ Enter(p, l, [job[p] EXCEPT !.b = b, !.rows = @ \ {b}])
                  /\ pc[p] = IF l = "before" THEN "provisionNext" ELSE "sweepNext"
      <3>1. PICK b \in job[p].rows, l \in {"before", "held"} :
                  /\ Enter(p, l, [job[p] EXCEPT !.b = b, !.rows = @ \ {b}])
                  /\ pc[p] = IF l = "before" THEN "provisionNext" ELSE "sweepNext"
        BY <2>1
      <3>2. b \in Booking /\ job[p].rows \ {b} \in SUBSET Booking
        BY <1>0 DEF JobSpace
      <3>3. [job[p] EXCEPT !.b = b, !.rows = @ \ {b}] \in JobSpace
        BY <1>0, <3>2, JobTypes DEF Typed
      <3>4. PICK j \in JobSpace : j = [job[p] EXCEPT !.b = b, !.rows = @ \ {b}]
        BY <3>3
      <3>5. /\ j.b = b /\ j.snap = job[p].snap /\ j.rows = job[p].rows \ {b}
            /\ j.then = job[p].then
        BY <1>0, <3>4 DEF JobSpace
      <3>6. Enter(p, l, j) /\ UNCHANGED <<day, row, utec>>
        BY <1>2, <3>1, <3>4 DEF ProvisionNext, SweepNext
      <3>7. InHand(l, j)
        BY <1>0, <3>1, <3>5 DEF Hand, InHand
      <3>8. \A c \in Booking, u \in User : Carries(l, j, c, u) => Recorded(c, u)
        BY <3>1, <3>5 DEF Carries, Recorded, Knows
      <3>9. l \in Label \ {"after"}
        BY DEF Label
      <3> QED
        BY <3>6, <3>7, <3>8, <3>9, ReadStep
    <2>2. CASE Enter(p, "syncRead", [IdleJob EXCEPT !.then = "sweep"])
      <3>1. [IdleJob EXCEPT !.then = "sweep"] \in JobSpace
        BY <1>0, JobTypes DEF Typed, Resume
      <3>2. PICK j \in JobSpace : j = [IdleJob EXCEPT !.then = "sweep"]
        BY <3>1
      <3>3. j.snap = NoRows /\ j.then = "sweep"
        BY <3>2 DEF IdleJob
      <3>4. /\ \A b \in Booking, u \in User : ~InRow(j.snap[b], u)
            /\ \A b \in Booking : j.snap[b].status = "none"
        BY <3>3, DoorAssumption DEF InRow, NoRows, NewRow, None, User
      <3>5. Enter(p, "syncRead", j) /\ UNCHANGED <<day, row, utec>>
        BY <1>2, <2>2, <3>2 DEF ProvisionNext, SweepNext
      <3>6. InHand("syncRead", j)
        BY <3>3, <3>4 DEF InHand
      <3>7. \A b \in Booking, u \in User : ~Carries("syncRead", j, b, u)
        BY <3>4 DEF Carries
      <3>8. "syncRead" \in Label \ {"after"}
        BY DEF Label
      <3> QED
        BY <3>5, <3>6, <3>7, <3>8, ReadStep
    <2>3. CASE Return(p)
      BY <1>2, <2>3, ReturnStep DEF ProvisionNext, SweepNext
    <2> QED
      BY <1>2, <2>1, <2>2, <2>3 DEF ProvisionNext, SweepNext
  <1> QED
    BY <1>1, <1>2

LEMMA SyncSteps ==
    ASSUME Typed, CodeInv, NEW p \in Proc, SyncRead(p) \/ SyncList(p) \/ SyncStamp(p)
    PROVE  PlainStep(p)
  <1>0. Hand(p) /\ job[p] \in JobSpace
    BY DEF CodeInv, Typed
  <1>1. CASE SyncRead(p)
    <2>1. CASE Goto(p, job[p].then)
      BY <1>1, <2>1, ResumeStep DEF SyncRead
    <2>2. CASE ~Goto(p, job[p].then)
      <3>1. PICK R \in SUBSET Booking :
               /\ Enter(p, "syncList", [job[p] EXCEPT !.rows = R, !.snap = Snapshot(R)])
               /\ \A b \in R : row[b].status = "confirmed" /\ row[b].id # None
        <4> DEFINE rows == {b \in Booking :
                      /\ row[b].status = "confirmed" /\ row[b].id # None /\ ~row[b].synced
                      /\ job[p].then = "idle" => InWindow(row[b].start)}
        <4>1. /\ rows \in SUBSET Booking
              /\ \A b \in rows : row[b].status = "confirmed" /\ row[b].id # None
              /\ Enter(p, "syncList", [job[p] EXCEPT !.rows = rows, !.snap = Snapshot(rows)])
          BY <1>1, <2>2 DEF SyncRead
        <4> HIDE DEF rows
        <4> QED
          BY <4>1
      <3>2. [job[p] EXCEPT !.rows = R, !.snap = Snapshot(R)] \in JobSpace
        BY <1>0, JobTypes DEF Typed
      <3>3. PICK j \in JobSpace : j = [job[p] EXCEPT !.rows = R, !.snap = Snapshot(R)]
        BY <3>2
      <3>4. j.rows = R /\ j.snap = Snapshot(R) /\ j.then = job[p].then
        BY <1>0, <3>3 DEF JobSpace
      <3>5. pc[p] = "syncRead" /\ Enter(p, "syncList", j) /\ UNCHANGED <<day, row, utec>>
        BY <1>1, <3>1, <3>3 DEF SyncRead
      <3>6. /\ \A b \in Booking, u \in User : InRow(j.snap[b], u) => Recorded(b, u)
            /\ \A b \in Booking : j.snap[b].status # "none" =>
                  j.snap[b].start = row[b].start /\ row[b].status # "none"
            /\ \A b \in R : j.snap[b] = row[b]
        BY <3>4, FreshCopy
      <3>7. InHand("syncList", j)
        BY <1>0, <3>1, <3>4, <3>5, <3>6 DEF Hand, InHand
      <3>8. \A b \in Booking, u \in User : Carries("syncList", j, b, u) => Recorded(b, u)
        BY <3>6 DEF Carries
      <3>9. "syncList" \in Label \ {"after"}
        BY DEF Label
      <3> QED
        BY <3>5, <3>7, <3>8, <3>9, ReadStep
    <2> QED
      BY <2>1, <2>2
  <1>2. CASE SyncList(p)
    <2>1. PICK R \in SUBSET Booking :
             R = {b \in job[p].rows : Landed(job[p].snap[b].id)}
      BY <1>0 DEF JobSpace
    <2>2. [job[p] EXCEPT !.rows = R] \in JobSpace
      BY <1>0, JobTypes DEF Typed
    <2>3. PICK j \in JobSpace : j = [job[p] EXCEPT !.rows = R]
      BY <2>2
    <2>4. /\ j.b = job[p].b /\ j.snap = job[p].snap /\ j.rows = R /\ j.then = job[p].then
          /\ j.rows \subseteq job[p].rows /\ \A b \in j.rows : Landed(j.snap[b].id)
      BY <1>0, <2>1, <2>3 DEF JobSpace
    <2>5. pc[p] = "syncList" /\ UNCHANGED <<day, row, utec>>
      BY <1>2 DEF SyncList
    <2>6. Enter(p, "syncStamp", j)
      BY <1>0, <1>2, <2>1, <2>3 DEF SyncList
    <2>7. InHand("syncStamp", j)
      BY <1>0, <2>4, <2>5 DEF Hand, InHand
    <2>8. \A b \in Booking, u \in User : Carries("syncStamp", j, b, u) => Recorded(b, u)
      BY <2>4 DEF Carries, Recorded, Knows
    <2>9. "syncStamp" \in Label \ {"after"}
      BY DEF Label
    <2> QED
      BY <2>5, <2>6, <2>7, <2>8, <2>9, ReadStep
  <1>3. CASE SyncStamp(p)
    <2>1. CASE job[p].rows = {} /\ Goto(p, job[p].then) /\ UNCHANGED row
      BY <1>3, <2>1, ResumeStep DEF SyncStamp
    <2>2. CASE \E b \in job[p].rows :
                 /\ row' = [row EXCEPT ![b].synced = TRUE]
                 /\ Enter(p, "syncStamp", [job[p] EXCEPT !.rows = @ \ {b}])
      <3>1. PICK b \in job[p].rows :
                 /\ row' = [row EXCEPT ![b].synced = TRUE]
                 /\ Enter(p, "syncStamp", [job[p] EXCEPT !.rows = @ \ {b}])
        BY <2>2
      <3>2. b \in Booking /\ job[p].rows \ {b} \in SUBSET Booking
        BY <1>0 DEF JobSpace
      <3>3. [job[p] EXCEPT !.rows = @ \ {b}] \in JobSpace
        BY <1>0, <3>2, JobTypes DEF Typed
      <3>4. PICK j \in JobSpace : j = [job[p] EXCEPT !.rows = @ \ {b}]
        BY <3>3
      <3>5. /\ j.b = job[p].b /\ j.snap = job[p].snap /\ j.rows = job[p].rows \ {b}
            /\ j.then = job[p].then
        BY <1>0, <3>4 DEF JobSpace
      <3>6. pc[p] = "syncStamp" /\ Enter(p, "syncStamp", j) /\ UNCHANGED <<day, utec>>
        BY <1>3, <3>1, <3>4 DEF SyncStamp
      <3>7. \A c \in Booking : /\ row'[c].start = row[c].start /\ row'[c].status = row[c].status
                               /\ row'[c].code = row[c].code /\ row'[c].id = row[c].id
        BY <3>1, <3>2 DEF Typed, TypeOK, RowSpace
      <3>8. RowsKept
        BY <3>7 DEF RowsKept, InRow, Recorded
      <3>9. InHand("syncStamp", j)'
        BY <1>0, <3>5, <3>6, <3>7 DEF Hand, InHand, DueRow, Upheld, Landed, Listed, utec, JobSpace
      <3>10. \A c \in Booking, u \in User : Carries("syncStamp", j, c, u) => Recorded(c, u)
        BY <3>5 DEF Carries, Recorded, Knows
      <3>11. "syncStamp" \in Label \ {"after"}
        BY DEF Label
      <3> QED
        BY <3>6, <3>8, <3>9, <3>10, <3>11, KeepUsers, WriteStep DEF utec
    <2> QED
      BY <1>3, <2>1, <2>2 DEF SyncStamp
  <1> QED
    BY <1>1, <1>2, <1>3

LEMMA FaultSteps ==
    ASSUME Typed, CodeInv, NEW p \in Proc, UtecFails(p) \/ Crash(p)
    PROVE  PlainStep(p)
  <1>1. CASE Crash(p)
    BY <1>1, ReturnStep DEF Crash
  <1>2. CASE UtecFails(p)
    <2>1. CASE pc[p] = "cleanFind"
      <3>1. Goto(p, "cleanRows") /\ UNCHANGED <<day, row, utec>>
        BY <1>2, <2>1 DEF UtecFails, Caught
      <3>2. InHand("cleanRows", job[p])
        BY <2>1 DEF CodeInv, Hand, InHand
      <3>3. "cleanRows" \in Label \ {"after", "record", "heldDelete"}
        BY DEF Label
      <3> QED
        BY <3>1, <3>2, <3>3, GotoStep
    <2>2. CASE pc[p] # "cleanFind"
      <3>1. pc[p] \notin {"repoint", "followFind", "followDelete"}
        BY DEF CodeInv, Hand, InHand
      <3>2. pc[p] \in {"before", "add", "after", "syncList", "held", "heldDelete"}
        BY <1>2, <2>2, <3>1 DEF UtecFails, Caught
      <3>3. Goto(p, job[p].then) /\ UNCHANGED <<day, row, utec>>
        BY <1>2, <3>2 DEF UtecFails, Caught
      <3> QED
        BY <3>2, <3>3, ResumeStep
    <2> QED
      BY <2>1, <2>2
  <1> QED
    BY <1>1, <1>2

LEMMA RequestSteps ==
    ASSUME PlainUse, Typed, CodeInv, NEW p \in Proc, Request(p)
    PROVE  PlainStep(p)
  <1>0. Hand(p) /\ job[p] \in JobSpace
    BY DEF CodeInv, Typed
  <1>1. ASSUME NEW c \in Booking
        PROVE  /\ About(c) \in JobSpace /\ About(c).b = c /\ About(c).then = "idle"
               /\ About(c).snap = NoRows
    <2>1. About(c) \in JobSpace
      BY IdleJobType, JobTypes DEF About, Typed
    <2> QED
      BY <2>1 DEF About, IdleJob
  <1>2. ASSUME NEW c \in Booking, NEW l \in {"listener", "revoke"}, Enter(p, l, About(c)),
               UNCHANGED <<day, utec>>,
               \A b \in Booking \ {c} : row'[b] = row[b],
               row'[c].code = row[c].code /\ row'[c].id = row[c].id,
               \/ row[c].status = "none"
               \/ row'[c].start = row[c].start /\ row'[c].status = "cancelled",
               l = "revoke" => row'[c].status = "cancelled"
        PROVE  PlainStep(p)
    <2>1. PICK j \in JobSpace : j = About(c)
      BY <1>1
    <2>2. j.b = c /\ j.then = "idle" /\ j.snap = NoRows /\ Enter(p, l, j)
      BY <1>1, <1>2, <2>1
    <2>3. RowsKept
      BY <1>2 DEF RowsKept, InRow, Recorded
    <2>4. /\ \A b \in Booking, u \in User : ~InRow(j.snap[b], u)
          /\ \A b \in Booking : j.snap[b].status = "none"
      BY <2>2, DoorAssumption DEF InRow, NoRows, NewRow, None, User
    <2>5. InHand(l, j)'
      BY <1>2, <2>2, <2>4 DEF InHand
    <2>6. \A b \in Booking, u \in User : ~Carries(l, j, b, u)
      BY <2>4 DEF Carries
    <2>7. l \in Label \ {"after"}
      BY DEF Label
    <2> QED
      BY <1>2, <2>2, <2>3, <2>5, <2>6, <2>7, KeepUsers, WriteStep DEF utec
  <1>3. ASSUME NEW c \in Booking, Cancel(p, c) PROVE PlainStep(p)
    <2>1. row[c] \in RowSpace
      BY DEF Typed, TypeOK
    <2>2. /\ \A b \in Booking \ {c} : row'[b] = row[b]
          /\ row'[c].code = row[c].code /\ row'[c].id = row[c].id
          /\ row'[c].start = row[c].start /\ row'[c].status = "cancelled"
      BY <1>3, <2>1 DEF Cancel, Typed, TypeOK, RowSpace
    <2>3. Enter(p, "revoke", About(c)) /\ UNCHANGED <<day, utec>>
      BY <1>3 DEF Cancel
    <2> QED
      BY <1>2, <2>2, <2>3
  <1>4. ASSUME NEW c \in Booking, NEW s \in 0 .. MaxDay, Confirm(p, c, s) PROVE PlainStep(p)
    <2>1. row[c] \in RowSpace
      BY DEF Typed, TypeOK
    <2>2. /\ \A b \in Booking \ {c} : row'[b] = row[b]
          /\ row'[c].code = row[c].code /\ row'[c].id = row[c].id /\ row[c].status = "none"
      BY <1>4, <2>1 DEF Confirm, Typed, TypeOK, RowSpace
    <2>3. Enter(p, "listener", About(c)) /\ UNCHANGED <<day, utec>>
      BY <1>4 DEF Confirm
    <2> QED
      BY <1>2, <2>2, <2>3
  <1>5. CASE Daily(p) \/ Upcoming(p)
    <2>1. PICK l \in {"cleanFind", "syncRead"} : Goto(p, l) /\ pc[p] = "idle"
      BY <1>5 DEF Daily, Upcoming, Accepts
    <2>2. InHand(l, job[p])
      BY <1>0, <2>1 DEF Hand, InHand
    <2>3. l \in Label \ {"after", "record", "heldDelete"}
      BY DEF Label
    <2> QED
      BY <1>5, <2>1, <2>2, <2>3, GotoStep DEF Daily, Upcoming
  <1> QED
    BY <1>3, <1>4, <1>5 DEF Request, PlainUse, Retry, Move, Accepts

LEMMA AddStep == ASSUME Typed, Typed', CodeInv, NEW p \in Proc, Add(p) PROVE CodeInv'
  <1>1. /\ Hand(p) /\ job[p] \in JobSpace /\ Fits(pc[p], job[p])
        /\ pc[p] = "add" /\ added \in Nat
    BY DEF CodeInv, Typed, TypeOK, Add
  <1>2. PICK n \in User : n = added + 1
    BY <1>1 DEF Add, Typed, TypeOK, User
  <1>3. PICK c \in Booking : c = job[p].b
    BY <1>1 DEF Fits, OnBooking
  <1>4. PICK r \in RowSpace : r = job[p].snap[c]
    BY <1>1, <1>3 DEF JobSpace
  <1>5. r.start = row[c].start /\ row[c].status # "none" /\ r.code = None /\ r.start >= day
    BY <1>1, <1>3, <1>4 DEF Hand, InHand, DueRow
  <1>6. /\ added' = n /\ UNCHANGED <<day, row, lock>>
        /\ user' = [user EXCEPT ![n] = [on |-> TRUE, at |-> r.start, code |-> n]]
        /\ Enter(p, "after", [job[p] EXCEPT !.u = n])
    BY <1>2, <1>3, <1>4, <1>5 DEF Add
  <1>7. [job[p] EXCEPT !.u = n] \in JobSpace
    <2>1. n \in 0 .. MaxUser
      BY DoorAssumption DEF User
    <2> QED
      BY <1>1, <2>1, JobTypes DEF Typed
  <1>8. PICK j \in JobSpace : j = [job[p] EXCEPT !.u = n]
    BY <1>7
  <1>9. /\ j.b = c /\ j.u = n /\ j.snap = job[p].snap /\ j.rows = job[p].rows
        /\ j.users = job[p].users /\ j.then = job[p].then
    BY <1>1, <1>3, <1>8 DEF JobSpace
  <1>10. pc'[p] = "after" /\ job'[p] = j /\ OnlyMoves(p)
    BY <1>6, <1>8, EnterMoves
  <1>11. /\ user'[n] = [on |-> TRUE, at |-> r.start, code |-> n]
         /\ \A u \in User : u # n => user'[u] = user[u]
    BY <1>6 DEF Typed, TypeOK
  <1>12. ASSUME NEW b \in Booking, NEW u \in User, Recorded(b, u)' PROVE Recorded(b, u)
    <2>1. CASE InRow(row'[b], u)
      BY <1>6, <2>1 DEF Recorded
    <2>2. ASSUME NEW q \in Proc, Carries(pc'[q], job'[q], b, u) PROVE Recorded(b, u)
      <3>1. Carries(pc[q], job[q], b, u)
        BY <1>9, <1>10, <2>2 DEF Carries, OnlyMoves
      <3> QED
        BY <3>1 DEF Recorded, Knows
    <2> QED
      BY <1>12, <2>1, <2>2 DEF Recorded, Knows
  <1>13. ASSUME NEW b \in Booking, NEW u \in User, NEW q \in Proc, Adding(q, b, u)'
         PROVE  IF q = p THEN b = c /\ u = n ELSE Adding(q, b, u)
    BY <1>9, <1>10, <1>13 DEF Adding, OnlyMoves
  <1>14. \A b \in Booking : ~Claims(b, n)
    BY <1>1, <1>2 DEF CodeInv, ClaimsAreUsers
  <1>15. ASSUME NEW b \in Booking, NEW u \in User, Claims(b, u)'
         PROVE  \/ Claims(b, u) /\ u # n
                \/ b = c /\ u = n
    BY <1>12, <1>13, <1>14, <1>15 DEF Claims
  <1>16. ClaimsAreUsers'
    <2> SUFFICES ASSUME NEW b \in Booking, NEW u \in User, Claims(b, u)'
                 PROVE  /\ u <= added' /\ user'[u].at = row'[b].start /\ user'[u].code = u
                        /\ row'[b].status # "none"
      BY DEF ClaimsAreUsers
    <2>1. CASE b = c /\ u = n
      BY <1>2, <1>5, <1>6, <1>11, <2>1 DEF User
    <2>2. CASE Claims(b, u) /\ u # n
      <3>1. u <= added /\ user[u].at = row[b].start /\ user[u].code = u /\ row[b].status # "none"
        BY <2>2 DEF CodeInv, ClaimsAreUsers
      <3>2. u <= added'
        BY <1>1, <1>2, <1>6, <3>1 DEF User
      <3> QED
        BY <1>6, <1>11, <2>2, <3>1, <3>2
    <2> QED
      BY <1>15, <2>1, <2>2
  <1>17. ClaimsApart'
    <2> SUFFICES ASSUME NEW b \in Booking, NEW d \in Booking, NEW u \in User,
                        Claims(b, u)', Claims(d, u)'
                 PROVE  b = d
      BY DEF ClaimsApart
    <2> QED
      BY <1>15 DEF CodeInv, ClaimsApart
  <1>18. AddsAlone'
    <2> SUFFICES ASSUME NEW q \in Proc, NEW u \in User, pc'[q] = "after", job'[q].u = u
                 PROVE  /\ user'[u].on /\ u \notin job'[q].users
                        /\ \A b \in Booking : ~Recorded(b, u)'
                        /\ \A s \in Proc \ {q} : pc'[s] = "after" => job'[s].u # u
      BY DEF AddsAlone
    <2>1. ASSUME NEW s \in Proc \ {p}, pc[s] = "after"
          PROVE  job[s].u # n /\ pc'[s] = pc[s] /\ job'[s] = job[s]
      <3>1. job[s].b \in Booking
        BY <2>1 DEF Typed, Fits, OnBooking
      <3>2. job[s].u = n => Claims(job[s].b, n)
        BY <2>1 DEF Claims, Adding
      <3> QED
        BY <1>10, <1>14, <3>1, <3>2 DEF OnlyMoves
    <2>2. CASE q = p
      <3>1. u = n /\ user'[u].on
        BY <1>9, <1>10, <1>11, <2>2
      <3>2. u \notin job'[q].users
        BY <1>1, <1>2, <1>9, <1>10, <2>2, <3>1 DEF Hand, InHand
      <3>3. \A b \in Booking : ~Recorded(b, u)'
        BY <1>12, <1>14, <3>1 DEF Claims
      <3>4. \A s \in Proc \ {q} : pc'[s] = "after" => job'[s].u # u
        BY <1>10, <2>1, <2>2, <3>1 DEF OnlyMoves
      <3> QED
        BY <3>1, <3>2, <3>3, <3>4
    <2>3. CASE q # p
      <3>1. pc[q] = "after" /\ job[q].u = u /\ job'[q] = job[q] /\ u # n
        BY <1>10, <2>1, <2>3 DEF OnlyMoves
      <3>2. /\ user[u].on /\ u \notin job[q].users
            /\ \A b \in Booking : ~Recorded(b, u)
            /\ \A s \in Proc \ {q} : pc[s] = "after" => job[s].u # u
        BY <3>1 DEF CodeInv, AddsAlone
      <3>3. \A b \in Booking : ~Recorded(b, u)'
        BY <1>12, <3>2
      <3>4. \A s \in Proc \ {q} : pc'[s] = "after" => job'[s].u # u
        BY <1>9, <1>10, <3>1, <3>2 DEF OnlyMoves
      <3> QED
        BY <1>11, <3>1, <3>2, <3>3, <3>4
    <2> QED
      BY <2>2, <2>3
  <1>19. OwnCode'
    <2> SUFFICES ASSUME NEW u \in User, user'[u].on PROVE u <= added' /\ user'[u].code = u
      BY DEF OwnCode
    <2>1. CASE u = n
      BY <1>2, <1>6, <1>11, <2>1 DEF User
    <2>2. CASE u # n
      <3>1. u <= added /\ user[u].code = u
        BY <1>11, <2>2 DEF CodeInv, OwnCode
      <3> QED
        BY <1>1, <1>2, <1>6, <1>11, <2>2, <3>1 DEF User
    <2> QED
      BY <2>1, <2>2
  <1>20. ASSUME NEW q \in Proc PROVE Hand(q)'
    <2>1. CASE q = p
      BY <1>1, <1>3, <1>5, <1>6, <1>9, <1>10, <2>1 DEF Hand, InHand, DueRow
    <2>2. CASE q # p
      <3>1. pc'[q] = pc[q] /\ job'[q] = job[q] /\ Hand(q) /\ job[q] \in JobSpace
        BY <1>10, <2>2 DEF OnlyMoves, CodeInv, Typed
      <3>2. \A u \in User : u <= added => u <= added' /\ user'[u] = user[u]
        BY <1>1, <1>2, <1>6, <1>11 DEF User
      <3>3. \A b \in job[q].rows : pc[q] = "syncStamp" /\ Upheld(b) =>
               /\ job[q].snap[b].id # None
               /\ job[q].snap[b].id \in User /\ user'[job[q].snap[b].id].on
               /\ lock'[job[q].snap[b].id] = user'[job[q].snap[b].id]
        <4> SUFFICES ASSUME NEW b \in job[q].rows, pc[q] = "syncStamp", Upheld(b)
                     PROVE  /\ job[q].snap[b].id # None
                            /\ job[q].snap[b].id \in User /\ user'[job[q].snap[b].id].on
                            /\ lock'[job[q].snap[b].id] = user'[job[q].snap[b].id]
          OBVIOUS
        <4>1. PICK u \in User : u = job[q].snap[b].id /\ u # None /\ Landed(u)
          BY <3>1 DEF Hand, InHand, Landed, Listed
        <4>2. b \in Booking /\ Claims(b, u)
          BY <3>1, <4>1 DEF JobSpace, Claims, Recorded, Knows, Carries, InRow
        <4>3. user'[u] = user[u]
          BY <3>2, <4>2 DEF CodeInv, ClaimsAreUsers
        <4> QED
          BY <1>6, <4>1, <4>3 DEF Landed, Listed
      <3>5. pc[q] \in {"add", "cleanDelete"} => \A u \in job[q].users : u <= added'
        BY <3>1, <3>2 DEF Hand, InHand, JobSpace
      <3>6. pc[q] = "cleanDelete" => \A u \in job[q].users : user'[u].at < day
        BY <3>1, <3>2 DEF Hand, InHand, JobSpace
      <3>7. UNCHANGED <<day, row, lock>>
        BY <1>6
      <3>4. Hand(q)'
        BY <3>1, <3>3, <3>5, <3>6, <3>7 DEF Hand, InHand, DueRow, Upheld, Landed, Listed
      <3> QED
        BY <3>4
    <2> QED
      BY <2>1, <2>2
  <1> QED
    BY <1>16, <1>17, <1>18, <1>19, <1>20 DEF CodeInv

LEMMA WorldSteps ==
    ASSUME Typed, CodeInv, (\E u \in User : Push(u)) \/ NextDay \/ UNCHANGED vars
    PROVE  CodeInv'
  <1>1. UNCHANGED <<row, user, added, pc, job>>
    BY DEF Push, NextDay, vars, utec
  <1>2. \A b \in Booking, u \in User : /\ Recorded(b, u)' <=> Recorded(b, u)
                                       /\ Claims(b, u)' <=> Claims(b, u)
    BY <1>1 DEF Recorded, Knows, Claims, Adding
  <1>3. ClaimsAreUsers' /\ ClaimsApart' /\ AddsAlone' /\ OwnCode'
    BY <1>1, <1>2 DEF CodeInv, ClaimsAreUsers, ClaimsApart, AddsAlone, OwnCode
  <1>4. ASSUME NEW q \in Proc PROVE Hand(q)'
    <2>1. Hand(q)
      BY DEF CodeInv
    <2>2. CASE NextDay
      <3>1. pc[q] = "idle"
        BY <2>2 DEF NextDay
      <3> QED
        BY <1>1, <2>1, <3>1 DEF Hand, InHand
    <2>3. CASE ~NextDay
      <3>1. day' = day /\ \A u \in User : lock[u] = user[u] => lock'[u] = user[u]
        BY <2>3 DEF Push, vars, Typed, TypeOK
      <3> QED
        BY <1>1, <2>1, <3>1 DEF Hand, InHand, DueRow, Upheld, Landed, Listed
    <2> QED
      BY <2>2, <2>3
  <1> QED
    BY <1>3, <1>4 DEF CodeInv

LEMMA PlainOrAdd ==
    ASSUME PlainUse, Typed, CodeInv,
           NEW p \in Proc, Step(p) \/ Request(p) \/ UtecFails(p) \/ Crash(p)
    PROVE  Add(p) \/ PlainStep(p)
  <1>1. ~(FollowRead(p) \/ Repoint(p) \/ Repointed(p) \/ FollowFind(p) \/ FollowDelete(p))
    BY DEF CodeInv, Hand, InHand, FollowRead, Repoint, Repointed, FollowFind, FollowDelete
  <1>2. CASE Step(p)
    BY <1>1, <1>2, AddingSteps, RevokingSteps, CleaningSteps, LoopSteps, SyncSteps DEF Step
  <1> QED
    BY <1>2, RequestSteps, FaultSteps

LEMMA CodeStep == PlainUse /\ Typed /\ CodeInv /\ [Next]_vars => CodeInv'
  <1> SUFFICES ASSUME PlainUse, Typed, CodeInv, [Next]_vars PROVE CodeInv'
    OBVIOUS
  <1>1. Typed'
    BY TypeStep
  <1>2. ASSUME NEW p \in Proc, Step(p) \/ Request(p) \/ UtecFails(p) \/ Crash(p) PROVE CodeInv'
    BY <1>1, <1>2, PlainOrAdd, AddStep, Carry
  <1> QED
    BY <1>2, WorldSteps DEF Next

LEMMA CodeInit == Init => CodeInv
  <1> SUFFICES ASSUME Init PROVE CodeInv
    OBVIOUS
  <1>1. \A b \in Booking, u \in User : ~Claims(b, u)
    BY DoorAssumption DEF Init, Claims, Recorded, Knows, Adding, Carries, InRow, IdleJob, NoRows,
                          NewRow, None, User
  <1>2. ClaimsAreUsers /\ ClaimsApart /\ AddsAlone /\ OwnCode
    BY <1>1 DEF Init, ClaimsAreUsers, ClaimsApart, AddsAlone, OwnCode, NoUser
  <1>3. \A p \in Proc : Hand(p)
    BY DEF Init, Hand, InHand, IdleJob, NoRows, NewRow
  <1> QED
    BY <1>2, <1>3 DEF CodeInv

LEMMA CodeCorrect == PlainUse => (Spec => [](Typed /\ CodeInv))
  <1> SUFFICES ASSUME PlainUse PROVE Spec => [](Typed /\ CodeInv)
    OBVIOUS
  <1>1. Init => Typed /\ CodeInv
    BY TypeInit, CodeInit
  <1>2. Typed /\ CodeInv /\ [Next]_vars => (Typed /\ CodeInv)'
    BY TypeStep, CodeStep
  <1> QED
    BY <1>1, <1>2, PTL DEF Spec

-----------------------------------------------------------------------------
(* What follows *)

\* Only the deletions of what a booking holds and of what has expired take users off.
LEMMA TakenOff ==
    ASSUME PlainUse, Typed, CodeInv, [Next]_vars,
           NEW u \in User, user[u].on, ~user'[u].on
    PROVE  \E p \in Proc : PlainStep(p) /\ user'[u] # user[u]
  <1>1. user'[u] # user[u]
    OBVIOUS
  <1>2. ASSUME NEW p \in Proc, Add(p) PROVE FALSE
    BY <1>2 DEF Add, Typed, TypeOK, User
  <1>3. \E p \in Proc : Step(p) \/ Request(p) \/ UtecFails(p) \/ Crash(p)
    BY <1>1 DEF Next, Push, NextDay, vars, utec
  <1> QED
    BY <1>1, <1>2, <1>3, PlainOrAdd

LEMMA LiveStep ==
    ASSUME PlainUse, Typed, CodeInv, [Next]_vars, NEW u \in User, NEW b \in Booking,
           user[u].on, ~user'[u].on, Upheld(b),
           user[u].at = row[b].start, user[u].code = row[b].code
    PROVE  FALSE
  <1>1. PICK p \in Proc : PlainStep(p) /\ user'[u] # user[u]
    BY TakenOff
  <1>2. Claims(b, u)
    BY DEF CodeInv, OwnCode, Claims, Recorded, InRow
  <1>3. ~(row[b].start < day) /\ row[b].status # "cancelled"
    BY DEF Upheld, Typed, TypeOK, Day, RowSpace
  <1> QED
    BY <1>1, <1>2, <1>3, DeletesItsOwn

\* A row is marked ready by the pass that has just asked the lock.
LEMMA StampedByPass ==
    ASSUME Typed, CodeInv, PlainUse, [Next]_vars,
           NEW b \in Booking, ~row[b].synced, row'[b].synced
    PROVE  \E p \in Proc : SyncStamp(p) /\ b \in job[p].rows
  <1>0. row'[b] # row[b]
    OBVIOUS
  <1>1. PICK p \in Proc : Step(p) \/ Request(p) \/ UtecFails(p) \/ Crash(p)
    BY <1>0 DEF Next, Push, NextDay, vars
  <1>2. SyncStamp(p)
    <2>1. CASE Step(p)
      <3>1. ~Record(p)
        BY <2>1 DEF Record, Typed, TypeOK, RowSpace
      <3>2. ~HeldClear(p)
        <4>1. HeldClear(p) => row'[b] \in {row[b], Clear(row[b])}
          BY DEF HeldClear, Typed, TypeOK
        <4>2. row[b] \in RowSpace
          BY DEF Typed, TypeOK
        <4>3. Clear(row[b]).synced = FALSE
          BY <4>2 DEF Clear, RowSpace
        <4> QED
          BY <4>1, <4>3
      <3>3. ~CleanRows(p)
        BY DEF CleanRows, Clear, Typed, TypeOK, RowSpace
      <3>4. ~Repointed(p)
        BY DEF Repointed, CodeInv, Hand, InHand
      <3> QED
        BY <1>0, <2>1, <3>1, <3>2, <3>3, <3>4
           DEF Step, ListBefore, Add, AddRefused, ListAfter, ListenerRead, RevokeRead, Held,
               HeldDelete, FollowRead, Repoint, FollowFind, FollowDelete, CleanFind, CleanDelete,
               Provision, ProvisionNext, SyncRead, SyncList, Sweep, SweepNext
    <2>2. CASE Request(p)
      <3>1. \A c \in Booking : ~Cancel(p, c) /\ ~Retry(p, c)
        BY <1>0 DEF Cancel, Retry, Typed, TypeOK, RowSpace
      <3>2. \A c \in Booking, s \in 0 .. MaxDay : ~Confirm(p, c, s) /\ ~Move(p, c, s)
        <4> SUFFICES ASSUME NEW c \in Booking, NEW s \in 0 .. MaxDay,
                            Confirm(p, c, s) \/ Move(p, c, s)
                     PROVE  row'[b].synced = row[b].synced
          OBVIOUS
        <4>1. row[b] \in RowSpace /\ row[c] \in RowSpace
          BY DEF Typed, TypeOK
        <4>2. CASE b # c
          BY <4>2 DEF Confirm, Move, Typed, TypeOK
        <4>3. CASE b = c
          BY <4>1, <4>3 DEF Confirm, Move, Typed, TypeOK, RowSpace
        <4> QED
          BY <4>2, <4>3
      <3> QED
        BY <1>0, <2>2, <3>1, <3>2 DEF Request, Daily, Upcoming
    <2>3. CASE UtecFails(p) \/ Crash(p)
      BY <1>0, <2>3 DEF UtecFails, Crash
    <2> QED
      BY <1>1, <2>1, <2>2, <2>3
  <1>3. b \in job[p].rows
    <2>1. row' # row
      BY <1>0
    <2>2. PICK c \in job[p].rows : row' = [row EXCEPT ![c].synced = TRUE]
      BY <1>2, <2>1 DEF SyncStamp
    <2>3. c = b
      BY <1>0, <2>2 DEF Typed, TypeOK
    <2> QED
      BY <2>2, <2>3
  <1> QED
    BY <1>2, <1>3

LEMMA ReadyStep ==
    ASSUME Typed, CodeInv, PlainUse, [Next]_vars,
           NEW b \in Booking, Upheld(b), ~row[b].synced, row'[b].synced
    PROVE  \E p \in Proc : pc[p] = "syncStamp" /\ b \in job[p].rows /\
              (job[p].snap[b] = row[b] /\ user[row[b].id].code = row[b].code => Opens(b))
  <1>1. PICK p \in Proc : SyncStamp(p) /\ b \in job[p].rows
    BY StampedByPass
  <1>2. pc[p] = "syncStamp"
    BY <1>1 DEF SyncStamp
  <1>3. ASSUME job[p].snap[b] = row[b], user[row[b].id].code = row[b].code PROVE Opens(b)
    <2>1. PICK u \in User : u = row[b].id /\ Landed(u)
      BY <1>1, <1>2, <1>3 DEF CodeInv, Hand, InHand, Landed, Listed
    <2>2. user[u].at = row[b].start
      BY <2>1 DEF CodeInv, ClaimsAreUsers, Claims, Recorded, InRow
    <2> QED
      BY <1>3, <2>1, <2>2 DEF Opens, Landed, Listed
  <1> QED
    BY <1>1, <1>2, <1>3

\* Nobody takes the code of a confirmed booking off the lock before its window is over,
\* whatever crashes, fails or runs at the same time as the cancellation, the sweep and the
\* cleanup, if shows are not moved, codes not retried, the second list is not behind and get
\* shows the codes.
THEOREM CodeStays == PlainUse /\ Spec => LiveCodeStays
  <1> SUFFICES ASSUME PlainUse PROVE Spec => LiveCodeStays
    OBVIOUS
  <1> DEFINE Taken(u, b) ==
          /\ user[u].on /\ ~user'[u].on
          /\ Upheld(b) /\ user[u].at = row[b].start /\ user[u].code = row[b].code
      Act == \A u \in User, b \in Booking :
                Taken(u, b) => \E p \in Proc : pc[p] = "followDelete" /\ u \in job[p].users
  <1>1. Typed /\ CodeInv /\ [Next]_vars => [Act]_vars
    <2> SUFFICES ASSUME Typed, CodeInv, [Next]_vars, NEW u \in User, NEW b \in Booking,
                        Taken(u, b)
                 PROVE  FALSE
      OBVIOUS
    <2> QED
      BY LiveStep
  <1> QED
    BY <1>1, CodeCorrect, PTL DEF Spec, LiveCodeStays

\* A booking is marked ready only on the lock's word, and if its row is still as the pass read
\* it the word still holds when the row is written: between the list and the stamp nobody can
\* have taken the code off, because the user is this booking's alone.  (A row given another
\* code in between is stamped for the one it had, and nothing is said of it.)
THEOREM ReadyIsReady == PlainUse /\ Spec => ReadyOnTheLocksWord
  <1> SUFFICES ASSUME PlainUse PROVE Spec => ReadyOnTheLocksWord
    OBVIOUS
  <1> DEFINE Act == \A b \in Booking : Upheld(b) /\ ~row[b].synced /\ row'[b].synced =>
          \E p \in Proc : pc[p] = "syncStamp" /\ b \in job[p].rows /\
              (job[p].snap[b] = row[b] /\ user[row[b].id].code = row[b].code => Opens(b))
  <1>1. Typed /\ CodeInv /\ [Next]_vars => [Act]_vars
    BY ReadyStep
  <1> QED
    BY <1>1, CodeCorrect, PTL DEF Spec, ReadyOnTheLocksWord
=============================================================================
