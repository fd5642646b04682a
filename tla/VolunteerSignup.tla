-------------------------- MODULE VolunteerSignup --------------------------
(***************************************************************************)
(* One volunteer shift and the members on it: volunteer-signup-service.ts, *)
(* with the parts of work-order-service.ts that edit, close and call off a *)
(* shift, the completion cron and the cancelled show's sweep over its crew *)
(* (show-cancellation.ts).                                                 *)
(*                                                                         *)
(* One action is one awaited statement of a call p; D1 runs a statement at *)
(* a time, and another call may come between any two of them.  A handler   *)
(* that is one conditional UPDATE is one action and needs no p.            *)
(***************************************************************************)
EXTENDS Naturals, FiniteSets

CONSTANTS
    Member,
    NoMember,
    Run,            \* calls in flight at once
    Capacity,       \* work_order.capacity
    Handlers        \* the entry points this instance lets in

ASSUME SignupAssumption ==
    /\ Capacity \in Nat \ {0}
    /\ IsFiniteSet(Member) /\ NoMember \notin Member

VARIABLES
    calledOff,  \* the work_order row: cancelledAt is set,
    resolved,   \*   resolvedAt is set,
    ended,      \*   endsAt is past (never, for work with no window)
    status,     \* status[m]: the member's volunteer_signup row, "none" without one
    stamped,    \* the rows with notifiedAt set
    told,       \* who has been told that the shift is off
    pc, job

vars == <<calledOff, resolved, ended, status, stamped, told, pc, job>>
shift == <<calledOff, resolved, ended>>

-----------------------------------------------------------------------------
(* The table *)

\* ACTIVE_SIGNUP_STATUSES: the rows that take a place.
Active == {"claimed", "confirmed", "completed"}
Holding == {m \in Member : status[m] \in Active}

\* The rows still waiting for the shift to happen.
Booked == {m \in Member : status[m] \in {"claimed", "confirmed"}}

\* Mutant: the test lets one too many in.
HasRoomForOneMore == Cardinality(Holding) <= Capacity

\* hasRoomSql(), part of the statement that writes.  Everybody here takes the
\* shift's own window, so every signup overlaps every other.
HasRoom == Cardinality(Holding) < Capacity

\* The rows the cancellation notice is for.
Unnotified == {m \in Member : status[m] \notin {"none", "cancelled"}} \ stamped

-----------------------------------------------------------------------------
(* Calls *)

IdleJob == [m |-> NoMember, claims |-> FALSE, list |-> {}, show |-> FALSE]

Enter(p, label, j) ==
    /\ pc'  = [pc EXCEPT ![p] = label]
    /\ job' = [job EXCEPT ![p] = j]
Goto(p, label) == Enter(p, label, job[p])
Return(p) == Enter(p, "idle", IdleJob)

Starts(p, handler) == handler \in Handlers /\ pc[p] = "idle"

\* An INSERT the unique index on (shiftId, userId) may refuse, or an UPDATE by
\* the id that was read, whatever that row has become.
Write(p, s) ==
    LET m == job[p].m IN
    status' = IF pc[p] = "insert" /\ status[m] # "none"
              THEN status ELSE [status EXCEPT ![m] = s]

\* claimShift(), by the member or by staff for them: the work order is read ...
Claim(p) ==
    /\ Starts(p, "claim")
    /\ ~calledOff /\ ~ended
    /\ \E m \in Member : Enter(p, "existing", [IdleJob EXCEPT !.m = m, !.claims = TRUE])
    /\ UNCHANGED <<shift, status, stamped, told>>

\* ... then the member's row; a live or settled one is returned as it is ...
ExistingRead(p) ==
    LET was == status[job[p].m] IN
    /\ pc[p] = "existing"
    /\ IF was = "none" THEN Goto(p, "insert")
       ELSE IF was \in {"cancelled", "invited", "declined"} THEN Goto(p, "revive")
       ELSE Return(p)
    /\ UNCHANGED <<shift, status, stamped, told>>

\* ... and the write, where there is room.  The member lands claimed, the one
\* staff typed in lands confirmed.
ClaimWrite(p) ==
    /\ pc[p] \in {"insert", "revive"} /\ job[p].claims
    /\ IF HasRoom THEN Write(p, "claimed") \/ Write(p, "confirmed")
       ELSE UNCHANGED status
    /\ Return(p)
    /\ UNCHANGED <<shift, stamped, told>>

\* inviteToShift(): the work order, the member's row ...
Invite(p) ==
    /\ Starts(p, "invite")
    /\ ~calledOff /\ ~ended
    /\ \E m \in Member : Enter(p, "asked", [IdleJob EXCEPT !.m = m])
    /\ UNCHANGED <<shift, status, stamped, told>>

AskedRead(p) ==
    LET was == status[job[p].m] IN
    /\ pc[p] = "asked"
    /\ IF was = "none" THEN Goto(p, "insert")
       ELSE IF was \in {"cancelled", "declined"} THEN Goto(p, "revive")
       ELSE Return(p)
    /\ UNCHANGED <<shift, status, stamped, told>>

\* ... and the write: there is no room check, four may be asked for two places.
InviteWrite(p) ==
    /\ pc[p] \in {"insert", "revive"} /\ ~job[p].claims
    /\ Write(p, "invited")
    /\ Return(p)
    /\ UNCHANGED <<shift, stamped, told>>

\* acceptInvitation(): the invitation, the work order, the guarded UPDATE.
Accept(p) ==
    /\ Starts(p, "invite")
    /\ \E m \in Member :
          status[m] = "invited" /\ Enter(p, "acceptShift", [IdleJob EXCEPT !.m = m])
    /\ UNCHANGED <<shift, status, stamped, told>>

AcceptShift(p) ==
    /\ pc[p] = "acceptShift"
    /\ IF calledOff \/ ended THEN Return(p)
       ELSE Goto(p, "accept")
    /\ UNCHANGED <<shift, status, stamped, told>>

AcceptWrite(p) ==
    LET m == job[p].m IN
    /\ pc[p] = "accept"
    /\ status' = IF status[m] = "invited" /\ HasRoom
                 THEN [status EXCEPT ![m] = "claimed"] ELSE status
    /\ Return(p)
    /\ UNCHANGED <<shift, stamped, told>>

\* declineInvitation(), cancelSignup() and releaseSignup(), confirmSignup(),
\* markNoShow(): one conditional UPDATE each.
Change(m, from, to) ==
    /\ status[m] \in from
    /\ status' = [status EXCEPT ![m] = to]
    /\ UNCHANGED <<shift, stamped, told, pc, job>>

Decline(m) == Change(m, {"invited"}, "declined")
Release(m) == Change(m, {"claimed", "confirmed"}, "cancelled")
Confirm(m) == Change(m, {"claimed"}, "confirmed")

\* Mutant: the status is spelled as the roster page shows it.
NoShowSpelled(m) == Change(m, Active, "no-show")

NoShow(m) == Change(m, Active, "no_show")

-----------------------------------------------------------------------------
(* The shift *)

\* Mutant: only what staff confirmed is completed.
SweepConfirmed(p) ==
    /\ Starts(p, "sweep")
    /\ ended /\ ~calledOff
    /\ LET due == {m \in Member : status[m] = "confirmed"} IN
          due # {} /\ Enter(p, "complete", [IdleJob EXCEPT !.list = due])
    /\ UNCHANGED <<shift, status, stamped, told>>

\* completeFinishedShifts(), from the cron: the rows that are due ...
Sweep(p) ==
    /\ Starts(p, "sweep")
    /\ ended /\ ~calledOff
    /\ Booked # {}
    /\ Enter(p, "complete", [IdleJob EXCEPT !.list = Booked])
    /\ UNCHANGED <<shift, status, stamped, told>>

\* ... are completed by their ids, whatever they have become.
SweepWrite(p) ==
    /\ pc[p] = "complete"
    /\ status' = [m \in Member |-> IF m \in job[p].list THEN "completed" ELSE status[m]]
    /\ Return(p)
    /\ UNCHANGED <<shift, stamped, told>>

\* resolveWorkOrder(): the checks, then one batch completes and closes.
Resolve(p) ==
    /\ Starts(p, "resolve")
    /\ ~calledOff /\ ~resolved
    /\ Enter(p, "close", IdleJob)
    /\ UNCHANGED <<shift, status, stamped, told>>

Close(p) ==
    /\ pc[p] = "close"
    /\ status' = [m \in Member |-> IF m \in Booked THEN "completed" ELSE status[m]]
    /\ resolved' = TRUE
    /\ Return(p)
    /\ UNCHANGED <<calledOff, ended, stamped, told>>

-----------------------------------------------------------------------------
(* Calling it off *)

\* cancelShift(), by hand: telling people is a decision of its own.
CancelShift ==
    /\ "cancel" \in Handlers
    /\ ~calledOff /\ calledOff' = TRUE
    /\ UNCHANGED <<resolved, ended, status, stamped, told, pc, job>>

\* The notify button.  WorkOrderView.svelte offers it, and the next one, on a
\* called-off shift, which is never put back on; the server does not ask again.
Notify(p) ==
    /\ Starts(p, "cancel")
    /\ calledOff
    /\ Enter(p, "pending", IdleJob)
    /\ UNCHANGED <<shift, status, stamped, told>>

\* cancelShiftsForEvent(): a show that is off takes its live shifts with it ...
CancelShow(p) ==
    /\ Starts(p, "show")
    /\ ~calledOff /\ ~resolved /\ ~ended
    /\ Enter(p, "callOff", IdleJob)
    /\ UNCHANGED <<shift, status, stamped, told>>

\* ... cancelShift() throws if somebody else has called this one off ...
CallOff(p) ==
    /\ pc[p] = "callOff"
    /\ IF calledOff THEN Return(p) ELSE Enter(p, "pending", [IdleJob EXCEPT !.show = TRUE])
    /\ calledOff' = TRUE
    /\ UNCHANGED <<resolved, ended, status, stamped, told>>

\* Mutant: the stamp goes before the list of who to tell.
PendingReadStamping(p) ==
    /\ pc[p] = "pending"
    /\ stamped' = stamped \cup Unnotified
    /\ Enter(p, "stamp", [job[p] EXCEPT !.list = Unnotified \ stamped'])
    /\ UNCHANGED <<shift, status, told>>

\* ... and notifySignupsOfCancellation() reads who is to be told, ...
PendingRead(p) ==
    /\ pc[p] = "pending"
    /\ IF Unnotified = {} THEN Return(p)
       ELSE Enter(p, "stamp", [job[p] EXCEPT !.list = Unnotified])
    /\ UNCHANGED <<shift, status, stamped, told>>

\* ... stamps by the same predicate, which may match other rows by now, ...
Stamp(p) ==
    /\ pc[p] = "stamp"
    /\ stamped' = stamped \cup Unnotified
    /\ Goto(p, "tell")
    /\ UNCHANGED <<shift, status, told>>

\* ... and tells those it had read.
Tell(p) ==
    /\ pc[p] = "tell"
    /\ told' = told \cup job[p].list
    /\ Return(p)
    /\ UNCHANGED <<shift, status, stamped>>

\* markSignupNotified(): "I rang them."
Ring(m) ==
    /\ "cancel" \in Handlers
    /\ calledOff /\ status[m] # "none" /\ m \notin stamped
    /\ stamped' = stamped \cup {m} /\ told' = told \cup {m}
    /\ UNCHANGED <<shift, status, pc, job>>

\* The shift's window runs out.  Nothing looks at the clock of a shift that has
\* been called off, so it is left running there.
End ==
    /\ ~calledOff
    /\ ~ended /\ ended' = TRUE
    /\ UNCHANGED <<calledOff, resolved, status, stamped, told, pc, job>>

Init ==
    /\ calledOff = FALSE /\ resolved = FALSE /\ ended = FALSE
    /\ status = [m \in Member |-> "none"]
    /\ stamped = {} /\ told = {}
    /\ pc = [p \in Run |-> "idle"]
    /\ job = [p \in Run |-> IdleJob]

Step(p) ==
    \/ ExistingRead(p) \/ ClaimWrite(p)
    \/ AskedRead(p) \/ InviteWrite(p)
    \/ AcceptShift(p) \/ AcceptWrite(p)
    \/ SweepWrite(p) \/ Close(p)
    \/ CallOff(p) \/ PendingRead(p) \/ Stamp(p) \/ Tell(p)

Begin(p) ==
    \/ Claim(p) \/ Invite(p) \/ Accept(p)
    \/ Sweep(p) \/ Resolve(p) \/ Notify(p) \/ CancelShow(p)

Next ==
    \/ \E p \in Run : Begin(p) \/ Step(p)
    \/ \E m \in Member : Decline(m) \/ Release(m) \/ Confirm(m) \/ NoShow(m) \/ Ring(m)
    \/ CancelShift
    \/ End

Spec == Init /\ [][Next]_vars

-----------------------------------------------------------------------------
(* Properties *)

Status == {"none", "invited", "declined", "claimed", "confirmed", "completed",
           "cancelled", "no_show"}
Label == {"idle", "existing", "asked", "insert", "revive", "acceptShift", "accept",
          "complete", "close", "callOff", "pending", "stamp", "tell"}
JobSpace == [m : Member \cup {NoMember}, claims : BOOLEAN,
             list : SUBSET Member, show : BOOLEAN]

\* The types of the variables.
TypeOK ==
    /\ {calledOff, resolved, ended} \subseteq BOOLEAN
    /\ status \in [Member -> Status]
    /\ stamped \subseteq Member /\ told \subseteq Member
    /\ pc \in [Run -> Label] /\ job \in [Run -> JobSpace]

\* "Two members claiming the last place at the same moment would both pass a
\* read-then-write check" (hasRoomSql): whoever claims, accepts, is assigned,
\* drops out or does not show up, until the shift is over no more people are on
\* it than it has places.
PlacesAreGivenOnce == ~ended => Cardinality(Holding) <= Capacity

\* Calls run to their end.  The cron comes round every fifteen minutes.
Fairness ==
    /\ \A p \in Run : WF_vars(Step(p))
    /\ SF_vars(\E p \in Run : Sweep(p))
FairSpec == Spec /\ Fairness

\* "Move claimed and confirmed signups past their shift's end to completed"
\* (completeFinishedShifts): a claim still being written when the shift ends is
\* settled too, by a later run, unless the shift is called off.  A claim nobody
\* confirmed is settled like a confirmed one, though work-order-service.ts says
\* "the completion sweep only ever promotes a confirmed signup" (564).
FinishedIsSettled == [](ended => <>(calledOff \/ Booked = {}))

\* "A show that is off takes its crew shifts with it", and "the claimants are
\* told at once" (cancelLiveShifts): whoever holds a place when the show calls
\* the shift off is told, or has dropped out before the list was read.
CrewIsTold ==
    \A m \in Member :
        (m \in Holding /\ \E p \in Run : pc[p] = "pending" /\ job[p].show)
            ~> (m \in told \/ status[m] = "cancelled")
=============================================================================
