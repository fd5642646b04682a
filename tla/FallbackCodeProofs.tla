------------------------- MODULE FallbackCodeProofs -------------------------
(***************************************************************************)
(* Proofs about FallbackCode, for any number of codes, runs and days and   *)
(* whatever is lost or fails.                                              *)
(*                                                                         *)
(* The argument: a code changes hands in one order, unborn, pending, in    *)
(* service, retired, off the cloud, off the lock, and every run that is    *)
(* about to write holds a code that is at its place in that order.  What a *)
(* run holds is stale by the time it writes; the places it can have moved  *)
(* to in between are exactly those from which the write does no harm.      *)
(***************************************************************************)
EXTENDS FallbackCode, FiniteSetTheorems, TLAPS

Stage(c) == row[c].stage
NewStage(c) == row'[c].stage

-----------------------------------------------------------------------------
(* Type correctness *)

JobSpace == [c : 0 .. MaxCode, out : 0 .. MaxCode]

LEMMA Codes == Code \subseteq 0 .. MaxCode /\ None \in 0 .. MaxCode /\ None \notin Code
  BY FallbackAssumption DEF Code, None

\* What the two queries return: a pending row or none, an active row or none.
LEMMA QueryRows ==
    /\ PendingRow \subseteq Pending \cup {None} /\ (Pending # {} => PendingRow \subseteq Pending)
    /\ ActiveRow \subseteq Active \cup {None} /\ (Active # {} => ActiveRow \subseteq Active)
    /\ Pending \subseteq Code /\ Active \subseteq Code
  BY DEF PendingRow, ActiveRow, Newest, Pending, Active

LEMMA EnterType ==
    ASSUME TypeOK, NEW p \in Run, NEW l \in Label, NEW j \in JobSpace, Enter(p, l, j)
    PROVE  pc' \in [Run -> Label] /\ job' \in [Run -> JobSpace]
  BY DEF TypeOK, Enter, JobSpace

LEMMA JobType ==
    ASSUME TypeOK, NEW p \in Run
    PROVE  /\ IdleJob \in JobSpace /\ job[p] \in JobSpace
           /\ \A c \in Code \cup {None} : /\ [IdleJob EXCEPT !.c = c] \in JobSpace
                                          /\ [job[p] EXCEPT !.out = c] \in JobSpace
  BY Codes DEF TypeOK, IdleJob, JobSpace

LEMMA InitType == Init => TypeOK
  <1> SUFFICES ASSUME Init PROVE TypeOK
    OBVIOUS
  <1>1. IdleJob \in JobSpace
    BY Codes DEF IdleJob, JobSpace
  <1>2. pc \in [Run -> Label] /\ job \in [Run -> JobSpace]
    BY <1>1 DEF Init, Label
  <1>3. 0 \in 0 .. MaxDay /\ 0 \in 0 .. MaxCode /\ 0 \in 0 .. MaxFault
    BY FallbackAssumption
  <1>4. row \in [Code -> RowSpace]
    BY <1>3 DEF Init, RowSpace
  <1> QED
    BY <1>2, <1>3, <1>4 DEF Init, TypeOK, JobSpace

\* Where a step leaves its run.
LEMMA CallType ==
    ASSUME TypeOK, NEW p \in Run, Step(p) \/ Maintain(p) \/ Rotate(p) \/ Fail(p)
    PROVE  pc' \in [Run -> Label] /\ job' \in [Run -> JobSpace]
  <1> USE DEF Label
  <1>1. ASSUME Return(p) PROVE pc' \in [Run -> Label] /\ job' \in [Run -> JobSpace]
    BY <1>1, JobType, EnterType DEF Return
  <1>2. ASSUME NEW l \in Label, Goto(p, l)
        PROVE  pc' \in [Run -> Label] /\ job' \in [Run -> JobSpace]
    BY <1>2, JobType, EnterType DEF Goto
  <1>3. CASE Maintain(p) \/ Rotate(p) \/ Fail(p)
    BY <1>1, <1>2, <1>3 DEF Maintain, Rotate, Fail
  <1>4. CASE PendingRead(p)
    <2>1. PICK c \in PendingRow, l \in Label : Enter(p, l, [IdleJob EXCEPT !.c = c])
      BY <1>4 DEF PendingRead
    <2> QED
      BY <2>1, QueryRows, JobType, EnterType
  <1>5. CASE OutgoingRead(p)
    <2>1. PICK c \in ActiveRow : Enter(p, "stamp", [job[p] EXCEPT !.out = c])
      BY <1>5 DEF OutgoingRead
    <2> QED
      BY <2>1, QueryRows, JobType, EnterType
  <1>6. CASE Drop(p) \/ Probe(p) \/ Stamp(p) \/ Retire(p) \/ Remove(p)
    BY <1>2, <1>6 DEF Drop, Probe, Stamp, Retire, Remove
  <1>7. CASE ActiveRead(p) \/ PendingAgain(p)
    BY <1>1, <1>2, <1>7 DEF ActiveRead, PendingAgain
  <1>8. CASE Add(p)
    <2>1. minted < MaxCode => minted + 1 \in Code
      BY FallbackAssumption DEF TypeOK, Code
    <2> QED
      BY <1>1, <1>8, <2>1, JobType, EnterType DEF Add
  <1>9. CASE Insert(p)
    BY <1>1, <1>9 DEF Insert
  <1> QED
    BY <1>3, <1>4, <1>5, <1>6, <1>7, <1>8, <1>9 DEF Step

\* Its row is a row, whatever stage it is given.
LEMMA RowType ==
    ASSUME TypeOK
    PROVE  /\ 0 \in 0 .. MaxDay
           /\ \A c : \A k \in BOOLEAN :
                 [row EXCEPT ![c] = [stage |-> "pending", known |-> k, since |-> 0]]
                     \in [Code -> RowSpace]
           /\ \A c : [row EXCEPT ![c].stage = "deleted"] \in [Code -> RowSpace]
           /\ \A c : [row EXCEPT ![c].stage = IF @ = "active" THEN "retired" ELSE @]
                         \in [Code -> RowSpace]
           /\ \A c : [row EXCEPT ![c].since = day,
                                 ![c].stage = IF @ = "pending" THEN "active" ELSE @]
                         \in [Code -> RowSpace]
  <1>1. 0 \in 0 .. MaxDay
    BY FallbackAssumption
  <1>2. day \in 0 .. MaxDay /\ row \in [Code -> RowSpace]
    BY DEF TypeOK
  <1>3. \A c : \A k \in BOOLEAN :
           [row EXCEPT ![c] = [stage |-> "pending", known |-> k, since |-> 0]]
               \in [Code -> RowSpace]
    BY <1>1, <1>2 DEF RowSpace
  <1>4. \A c : [row EXCEPT ![c].stage = "deleted"] \in [Code -> RowSpace]
    BY <1>2 DEF RowSpace
  <1>5. \A c : [row EXCEPT ![c].stage = IF @ = "active" THEN "retired" ELSE @]
                   \in [Code -> RowSpace]
    BY <1>2 DEF RowSpace
  <1>6. \A c : [row EXCEPT ![c].since = day,
                           ![c].stage = IF @ = "pending" THEN "active" ELSE @]
                   \in [Code -> RowSpace]
    BY <1>2 DEF RowSpace
  <1> QED
    BY <1>1, <1>3, <1>4, <1>5, <1>6

LEMMA FaultType == TypeOK /\ (Fault \/ UNCHANGED faults) => faults' \in 0 .. MaxFault
  BY FallbackAssumption DEF TypeOK, Fault

\* What a step does to the tables.
LEMMA TableType ==
    ASSUME TypeOK, NEW p \in Run, Step(p) \/ Maintain(p) \/ Rotate(p) \/ Fail(p)
    PROVE  /\ day' \in 0 .. MaxDay /\ row' \in [Code -> RowSpace]
           /\ cloud' \subseteq Code /\ lock' \subseteq Code
           /\ minted' \in 0 .. MaxCode /\ faults' \in 0 .. MaxFault
  <1>1. CASE UNCHANGED <<day, row, cloud, lock, minted>> /\ (Fault \/ UNCHANGED faults)
    BY <1>1, FaultType DEF TypeOK
  <1>2. CASE Maintain(p) \/ Rotate(p) \/ Fail(p) \/ PendingRead(p) \/ Probe(p)
             \/ OutgoingRead(p) \/ ActiveRead(p) \/ PendingAgain(p)
    <2>1. CASE Maintain(p) \/ Rotate(p) \/ Fail(p)
      BY <1>1, <2>1 DEF Maintain, Rotate, Fail
    <2>2. CASE PendingRead(p) \/ Probe(p)
      BY <1>1, <2>2 DEF PendingRead, Probe
    <2>3. CASE OutgoingRead(p) \/ ActiveRead(p) \/ PendingAgain(p)
      BY <1>1, <2>3 DEF OutgoingRead, ActiveRead, PendingAgain
    <2> QED
      BY <1>2, <2>1, <2>2, <2>3
  <1>3. CASE Drop(p) \/ Stamp(p) \/ Retire(p)
    BY <1>3, RowType, FaultType DEF Drop, Stamp, Retire, TypeOK
  <1>4. CASE Remove(p)
    <2>1. Fault \/ UNCHANGED faults
      BY <1>4 DEF Remove
    <2>2. UNCHANGED <<day, row, lock, minted>> /\ cloud' \subseteq cloud
      BY <1>4 DEF Remove
    <2> QED
      BY <2>1, <2>2, FaultType DEF TypeOK
  <1>5. CASE Add(p)
    <2>1. minted < MaxCode => minted + 1 \in Code /\ minted + 1 \in 0 .. MaxCode
      BY FallbackAssumption DEF TypeOK, Code
    <2> QED
      BY <1>5, <2>1, FaultType DEF Add, TypeOK
  <1>6. CASE Insert(p)
    <2>1. Fault \/ UNCHANGED faults
      BY <1>6 DEF Insert
    <2>2. PICK k \in BOOLEAN :
            row' = [row EXCEPT ![job[p].c] = [stage |-> "pending", known |-> k, since |-> 0]]
      BY <1>6 DEF Insert
    <2>3. UNCHANGED <<day, cloud, lock, minted>>
      BY <1>6 DEF Insert
    <2> QED
      BY <2>1, <2>2, <2>3, RowType, FaultType DEF TypeOK
  <1> QED
    BY <1>2, <1>3, <1>4, <1>5, <1>6 DEF Step

LEMMA StepType == TypeOK /\ [Next]_vars => TypeOK'
  <1> SUFFICES ASSUME TypeOK, [Next]_vars PROVE TypeOK'
    OBVIOUS
  <1>1. ASSUME NEW p \in Run, Step(p) \/ Maintain(p) \/ Rotate(p) \/ Fail(p) PROVE TypeOK'
    BY <1>1, CallType, TableType DEF TypeOK, JobSpace
  <1>2. ASSUME NEW c \in Code, Push(c) PROVE TypeOK'
    BY <1>2 DEF Push, TypeOK
  <1>3. CASE NextDay
    BY <1>3, FallbackAssumption DEF NextDay, TypeOK
  <1>4. CASE UNCHANGED vars
    BY <1>4 DEF vars, TypeOK
  <1> QED
    BY <1>1, <1>2, <1>3, <1>4 DEF Next

\* The variables keep their types, whatever is lost or fails.
THEOREM TypeCorrect == Spec => []TypeOK
  BY InitType, StepType, PTL DEF Spec

-----------------------------------------------------------------------------
(* The code that is handed out opens the door *)

\* Once in service a code never waits again, once out of service it is gone.
Past == {"active", "retired", "deleted"}
Gone == {"retired", "deleted"}

OnTheLock == \A c \in Active : Synced(c)
Unborn == \A c \in Code : c > minted => Stage(c) = "none"
Apart == \A p, q \in Run :
    pc[p] = "insert" /\ pc[q] = "insert" /\ job[p].c = job[q].c => p = q

\* What a run still knows of the codes it holds when it comes to write.
Holds(p) ==
    /\ pc[p] = "insert" =>
          job[p].c \in Code /\ job[p].c <= minted /\ Stage(job[p].c) = "none"
    /\ pc[p] \in {"probe", "drop", "outgoing", "stamp"} =>
          job[p].c \in Code /\ Stage(job[p].c) # "none"
    /\ pc[p] \in {"outgoing", "stamp"} /\ Stage(job[p].c) = "pending" => Synced(job[p].c)
    /\ pc[p] = "stamp" =>
          job[p].out = None \/ (job[p].out \in Code /\ Stage(job[p].out) \in Past)
    /\ pc[p] = "retire" => job[p].out \in Code /\ Stage(job[p].out) \in Past
    /\ pc[p] = "remove" => job[p].out \in Code /\ Stage(job[p].out) \in Gone

IInv == TypeOK /\ OnTheLock /\ Unborn /\ Apart /\ \A p \in Run : Holds(p)

\* The order in which a code changes hands.
Forward ==
    /\ minted <= minted'
    /\ \A c \in Code :
          /\ Stage(c) # "none" => NewStage(c) # "none"
          /\ Stage(c) \in Past => NewStage(c) \in Past
          /\ Stage(c) \in Gone => NewStage(c) \in Gone
          /\ Stage(c) = "pending" /\ NewStage(c) = "pending" /\ Synced(c) => Synced(c)'

\* A run that does not move keeps what it knows when the codes move forward and
\* nobody takes the row it is about to insert.
LEMMA HoldsKept ==
    ASSUME IInv, TypeOK', Forward, NEW p \in Run, pc'[p] = pc[p], job'[p] = job[p],
           pc[p] = "insert" => NewStage(job[p].c) = "none"
    PROVE  Holds(p)'
  <1>1. Holds(p)
    BY DEF IInv
  <1>2. pc[p] = "insert" => job[p].c <= minted'
    BY <1>1, FallbackAssumption DEF Holds, Forward, Code, IInv, TypeOK
  <1>3. pc[p] \in {"outgoing", "stamp"} /\ NewStage(job[p].c) = "pending"
          => Stage(job[p].c) = "pending"
    <2> SUFFICES ASSUME pc[p] \in {"outgoing", "stamp"}, NewStage(job[p].c) = "pending"
                 PROVE  Stage(job[p].c) = "pending"
      OBVIOUS
    <2>1. job[p].c \in Code /\ Stage(job[p].c) # "none"
      BY <1>1 DEF Holds
    <2>2. Stage(job[p].c) \in {"none", "pending"} \cup Past
      BY <2>1 DEF IInv, TypeOK, RowSpace, Stage, NewStage, Past
    <2> QED
      BY <2>1, <2>2 DEF Forward, Past
  <1> QED
    BY <1>1, <1>2, <1>3 DEF Holds, Forward, Stage, NewStage

\* The statements that leave the codes alone.
Reads(p) ==
    \/ Maintain(p) \/ Rotate(p) \/ Fail(p) \/ PendingRead(p) \/ Probe(p)
    \/ OutgoingRead(p) \/ ActiveRead(p) \/ PendingAgain(p)
Calls(p) ==
    Reads(p) \/ Drop(p) \/ Stamp(p) \/ Retire(p) \/ Remove(p) \/ Add(p) \/ Insert(p)

Codes4 == <<row, cloud, lock, minted>>

LEMMA ReadsCodes == \A p \in Run : Reads(p) => UNCHANGED Codes4
  <1> SUFFICES ASSUME NEW p \in Run, Reads(p) PROVE UNCHANGED Codes4
    OBVIOUS
  <1>1. CASE Maintain(p) \/ Rotate(p) \/ Fail(p)
    BY <1>1 DEF Maintain, Rotate, Fail, Codes4
  <1>2. CASE PendingRead(p) \/ Probe(p)
    BY <1>2 DEF PendingRead, Probe, Codes4
  <1>3. CASE OutgoingRead(p) \/ ActiveRead(p) \/ PendingAgain(p)
    BY <1>3 DEF OutgoingRead, ActiveRead, PendingAgain, Codes4
  <1> QED
    BY <1>1, <1>2, <1>3 DEF Reads

\* A statement moves codes forward, keeps those in service on the lock, and
\* takes nobody else's new row.
Moves(p) ==
    /\ Forward /\ OnTheLock' /\ Unborn'
    /\ \A q \in Run \ {p} : pc[q] = "insert" => NewStage(job[q].c) = "none"

LEMMA MovesNothing ==
    ASSUME IInv, NEW p, UNCHANGED Codes4
    PROVE  Moves(p)
  <1>1. \A q \in Run : pc[q] = "insert" => Stage(job[q].c) = "none"
    BY DEF IInv, Holds
  <1>2. minted <= minted'
    BY FallbackAssumption DEF IInv, TypeOK, Codes4
  <1>3. Forward
    BY <1>2 DEF Forward, Codes4, Stage, NewStage, Synced
  <1>4. OnTheLock' /\ Unborn'
    BY DEF IInv, OnTheLock, Unborn, Active, Codes4, Stage, NewStage, Synced
  <1> QED
    BY <1>1, <1>3, <1>4 DEF Moves, Codes4, Stage, NewStage

\* A statement that writes the stage of one code that has one.
LEMMA MovesRow ==
    ASSUME IInv, NEW p, NEW c \in Code, UNCHANGED <<cloud, lock, minted>>,
           \A d \in Code \ {c} : NewStage(d) = Stage(d),
           Stage(c) # "none", NewStage(c) # "none",
           Stage(c) \in Past => NewStage(c) \in Past,
           Stage(c) \in Gone => NewStage(c) \in Gone,
           NewStage(c) = "active" => Synced(c)
    PROVE  Moves(p)
  <1>1. minted <= minted'
    BY FallbackAssumption DEF IInv, TypeOK
  <1>2. Forward
    BY <1>1 DEF Forward, Synced
  <1>3. OnTheLock'
    BY DEF IInv, OnTheLock, Active, Synced, Stage, NewStage
  <1>4. Unborn'
    BY DEF IInv, Unborn, Stage, NewStage
  <1>5. \A q \in Run : pc[q] = "insert" => NewStage(job[q].c) = "none"
    BY DEF IInv, Holds
  <1> QED
    BY <1>2, <1>3, <1>4, <1>5 DEF Moves

LEMMA StepMoves == ASSUME IInv, NEW p \in Run, Calls(p) PROVE Moves(p)
  <1>0. TypeOK /\ Holds(p) /\ OnTheLock
    BY DEF IInv
  <1>1. CASE Reads(p)
    BY <1>1, ReadsCodes, MovesNothing
  <1>2. CASE Drop(p)
    <2> DEFINE c == job[p].c
    <2>1. c \in Code /\ Stage(c) # "none"
      BY <1>0, <1>2 DEF Holds, Drop
    <2>2. UNCHANGED <<cloud, lock, minted>>
      BY <1>2 DEF Drop
    <2>3. (\A d \in Code \ {c} : NewStage(d) = Stage(d)) /\ NewStage(c) = "deleted"
      BY <1>0, <1>2, <2>1 DEF Drop, Stage, NewStage, TypeOK, RowSpace
    <2> HIDE DEF c
    <2> QED
      BY <2>1, <2>2, <2>3, MovesRow DEF Past, Gone
  <1>3. CASE Stamp(p)
    <2> DEFINE c == job[p].c
    <2>1. c \in Code /\ Stage(c) # "none" /\ (Stage(c) = "pending" => Synced(c))
      BY <1>0, <1>3 DEF Holds, Stamp
    <2>2. UNCHANGED <<cloud, lock, minted>>
      BY <1>3 DEF Stamp
    <2>3. /\ \A d \in Code \ {c} : NewStage(d) = Stage(d)
          /\ NewStage(c) = IF Stage(c) = "pending" THEN "active" ELSE Stage(c)
      BY <1>0, <1>3, <2>1 DEF Stamp, Stage, NewStage, TypeOK, RowSpace
    <2>4. Stage(c) = "active" => Synced(c)
      BY <1>0, <2>1 DEF OnTheLock, Active, Stage, NewStage
    <2> HIDE DEF c
    <2> QED
      BY <2>1, <2>2, <2>3, <2>4, MovesRow DEF Past, Gone
  <1>4. CASE Retire(p)
    <2> DEFINE c == job[p].out
    <2>1. c \in Code /\ Stage(c) \in Past
      BY <1>0, <1>4 DEF Holds, Retire
    <2>2. UNCHANGED <<cloud, lock, minted>>
      BY <1>4 DEF Retire
    <2>3. /\ \A d \in Code \ {c} : NewStage(d) = Stage(d)
          /\ NewStage(c) = IF Stage(c) = "active" THEN "retired" ELSE Stage(c)
      BY <1>0, <1>4, <2>1 DEF Retire, Stage, NewStage, TypeOK, RowSpace
    <2> HIDE DEF c
    <2> QED
      BY <2>1, <2>2, <2>3, MovesRow DEF Past, Gone
  <1>5. CASE Remove(p)
    <2>1. job[p].out \in Code /\ Stage(job[p].out) \in Gone
      BY <1>0, <1>5 DEF Holds, Remove
    <2>2. UNCHANGED <<row, lock, minted>> /\ \A c \in cloud : c # job[p].out => c \in cloud'
      BY <1>5 DEF Remove
    <2>3. \A c \in Code : Stage(c) \notin Gone /\ Synced(c) => Synced(c)'
      BY <2>1, <2>2 DEF Synced
    <2>4. minted <= minted'
      BY <1>0, <2>2, FallbackAssumption DEF TypeOK
    <2>5. Forward
      BY <2>2, <2>3, <2>4 DEF Forward, Stage, NewStage, Gone
    <2>6. OnTheLock'
      BY <1>0, <2>2, <2>3 DEF OnTheLock, Active, Stage, NewStage, Gone
    <2>7. Unborn'
      BY <2>2 DEF IInv, Unborn, Stage, NewStage
    <2> QED
      BY <2>2, <2>5, <2>6, <2>7 DEF Moves, IInv, Holds, Stage, NewStage
  <1>6. CASE Add(p)
    <2>1. UNCHANGED <<row, lock>> /\ cloud \subseteq cloud'
      BY <1>6 DEF Add
    <2>2. minted <= minted' /\ minted \in Nat /\ minted' \in Nat
      BY <1>0, <1>6, FallbackAssumption DEF Add, TypeOK
    <2>3. Forward
      BY <2>1, <2>2 DEF Forward, Stage, NewStage, Synced
    <2>4. OnTheLock'
      BY <1>0, <2>1 DEF OnTheLock, Active, Synced
    <2>5. Unborn'
      BY <2>1, <2>2 DEF IInv, Unborn, Stage, NewStage, Code
    <2> QED
      BY <2>1, <2>3, <2>4, <2>5 DEF Moves, IInv, Holds, Stage, NewStage
  <1>7. CASE Insert(p)
    <2> DEFINE c == job[p].c
    <2>1. c \in Code /\ c <= minted /\ Stage(c) = "none"
      BY <1>0, <1>7 DEF Holds, Insert
    <2>2. UNCHANGED <<cloud, lock, minted>>
      BY <1>7 DEF Insert
    <2>3. (\A d \in Code \ {c} : NewStage(d) = Stage(d)) /\ NewStage(c) = "pending"
      BY <1>0, <1>7, <2>1 DEF Insert, Stage, NewStage, TypeOK, RowSpace
    <2>4. minted <= minted' /\ minted' = minted /\ minted \in Nat /\ c \in Nat
      BY <1>0, <2>1, <2>2, FallbackAssumption DEF TypeOK, Code
    <2>5. \A q \in Run \ {p} :
             pc[q] = "insert" => job[q].c \in Code \ {c} /\ Stage(job[q].c) = "none"
      BY <1>7, <2>1 DEF IInv, Holds, Apart, Insert
    <2> HIDE DEF c
    <2>6. Forward
      BY <2>1, <2>2, <2>3, <2>4 DEF Forward, Past, Gone, Synced
    <2>7. OnTheLock'
      BY <1>0, <2>2, <2>3 DEF OnTheLock, Active, Stage, NewStage, Synced
    <2>8. Unborn'
      BY <2>1, <2>2, <2>3, <2>4 DEF IInv, Unborn, Code, Stage, NewStage
    <2> QED
      BY <2>3, <2>5, <2>6, <2>7, <2>8 DEF Moves
  <1> QED
    BY <1>1, <1>2, <1>3, <1>4, <1>5, <1>6, <1>7 DEF Calls

\* The code a run goes on with, and how it came by it.
LEMMA StepHolds == ASSUME IInv, TypeOK', NEW p \in Run, Calls(p) PROVE Holds(p)'
  <1>0. TypeOK /\ Holds(p) /\ Moves(p) /\ Forward
    BY StepMoves DEF IInv, Moves
  <1>1. ASSUME NEW l, NEW j, Enter(p, l, j),
               l \notin {"insert", "probe", "drop", "outgoing", "stamp", "retire", "remove"}
        PROVE  Holds(p)'
    BY <1>0, <1>1 DEF Enter, Holds, TypeOK
  <1>2. CASE Maintain(p) \/ Rotate(p) \/ Fail(p) \/ Drop(p) \/ Remove(p)
    BY <1>1, <1>2 DEF Maintain, Rotate, Fail, Drop, Remove, Goto, Return
  <1>3. CASE ActiveRead(p) \/ PendingAgain(p) \/ Insert(p)
    BY <1>1, <1>3 DEF ActiveRead, PendingAgain, Insert, Goto, Return
  <1>4. CASE PendingRead(p)
    <2>1. PICK c \in PendingRow :
            Enter(p, IF c = None THEN "active" ELSE IF row[c].known THEN "probe" ELSE "drop",
                  [IdleJob EXCEPT !.c = c])
      BY <1>4 DEF PendingRead
    <2>2. c # None => c \in Code /\ Stage(c) = "pending"
      BY QueryRows DEF Pending, Stage
    <2>3. pc'[p] \in {"active", "probe", "drop"} /\ job'[p].c = c /\ (c = None => pc'[p] = "active")
      BY <1>0, <2>1 DEF Enter, TypeOK, IdleJob
    <2>4. UNCHANGED row
      BY <1>4 DEF PendingRead
    <2> QED
      BY <2>2, <2>3, <2>4 DEF Holds, Stage
  <1>5. CASE Probe(p)
    <2>1. /\ pc'[p] = IF Synced(job[p].c) THEN "outgoing" ELSE "active"
          /\ job'[p] = job[p]
      BY <1>0, <1>5 DEF Probe, Goto, Enter, TypeOK
    <2>2. UNCHANGED <<row, cloud, lock>> /\ pc[p] = "probe"
      BY <1>5 DEF Probe
    <2> QED
      BY <1>0, <2>1, <2>2 DEF Holds, Stage, Synced
  <1>6. CASE OutgoingRead(p)
    <2>1. PICK c \in ActiveRow : Enter(p, "stamp", [job[p] EXCEPT !.out = c])
      BY <1>6 DEF OutgoingRead
    <2>2. c # None => c \in Code /\ Stage(c) \in Past
      BY QueryRows DEF Active, Stage, Past
    <2>3. pc'[p] = "stamp" /\ job'[p].c = job[p].c /\ job'[p].out = c
      BY <1>0, <2>1 DEF Enter, TypeOK
    <2>4. UNCHANGED <<row, cloud, lock>> /\ pc[p] = "outgoing"
      BY <1>6 DEF OutgoingRead
    <2> QED
      BY <1>0, <2>2, <2>3, <2>4 DEF Holds, Stage, Synced
  <1>7. CASE Stamp(p)
    <2>1. /\ pc'[p] = IF job[p].out = None THEN "active" ELSE "retire"
          /\ job'[p] = job[p]
      BY <1>0, <1>7 DEF Stamp, Goto, Enter, TypeOK
    <2>2. pc[p] = "stamp"
      BY <1>7 DEF Stamp
    <2> QED
      BY <1>0, <2>1, <2>2 DEF Holds, Forward, Stage, NewStage
  <1>8. CASE Retire(p)
    <2>1. pc'[p] \in {"remove", "active"} /\ job'[p] = job[p]
      BY <1>0, <1>8 DEF Retire, Goto, Enter, TypeOK
    <2>2. job[p].out \in Code /\ Stage(job[p].out) \in Past
      BY <1>0, <1>8 DEF Retire, Holds
    <2>3. NewStage(job[p].out) \in Gone
      BY <1>0, <1>8, <2>2 DEF Retire, Stage, NewStage, Past, Gone, TypeOK, RowSpace
    <2> QED
      BY <2>1, <2>2, <2>3 DEF Holds, Stage, NewStage
  <1>9. CASE Add(p)
    <2>1. CASE minted = MaxCode
      BY <1>0, <1>1, <1>9, <2>1, FallbackAssumption DEF Add, Return, TypeOK
    <2>2. CASE minted < MaxCode
      <3>1. minted' = minted + 1 /\ Enter(p, "insert", [IdleJob EXCEPT !.c = minted + 1])
        BY <1>0, <1>9, <2>2, FallbackAssumption DEF Add, TypeOK
      <3>2. pc'[p] = "insert" /\ job'[p].c = minted + 1 /\ minted \in Nat
        BY <1>0, <3>1, FallbackAssumption DEF Enter, TypeOK, IdleJob
      <3>3. minted + 1 \in Code /\ minted + 1 > minted
        BY <2>2, <3>2, FallbackAssumption DEF Code, TypeOK
      <3>4. Stage(minted + 1) = "none"
        BY <3>3 DEF IInv, Unborn
      <3>5. UNCHANGED row /\ job'[p].c <= minted'
        BY <1>9, <3>1, <3>2 DEF Add
      <3> QED
        BY <3>2, <3>3, <3>4, <3>5 DEF Holds, Stage
    <2> QED
      BY <1>0, <2>1, <2>2, FallbackAssumption DEF TypeOK
  <1> QED
    BY <1>2, <1>3, <1>4, <1>5, <1>6, <1>7, <1>8, <1>9 DEF Calls, Reads

\* Two runs are never about to insert the same code.
LEMMA StepApart == ASSUME IInv, NEW p \in Run, Calls(p) PROVE Apart'
  <1>0. TypeOK /\ Apart /\ \A q \in Run : Holds(q)
    BY DEF IInv
  <1>1. ASSUME NEW l, NEW j, Enter(p, l, j), l # "insert" PROVE Apart'
    BY <1>0, <1>1 DEF Enter, Apart, TypeOK
  <1>2. CASE Maintain(p) \/ Rotate(p) \/ Fail(p) \/ Drop(p) \/ Remove(p)
    BY <1>1, <1>2 DEF Maintain, Rotate, Fail, Drop, Remove, Goto, Return
  <1>3. CASE ActiveRead(p) \/ PendingAgain(p) \/ Insert(p)
    BY <1>1, <1>3 DEF ActiveRead, PendingAgain, Insert, Goto, Return
  <1>4. CASE Probe(p) \/ Stamp(p) \/ Retire(p)
    BY <1>1, <1>4 DEF Probe, Stamp, Retire, Goto
  <1>5. CASE PendingRead(p)
    <2>1. PICK c, l : l # "insert" /\ Enter(p, l, [IdleJob EXCEPT !.c = c])
      BY <1>5 DEF PendingRead
    <2> QED
      BY <1>1, <2>1
  <1>6. CASE OutgoingRead(p)
    <2>1. PICK c : Enter(p, "stamp", [job[p] EXCEPT !.out = c])
      BY <1>6 DEF OutgoingRead
    <2> QED
      BY <1>1, <2>1
  <1>7. CASE Add(p)
    <2>1. CASE Return(p)
      BY <1>1, <2>1 DEF Return
    <2>2. CASE Enter(p, "insert", [IdleJob EXCEPT !.c = minted + 1])
      <3>1. job'[p].c = minted + 1 /\ \A q \in Run \ {p} : pc'[q] = pc[q] /\ job'[q] = job[q]
        BY <1>0, <2>2 DEF Enter, TypeOK, IdleJob
      <3>2. \A q \in Run \ {p} : pc[q] = "insert" => job[q].c # minted + 1
        <4>1. \A q \in Run : pc[q] = "insert" => job[q].c \in Nat /\ job[q].c <= minted
          BY <1>0, FallbackAssumption DEF Holds, Code
        <4> QED
          BY <1>0, <4>1, FallbackAssumption DEF TypeOK
      <3> QED
        BY <1>0, <3>1, <3>2 DEF Apart
    <2> QED
      BY <1>7, <2>1, <2>2 DEF Add
  <1> QED
    BY <1>2, <1>3, <1>4, <1>5, <1>6, <1>7 DEF Calls, Reads

LEMMA OthersWait ==
    ASSUME TypeOK, NEW p \in Run, Calls(p)
    PROVE  \A q \in Run \ {p} : pc'[q] = pc[q] /\ job'[q] = job[q]
  <1>1. ASSUME NEW l, NEW j, Enter(p, l, j)
        PROVE  \A q \in Run \ {p} : pc'[q] = pc[q] /\ job'[q] = job[q]
    BY <1>1 DEF Enter, TypeOK
  <1>2. CASE Reads(p)
    BY <1>1, <1>2 DEF Reads, Maintain, Rotate, Fail, PendingRead, Probe, OutgoingRead, ActiveRead,
                      PendingAgain, Goto, Return
  <1>3. CASE Drop(p) \/ Stamp(p) \/ Retire(p) \/ Remove(p)
    BY <1>1, <1>3 DEF Drop, Stamp, Retire, Remove, Goto
  <1>4. CASE Add(p) \/ Insert(p)
    BY <1>1, <1>4 DEF Add, Insert, Return
  <1> QED
    BY <1>2, <1>3, <1>4 DEF Calls

LEMMA NextCalls ==
    [Next]_vars => \/ \E p \in Run : Calls(p)
                   \/ \E c \in Code : Push(c)
                   \/ NextDay \/ UNCHANGED vars
  BY DEF Next, Step, Calls, Reads

LEMMA InitIInv == Init => IInv
  <1> SUFFICES ASSUME Init PROVE IInv
    OBVIOUS
  <1>1. Active = {} /\ \A c \in Code : Stage(c) = "none"
    BY DEF Init, Active, Stage
  <1>2. \A p \in Run : pc[p] = "idle"
    BY DEF Init
  <1> QED
    BY <1>1, <1>2, InitType DEF IInv, OnTheLock, Unborn, Apart, Holds

LEMMA StepIInv == IInv /\ [Next]_vars => IInv'
  <1> SUFFICES ASSUME IInv, [Next]_vars PROVE IInv'
    OBVIOUS
  <1>0. TypeOK'
    BY StepType DEF IInv
  <1>1. ASSUME NEW p \in Run, Calls(p) PROVE IInv'
    <2>1. Moves(p) /\ Forward /\ OnTheLock' /\ Unborn'
      BY <1>1, StepMoves DEF Moves
    <2>2. \A q \in Run \ {p} : pc'[q] = pc[q] /\ job'[q] = job[q]
      BY <1>1, OthersWait DEF IInv
    <2>3. \A q \in Run \ {p} : Holds(q)'
      BY <1>0, <2>1, <2>2, HoldsKept DEF Moves
    <2>4. Holds(p)'
      BY <1>0, <1>1, StepHolds
    <2> QED
      BY <1>0, <1>1, <2>1, <2>3, <2>4, StepApart DEF IInv
  <1>2. ASSUME NEW c \in Code, Push(c) PROVE IInv'
    <2>1. UNCHANGED <<row, cloud, minted, pc, job>>
      BY <1>2 DEF Push
    <2>2. \A d \in Code : Synced(d) => Synced(d)'
      BY <1>2 DEF Push, Synced
    <2>3. OnTheLock'
      BY <2>1, <2>2 DEF IInv, OnTheLock, Active
    <2>4. Unborn' /\ Apart'
      BY <2>1 DEF IInv, Unborn, Apart, Stage
    <2>5. \A p \in Run : Holds(p)'
      BY <2>1, <2>2 DEF IInv, Holds, Stage
    <2> QED
      BY <1>0, <2>3, <2>4, <2>5 DEF IInv
  <1>3. CASE NextDay \/ UNCHANGED vars
    <2>1. UNCHANGED <<row, cloud, lock, minted, pc, job>>
      BY <1>3 DEF NextDay, vars
    <2> QED
      BY <1>0, <2>1 DEF IInv, OnTheLock, Unborn, Apart, Holds, Active, Stage, Synced
  <1> QED
    BY <1>1, <1>2, <1>3, NextCalls

\* Whoever is locked out and asks for the break-glass code is given one that
\* opens the door, however long the lock was offline, whatever failed, and even
\* while several maintenance runs and rotations race.
THEOREM CodeOpens == Spec => []HandedOutOpens
  <1>1. IInv => HandedOutOpens
    BY QueryRows DEF IInv, OnTheLock, HandedOutOpens, HandedOut, Synced
  <1> QED
    BY <1>1, InitIInv, StepIInv, PTL DEF Spec

-----------------------------------------------------------------------------
(* Never a gap, if maintenance never overlaps *)

Alone == \A p, q \in Maintaining : p = q

\* A maintenance run on its own finds the rows as it read them.
Fresh(p) ==
    /\ pc[p] \in {"probe", "drop", "outgoing", "stamp"} => Stage(job[p].c) = "pending"
    /\ pc[p] = "retire" =>
          job[p].c \in Code /\ Stage(job[p].c) = "active" /\ job[p].c # job[p].out

GInv == IInv /\ Alone /\ \A p \in Run : Fresh(p)

\* Rows that wait or are in service are touched by a maintenance run only.
LEMMA OthersRows ==
    ASSUME IInv, NEW p \in Run, Calls(p), p \notin Maintaining
    PROVE  \A c \in Code : Stage(c) # "none" => NewStage(c) = Stage(c)
  <1>1. CASE UNCHANGED row
    BY <1>1 DEF Stage, NewStage
  <1>2. CASE Insert(p)
    <2>1. Holds(p) /\ TypeOK
      BY DEF IInv
    <2> QED
      BY <1>2, <2>1 DEF Insert, Holds, Stage, NewStage, TypeOK, RowSpace
  <1>3. CASE Reads(p)
    BY <1>1, <1>3, ReadsCodes DEF Codes4
  <1>4. CASE Add(p)
    BY <1>1, <1>4 DEF Add
  <1>5. ~Drop(p) /\ ~Stamp(p) /\ ~Retire(p) /\ ~Remove(p)
    BY DEF Drop, Stamp, Retire, Remove, Maintaining
  <1> QED
    BY <1>2, <1>3, <1>4, <1>5 DEF Calls

\* Only Maintain starts a maintenance run, and not beside another.
LEMMA StepAlone ==
    ASSUME "overlap" \notin Handlers, GInv, NEW p \in Run, Calls(p)
    PROVE  Alone' /\ (p \notin Maintaining => p \notin Maintaining' \/ pc'[p] = "pending")
  <1>0. TypeOK /\ Alone /\ \A q \in Run \ {p} : pc'[q] = pc[q]
    BY OthersWait DEF GInv, IInv
  <1>1. Maintaining' \subseteq Maintaining \cup {p}
    BY <1>0 DEF Maintaining
  <1>2. CASE Maintain(p)
    <2>1. Maintaining = {} /\ pc'[p] = "pending"
      BY <1>0, <1>2 DEF Maintain, Goto, Enter, TypeOK
    <2> QED
      BY <1>1, <2>1 DEF Alone
  <1>3. CASE p \in Maintaining
    BY <1>0, <1>1, <1>3 DEF Alone
  <1>4. CASE p \notin Maintaining /\ ~Maintain(p)
    <2>1. CASE Rotate(p) \/ Fail(p) \/ Add(p) \/ Insert(p)
      BY <1>0, <1>1, <1>4, <2>1
         DEF Rotate, Fail, Add, Insert, Goto, Return, Enter, TypeOK, Maintaining, Alone
    <2>2. ~(PendingRead(p) \/ Probe(p) \/ OutgoingRead(p) \/ ActiveRead(p) \/ PendingAgain(p)
            \/ Drop(p) \/ Stamp(p) \/ Retire(p) \/ Remove(p))
      BY <1>4 DEF PendingRead, Probe, OutgoingRead, ActiveRead, PendingAgain, Drop, Stamp,
                  Retire, Remove, Maintaining
    <2> QED
      BY <1>4, <2>1, <2>2 DEF Calls, Reads
  <1> QED
    BY <1>2, <1>3, <1>4

LEMMA OthersFresh ==
    ASSUME "overlap" \notin Handlers, GInv, NEW p \in Run, Calls(p), NEW q \in Run \ {p}
    PROVE  Fresh(q)'
  <1>0. TypeOK /\ Fresh(q) /\ Holds(q) /\ pc'[q] = pc[q] /\ job'[q] = job[q]
    BY OthersWait DEF GInv, IInv
  <1>1. CASE pc[q] \notin {"probe", "drop", "outgoing", "stamp", "retire"}
    BY <1>0, <1>1 DEF Fresh
  <1>2. CASE pc[q] \in {"probe", "drop", "outgoing", "stamp", "retire"}
    <2>1. q \in Maintaining
      BY <1>2 DEF Maintaining
    <2>2. p \notin Maintaining
      BY <2>1 DEF GInv, Alone
    <2>3. \A c \in Code : Stage(c) # "none" => NewStage(c) = Stage(c)
      BY <2>2, OthersRows DEF GInv
    <2>4. job[q].c \in Code
      BY <1>0, <1>2 DEF Holds, Fresh
    <2> QED
      BY <1>0, <2>3, <2>4 DEF Fresh, Stage, NewStage
  <1> QED
    BY <1>1, <1>2

LEMMA OwnFresh ==
    ASSUME GInv, NEW p \in Run, Calls(p)
    PROVE  Fresh(p)'
  <1>0. TypeOK /\ Fresh(p) /\ Holds(p)
    BY DEF GInv, IInv
  <1>1. ASSUME NEW l, NEW j, Enter(p, l, j),
               l \notin {"probe", "drop", "outgoing", "stamp", "retire"}
        PROVE  Fresh(p)'
    BY <1>0, <1>1 DEF Enter, Fresh, TypeOK
  <1>2. CASE Maintain(p) \/ Rotate(p) \/ Fail(p) \/ Drop(p) \/ Remove(p)
    BY <1>1, <1>2 DEF Maintain, Rotate, Fail, Drop, Remove, Goto, Return
  <1>3. CASE ActiveRead(p) \/ PendingAgain(p) \/ Add(p) \/ Insert(p)
    BY <1>1, <1>3 DEF ActiveRead, PendingAgain, Add, Insert, Goto, Return
  <1>4. CASE Retire(p)
    BY <1>1, <1>4 DEF Retire, Goto
  <1>5. CASE PendingRead(p)
    <2>1. PICK c \in PendingRow :
            Enter(p, IF c = None THEN "active" ELSE IF row[c].known THEN "probe" ELSE "drop",
                  [IdleJob EXCEPT !.c = c])
      BY <1>5 DEF PendingRead
    <2>2. c # None => Stage(c) = "pending"
      BY QueryRows DEF Pending, Stage
    <2>3. pc'[p] \in {"active", "probe", "drop"} /\ job'[p].c = c /\ (c = None => pc'[p] = "active")
      BY <1>0, <2>1 DEF Enter, TypeOK, IdleJob
    <2>4. UNCHANGED row
      BY <1>5 DEF PendingRead
    <2> QED
      BY <2>2, <2>3, <2>4 DEF Fresh, Stage
  <1>6. CASE Probe(p) \/ OutgoingRead(p)
    <2>1. UNCHANGED row /\ pc[p] \in {"probe", "outgoing"}
      BY <1>6 DEF Probe, OutgoingRead
    <2>2. pc'[p] \in {"outgoing", "stamp", "active"} /\ job'[p].c = job[p].c
      BY <1>0, <1>6 DEF Probe, OutgoingRead, Goto, Enter, TypeOK
    <2> QED
      BY <1>0, <2>1, <2>2 DEF Fresh, Stage
  <1>7. CASE Stamp(p)
    <2>1. /\ pc'[p] = IF job[p].out = None THEN "active" ELSE "retire"
          /\ job'[p] = job[p] /\ pc[p] = "stamp"
      BY <1>0, <1>7 DEF Stamp, Goto, Enter, TypeOK
    <2>2. job[p].c \in Code /\ Stage(job[p].c) = "pending"
      BY <1>0, <2>1 DEF Holds, Fresh
    <2>3. job[p].out # None => job[p].out # job[p].c
      BY <1>0, <2>1, <2>2 DEF Holds, Past
    <2>4. NewStage(job[p].c) = "active"
      BY <1>0, <1>7, <2>2 DEF Stamp, Stage, NewStage, TypeOK, RowSpace
    <2> QED
      BY <2>1, <2>2, <2>3, <2>4 DEF Fresh, Stage, NewStage
  <1> QED
    BY <1>2, <1>3, <1>4, <1>5, <1>6, <1>7 DEF Calls, Reads

\* A code in service is retired only by a run whose successor is in service.
LEMMA CallGap ==
    ASSUME GInv, NEW p \in Run, Calls(p), Active # {}
    PROVE  Active' # {}
  <1>0. TypeOK /\ Fresh(p) /\ Holds(p) /\ Active \subseteq Code
    BY QueryRows DEF GInv, IInv
  <1>1. ASSUME NEW c \in Code, NewStage(c) = "active" PROVE Active' # {}
    BY <1>1 DEF Active, NewStage
  <1>2. CASE Retire(p)
    <2>1. job[p].c \in Code /\ Stage(job[p].c) = "active" /\ job[p].c # job[p].out
      BY <1>0, <1>2 DEF Retire, Fresh
    <2>2. NewStage(job[p].c) = "active"
      BY <1>0, <1>2, <2>1 DEF Retire, Stage, NewStage, TypeOK, RowSpace
    <2> QED
      BY <1>1, <2>1, <2>2
  <1>3. CASE ~Retire(p)
    <2>1. PICK c \in Code : Stage(c) = "active"
      BY <1>0 DEF Active, Stage
    <2>2. CASE UNCHANGED row
      BY <1>1, <2>1, <2>2 DEF Stage, NewStage
    <2>3. CASE Drop(p)
      <3>1. job[p].c # c
        BY <1>0, <2>1, <2>3 DEF Drop, Fresh
      <3>2. NewStage(c) = "active"
        BY <1>0, <2>1, <2>3, <3>1 DEF Drop, Stage, NewStage, TypeOK, RowSpace
      <3> QED
        BY <1>1, <3>2
    <2>4. CASE Stamp(p)
      BY <1>0, <1>1, <2>1, <2>4 DEF Stamp, Stage, NewStage, TypeOK, RowSpace
    <2>5. CASE Insert(p)
      <3>1. job[p].c # c
        BY <1>0, <2>1, <2>5 DEF Insert, Holds
      <3>2. NewStage(c) = "active"
        BY <1>0, <2>1, <2>5, <3>1 DEF Insert, Stage, NewStage, TypeOK, RowSpace
      <3> QED
        BY <1>1, <3>2
    <2>6. CASE Reads(p) \/ Remove(p) \/ Add(p)
      BY <2>2, <2>6, ReadsCodes DEF Codes4, Remove, Add
    <2> QED
      BY <1>3, <2>3, <2>4, <2>5, <2>6 DEF Calls
  <1> QED
    BY <1>2, <1>3

LEMMA InitGInv == Init => GInv
  <1> SUFFICES ASSUME Init PROVE GInv
    OBVIOUS
  <1>1. \A p \in Run : pc[p] = "idle"
    BY DEF Init
  <1> QED
    BY <1>1, InitIInv DEF GInv, Alone, Maintaining, Fresh

LEMMA StepGInv ==
    ASSUME "overlap" \notin Handlers
    PROVE  GInv /\ [Next]_vars => GInv' /\ (Active # {} => Active' # {})
  <1> SUFFICES ASSUME GInv, [Next]_vars PROVE GInv' /\ (Active # {} => Active' # {})
    OBVIOUS
  <1>0. IInv'
    BY StepIInv DEF GInv
  <1>1. ASSUME NEW p \in Run, Calls(p) PROVE GInv' /\ (Active # {} => Active' # {})
    BY <1>0, <1>1, StepAlone, OthersFresh, OwnFresh, CallGap DEF GInv
  <1>2. CASE NextDay \/ UNCHANGED vars \/ \E c \in Code : Push(c)
    <2>1. UNCHANGED <<row, pc, job>>
      BY <1>2 DEF NextDay, vars, Push
    <2> QED
      BY <1>0, <2>1 DEF GInv, Alone, Maintaining, Fresh, Active, Stage
  <1> QED
    BY <1>1, <1>2, NextCalls

\* The successor is in service before the incumbent goes, as long as the daily
\* job and Run now are not in flight together; rotations may race it.
THEOREM ServiceNeverStops ==
    ASSUME "overlap" \notin Handlers
    PROVE  Spec => NeverAGap
  <1>1. GInv /\ [Next]_vars => [Active # {} => Active' # {}]_vars
    BY StepGInv
  <1>2. GInv /\ [Next]_vars => GInv'
    BY StepGInv
  <1> QED
    BY <1>1, <1>2, InitGInv, PTL DEF Spec, NeverAGap

-----------------------------------------------------------------------------
(* The lock does not fill, if maintenance never overlaps *)

\* A run that has found nothing pending, or that replaces a code in service.
Busy == {p \in Run : pc[p] \in {"add", "insert", "retire", "remove"}}

\* The codes that runs hold: added and not yet recorded, replaced and not yet removed.
HeldBy(p, c) == \/ pc[p] = "insert" /\ job[p].c = c
                \/ pc[p] \in {"retire", "remove"} /\ job[p].out = c
Held == {c \in Code : \E p \in Run : HeldBy(p, c)}

\* The rest: the code in service, and what things went wrong for.  A pending code without an
\* id is one of these from the start, since nobody will promote or remove it.
KnownPending == {c \in Pending : row[c].known}
Rest == cloud \ (KnownPending \cup Held)

\* What a maintenance run on its own holds is still so.
Current(p) ==
    /\ pc[p] \in {"probe", "outgoing", "stamp"} => row[job[p].c].known
    /\ pc[p] = "drop" => ~row[job[p].c].known
    /\ pc[p] = "stamp" => IF job[p].out = None THEN Active = {} ELSE job[p].out \in Active
    /\ pc[p] = "retire" => job[p].out \in Active

Places == Cardinality(Pending) + Cardinality(Busy) <= Cardinality(Run)
RestIsFaults == Cardinality(Rest) <= IF Active \subseteq Held THEN faults ELSE faults + 1
FillInv ==
    /\ Places /\ RestIsFaults
    /\ \A c \in Active : row[c].known
    /\ \A p \in Run : Current(p)

LEMMA Finite ==
    ASSUME TypeOK, IsFiniteSet(Run)
    PROVE  /\ IsFiniteSet(Pending) /\ IsFiniteSet(Busy) /\ IsFiniteSet(Rest)
           /\ Cardinality(Pending) \in Nat /\ Cardinality(Busy) \in Nat
           /\ Cardinality(Rest) \in Nat /\ Cardinality(Run) \in Nat
  <1>1. IsFiniteSet(Code)
    BY FS_Interval, FallbackAssumption DEF Code
  <1>2. Pending \in SUBSET Code /\ Rest \in SUBSET Code /\ Busy \in SUBSET Run
    BY DEF Pending, Rest, Busy, TypeOK
  <1>3. IsFiniteSet(Pending) /\ IsFiniteSet(Busy) /\ IsFiniteSet(Rest)
    BY <1>1, <1>2, FS_Subset
  <1> QED
    BY <1>3, FS_CardinalityType

LEMMA OneMore ==
    ASSUME NEW S, NEW x, IsFiniteSet(S)
    PROVE  /\ IsFiniteSet(S \cup {x})
           /\ Cardinality(S) \in Nat /\ Cardinality(S \cup {x}) \in Nat
           /\ Cardinality(S \cup {x}) <= Cardinality(S) + 1
  <1>1. /\ IsFiniteSet(S \cup {x})
        /\ Cardinality(S \cup {x}) = IF x \in S THEN Cardinality(S) ELSE Cardinality(S) + 1
    BY FS_AddElement
  <1>2. Cardinality(S) \in Nat /\ Cardinality(S \cup {x}) \in Nat
    BY <1>1, FS_CardinalityType
  <1> QED
    BY <1>1, <1>2

LEMMA PlacesKept ==
    ASSUME TypeOK, TypeOK', IsFiniteSet(Run), Places, NEW p \in Run, NEW c \in Code,
           \/ Pending' \subseteq Pending /\ Busy' \subseteq Busy
           \/ Pending' = {}
           \/ Pending' \subseteq Pending \cup {c} /\ p \in Busy /\ Busy' \subseteq Busy \ {p}
           \/ c \in Pending /\ Pending' \subseteq Pending \ {c} /\ Busy' \subseteq Busy \cup {p}
    PROVE  Places'
  <1>0. /\ IsFiniteSet(Pending) /\ IsFiniteSet(Busy)
        /\ Cardinality(Pending) \in Nat /\ Cardinality(Busy) \in Nat /\ Cardinality(Run) \in Nat
    BY Finite
  <1>1. PICK P, B : P = Pending' /\ B = Busy'
    OBVIOUS
  <1>2. B \subseteq Run
    BY <1>1 DEF Busy
  <1>3. IsFiniteSet(P) /\ IsFiniteSet(B)
    <2>1. P \in SUBSET Code
      BY <1>1 DEF Pending
    <2>2. IsFiniteSet(Code)
      BY FS_Interval, FallbackAssumption DEF Code
    <2> QED
      BY <1>2, <2>1, <2>2, FS_Subset
  <1>4. Cardinality(P) \in Nat /\ Cardinality(B) \in Nat
    BY <1>3, FS_CardinalityType
  <1>5. SUFFICES Cardinality(P) + Cardinality(B) <= Cardinality(Run)
    BY <1>1 DEF Places
  <1>6. CASE P \subseteq Pending /\ B \subseteq Busy
    <2>1. Cardinality(P) <= Cardinality(Pending) /\ Cardinality(B) <= Cardinality(Busy)
      BY <1>0, <1>6, FS_Subset
    <2> QED
      BY <1>0, <1>4, <2>1 DEF Places
  <1>7. CASE P = {}
    <2>1. Cardinality(P) = 0 /\ Cardinality(B) <= Cardinality(Run)
      BY <1>2, <1>7, FS_EmptySet, FS_Subset
    <2> QED
      BY <1>0, <1>4, <2>1
  <1>8. CASE P \subseteq Pending \cup {c} /\ p \in Busy /\ B \subseteq Busy \ {p}
    <2>1. Cardinality(P) <= Cardinality(Pending) + 1
      <3>1. /\ IsFiniteSet(Pending \cup {c})
            /\ Cardinality(Pending \cup {c}) <= Cardinality(Pending) + 1
        BY <1>0, OneMore
      <3>2. Cardinality(P) <= Cardinality(Pending \cup {c})
        BY <1>8, <3>1, FS_Subset
      <3>3. Cardinality(Pending \cup {c}) \in Nat
        BY <3>1, FS_CardinalityType
      <3> QED
        BY <1>0, <1>4, <3>1, <3>2, <3>3
    <2>2. Cardinality(B) <= Cardinality(Busy) - 1
      <3>1. IsFiniteSet(Busy \ {p}) /\ Cardinality(Busy \ {p}) = Cardinality(Busy) - 1
        BY <1>0, <1>8, FS_RemoveElement
      <3>2. Cardinality(B) <= Cardinality(Busy \ {p})
        BY <1>8, <3>1, FS_Subset
      <3> QED
        BY <3>1, <3>2
    <2> QED
      BY <1>0, <1>4, <2>1, <2>2 DEF Places
  <1>9. CASE c \in Pending /\ P \subseteq Pending \ {c} /\ B \subseteq Busy \cup {p}
    <2>1. Cardinality(B) <= Cardinality(Busy) + 1
      <3>1. IsFiniteSet(Busy \cup {p}) /\ Cardinality(Busy \cup {p}) <= Cardinality(Busy) + 1
        BY <1>0, OneMore
      <3>2. Cardinality(B) <= Cardinality(Busy \cup {p})
        BY <1>9, <3>1, FS_Subset
      <3>3. Cardinality(Busy \cup {p}) \in Nat
        BY <3>1, FS_CardinalityType
      <3> QED
        BY <1>0, <1>4, <3>1, <3>2, <3>3
    <2>2. Cardinality(P) <= Cardinality(Pending) - 1
      <3>1. /\ IsFiniteSet(Pending \ {c})
            /\ Cardinality(Pending \ {c}) = Cardinality(Pending) - 1
        BY <1>0, <1>9, FS_RemoveElement
      <3>2. Cardinality(P) <= Cardinality(Pending \ {c})
        BY <1>9, <3>1, FS_Subset
      <3> QED
        BY <3>1, <3>2
    <2> QED
      BY <1>0, <1>4, <2>1, <2>2 DEF Places
  <1> QED
    BY <1>1, <1>6, <1>7, <1>8, <1>9

LEMMA RestKept ==
    ASSUME TypeOK, TypeOK', IsFiniteSet(Run), RestIsFaults, NEW c, NEW d,
           \/ /\ Rest' \subseteq Rest /\ faults <= faults'
              /\ Active' \subseteq Held' => Active \subseteq Held
           \/ /\ Rest' \subseteq Rest \cup {c} /\ faults' = faults + 1
              /\ Active' \subseteq Held' => Active \subseteq Held
           \/ /\ Rest' \subseteq Rest \cup {c} /\ faults' = faults
              /\ Active \subseteq Held /\ ~(Active' \subseteq Held')
           \/ /\ d \in Rest /\ Rest' \subseteq (Rest \ {d}) \cup {c} /\ faults' = faults
              /\ Active' \subseteq Held' => Active \subseteq Held
    PROVE  RestIsFaults'
  <1>0. IsFiniteSet(Rest) /\ Cardinality(Rest) \in Nat /\ faults \in Nat /\ faults' \in Nat
    BY Finite, FallbackAssumption DEF TypeOK
  <1>1. PICK R : R = Rest'
    OBVIOUS
  <1>2. ASSUME NEW T, IsFiniteSet(T), R \subseteq T
        PROVE  Cardinality(R) \in Nat /\ Cardinality(R) <= Cardinality(T)
    BY <1>2, FS_Subset, FS_CardinalityType
  <1>3. Cardinality(Rest \cup {c}) <= Cardinality(Rest) + 1 /\ IsFiniteSet(Rest \cup {c})
        /\ Cardinality(Rest \cup {c}) \in Nat
    BY <1>0, OneMore
  <1>4. CASE /\ R \subseteq Rest /\ faults <= faults'
             /\ Active' \subseteq Held' => Active \subseteq Held
    <2>1. Cardinality(R) \in Nat /\ Cardinality(R) <= Cardinality(Rest)
      BY <1>0, <1>2, <1>4
    <2> QED
      BY <1>0, <1>1, <1>4, <2>1 DEF RestIsFaults
  <1>5. CASE /\ R \subseteq Rest \cup {c} /\ faults' = faults + 1
             /\ Active' \subseteq Held' => Active \subseteq Held
    <2>1. Cardinality(R) \in Nat /\ Cardinality(R) <= Cardinality(Rest) + 1
      BY <1>0, <1>2, <1>3, <1>5
    <2> QED
      BY <1>0, <1>1, <1>5, <2>1 DEF RestIsFaults
  <1>6. CASE /\ R \subseteq Rest \cup {c} /\ faults' = faults
             /\ Active \subseteq Held /\ ~(Active' \subseteq Held')
    <2>1. Cardinality(R) \in Nat /\ Cardinality(R) <= Cardinality(Rest) + 1
      BY <1>0, <1>2, <1>3, <1>6
    <2> QED
      BY <1>0, <1>1, <1>6, <2>1 DEF RestIsFaults
  <1>7. CASE /\ d \in Rest /\ R \subseteq (Rest \ {d}) \cup {c} /\ faults' = faults
             /\ Active' \subseteq Held' => Active \subseteq Held
    <2>1. IsFiniteSet(Rest \ {d}) /\ Cardinality(Rest \ {d}) = Cardinality(Rest) - 1
      BY <1>0, <1>7, FS_RemoveElement
    <2>2. /\ IsFiniteSet((Rest \ {d}) \cup {c})
          /\ Cardinality((Rest \ {d}) \cup {c}) \in Nat
          /\ Cardinality((Rest \ {d}) \cup {c}) <= Cardinality(Rest)
      <3>1. /\ IsFiniteSet((Rest \ {d}) \cup {c})
            /\ Cardinality(Rest \ {d}) \in Nat /\ Cardinality((Rest \ {d}) \cup {c}) \in Nat
            /\ Cardinality((Rest \ {d}) \cup {c}) <= Cardinality(Rest \ {d}) + 1
        BY <2>1, OneMore
      <3> QED
        BY <1>0, <2>1, <3>1
    <2>3. Cardinality(R) \in Nat /\ Cardinality(R) <= Cardinality(Rest)
      BY <1>0, <1>2, <1>7, <2>2
    <2> QED
      BY <1>0, <1>1, <1>7, <2>3 DEF RestIsFaults
  <1> QED
    BY <1>1, <1>4, <1>5, <1>6, <1>7

\* What a statement of p can change in what the runs hold, and in who is busy.
LEMMA HeldChange ==
    ASSUME TypeOK, NEW p \in Run, Calls(p)
    PROVE  /\ \A c \in Code : /\ c \in Held' => c \in Held \/ HeldBy(p, c)'
                              /\ c \in Held => c \in Held' \/ HeldBy(p, c)
           /\ Busy' \subseteq Busy \cup {p}
           /\ pc'[p] \notin {"add", "insert", "retire", "remove"} => Busy' \subseteq Busy \ {p}
  <1>1. \A q \in Run \ {p} : pc'[q] = pc[q] /\ job'[q] = job[q]
    BY OthersWait
  <1>2. \A c \in Code : /\ c \in Held' => c \in Held \/ HeldBy(p, c)'
                        /\ c \in Held => c \in Held' \/ HeldBy(p, c)
    BY <1>1 DEF Held, HeldBy
  <1> QED
    BY <1>1, <1>2 DEF Busy

LEMMA OthersTable ==
    ASSUME IInv, NEW p \in Run, Calls(p), p \notin Maintaining
    PROVE  /\ \A c \in Code : Stage(c) # "none" => row'[c] = row[c]
           /\ Active' = Active
  <1>0. TypeOK /\ Holds(p)
    BY DEF IInv
  <1>1. CASE UNCHANGED row
    BY <1>1 DEF Active
  <1>2. CASE Insert(p)
    <2>1. /\ job[p].c \in Code /\ row[job[p].c].stage = "none"
          /\ row'[job[p].c].stage = "pending"
          /\ \A c \in Code \ {job[p].c} : row'[c] = row[c]
      BY <1>0, <1>2 DEF Insert, Holds, Stage, TypeOK
    <2> QED
      BY <2>1 DEF Active, Stage
  <1>3. CASE Reads(p) \/ Add(p)
    BY <1>1, <1>3, ReadsCodes DEF Codes4, Add
  <1>4. ~Drop(p) /\ ~Stamp(p) /\ ~Retire(p) /\ ~Remove(p)
    BY DEF Drop, Stamp, Retire, Remove, Maintaining
  <1> QED
    BY <1>2, <1>3, <1>4 DEF Calls

LEMMA OthersCurrent ==
    ASSUME GInv, NEW p \in Run, Calls(p), NEW q \in Run \ {p}, Current(q)
    PROVE  Current(q)'
  <1>0. TypeOK /\ Fresh(q) /\ Holds(q) /\ pc'[q] = pc[q] /\ job'[q] = job[q]
    BY OthersWait DEF GInv, IInv
  <1>1. CASE pc[q] \notin {"probe", "drop", "outgoing", "stamp", "retire"}
    BY <1>0, <1>1 DEF Current
  <1>2. CASE pc[q] \in {"probe", "drop", "outgoing", "stamp", "retire"}
    <2>1. p \notin Maintaining
      BY <1>2 DEF GInv, Alone, Maintaining
    <2>2. (\A c \in Code : Stage(c) # "none" => row'[c] = row[c]) /\ Active' = Active
      BY <2>1, OthersTable DEF GInv
    <2>3. pc[q] \in {"probe", "drop", "outgoing", "stamp"} => row'[job[q].c] = row[job[q].c]
      BY <1>0, <2>2 DEF Holds
    <2> QED
      BY <1>0, <2>2, <2>3 DEF Current
  <1> QED
    BY <1>1, <1>2

LEMMA OwnCurrent ==
    ASSUME GInv, FillInv, NEW p \in Run, Calls(p)
    PROVE  Current(p)'
  <1>0. TypeOK /\ Fresh(p) /\ Holds(p) /\ Current(p) /\ Active \subseteq Code
    BY QueryRows DEF GInv, IInv, FillInv
  <1>1. ASSUME NEW l, NEW j, Enter(p, l, j),
               l \notin {"probe", "drop", "outgoing", "stamp", "retire"}
        PROVE  Current(p)'
    BY <1>0, <1>1 DEF Enter, Current, TypeOK
  <1>2. CASE Maintain(p) \/ Rotate(p) \/ Fail(p) \/ Drop(p) \/ Remove(p)
    BY <1>1, <1>2 DEF Maintain, Rotate, Fail, Drop, Remove, Goto, Return
  <1>3. CASE ActiveRead(p) \/ PendingAgain(p) \/ Add(p) \/ Insert(p)
    BY <1>1, <1>3 DEF ActiveRead, PendingAgain, Add, Insert, Goto, Return
  <1>4. CASE Retire(p)
    BY <1>1, <1>4 DEF Retire, Goto
  <1>5. CASE PendingRead(p)
    <2>1. PICK c \in PendingRow :
            Enter(p, IF c = None THEN "active" ELSE IF row[c].known THEN "probe" ELSE "drop",
                  [IdleJob EXCEPT !.c = c])
      BY <1>5 DEF PendingRead
    <2>2. /\ pc'[p] = IF c = None THEN "active" ELSE IF row[c].known THEN "probe" ELSE "drop"
          /\ job'[p].c = c
      BY <1>0, <2>1 DEF Enter, TypeOK, IdleJob
    <2>3. UNCHANGED row
      BY <1>5 DEF PendingRead
    <2> QED
      BY <2>2, <2>3 DEF Current
  <1>6. CASE Probe(p)
    <2>1. UNCHANGED row /\ pc[p] = "probe"
      BY <1>6 DEF Probe
    <2>2. pc'[p] \in {"outgoing", "active"} /\ job'[p] = job[p]
      BY <1>0, <1>6 DEF Probe, Goto, Enter, TypeOK
    <2> QED
      BY <1>0, <2>1, <2>2 DEF Current
  <1>7. CASE OutgoingRead(p)
    <2>1. PICK c \in ActiveRow : Enter(p, "stamp", [job[p] EXCEPT !.out = c])
      BY <1>7 DEF OutgoingRead
    <2>2. IF c = None THEN Active = {} ELSE c \in Active
      BY QueryRows, Codes
    <2>3. pc'[p] = "stamp" /\ job'[p].c = job[p].c /\ job'[p].out = c
      BY <1>0, <2>1 DEF Enter, TypeOK
    <2>4. UNCHANGED row /\ pc[p] = "outgoing"
      BY <1>7 DEF OutgoingRead
    <2>5. Active' = Active
      BY <2>4 DEF Active
    <2> QED
      BY <1>0, <2>2, <2>3, <2>4, <2>5 DEF Current
  <1>8. CASE Stamp(p)
    <2>1. /\ pc'[p] = IF job[p].out = None THEN "active" ELSE "retire"
          /\ job'[p] = job[p] /\ pc[p] = "stamp"
      BY <1>0, <1>8 DEF Stamp, Goto, Enter, TypeOK
    <2>2. job[p].c \in Code /\ Stage(job[p].c) = "pending"
      BY <1>0, <2>1 DEF Holds, Fresh
    <2>3. job[p].out # None => job[p].out \in Active /\ job[p].out # job[p].c
      BY <1>0, <2>1, <2>2 DEF Current, Active, Stage
    <2>4. \A d \in Code \ {job[p].c} : row'[d] = row[d]
      BY <1>0, <1>8 DEF Stamp, TypeOK
    <2>5. job[p].out # None => job[p].out \in Active'
      BY <1>0, <2>3, <2>4 DEF Active
    <2> QED
      BY <2>1, <2>5 DEF Current
  <1> QED
    BY <1>2, <1>3, <1>4, <1>5, <1>6, <1>7, <1>8 DEF Calls, Reads

\* The row a statement writes, and what it finds there.
LEMMA WrittenRow ==
    ASSUME GInv, FillInv, NEW p \in Run
    PROVE  /\ Drop(p) => /\ job[p].c \in Pending /\ ~row[job[p].c].known
                         /\ row'[job[p].c].stage = "deleted"
                         /\ \A d \in Code \ {job[p].c} : row'[d] = row[d]
           /\ Stamp(p) => /\ job[p].c \in Pending /\ row[job[p].c].known
                          /\ row'[job[p].c].stage = "active" /\ row'[job[p].c].known
                          /\ \A d \in Code \ {job[p].c} : row'[d] = row[d]
           /\ Retire(p) => /\ job[p].out \in Active /\ row[job[p].out].known
                           /\ row'[job[p].out].stage = "retired"
                           /\ \A d \in Code \ {job[p].out} : row'[d] = row[d]
           /\ Insert(p) => /\ job[p].c \in Code /\ row[job[p].c].stage = "none"
                           /\ row'[job[p].c].stage = "pending"
                           /\ \A d \in Code \ {job[p].c} : row'[d] = row[d]
  <1>0. TypeOK /\ Fresh(p) /\ Holds(p) /\ Current(p) /\ \A c \in Active : row[c].known
    BY DEF GInv, IInv, FillInv
  <1>1. ASSUME Drop(p)
        PROVE  /\ job[p].c \in Pending /\ ~row[job[p].c].known
               /\ row'[job[p].c].stage = "deleted"
               /\ \A d \in Code \ {job[p].c} : row'[d] = row[d]
    <2>1. job[p].c \in Pending /\ ~row[job[p].c].known
      BY <1>0, <1>1 DEF Drop, Fresh, Holds, Current, Pending, Stage
    <2> QED
      BY <1>0, <1>1, <2>1 DEF Drop, TypeOK, RowSpace, Pending
  <1>2. ASSUME Stamp(p)
        PROVE  /\ job[p].c \in Pending /\ row[job[p].c].known
               /\ row'[job[p].c].stage = "active" /\ row'[job[p].c].known
               /\ \A d \in Code \ {job[p].c} : row'[d] = row[d]
    <2>1. job[p].c \in Pending /\ row[job[p].c].known
      BY <1>0, <1>2 DEF Stamp, Fresh, Holds, Current, Pending, Stage
    <2> QED
      BY <1>0, <1>2, <2>1 DEF Stamp, TypeOK, RowSpace, Pending
  <1>3. ASSUME Retire(p)
        PROVE  /\ job[p].out \in Active /\ row[job[p].out].known
               /\ row'[job[p].out].stage = "retired"
               /\ \A d \in Code \ {job[p].out} : row'[d] = row[d]
    <2>1. job[p].out \in Active /\ row[job[p].out].known
      BY <1>0, <1>3 DEF Retire, Current
    <2> QED
      BY <1>0, <1>3, <2>1 DEF Retire, TypeOK, RowSpace, Active
  <1>4. ASSUME Insert(p)
        PROVE  /\ job[p].c \in Code /\ row[job[p].c].stage = "none"
               /\ row'[job[p].c].stage = "pending"
               /\ \A d \in Code \ {job[p].c} : row'[d] = row[d]
    <2>1. job[p].c \in Code /\ row[job[p].c].stage = "none"
      BY <1>0, <1>4 DEF Insert, Holds, Stage
    <2> QED
      BY <1>0, <1>4, <2>1 DEF Insert, TypeOK
  <1> QED
    BY <1>1, <1>2, <1>3, <1>4

LEMMA ActiveKnown ==
    ASSUME GInv, FillInv, NEW p \in Run, Calls(p), NEW c \in Active'
    PROVE  row'[c].known
  <1>0. c \in Code /\ row'[c].stage = "active" /\ \A d \in Active : row[d].known
    BY DEF Active, FillInv
  <1>1. CASE UNCHANGED row
    BY <1>0, <1>1 DEF Active
  <1>2. CASE Drop(p) \/ Stamp(p) \/ Retire(p) \/ Insert(p)
    BY <1>0, <1>2, WrittenRow DEF Active
  <1>3. CASE Reads(p) \/ Remove(p) \/ Add(p)
    BY <1>1, <1>3, ReadsCodes DEF Codes4, Remove, Add
  <1> QED
    BY <1>2, <1>3 DEF Calls

LEMMA ReadsFill ==
    ASSUME GInv, FillInv, TypeOK', IsFiniteSet(Run), NEW p \in Run, Reads(p)
    PROVE  Places' /\ RestIsFaults'
  <1>0. TypeOK /\ Places /\ RestIsFaults /\ Calls(p) /\ faults \in Nat
    BY FallbackAssumption DEF GInv, IInv, FillInv, Calls, TypeOK
  <1>1. UNCHANGED <<row, cloud>>
    BY ReadsCodes DEF Codes4
  <1>2. Pending' = Pending /\ Active' = Active /\ KnownPending' = KnownPending
    BY <1>1 DEF Pending, Active, KnownPending
  <1>3. 1 \in Code
    BY FallbackAssumption DEF Code
  <1>4. Places'
    <2>1. CASE \/ Maintain(p) \/ Fail(p) \/ PendingRead(p) \/ Probe(p)
               \/ OutgoingRead(p) \/ ActiveRead(p)
      <3>1. pc'[p] \notin {"add", "insert", "retire", "remove"}
        <4>1. CASE Maintain(p) \/ Fail(p) \/ Probe(p) \/ ActiveRead(p)
          BY <1>0, <4>1 DEF Maintain, Fail, Probe, ActiveRead, Goto, Return, Enter, TypeOK
        <4>2. CASE PendingRead(p) \/ OutgoingRead(p)
          BY <1>0, <4>2 DEF PendingRead, OutgoingRead, Enter, TypeOK
        <4> QED
          BY <2>1, <4>1, <4>2
      <3> QED
        BY <1>0, <1>2, <1>3, <3>1, HeldChange, PlacesKept
    <2>2. CASE Rotate(p) \/ PendingAgain(p)
      <3>1. CASE Pending = {}
        BY <1>0, <1>2, <1>3, <3>1, PlacesKept
      <3>2. CASE Pending # {}
        <4>1. pc'[p] = "idle"
          BY <1>0, <2>2, <3>2 DEF Rotate, PendingAgain, Return, Enter, TypeOK
        <4> QED
          BY <1>0, <1>2, <1>3, <4>1, HeldChange, PlacesKept
      <3> QED
        BY <3>1, <3>2
    <2> QED
      BY <2>1, <2>2 DEF Reads
  <1>5. CASE Fail(p)
    <2>1. PICK h : h = IF pc[p] = "insert" THEN job[p].c ELSE job[p].out
      OBVIOUS
    <2>2. pc'[p] = "idle" /\ faults' = faults + 1
      BY <1>0, <1>5 DEF Fail, Fault, Return, Enter, TypeOK
    <2>3. \A c \in Code : (HeldBy(p, c) => c = h) /\ ~HeldBy(p, c)'
      BY <2>1, <2>2 DEF HeldBy
    <2>4. Rest' \subseteq Rest \cup {h} /\ Held' \subseteq Held
      BY <1>0, <1>1, <1>2, <2>3, HeldChange DEF Rest, Held, TypeOK
    <2>5. Active' \subseteq Held' => Active \subseteq Held
      BY <1>2, <2>4
    <2>6. /\ Rest' \subseteq Rest \cup {h} /\ faults' = faults + 1
          /\ Active' \subseteq Held' => Active \subseteq Held
      BY <2>2, <2>4, <2>5
    <2> QED
      BY <1>0, <1>4, <2>6, RestKept
  <1>6. CASE ~Fail(p)
    <2>1. faults' = faults
      BY <1>6 DEF Reads, Maintain, Rotate, PendingRead, Probe, OutgoingRead, ActiveRead,
                  PendingAgain
    <2>2. /\ pc[p] \notin {"insert", "retire", "remove"}
          /\ pc'[p] \notin {"insert", "retire", "remove"}
      <3>1. CASE Maintain(p) \/ Rotate(p) \/ Probe(p) \/ ActiveRead(p) \/ PendingAgain(p)
        BY <1>0, <3>1 DEF Maintain, Rotate, Probe, ActiveRead, PendingAgain, Goto, Return, Enter,
                          TypeOK
      <3>2. CASE PendingRead(p) \/ OutgoingRead(p)
        BY <1>0, <3>2 DEF PendingRead, OutgoingRead, Enter, TypeOK
      <3> QED
        BY <1>6, <3>1, <3>2 DEF Reads
    <2>3. Held' = Held
      <3>1. \A c \in Code : ~HeldBy(p, c) /\ ~HeldBy(p, c)'
        BY <2>2 DEF HeldBy
      <3> QED
        BY <1>0, <3>1, HeldChange DEF Held
    <2>4. Rest' = Rest
      BY <1>1, <1>2, <2>3 DEF Rest
    <2>5. /\ Rest' \subseteq Rest /\ faults <= faults'
          /\ Active' \subseteq Held' => Active \subseteq Held
      BY <1>0, <1>2, <2>1, <2>3, <2>4
    <2> QED
      BY <1>0, <1>4, <2>5, RestKept
  <1> QED
    BY <1>4, <1>5, <1>6

\* A pending row without an id was part of the rest before it is dropped.
LEMMA DropFill ==
    ASSUME GInv, FillInv, TypeOK', IsFiniteSet(Run), NEW p \in Run, Drop(p)
    PROVE  Places' /\ RestIsFaults'
  <1>0. TypeOK /\ Places /\ RestIsFaults /\ Calls(p) /\ faults \in Nat
    BY FallbackAssumption DEF GInv, IInv, FillInv, Calls, TypeOK
  <1>1. PICK c : c = job[p].c
    OBVIOUS
  <1>2. /\ c \in Pending /\ ~row[c].known /\ row'[c].stage = "deleted"
        /\ \A d \in Code \ {c} : row'[d] = row[d]
    BY <1>1, WrittenRow
  <1>3. c \in Code /\ Pending' \subseteq Pending /\ KnownPending' = KnownPending /\ Active' = Active
    BY <1>2 DEF Pending, KnownPending, Active
  <1>4. UNCHANGED <<cloud, faults>> /\ pc[p] = "drop" /\ pc'[p] = "active"
    BY <1>0 DEF Drop, Goto, Enter, TypeOK
  <1>5. Held' = Held /\ Busy' \subseteq Busy
    <2>1. \A d \in Code : ~HeldBy(p, d) /\ ~HeldBy(p, d)'
      BY <1>4 DEF HeldBy
    <2> QED
      BY <1>0, <1>4, <2>1, HeldChange DEF Held
  <1>6. Places'
    BY <1>0, <1>3, <1>5, PlacesKept
  <1>7. Rest' = Rest
    BY <1>3, <1>4, <1>5 DEF Rest
  <1>8. /\ Rest' \subseteq Rest /\ faults <= faults'
        /\ Active' \subseteq Held' => Active \subseteq Held
    BY <1>0, <1>3, <1>4, <1>5, <1>7
  <1> QED
    BY <1>0, <1>6, <1>8, RestKept

\* The successor takes the place of the code in service, which its run now holds; the first
\* code of all takes the one place there is.
LEMMA StampFill ==
    ASSUME GInv, FillInv, TypeOK', IsFiniteSet(Run), NEW p \in Run, Stamp(p)
    PROVE  Places' /\ RestIsFaults'
  <1>0. TypeOK /\ Places /\ RestIsFaults /\ Calls(p) /\ faults \in Nat /\ Current(p)
    BY FallbackAssumption DEF GInv, IInv, FillInv, Calls, TypeOK
  <1>1. PICK c, d : c = job[p].c /\ d = job[p].out
    OBVIOUS
  <1>2. /\ c \in Pending /\ row'[c].stage = "active"
        /\ \A e \in Code \ {c} : row'[e] = row[e]
    BY <1>1, WrittenRow
  <1>3. /\ c \in Code /\ Pending' = Pending \ {c} /\ KnownPending' = KnownPending \ {c}
        /\ Active' = Active \cup {c}
    BY <1>2 DEF Pending, KnownPending, Active
  <1>4. /\ UNCHANGED <<cloud, faults>> /\ pc[p] = "stamp" /\ job'[p].out = d
        /\ pc'[p] = IF d = None THEN "active" ELSE "retire"
    BY <1>0, <1>1 DEF Stamp, Goto, Enter, TypeOK
  <1>5. Places'
    BY <1>0, <1>2, <1>3, HeldChange, PlacesKept
  <1>6. \A e \in Code : ~HeldBy(p, e) /\ (HeldBy(p, e)' => e = d)
    BY <1>4 DEF HeldBy
  <1>7. Held \subseteq Held' /\ Held' \subseteq Held \cup {d}
    BY <1>0, <1>6, HeldChange DEF Held
  <1>8. Rest' \subseteq Rest \cup {c}
    BY <1>3, <1>4, <1>7 DEF Rest
  \* No run holds a code that waits.
  <1>9. c \notin Held
    <2>1. ASSUME NEW q \in Run, HeldBy(q, c) PROVE FALSE
      <3>1. Holds(q)
        BY DEF GInv, IInv
      <3> QED
        BY <1>2, <2>1, <3>1 DEF HeldBy, Holds, Pending, Stage, Past, Gone
    <2> QED
      BY <2>1 DEF Held
  <1>10. CASE d = None
    <2>1. Active = {} /\ d \notin Code
      BY <1>0, <1>1, <1>4, <1>10, Codes DEF Current
    <2>2. c \notin Held'
      BY <1>3, <1>7, <1>9, <2>1
    <2>3. /\ Rest' \subseteq Rest \cup {c} /\ faults' = faults
          /\ Active \subseteq Held /\ ~(Active' \subseteq Held')
      BY <1>3, <1>4, <1>8, <2>1, <2>2
    <2> QED
      BY <1>0, <1>5, <2>3, RestKept
  <1>11. CASE d # None
    <2>1. d \in Active /\ d \in Code /\ d # c
      BY <1>0, <1>1, <1>2, <1>4, <1>11 DEF Current, Active, Pending
    <2>2. c \notin Held' /\ d \in Held'
      <3>1. HeldBy(p, d)'
        BY <1>4, <1>11 DEF HeldBy
      <3> QED
        BY <1>7, <1>9, <2>1, <3>1 DEF Held
    \* Only this run holds a code in service: there is no other maintenance run.
    <2>3. d \notin Held
      <3>1. ASSUME NEW q \in Run, HeldBy(q, d) PROVE FALSE
        <4>1. Holds(q) /\ q # p
          BY <1>6, <2>1, <3>1 DEF GInv, IInv
        <4>2. pc[q] \in {"retire", "remove"}
          BY <2>1, <3>1, <4>1 DEF HeldBy, Holds, Active, Stage
        <4> QED
          BY <1>4, <4>1, <4>2 DEF GInv, Alone, Maintaining
      <3> QED
        BY <3>1 DEF Held
    <2>4. CASE d \in cloud
      <3>1. d \in Rest
        BY <2>1, <2>3, <2>4 DEF Rest, KnownPending, Pending, Active
      <3>2. d \notin Rest' /\ ~(Active' \subseteq Held')
        BY <1>3, <2>2 DEF Rest
      <3>3. /\ Rest' \subseteq (Rest \ {d}) \cup {c} /\ faults' = faults
            /\ Active' \subseteq Held' => Active \subseteq Held
        BY <1>4, <1>8, <3>2
      <3> QED
        BY <1>0, <1>5, <3>1, <3>3, RestKept
    <2>5. d \in cloud
      BY <2>1 DEF GInv, IInv, OnTheLock, Synced
    <2> QED
      BY <2>4, <2>5
  <1> QED
    BY <1>10, <1>11

LEMMA RetireFill ==
    ASSUME GInv, FillInv, TypeOK', IsFiniteSet(Run), NEW p \in Run, Retire(p)
    PROVE  Places' /\ RestIsFaults'
  <1>0. TypeOK /\ Places /\ RestIsFaults /\ Calls(p) /\ Fresh(p) /\ faults \in Nat
    BY FallbackAssumption DEF GInv, IInv, FillInv, Calls, TypeOK
  <1>1. PICK d : d = job[p].out
    OBVIOUS
  <1>2. /\ d \in Active /\ row[d].known /\ row'[d].stage = "retired"
        /\ \A e \in Code \ {d} : row'[e] = row[e]
    BY <1>1, WrittenRow
  <1>3. /\ d \in Code /\ Pending' = Pending /\ KnownPending' = KnownPending
        /\ Active' = Active \ {d}
    BY <1>2 DEF Pending, KnownPending, Active
  <1>4. /\ UNCHANGED <<cloud, faults>> /\ pc[p] = "retire" /\ job'[p].out = d
        /\ pc'[p] = "remove"
    BY <1>0, <1>1, <1>2 DEF Retire, Goto, Enter, TypeOK
  <1>5. \A e \in Code : HeldBy(p, e)' <=> HeldBy(p, e)
    BY <1>1, <1>4 DEF HeldBy
  <1>6. Held' = Held
    BY <1>0, <1>5, HeldChange DEF Held
  <1>7. Busy' \subseteq Busy
    BY <1>0, <1>4, HeldChange DEF Busy
  <1>8. Places'
    BY <1>0, <1>3, <1>7, PlacesKept
  <1>9. d \in Held
    BY <1>1, <1>3, <1>4 DEF Held, HeldBy
  <1>10. /\ Rest' \subseteq Rest /\ faults <= faults'
         /\ Active' \subseteq Held' => Active \subseteq Held
    BY <1>0, <1>3, <1>4, <1>6, <1>9 DEF Rest
  <1> QED
    BY <1>0, <1>8, <1>10, RestKept

\* What is removed leaves the cloud; what cannot be removed is one more for the rest.
LEMMA RemoveFill ==
    ASSUME GInv, FillInv, TypeOK', IsFiniteSet(Run), NEW p \in Run, Remove(p)
    PROVE  Places' /\ RestIsFaults'
  <1>0. TypeOK /\ Places /\ RestIsFaults /\ Calls(p) /\ faults \in Nat
    BY FallbackAssumption DEF GInv, IInv, FillInv, Calls, TypeOK
  <1>1. PICK d : d = job[p].out
    OBVIOUS
  <1>2. d \in Code /\ row[d].stage \in Gone
    <2>1. Holds(p)
      BY DEF GInv, IInv
    <2> QED
      BY <1>1, <2>1 DEF Remove, Holds, Stage
  <1>3. Pending' = Pending /\ KnownPending' = KnownPending /\ Active' = Active
    BY DEF Remove, Pending, KnownPending, Active
  <1>4. pc[p] = "remove" /\ pc'[p] = "active"
    BY <1>0 DEF Remove, Goto, Enter, TypeOK
  <1>5. \A e \in Code : (HeldBy(p, e) => e = d) /\ ~HeldBy(p, e)'
    BY <1>1, <1>4 DEF HeldBy
  <1>6. Held' \subseteq Held /\ Held \subseteq Held' \cup {d}
    BY <1>0, <1>5, HeldChange DEF Held
  <1>7. Places'
    BY <1>0, <1>2, <1>3, <1>4, HeldChange, PlacesKept
  <1>8. Active' \subseteq Held' => Active \subseteq Held
    BY <1>3, <1>6
  <1>9. CASE cloud' = cloud \ {d} /\ UNCHANGED faults
    <2>1. /\ Rest' \subseteq Rest /\ faults <= faults'
          /\ Active' \subseteq Held' => Active \subseteq Held
      BY <1>0, <1>3, <1>6, <1>8, <1>9 DEF Rest
    <2> QED
      BY <1>0, <1>7, <2>1, RestKept
  <1>10. CASE Fault /\ UNCHANGED cloud
    <2>1. /\ Rest' \subseteq Rest \cup {d} /\ faults' = faults + 1
          /\ Active' \subseteq Held' => Active \subseteq Held
      BY <1>3, <1>6, <1>8, <1>10 DEF Rest, Fault
    <2> QED
      BY <1>0, <1>7, <2>1, RestKept
  <1> QED
    BY <1>1, <1>9, <1>10 DEF Remove

\* A code that is added is held by its run.
LEMMA AddFill ==
    ASSUME GInv, FillInv, TypeOK', IsFiniteSet(Run), NEW p \in Run, Add(p)
    PROVE  Places' /\ RestIsFaults'
  <1>0. TypeOK /\ Places /\ RestIsFaults /\ Calls(p) /\ faults \in Nat /\ minted \in Nat
    BY FallbackAssumption DEF GInv, IInv, FillInv, Calls, TypeOK
  <1>1. Pending' = Pending /\ KnownPending' = KnownPending /\ Active' = Active
    BY DEF Add, Pending, KnownPending, Active
  <1>2. UNCHANGED faults /\ pc[p] = "add" /\ 1 \in Code
    BY FallbackAssumption DEF Add, Code
  <1>3. Busy' \subseteq Busy
    BY <1>0, <1>2, HeldChange DEF Busy
  <1>4. Places'
    BY <1>0, <1>1, <1>2, <1>3, PlacesKept
  <1>5. \A e \in Code : ~HeldBy(p, e)
    BY <1>2 DEF HeldBy
  <1>6. CASE cloud' = cloud /\ Return(p)
    <2>1. \A e \in Code : ~HeldBy(p, e)'
      BY <1>0, <1>6 DEF Return, Enter, HeldBy, TypeOK
    <2>2. Held' = Held
      BY <1>0, <1>5, <2>1, HeldChange DEF Held
    <2>3. /\ Rest' \subseteq Rest /\ faults <= faults'
          /\ Active' \subseteq Held' => Active \subseteq Held
      BY <1>0, <1>1, <1>2, <1>6, <2>2 DEF Rest
    <2> QED
      BY <1>0, <1>4, <2>3, RestKept
  <1>7. ASSUME NEW c \in Code, c = minted + 1, minted' = c, cloud' = cloud \cup {c},
               Enter(p, "insert", [IdleJob EXCEPT !.c = c])
        PROVE  Places' /\ RestIsFaults'
    <2>1. pc'[p] = "insert" /\ job'[p].c = c
      BY <1>0, <1>7 DEF Enter, TypeOK, IdleJob
    <2>2. \A e \in Code : HeldBy(p, e)' <=> e = c
      BY <2>1 DEF HeldBy
    <2>3. Held' = Held \cup {c}
      BY <1>0, <1>5, <1>7, <2>2, HeldChange DEF Held
    \* The new code is in nobody's hands yet, so it was not in service.
    <2>4. c \notin Active
      BY <1>0, <1>7 DEF GInv, IInv, Unborn, Active, Stage
    <2>5. /\ Rest' \subseteq Rest /\ faults <= faults'
          /\ Active' \subseteq Held' => Active \subseteq Held
      BY <1>0, <1>1, <1>2, <1>7, <2>3, <2>4 DEF Rest
    <2> QED
      BY <1>0, <1>4, <2>5, RestKept
  <1>8. minted < MaxCode => minted + 1 \in Code
    BY <1>0, FallbackAssumption DEF Code
  <1> QED
    BY <1>6, <1>7, <1>8 DEF Add

\* A code recorded with its id waits; without one it is one more for the rest.
LEMMA InsertFill ==
    ASSUME GInv, FillInv, TypeOK', IsFiniteSet(Run), NEW p \in Run, Insert(p)
    PROVE  Places' /\ RestIsFaults'
  <1>0. TypeOK /\ Places /\ RestIsFaults /\ Calls(p) /\ faults \in Nat
    BY FallbackAssumption DEF GInv, IInv, FillInv, Calls, TypeOK
  <1>1. PICK c : c = job[p].c
    OBVIOUS
  <1>2. /\ c \in Code /\ row[c].stage = "none" /\ row'[c].stage = "pending"
        /\ \A e \in Code \ {c} : row'[e] = row[e]
    BY <1>1, WrittenRow
  <1>3. Pending' = Pending \cup {c} /\ KnownPending \subseteq KnownPending' /\ Active' = Active
    BY <1>2 DEF Pending, KnownPending, Active
  <1>4. UNCHANGED cloud /\ pc[p] = "insert" /\ pc'[p] = "idle"
    BY <1>0 DEF Insert, Return, Enter, TypeOK
  <1>5. \A e \in Code : (HeldBy(p, e) => e = c) /\ ~HeldBy(p, e)'
    BY <1>1, <1>4 DEF HeldBy
  <1>6. Held' \subseteq Held /\ Held \subseteq Held' \cup {c}
    BY <1>0, <1>5, HeldChange DEF Held
  <1>7. Places'
    <2>1. p \in Busy /\ Busy' \subseteq Busy \ {p}
      BY <1>0, <1>4, HeldChange DEF Busy
    <2> QED
      BY <1>0, <1>2, <1>3, <2>1, PlacesKept
  <1>8. Active' \subseteq Held' => Active \subseteq Held
    BY <1>3, <1>6
  <1>9. Rest' \subseteq Rest \cup {c} /\ (row'[c].known => Rest' \subseteq Rest)
    <2>1. row'[c].known => c \in KnownPending'
      BY <1>2, <1>3 DEF KnownPending
    <2> QED
      BY <1>3, <1>4, <1>6, <2>1 DEF Rest
  <1>10. IF row'[c].known THEN faults' = faults ELSE faults' = faults + 1
    BY <1>0, <1>1, <1>2 DEF Insert, Fault, TypeOK
  <1>11. CASE row'[c].known
    <2>1. /\ Rest' \subseteq Rest /\ faults <= faults'
          /\ Active' \subseteq Held' => Active \subseteq Held
      BY <1>0, <1>8, <1>9, <1>10, <1>11
    <2> QED
      BY <1>0, <1>7, <2>1, RestKept
  <1>12. CASE ~row'[c].known
    <2>1. /\ Rest' \subseteq Rest \cup {c} /\ faults' = faults + 1
          /\ Active' \subseteq Held' => Active \subseteq Held
      BY <1>8, <1>9, <1>10, <1>12
    <2> QED
      BY <1>0, <1>7, <2>1, RestKept
  <1> QED
    BY <1>11, <1>12

LEMMA InitFill == Init /\ IsFiniteSet(Run) => FillInv
  <1> SUFFICES ASSUME Init, IsFiniteSet(Run) PROVE FillInv
    OBVIOUS
  <1>1. Pending = {} /\ Busy = {} /\ Active = {} /\ Rest = {} /\ faults = 0
    BY DEF Init, Pending, Busy, Active, Rest
  <1>2. Cardinality(Run) \in Nat
    BY FS_CardinalityType
  <1>3. Places /\ RestIsFaults
    BY <1>1, <1>2, FS_EmptySet DEF Places, RestIsFaults
  <1>4. \A p \in Run : Current(p)
    BY DEF Init, Current
  <1> QED
    BY <1>1, <1>3, <1>4 DEF FillInv

LEMMA StepFill ==
    ASSUME "overlap" \notin Handlers, IsFiniteSet(Run)
    PROVE  GInv /\ FillInv /\ [Next]_vars => FillInv'
  <1> SUFFICES ASSUME GInv, FillInv, [Next]_vars PROVE FillInv'
    OBVIOUS
  <1>0. TypeOK'
    BY StepType DEF GInv, IInv
  <1>1. ASSUME NEW p \in Run, Calls(p) PROVE FillInv'
    <2>1. Places' /\ RestIsFaults'
      BY <1>0, <1>1, ReadsFill, DropFill, StampFill, RetireFill, RemoveFill, AddFill, InsertFill
         DEF Calls
    <2>2. \A c \in Active' : row'[c].known
      BY <1>1, ActiveKnown
    <2>3. \A q \in Run : Current(q)'
      BY <1>1, OwnCurrent, OthersCurrent DEF FillInv
    <2> QED
      BY <2>1, <2>2, <2>3 DEF FillInv
  <1>2. CASE NextDay \/ UNCHANGED vars \/ \E c \in Code : Push(c)
    <2>1. UNCHANGED <<row, cloud, faults, pc, job>>
      BY <1>2 DEF NextDay, vars, Push
    <2>2. /\ Pending' = Pending /\ Active' = Active /\ KnownPending' = KnownPending
          /\ Busy' = Busy /\ Held' = Held
      BY <2>1 DEF Pending, Active, KnownPending, Busy, Held, HeldBy
    <2>3. Rest' = Rest
      BY <2>1, <2>2 DEF Rest
    <2>4. TypeOK /\ Places /\ RestIsFaults /\ faults \in Nat /\ 1 \in Code
      BY FallbackAssumption DEF GInv, IInv, FillInv, TypeOK, Code
    <2>5. Places'
      BY <2>2 DEF FillInv, Places
    <2>6. /\ Rest' \subseteq Rest /\ faults <= faults'
          /\ Active' \subseteq Held' => Active \subseteq Held
      BY <2>1, <2>2, <2>3, <2>4
    <2>7. RestIsFaults'
      BY <1>0, <2>4, <2>6, RestKept
    <2> QED
      BY <2>1, <2>2, <2>5, <2>7 DEF FillInv, Current
  <1> QED
    BY <1>1, <1>2, NextCalls

\* A run holds one code at most.
LEMMA HeldIsBusy ==
    ASSUME IInv, IsFiniteSet(Run)
    PROVE  IsFiniteSet(Held) /\ Cardinality(Held) <= Cardinality(Busy)
  <1> DEFINE Hands == {p \in Run : pc[p] \in {"insert", "retire", "remove"}}
             f == [p \in Hands |-> IF pc[p] = "insert" THEN job[p].c ELSE job[p].out]
  <1>1. \A p \in Hands : f[p] \in Held
    <2> SUFFICES ASSUME NEW p \in Hands PROVE f[p] \in Code /\ HeldBy(p, f[p])
      BY DEF Held
    <2>1. Holds(p)
      BY DEF IInv
    <2> QED
      BY <2>1 DEF Holds, HeldBy
  <1>2. \A c \in Held : \E p \in Hands : f[p] = c
    BY DEF Held, HeldBy
  <1>3. f \in Surjection(Hands, Held)
    BY <1>1, <1>2 DEF Surjection
  <1>4. IsFiniteSet(Busy)
    BY Finite DEF IInv
  <1>5. Hands \in SUBSET Busy
    BY DEF Busy
  <1> HIDE DEF Hands, f
  <1>6. IsFiniteSet(Hands) /\ Cardinality(Hands) <= Cardinality(Busy)
    BY <1>4, <1>5, FS_Subset
  <1>7. IsFiniteSet(Held) /\ Cardinality(Held) <= Cardinality(Hands)
    BY <1>3, <1>6, FS_Surjection
  <1>8. Cardinality(Held) \in Nat /\ Cardinality(Hands) \in Nat /\ Cardinality(Busy) \in Nat
    BY <1>4, <1>6, <1>7, FS_CardinalityType
  <1> QED
    BY <1>6, <1>7, <1>8

LEMMA FillBounds ==
    ASSUME IInv, FillInv, IsFiniteSet(Run)
    PROVE  LockDoesNotFill
  <1>0. /\ IsFiniteSet(Pending) /\ IsFiniteSet(Rest)
        /\ Cardinality(Pending) \in Nat /\ Cardinality(Busy) \in Nat
        /\ Cardinality(Rest) \in Nat /\ Cardinality(Run) \in Nat /\ faults \in Nat
    BY Finite, FallbackAssumption DEF IInv, TypeOK
  <1>1. IsFiniteSet(Held) /\ Cardinality(Held) <= Cardinality(Busy) /\ Cardinality(Held) \in Nat
    BY HeldIsBusy, FS_CardinalityType
  <1>2. ASSUME NEW S, NEW T, IsFiniteSet(S), IsFiniteSet(T)
        PROVE  /\ IsFiniteSet(S \cup T) /\ Cardinality(S \cup T) \in Nat
               /\ Cardinality(S \cup T) <= Cardinality(S) + Cardinality(T)
    <2>1. /\ IsFiniteSet(S \cup T) /\ IsFiniteSet(S \cap T)
          /\ Cardinality(S \cup T) = Cardinality(S) + Cardinality(T) - Cardinality(S \cap T)
      BY <1>2, FS_Union, FS_Intersection
    <2>2. /\ Cardinality(S) \in Nat /\ Cardinality(T) \in Nat
          /\ Cardinality(S \cup T) \in Nat /\ Cardinality(S \cap T) \in Nat
      BY <1>2, <2>1, FS_CardinalityType
    <2> QED
      BY <2>1, <2>2
  <1>3. PICK S : S = Pending \cup Held
    OBVIOUS
  <1>4. /\ IsFiniteSet(S) /\ Cardinality(S) \in Nat
        /\ Cardinality(S) <= Cardinality(Pending) + Cardinality(Held)
    BY <1>0, <1>1, <1>2, <1>3
  <1>5. /\ IsFiniteSet(S \cup Rest) /\ Cardinality(S \cup Rest) \in Nat
        /\ Cardinality(S \cup Rest) <= Cardinality(S) + Cardinality(Rest)
    BY <1>0, <1>2, <1>4
  <1>6. cloud \in SUBSET (S \cup Rest)
    BY <1>3 DEF Rest, KnownPending
  <1>7. Cardinality(cloud) <= Cardinality(S \cup Rest) /\ Cardinality(cloud) \in Nat
    BY <1>5, <1>6, FS_Subset, FS_CardinalityType
  <1>8. /\ Cardinality(Pending) + Cardinality(Busy) <= Cardinality(Run)
        /\ Cardinality(Rest) <= faults + 1
    BY <1>0 DEF FillInv, Places, RestIsFaults
  <1> QED
    BY <1>0, <1>1, <1>4, <1>5, <1>7, <1>8 DEF LockDoesNotFill

\* An outage, however long, does not fill the lock: its users are the code in
\* service, one more for each of the finitely many runs in flight and one for
\* each thing that went wrong, as long as the daily job and Run now are not in
\* flight together; rotations may race it.
THEOREM LockHasRoom ==
    ASSUME "overlap" \notin Handlers, IsFiniteSet(Run)
    PROVE  Spec => []LockDoesNotFill
  <1>1. Init => GInv /\ FillInv
    BY InitGInv, InitFill
  <1>2. GInv /\ FillInv /\ [Next]_vars => GInv' /\ FillInv'
    BY StepGInv, StepFill
  <1>3. GInv /\ FillInv => LockDoesNotFill
    BY FillBounds DEF GInv
  <1> QED
    BY <1>1, <1>2, <1>3, PTL DEF Spec
=============================================================================
