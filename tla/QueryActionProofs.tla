------------------------- MODULE QueryActionProofs -------------------------
(***************************************************************************)
(* Proofs about the _invokeLock protocol of InbandQueryAction              *)
(* (QueryAction): the semaphore stays a natural number and no getResult    *)
(* gets past it before _execAndJoin has joined the session, for any number *)
(* of readers and whether or not invalid actions are invoked.              *)
(***************************************************************************)
EXTENDS QueryAction, TLAPS

(* The invariant behind ResultAfterJoin.  Before the constructor has run,  *)
(* nobody can touch the semaphore; from the constructor's acquire to       *)
(* invoke's release the semaphore is 0 and no reader holds it; invoke      *)
(* releases only after the join.                                           *)
LockInv ==
    /\ ctor = "running" =>
          sem = 1 /\ ipc = "idle" /\ \A r \in Readers : rpc[r] = "idle"
    /\ (ctor # "running" /\ ipc # "done") =>
          sem = 0 /\ \A r \in Readers : rpc[r] \in {"idle", "acquire"}
    /\ ipc \in {"release", "done"} => joined

IInv == TypeOK /\ LockInv

LEMMA InitIInv == Init => IInv
<1> SUFFICES ASSUME Init PROVE IInv
    OBVIOUS
<1>1. TypeOK
    BY DEF Init, TypeOK
<1>2. LockInv
    BY DEF Init, LockInv
<1>3. QED
    BY <1>1, <1>2 DEF IInv

LEMMA NextIInv == IInv /\ [Next]_vars => IInv'
<1> SUFFICES ASSUME IInv, [Next]_vars PROVE IInv'
    OBVIOUS
<1>1. CASE Construct
    BY <1>1 DEF Construct, IInv, TypeOK, LockInv
<1>2. CASE Invoke
    BY <1>2 DEF Invoke, IInv, TypeOK, LockInv
<1>3. CASE ExecAndJoin
    BY <1>3 DEF ExecAndJoin, IInv, TypeOK, LockInv, HasSession, IsValid
<1>4. CASE ReleaseInvoke
    BY <1>4 DEF ReleaseInvoke, IInv, TypeOK, LockInv
<1>5. ASSUME NEW r \in Readers, CallGetResult(r) PROVE IInv'
    BY <1>5 DEF CallGetResult, IInv, TypeOK, LockInv
<1>6. ASSUME NEW r \in Readers, AcquireResult(r) PROVE IInv'
    <2>1. ipc = "done"
        BY <1>6 DEF AcquireResult, IInv, LockInv
    <2>2. QED
        BY <1>6, <2>1 DEF AcquireResult, IInv, TypeOK, LockInv
<1>7. ASSUME NEW r \in Readers, ReleaseResult(r) PROVE IInv'
    <2>1. ipc = "done"
        BY <1>7 DEF ReleaseResult, IInv, LockInv
    <2>2. QED
        BY <1>7, <2>1 DEF ReleaseResult, IInv, TypeOK, LockInv
<1>8. CASE UNCHANGED vars
    BY <1>8 DEF vars, IInv, TypeOK, LockInv
<1>9. QED
    BY <1>1, <1>2, <1>3, <1>4, <1>5, <1>6, <1>7, <1>8 DEF Next

(* The semaphore never goes negative and every variable keeps its type.    *)
THEOREM QueryActionTypeCorrect == Spec => []TypeOK
<1>1. IInv => TypeOK
    BY DEF IInv
<1>2. QED
    BY <1>1, InitIInv, NextIInv, PTL DEF Spec

(* getResult returns the result table name only after invoke's             *)
(* _execAndJoin has joined the session (app.py:417, 436, 449).             *)
THEOREM ResultOnlyAfterJoin == Spec => []ResultAfterJoin
<1>1. IInv => ResultAfterJoin
    BY DEF IInv, TypeOK, LockInv, ResultAfterJoin
<1>2. QED
    BY <1>1, InitIInv, NextIInv, PTL DEF Spec

-----------------------------------------------------------------------------
(* The safety part of the refinement onto ResultFuture; its fairness part  *)
(* (a waiting reader is served) is checked by TLC only.                    *)
FutureSafety == Future!Init /\ [][Future!Next]_Future!vars

LEMMA StepRefines == IInv /\ [Next]_vars => [Future!Next]_Future!vars
<1> SUFFICES ASSUME IInv, [Next]_vars PROVE [Future!Next]_Future!vars
    OBVIOUS
<1>1. CASE Construct \/ Invoke \/ ExecAndJoin
    BY <1>1 DEF Construct, Invoke, ExecAndJoin, Future!vars
<1>2. CASE ReleaseInvoke
    BY <1>2 DEF ReleaseInvoke, Future!Next, Future!Resolve, Future!vars
<1>3. ASSUME NEW r \in Readers, CallGetResult(r)
      PROVE [Future!Next]_Future!vars
    <2>1. Future!Wait(r)
        BY <1>3 DEF CallGetResult, Future!Wait, IInv, TypeOK
    <2>2. QED
        BY <2>1 DEF Future!Next
<1>4. ASSUME NEW r \in Readers, AcquireResult(r)
      PROVE [Future!Next]_Future!vars
    <2>1. ipc = "done"
        BY <1>4 DEF AcquireResult, IInv, LockInv
    <2>2. Future!Return(r)
        BY <1>4, <2>1 DEF AcquireResult, Future!Return, IInv, TypeOK
    <2>3. QED
        BY <2>2 DEF Future!Next
<1>5. ASSUME NEW r \in Readers, ReleaseResult(r)
      PROVE [Future!Next]_Future!vars
    BY <1>5 DEF ReleaseResult, Future!vars, IInv, TypeOK
<1>6. CASE UNCHANGED vars
    BY <1>6 DEF vars, Future!vars
<1>7. QED
    BY <1>1, <1>2, <1>3, <1>4, <1>5, <1>6 DEF Next

(* Every behaviour of the _invokeLock protocol is a behaviour of a one-shot *)
(* future (spec 9): readers wait, invoke's release resolves it once, and a  *)
(* reader returns only from a resolved future.                             *)
THEOREM RefinesResultFuture == Spec => FutureSafety
<1>1. Init => Future!Init
    BY DEF Init, Future!Init
<1>2. QED
    BY <1>1, InitIInv, NextIInv, StepRefines, PTL DEF Spec, FutureSafety

=============================================================================
