---------------------------- MODULE QueryAction ----------------------------
(***************************************************************************)
(* The life of one InbandQueryAction (app.py:387-674): the constructor     *)
(* acquires _invokeLock, a threading.Semaphore(1), so that getResult       *)
(* blocks until invoke has run _execAndJoin and released it; getResult     *)
(* acquires and releases it again and returns the result table name.       *)
(*                                                                         *)
(* The constructor's outcome is one of the exits of its try block          *)
(* (app.py:420-431): getDefaultSessionId raised (no C++ session was made,  *)
(* self.sessionId is never set), _prepareForExec raised after newSession   *)
(* (ParseError, QueryHintError or another exception out of planning), or   *)
(* it completed and isValid is TRUE.  Readers are the threads that call    *)
(* getResult; the invoker is the thread that calls invoke.                 *)
(***************************************************************************)
EXTENDS Naturals, FiniteSets

CONSTANTS
    Readers,         \* threads calling getResult
    InvokeInvalid    \* whether invoke is called on an action that is not valid

ASSUME ReadersAssumption == IsFiniteSet(Readers)
ASSUME InvokeAssumption == InvokeInvalid \in BOOLEAN

VARIABLES
    ctor,        \* "running" | "noSession" | "invalid" | "valid"
    sem,         \* the value of _invokeLock
    ipc,         \* invoker: "idle" | "exec" | "release" | "done" | "raised"
    joined,      \* joinSession(self.sessionId) has returned
    discarded,   \* discardSession(self.sessionId) was called
    rpc          \* rpc[r]: "idle" | "acquire" | "release" | "returned"

vars == <<ctor, sem, ipc, joined, discarded, rpc>>

TypeOK ==
    /\ ctor \in {"running", "noSession", "invalid", "valid"}
    /\ sem \in Nat
    /\ ipc \in {"idle", "exec", "release", "done", "raised"}
    /\ joined \in BOOLEAN
    /\ discarded \in BOOLEAN
    /\ rpc \in [Readers -> {"idle", "acquire", "release", "returned"}]

(* Semaphore() starts at 1 (app.py:416).                                   *)
Init ==
    /\ ctor = "running"
    /\ sem = 1
    /\ ipc = "idle"
    /\ joined = FALSE
    /\ discarded = FALSE
    /\ rpc = [r \in Readers |-> "idle"]

HasSession == ctor \in {"invalid", "valid"}
IsValid == ctor = "valid"

-----------------------------------------------------------------------------
(* Faulty variant: the constructor without the acquire of app.py:417.     *)
ConstructNoAcquire ==
    /\ ctor = "running"
    /\ \E outcome \in {"noSession", "invalid", "valid"} : ctor' = outcome
    /\ UNCHANGED <<sem, ipc, joined, discarded, rpc>>

(* __init__ (app.py:393-431): _invokeLock.acquire() before the try block,  *)
(* then one of its exits.                                                  *)
Construct ==
    /\ ctor = "running"
    /\ sem' = sem - 1
    /\ \E outcome \in {"noSession", "invalid", "valid"} : ctor' = outcome
    /\ UNCHANGED <<ipc, joined, discarded, rpc>>

(* The caller starts invoke (app.py:433-436) once the object exists; it    *)
(* calls it on an invalid action only if InvokeInvalid.                    *)
Invoke ==
    /\ ipc = "idle"
    /\ ctor # "running"
    /\ InvokeInvalid \/ IsValid
    /\ ipc' = "exec"
    /\ UNCHANGED <<ctor, sem, joined, discarded, rpc>>

(* _execAndJoin (app.py:579-597): submitQuery3 and joinSession on          *)
(* self.sessionId, discardSession when the action is not valid.  Without a *)
(* session, reading self.sessionId raises AttributeError, which leaves     *)
(* invoke before its release.                                              *)
ExecAndJoin ==
    /\ ipc = "exec"
    /\ IF HasSession
       THEN /\ joined' = TRUE
            /\ discarded' = ~IsValid
            /\ ipc' = "release"
       ELSE /\ ipc' = "raised"
            /\ UNCHANGED <<joined, discarded>>
    /\ UNCHANGED <<ctor, sem, rpc>>

(* Faulty variant: invoke without the release of app.py:436.              *)
ReleaseInvokeDropped ==
    /\ ipc = "release"
    /\ ipc' = "done"
    /\ UNCHANGED <<ctor, sem, joined, discarded, rpc>>

(* self._invokeLock.release() (app.py:436).                                *)
ReleaseInvoke ==
    /\ ipc = "release"
    /\ sem' = sem + 1
    /\ ipc' = "done"
    /\ UNCHANGED <<ctor, joined, discarded, rpc>>

(* A reader calls getResult (app.py:445-452) on the constructed action.    *)
CallGetResult(r) ==
    /\ rpc[r] = "idle"
    /\ ctor # "running"
    /\ rpc' = [rpc EXCEPT ![r] = "acquire"]
    /\ UNCHANGED <<ctor, sem, ipc, joined, discarded>>

(* Faulty variant: acquire(False), which does not block, its result unused.*)
AcquireResultNonBlocking(r) ==
    /\ rpc[r] = "acquire"
    /\ sem' = sem - 1
    /\ rpc' = [rpc EXCEPT ![r] = "release"]
    /\ UNCHANGED <<ctor, ipc, joined, discarded>>

(* self._invokeLock.acquire() blocks while the semaphore is 0 (app.py:449).*)
AcquireResult(r) ==
    /\ rpc[r] = "acquire"
    /\ sem > 0
    /\ sem' = sem - 1
    /\ rpc' = [rpc EXCEPT ![r] = "release"]
    /\ UNCHANGED <<ctor, ipc, joined, discarded>>

(* release() and return self._resultName (app.py:451-452).                 *)
ReleaseResult(r) ==
    /\ rpc[r] = "release"
    /\ sem' = sem + 1
    /\ rpc' = [rpc EXCEPT ![r] = "returned"]
    /\ UNCHANGED <<ctor, ipc, joined, discarded>>

Next ==
    \/ Construct
    \/ Invoke
    \/ ExecAndJoin
    \/ ReleaseInvoke
    \/ \E r \in Readers :
          CallGetResult(r) \/ AcquireResult(r) \/ ReleaseResult(r)

(* Once started, invoke runs to its end, a reader holding the semaphore    *)
(* releases it, and a blocked acquire that the semaphore is repeatedly     *)
(* free for succeeds (threading.Semaphore wakes a waiter on release).      *)
(* Nothing forces the caller to invoke or a reader to call getResult.      *)
Fairness ==
    /\ WF_vars(Construct)
    /\ WF_vars(ExecAndJoin)
    /\ WF_vars(ReleaseInvoke)
    /\ \A r \in Readers : SF_vars(AcquireResult(r)) /\ WF_vars(ReleaseResult(r))

Spec == Init /\ [][Next]_vars /\ Fairness

-----------------------------------------------------------------------------
(* getResult never returns the result table name of a query that has not  *)
(* been executed and joined: a reader gets past the semaphore only after   *)
(* _execAndJoin finished.                                                  *)
ResultAfterJoin ==
    \A r \in Readers : rpc[r] \in {"release", "returned"} => joined

(* spec 9: once invoke has been called, every getResult call returns.      *)
ReadersReturn ==
    \A r \in Readers :
        (rpc[r] = "acquire" /\ ipc # "idle") ~> rpc[r] = "returned"

-----------------------------------------------------------------------------
(* Refinement mapping onto ResultFuture: the future is resolved by invoke's *)
(* release, and a reader has returned once it got past the semaphore.      *)
Future == INSTANCE ResultFuture
            WITH resolved <- ipc = "done",
                 waiter <- [r \in Readers |->
                              CASE rpc[r] = "idle"    -> "idle"
                                [] rpc[r] = "acquire" -> "waiting"
                                [] OTHER              -> "returned"]

(* spec 9: the _invokeLock protocol implements a one-shot future: no reader *)
(* passes the semaphore before invoke released it after the join, invoke    *)
(* resolves it at most once, and a reader blocked in getResult on a         *)
(* released semaphore is eventually served.                                *)
ImplementsResultFuture == Future!Spec

=============================================================================
