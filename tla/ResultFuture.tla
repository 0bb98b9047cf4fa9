--------------------------- MODULE ResultFuture ---------------------------
(***************************************************************************)
(* What the invoke-then-join gate of InbandQueryAction promises (spec 9):  *)
(* a one-shot future.  It is pending when the action is constructed,       *)
(* invoke resolves it once, and getResult blocks until it is resolved and  *)
(* then returns.  A reader waiting on a resolved future is served.         *)
(***************************************************************************)
CONSTANTS Readers

VARIABLES
    resolved,  \* the query has been executed and joined
    waiter     \* waiter[r]: "idle" | "waiting" | "returned"

vars == <<resolved, waiter>>

Init ==
    /\ resolved = FALSE
    /\ waiter = [r \in Readers |-> "idle"]

Resolve ==
    /\ ~resolved
    /\ resolved' = TRUE
    /\ UNCHANGED waiter

Wait(r) ==
    /\ waiter[r] = "idle"
    /\ waiter' = [waiter EXCEPT ![r] = "waiting"]
    /\ UNCHANGED resolved

Return(r) ==
    /\ resolved
    /\ waiter[r] = "waiting"
    /\ waiter' = [waiter EXCEPT ![r] = "returned"]
    /\ UNCHANGED resolved

Next == Resolve \/ \E r \in Readers : Wait(r) \/ Return(r)

Spec == Init /\ [][Next]_vars /\ \A r \in Readers : WF_vars(Return(r))

=============================================================================
