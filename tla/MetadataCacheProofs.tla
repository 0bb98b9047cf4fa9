------------------------ MODULE MetadataCacheProofs ------------------------
(***************************************************************************)
(* Proofs about getDefaultSessionId (MetadataCache) for any finite set of   *)
(* threads and databases: the session ids newMetadataSession() hands out    *)
(* stay within one per thread, and whatever the interleaving and whichever  *)
(* qms calls fail, every id the function returns names a fully populated    *)
(* metadata session.                                                       *)
(***************************************************************************)
EXTENDS MetadataCache, FiniteSetTheorems, TLAPS

(* The threads that have had a session allocated.                          *)
Issued == {t \in Threads : sid[t] # None}

(* newMetadataSession() has been called once per issued thread; a thread  *)
(* leaving _fetchAllData normally holds a full session; the global and     *)
(* every returned id only ever name full sessions.                         *)
SessionInv ==
    /\ nextId = Cardinality(Issued) + 1
    /\ \A t \in Threads :
          /\ pc[t] = "check" => sid[t] = None
          /\ pc[t] \in {"fetch", "assign", "return"} => sid[t] \in SessionIds
          /\ pc[t] \in {"assign", "return"} => cache[sid[t]] = Dbs
          /\ pc[t] = "return" => defaultId \in SessionIds
          /\ pc[t] = "done" => result[t] \in SessionIds /\ cache[result[t]] = Dbs
    /\ defaultId # None => cache[defaultId] = Dbs

IInv == TypeOK /\ SessionInv

LEMMA IssuedFinite == IsFiniteSet(Issued)
BY ThreadsAssumption, FS_Subset DEF Issued

(* _fetchAllData only adds databases: a full session stays full.           *)
LEMMA FullStaysFull ==
    ASSUME TypeOK, [Next]_vars, NEW s \in SessionIds, cache[s] = Dbs
    PROVE  cache'[s] = Dbs
<1>1. ASSUME NEW t \in Threads, AddDb(t) PROVE cache'[s] = Dbs
    <2>1. PICK d \in Dbs \ cache[sid[t]] :
                 cache' = [cache EXCEPT ![sid[t]] = @ \cup {d}]
        BY <1>1 DEF AddDb
    <2>2. sid[t] # s
        BY <2>1
    <2>3. QED
        BY <2>1, <2>2 DEF TypeOK
<1>2. QED
    BY <1>1 DEF Next, vars, CheckDefault, NewSession, FetchFails, FetchDone,
                AssignDefault, ReturnDefault

LEMMA InitIInv == Init => IInv
<1> SUFFICES ASSUME Init PROVE IInv
    OBVIOUS
<1>1. Issued = {}
    BY DEF Init, Issued
<1>2. Cardinality(Issued) = 0
    BY <1>1, FS_EmptySet
<1>3. Cardinality(Threads) \in Nat
    BY ThreadsAssumption, FS_CardinalityType
<1>4. TypeOK
    BY <1>3 DEF Init, TypeOK, Pc, SessionIds
<1>5. SessionInv
    BY <1>2 DEF Init, SessionInv
<1>6. QED
    BY <1>4, <1>5 DEF IInv

(* newSession(): the id handed out is within SessionIds because the thread *)
(* had none yet, and the count of issued threads grows by one.             *)
LEMMA NewSessionIInv ==
    ASSUME IInv, NEW t \in Threads, NewSession(t) PROVE IInv'
<1>1. sid[t] = None /\ t \notin Issued
    BY DEF NewSession, IInv, SessionInv, Issued
<1>2. Cardinality(Issued \cup {t}) = Cardinality(Issued) + 1
    BY <1>1, IssuedFinite, FS_AddElement
<1>3. Cardinality(Issued \cup {t}) <= Cardinality(Threads)
    BY ThreadsAssumption, FS_Subset DEF Issued
<1>4. Cardinality(Issued) \in Nat
    BY IssuedFinite, FS_CardinalityType
<1>5. nextId \in SessionIds
    BY <1>2, <1>3, <1>4 DEF IInv, SessionInv, SessionIds
<1>6. Issued' = Issued \cup {t}
    BY <1>5, NoneAssumption DEF NewSession, Issued, IInv, TypeOK
<1>7. TypeOK'
    <2>1. nextId' \in 1..Cardinality(Threads) + 1
        BY <1>5, ThreadsAssumption, FS_CardinalityType DEF NewSession, SessionIds
    <2>2. sid' \in [Threads -> SessionIds \cup {None}]
        BY <1>5 DEF NewSession, IInv, TypeOK
    <2>3. pc' \in [Threads -> Pc]
        BY DEF NewSession, IInv, TypeOK, Pc
    <2>4. QED
        BY <2>1, <2>2, <2>3 DEF NewSession, IInv, TypeOK
<1>8. SessionInv'
    BY <1>2, <1>5, <1>6 DEF NewSession, IInv, TypeOK, SessionInv
<1>9. QED
    BY <1>7, <1>8 DEF IInv

LEMMA NextIInv == IInv /\ [Next]_vars => IInv'
<1> SUFFICES ASSUME IInv, [Next]_vars PROVE IInv'
    OBVIOUS
<1>1. \A s \in SessionIds : cache[s] = Dbs => cache'[s] = Dbs
    BY FullStaysFull DEF IInv
<1>2. ASSUME NEW t \in Threads, CheckDefault(t) PROVE IInv'
    <2>1. Issued' = Issued
        BY <1>2 DEF CheckDefault, Issued
    <2>2. QED
        BY <1>2, <2>1 DEF CheckDefault, IInv, TypeOK, SessionInv, Pc
<1>3. ASSUME NEW t \in Threads, NewSession(t) PROVE IInv'
    BY <1>3, NewSessionIInv
<1>4. ASSUME NEW t \in Threads, AddDb(t) PROVE IInv'
    <2>1. Issued' = Issued
        BY <1>4 DEF AddDb, Issued
    <2>2. TypeOK'
        BY <1>4 DEF AddDb, IInv, TypeOK, SessionInv
    <2>3. SessionInv'
        BY <1>1, <1>4, <2>1 DEF AddDb, IInv, TypeOK, SessionInv
    <2>4. QED
        BY <2>2, <2>3 DEF IInv
<1>5. ASSUME NEW t \in Threads, FetchFails(t) PROVE IInv'
    <2>1. Issued' = Issued
        BY <1>5 DEF FetchFails, Issued
    <2>2. QED
        BY <1>5, <2>1 DEF FetchFails, IInv, TypeOK, SessionInv, Pc
<1>6. ASSUME NEW t \in Threads, FetchDone(t) PROVE IInv'
    <2>1. Issued' = Issued
        BY <1>6 DEF FetchDone, Issued
    <2>2. QED
        BY <1>6, <2>1 DEF FetchDone, IInv, TypeOK, SessionInv, Pc
<1>7. ASSUME NEW t \in Threads, AssignDefault(t) PROVE IInv'
    <2>1. Issued' = Issued
        BY <1>7 DEF AssignDefault, Issued
    <2>2. QED
        BY <1>7, <2>1 DEF AssignDefault, IInv, TypeOK, SessionInv, Pc
<1>8. ASSUME NEW t \in Threads, ReturnDefault(t) PROVE IInv'
    <2>1. Issued' = Issued
        BY <1>8 DEF ReturnDefault, Issued
    <2>2. QED
        BY <1>8, <2>1, NoneAssumption
        DEF ReturnDefault, IInv, TypeOK, SessionInv, Pc
<1>9. CASE UNCHANGED vars
    <2>1. Issued' = Issued
        BY <1>9 DEF vars, Issued
    <2>2. QED
        BY <1>9, <2>1 DEF vars, IInv, TypeOK, SessionInv
<1>10. QED
    BY <1>2, <1>3, <1>4, <1>5, <1>6, <1>7, <1>8, <1>9 DEF Next

(* Every variable keeps its type; in particular newMetadataSession() never *)
(* hands out more ids than there are constructing threads.                 *)
THEOREM MetadataCacheTypeCorrect == Spec => []TypeOK
<1>1. IInv => TypeOK
    BY DEF IInv
<1>2. QED
    BY <1>1, InitIInv, NextIInv, PTL DEF Spec

(* No constructor obtains a metadata session that another thread is still  *)
(* filling or that a failed _fetchAllData left half-full, despite the      *)
(* unlocked check-then-act and the re-read of the global (app.py:204-207). *)
THEOREM ReturnedSessionsComplete == Spec => []ReturnedSessionComplete
<1>1. IInv => ReturnedSessionComplete
    BY DEF IInv, SessionInv, ReturnedSessionComplete
<1>2. QED
    BY <1>1, InitIInv, NextIInv, PTL DEF Spec

(* One step: only AssignDefault writes the global, and it writes the id of *)
(* the thread's own session, which SessionInv' says is complete.           *)
LEMMA DefaultStep ==
    ASSUME IInv, IInv', [Next]_vars
    PROVE  defaultId' # defaultId =>
               defaultId' \in SessionIds /\ cache'[defaultId'] = Dbs
<1> SUFFICES ASSUME defaultId' # defaultId
             PROVE  defaultId' \in SessionIds /\ cache'[defaultId'] = Dbs
    OBVIOUS
<1>1. PICK t \in Threads : AssignDefault(t)
    BY DEF Next, vars, CheckDefault, NewSession, AddDb, FetchFails, FetchDone,
           ReturnDefault
<1>2. defaultId' \in SessionIds
    BY <1>1 DEF AssignDefault, IInv, SessionInv
<1>3. QED
    BY <1>2, NoneAssumption DEF IInv, SessionInv

(* The global default session id only ever changes to the id of a session  *)
(* that _fetchAllData filled completely, and never back to None, whatever  *)
(* the interleaving of the racing first callers (app.py:204-205).          *)
THEOREM DefaultOnlyCompleteHolds == Spec => DefaultOnlyComplete
<1>1. Spec => []IInv
    BY InitIInv, NextIInv, PTL DEF Spec
<1>2. QED
    BY <1>1, DefaultStep, PTL DEF Spec, DefaultOnlyComplete

=============================================================================
