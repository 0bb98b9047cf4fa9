--------------------------- MODULE MetadataCache ---------------------------
(***************************************************************************)
(* The process-wide default metadata-cache session of the qserv master     *)
(* (app.py:190-290): MetadataCacheIface.getDefaultSessionId, called by the *)
(* constructor of every InbandQueryAction (app.py:421), creates the session*)
(* on first use: newMetadataSession() allocates a C++ cache, _fetchAllData *)
(* fills it with one qms round trip per database (retrieveDbInfo, then the *)
(* tables), and only then is the id stored in the module global.  The test *)
(* of the global and its assignment are not guarded by a lock, and the qms *)
(* calls between them release the interpreter to other threads.           *)
(*                                                                         *)
(* A thread here is one constructor running getDefaultSessionId; each qms  *)
(* round trip for one database (_addDb and its _addTable calls) is a step, *)
(* and any of them may raise QmsException (qms unreachable, an unknown     *)
(* partitioning strategy, or a non-zero return of the C++ add).            *)
(***************************************************************************)
EXTENDS Naturals, Sequences, FiniteSets

CONSTANTS
    Threads,      \* threads constructing an InbandQueryAction
    Dbs,          \* databases qmsClient.listDbs() returns
    None          \* _defaultMetadataCacheSessionId before initialisation

ASSUME ThreadsAssumption == IsFiniteSet(Threads) /\ Threads # {}
ASSUME DbsAssumption == IsFiniteSet(Dbs)

(* Session ids newMetadataSession() hands out: one per thread at most.     *)
SessionIds == 1..Cardinality(Threads)

ASSUME NoneAssumption == None \notin SessionIds

VARIABLES
    defaultId,  \* the global _defaultMetadataCacheSessionId
    nextId,     \* the next id newMetadataSession() returns
    cache,      \* cache[s]: databases added to C++ metadata session s
    pc,         \* pc[t]: where thread t is in getDefaultSessionId
    sid,        \* sid[t]: the session newSession() created for t
    result      \* result[t]: the id getDefaultSessionId returned to t

vars == <<defaultId, nextId, cache, pc, sid, result>>

Pc == {"check", "fetch", "assign", "return", "done", "failed"}

TypeOK ==
    /\ defaultId \in SessionIds \cup {None}
    /\ nextId \in 1..Cardinality(Threads) + 1
    /\ cache \in [SessionIds -> SUBSET Dbs]
    /\ pc \in [Threads -> Pc]
    /\ sid \in [Threads -> SessionIds \cup {None}]
    /\ result \in [Threads -> SessionIds \cup {None}]

Init ==
    /\ defaultId = None
    /\ nextId = 1
    /\ cache = [s \in SessionIds |-> {}]
    /\ pc = [t \in Threads |-> "check"]
    /\ sid = [t \in Threads |-> None]
    /\ result = [t \in Threads |-> None]

-----------------------------------------------------------------------------
(* "if _defaultMetadataCacheSessionId is None" (app.py:204).  A session    *)
(* already there is returned at once (app.py:207).                         *)
CheckDefault(t) ==
    /\ pc[t] = "check"
    /\ defaultId # None
    /\ result' = [result EXCEPT ![t] = defaultId]
    /\ pc' = [pc EXCEPT ![t] = "done"]
    /\ UNCHANGED <<defaultId, nextId, cache, sid>>

(* Faulty variant: the new id is published before the cache is filled.   *)
NewSessionPublishing(t) ==
    /\ pc[t] = "check"
    /\ defaultId = None
    /\ sid' = [sid EXCEPT ![t] = nextId]
    /\ nextId' = nextId + 1
    /\ defaultId' = nextId
    /\ pc' = [pc EXCEPT ![t] = "fetch"]
    /\ UNCHANGED <<cache, result>>

(* Otherwise newSession(): newMetadataSession() allocates an empty C++     *)
(* session (app.py:209-212) and _fetchAllData starts on it.                *)
NewSession(t) ==
    /\ pc[t] = "check"
    /\ defaultId = None
    /\ sid' = [sid EXCEPT ![t] = nextId]
    /\ nextId' = nextId + 1
    /\ pc' = [pc EXCEPT ![t] = "fetch"]
    /\ UNCHANGED <<defaultId, cache, result>>

(* One database of _fetchAllData (app.py:227-233): _addDb (235-258) and   *)
(* the _addTable calls for its tables (259-282), which fill the session.   *)
AddDb(t) ==
    /\ pc[t] = "fetch"
    /\ \E d \in Dbs \ cache[sid[t]] :
          cache' = [cache EXCEPT ![sid[t]] = @ \cup {d}]
    /\ UNCHANGED <<defaultId, nextId, pc, sid, result>>

(* Faulty variant: a failed fetch retried from the start of               *)
(* getDefaultSessionId, allocating another session.                        *)
FetchFailsRetries(t) ==
    /\ pc[t] = "fetch"
    /\ pc' = [pc EXCEPT ![t] = "check"]
    /\ UNCHANGED <<defaultId, nextId, cache, sid, result>>

(* QmsException out of _addDb/_addTable (app.py:250-257, 283-290) or the  *)
(* qms client: it leaves newSession, the global is not assigned, and the   *)
(* half-filled session is never discarded.  Once the last database is in,  *)
(* _fetchAllData has returned and nothing of it is left to raise.          *)
FetchFails(t) ==
    /\ pc[t] = "fetch"
    /\ cache[sid[t]] # Dbs
    /\ pc' = [pc EXCEPT ![t] = "failed"]
    /\ UNCHANGED <<defaultId, nextId, cache, sid, result>>

(* newSession returns once every database is in (app.py:218-219).         *)
FetchDone(t) ==
    /\ pc[t] = "fetch"
    /\ cache[sid[t]] = Dbs
    /\ pc' = [pc EXCEPT ![t] = "assign"]
    /\ UNCHANGED <<defaultId, nextId, cache, sid, result>>

(* _defaultMetadataCacheSessionId = self.newSession() (app.py:205).        *)
AssignDefault(t) ==
    /\ pc[t] = "assign"
    /\ defaultId' = sid[t]
    /\ pc' = [pc EXCEPT ![t] = "return"]
    /\ UNCHANGED <<nextId, cache, sid, result>>

(* printSession(global) and "return _defaultMetadataCacheSessionId"        *)
(* (app.py:206-207): the global is read again here.                        *)
ReturnDefault(t) ==
    /\ pc[t] = "return"
    /\ result' = [result EXCEPT ![t] = defaultId]
    /\ pc' = [pc EXCEPT ![t] = "done"]
    /\ UNCHANGED <<defaultId, nextId, cache, sid>>

Next ==
    \E t \in Threads :
        \/ CheckDefault(t)
        \/ NewSession(t)
        \/ AddDb(t)
        \/ FetchFails(t)
        \/ FetchDone(t)
        \/ AssignDefault(t)
        \/ ReturnDefault(t)

Spec == Init /\ [][Next]_vars

-----------------------------------------------------------------------------
(* Every query whose constructor obtained a metadata session plans against *)
(* a session holding every database: no caller ever sees a session that    *)
(* another caller is still filling, or that a failed fetch left half-full. *)
ReturnedSessionComplete ==
    \A t \in Threads : pc[t] = "done" => cache[result[t]] = Dbs

(* _defaultMetadataCacheSessionId is only ever assigned the id of a       *)
(* session whose _fetchAllData completed, and is never reset: however the  *)
(* racing first callers overwrite each other (app.py:204-205), every later *)
(* caller that finds the global set reads a complete session.              *)
DefaultOnlyComplete ==
    [][defaultId' # defaultId =>
           defaultId' \in SessionIds /\ cache'[defaultId'] = Dbs]_vars

(* spec 5 and 9: the metadata is fetched at most once per process;         *)
(* concurrent first callers do not each fetch it.                          *)
NoDuplicateFetch ==
    Cardinality({t \in Threads : pc[t] \in {"assign", "return", "done"}
                                   /\ sid[t] # None}) <= 1

=============================================================================
