--------------------------- MODULE ComponentsProofs ---------------------------
(***************************************************************************)
(* Theorems about a retried request, for any number of attempts that fail,   *)
(* and about the components of the browser and the migrator side by side:    *)
(* each keeps, whichever moves, what its own proofs say of it.               *)
(***************************************************************************)
EXTENDS MCComponents, OfflineFilesProofs, RealtimeQueryProofs, ProjectMigrationsProofs, TLAPS

-----------------------------------------------------------------------------
(* A request                                                                 *)

\* The server has done what was asked at most once for each attempt that failed, and once more
\* when it has answered one that has not failed.
ServedPerAttempt ==
    served <= lost + (IF place \in {"answered", "returned"} THEN 1 ELSE 0)

\* After a late request the loop comes to its head once more, and ends there.
LateOnce ==
    /\ lateAsks <= 1
    /\ lateAsks = 1 => canceled /\ place \notin {"read", "waiting"}

\* A request is complete only when invoke has ended.
CompleteAtEnd == requestStatus = "complete" => place \in {"returned", "threw"}

RequestInv ==
    /\ RequestTypeOK
    /\ ServedPerAttempt
    /\ LateOnce
    /\ CompleteAtEnd
    /\ NothingOnlyIfCanceled

LEMMA RequestInitInv == RequestInit => RequestInv
<1> SUFFICES ASSUME RequestInit PROVE RequestInv
    OBVIOUS
<1>1. /\ served = 0 /\ lost = 0 /\ lateAsks = 0
      /\ place = "head" /\ requestStatus = "trying" /\ outcome = "none"
    BY DEF RequestInit
<1>2. 0 \in 0 .. MaxAsks /\ 0 \in 0 .. MaxAsks + 1
    BY RequestAssumption
<1>3. RequestTypeOK
    BY <1>1, <1>2, Zenon DEF RequestInit, RequestTypeOK
<1>4. ServedPerAttempt /\ LateOnce /\ CompleteAtEnd /\ NothingOnlyIfCanceled
    BY <1>1 DEF ServedPerAttempt, LateOnce, CompleteAtEnd, NothingOnlyIfCanceled
<1>. QED  BY <1>3, <1>4 DEF RequestInv

LEMMA RequestStep == RequestInv /\ [RequestNext]_requestVars => RequestInv'
<1> SUFFICES ASSUME RequestInv, [RequestNext]_requestVars PROVE RequestInv'
    OBVIOUS
<1> USE RequestAssumption DEF RequestInv, RequestTypeOK, ServedPerAttempt, LateOnce, CompleteAtEnd,
                              NothingOnlyIfCanceled
<1>1. CASE LoopHead
    BY <1>1 DEF LoopHead, AppOnline
<1>2. CASE StatusRead
    BY <1>2 DEF StatusRead
<1>3. CASE UponOnline
    BY <1>3 DEF UponOnline
<1>4. CASE Serve
    BY <1>4 DEF Serve
<1>5. CASE Answer
    BY <1>5 DEF Answer
<1>6. CASE AttemptFails
    BY <1>6 DEF AttemptFails
<1>7. CASE TryAgain
    BY <1>7 DEF TryAgain
<1>8. CASE Cancel
    BY <1>8 DEF Cancel
<1>9. ASSUME NEW online \in BOOLEAN, NEW sock \in {"null", "open", "closed"},
             ConnectionChange(online, sock)
      PROVE  RequestInv'
    BY <1>9 DEF ConnectionChange
<1>10. CASE ConnectionLost \/ BrowserReturns \/ SocketOpens
    BY <1>9, <1>10 DEF ConnectionLost, BrowserReturns, SocketOpens
<1>11. CASE UNCHANGED requestVars
    BY <1>11 DEF requestVars
<1>. QED  BY <1>1, <1>2, <1>3, <1>4, <1>5, <1>6, <1>7, <1>8, <1>10, <1>11 DEF RequestNext

\* The inductive invariant of a request that is sent again and again.
THEOREM RequestInvariance == RequestSpec => []RequestInv
BY RequestInitInv, RequestStep, PTL DEF RequestSpec

\* Each variable keeps its type; the server does what was asked at most once per attempt.
THEOREM RequestTypeCorrect == RequestSpec => []RequestTypeOK
<1>1. RequestInv => RequestTypeOK
    BY DEF RequestInv
<1>. QED  BY <1>1, RequestInvariance, PTL

\* RetryingRequest.cancel: at most one request is sent after it, the one past the head of the loop.
THEOREM LateAskOnce == RequestSpec => []CancelStopsAsking
<1>1. RequestInv => CancelStopsAsking
    BY DEF RequestInv, LateOnce, CancelStopsAsking
<1>. QED  BY <1>1, RequestInvariance, PTL

\* invoke resolves with undefined only after a cancellation, for any number of failures before it.
THEOREM NothingAfterCancel == RequestSpec => []NothingOnlyIfCanceled
<1>1. RequestInv => NothingOnlyIfCanceled
    BY DEF RequestInv
<1>. QED  BY <1>1, RequestInvariance, PTL

-----------------------------------------------------------------------------
(* The components side by side                                               *)

\* The inductive invariants of the components, each over its own variables.
ComponentsInv == FilesTypeOK /\ QueryInv /\ RequestInv /\ MigrationsInv

LEMMA ComponentsBegin == Init => ComponentsInv
<1> SUFFICES ASSUME Init PROVE ComponentsInv
    OBVIOUS
<1>1. FilesInit /\ QueryInit /\ RequestInit /\ MigrationsInit
    BY DEF Init
<1>. QED  BY <1>1, FilesInitType, QueryInitInv, RequestInitInv, MigrationsBegin DEF ComponentsInv

\* A step is one component's, and the others stutter.
LEMMA OneMoves ==
    ASSUME [Next]_vars
    PROVE  /\ [FilesNext]_filesVars /\ [QueryNext]_queryVars
           /\ [RequestNext]_requestVars /\ [MigrationsNext]_migrationVars
BY DEF Next, vars, FilesMove, QueryMoves, RequestMoves, MigratorMoves

LEMMA ComponentsStep == ComponentsInv /\ [Next]_vars => ComponentsInv'
<1> SUFFICES ASSUME ComponentsInv, [Next]_vars PROVE ComponentsInv'
    OBVIOUS
<1>1. /\ [FilesNext]_filesVars /\ [QueryNext]_queryVars
      /\ [RequestNext]_requestVars /\ [MigrationsNext]_migrationVars
    BY OneMoves
<1>. QED  BY <1>1, FilesTypeStep, QueryStep, RequestStep, MigrationsKeep DEF ComponentsInv

\* The variables of each component stay in their types, whichever moves.
THEOREM ComponentsTyped == Spec => []ComponentsTypeOK
<1>1. ComponentsInv => ComponentsTypeOK
    BY DEF ComponentsInv, ComponentsTypeOK, QueryInv, QueryKinds, QueryTypeOK, RequestInv, MigrationsInv
<1>. QED  BY ComponentsBegin, ComponentsStep, <1>1, PTL DEF Spec
=============================================================================
