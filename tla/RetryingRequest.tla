--------------------------- MODULE RetryingRequest ----------------------------
(***************************************************************************)
(* One RetryingRequest over CommandService and OnlineStatusService: a        *)
(* command sent again and again until the server has answered, or the        *)
(* component that asked is gone.                                             *)
(*                                                                           *)
(* The browser's and the socket's connections come and go meanwhile, the      *)
(* request is cancelled at any moment, and an answer may be lost after the    *)
(* server has done what was asked.                                           *)
(***************************************************************************)
EXTENDS Integers

CONSTANT MaxAsks  \* bound: requests that fail, or are asked for nothing

ASSUME RequestAssumption == MaxAsks \in Nat

VARIABLES
    browserOnline, \* navigator.onLine, through its events
    socket,        \* webSocketStatus$: "null" until it has first connected or failed
    place,         \* where invoke is
    sawOnline,     \* the status read at the head of the loop
    requestStatus, \* the status the user is shown
    canceled,      \* the cancel observable has fired
    outcome,       \* what the promise resolves with or throws
    served,        \* the times the server has done what was asked
    lost,          \* attempts that failed so far
    lateAsks       \* ghost: requests sent after the cancellation

requestVars == <<browserOnline, socket, place, sawOnline, requestStatus, canceled, outcome, served,
                 lost, lateAsks>>

AppOnlineUntilSocket == browserOnline /\ socket = "null"  \* seeded: an open socket is not on line
AppOnline == browserOnline /\ socket # "closed"

RequestTypeOK ==
    /\ browserOnline \in BOOLEAN /\ socket \in {"null", "open", "closed"}
    /\ place \in {"head", "read", "waiting", "asking", "answered", "refused", "pausing", "returned",
                  "threw"}
    /\ sawOnline \in BOOLEAN /\ canceled \in BOOLEAN
    /\ requestStatus \in {"offline", "trying", "complete", "canceled"}
    /\ outcome \in {"none", "result", "error"}
    /\ served \in 0 .. MaxAsks + 1 /\ lost \in 0 .. MaxAsks
    /\ lateAsks \in 0 .. MaxAsks + 1

RequestInit ==
    /\ browserOnline \in BOOLEAN /\ socket \in {"null", "closed"}
    /\ place = "head" /\ sawOnline = FALSE
    /\ requestStatus = "trying" /\ canceled = FALSE
    /\ outcome = "none"
    /\ served = 0 /\ lost = 0 /\ lateAsks = 0

\* The loop goes on, with the status there is now.
LoopHeadOnce ==  \* seeded: the loop ends when off line
    /\ place = "head"
    /\ IF requestStatus # "trying" THEN place' = "returned" /\ UNCHANGED sawOnline
       ELSE place' = "read" /\ sawOnline' = AppOnline
    /\ UNCHANGED <<browserOnline, socket, requestStatus, canceled, outcome, served, lost, lateAsks>>
LoopHeadForever ==  \* seeded: the cancellation is not looked at
    /\ place = "head"
    /\ place' = "read" /\ sawOnline' = AppOnline
    /\ UNCHANGED <<browserOnline, socket, requestStatus, canceled, outcome, served, lost, lateAsks>>
LoopHead ==
    /\ place = "head"
    /\ IF canceled \/ requestStatus = "complete"
       THEN place' = "returned" /\ UNCHANGED sawOnline
       ELSE place' = "read" /\ sawOnline' = AppOnline
    /\ UNCHANGED <<browserOnline, socket, requestStatus, canceled, outcome, served, lost, lateAsks>>

\* The status read decides, though the request may have been cancelled since.
StatusRead ==
    /\ place = "read"
    /\ IF sawOnline
       THEN /\ place' = "asking" /\ requestStatus' = "trying"
            /\ lateAsks' = lateAsks + (IF canceled THEN 1 ELSE 0)
       ELSE place' = "waiting" /\ requestStatus' = "offline" /\ UNCHANGED lateAsks
    /\ UNCHANGED <<browserOnline, socket, sawOnline, canceled, outcome, served, lost>>

UponOnline ==
    /\ place = "waiting" /\ AppOnline
    /\ place' = "head"
    /\ UNCHANGED <<browserOnline, socket, sawOnline, requestStatus, canceled, outcome, served, lost,
                   lateAsks>>

\* The server does what it is asked, or refuses.
Serve ==
    /\ place = "asking" /\ browserOnline
    /\ \/ place' = "answered" /\ served' = served + 1
       \/ place' = "refused" /\ UNCHANGED served
    /\ UNCHANGED <<browserOnline, socket, sawOnline, requestStatus, canceled, outcome, lost, lateAsks>>

\* A result, or an error that is the server's: isNetworkError tells them by the code.
Answer ==
    /\ place \in {"answered", "refused"} /\ browserOnline
    /\ requestStatus' = "complete"
    /\ IF place = "answered" THEN place' = "returned" /\ outcome' = "result"
                             ELSE place' = "threw" /\ outcome' = "error"
    /\ UNCHANGED <<browserOnline, socket, sawOnline, canceled, served, lost, lateAsks>>

\* The request, or its answer, is lost, or the error has no code of the server's.
AttemptFails ==
    /\ place \in {"asking", "answered", "refused"} /\ lost < MaxAsks
    /\ place' = "pausing" /\ lost' = lost + 1
    /\ UNCHANGED <<browserOnline, socket, sawOnline, requestStatus, canceled, outcome, served, lateAsks>>

\* retryMs have passed.
TryAgain ==
    /\ place = "pausing" /\ place' = "head"
    /\ UNCHANGED <<browserOnline, socket, sawOnline, requestStatus, canceled, outcome, served, lost,
                   lateAsks>>

Cancel ==
    /\ ~canceled /\ canceled' = TRUE
    /\ requestStatus' = "canceled"
    /\ UNCHANGED <<browserOnline, socket, place, sawOnline, outcome, served, lost, lateAsks>>

\* Events of the browser, which wait until the loop awaits one itself: unlike a cancellation, that
\* another promise's continuation may make.
ConnectionChange(online, sock) ==
    /\ place \notin {"head", "read"}
    /\ browserOnline' = online /\ socket' = sock
    /\ UNCHANGED <<place, sawOnline, requestStatus, canceled, outcome, served, lost, lateAsks>>

ConnectionLost ==
    \/ browserOnline /\ ConnectionChange(FALSE, socket)
    \/ socket # "closed" /\ ConnectionChange(browserOnline, "closed")
BrowserReturns == ~browserOnline /\ ConnectionChange(TRUE, socket)
SocketOpens == browserOnline /\ socket # "open" /\ ConnectionChange(browserOnline, "open")

RequestNext ==
    \/ LoopHead \/ StatusRead \/ UponOnline \/ Serve \/ Answer \/ AttemptFails \/ TryAgain
    \/ Cancel \/ ConnectionLost \/ BrowserReturns \/ SocketOpens

\* Connections come back, again and again; the loop and the timer run; of the requests sent and
\* the answers waited for while there is a connection, not all are lost.
RequestFairness ==
    /\ WF_requestVars(LoopHead \/ StatusRead \/ TryAgain)
    /\ SF_requestVars(UponOnline) /\ SF_requestVars(Serve) /\ SF_requestVars(Answer)
    /\ WF_requestVars(BrowserReturns) /\ SF_requestVars(SocketOpens)

RequestSpec == RequestInit /\ [][RequestNext]_requestVars /\ RequestFairness

-----------------------------------------------------------------------------

\* A request that nobody wants any more is sent at most once: it was on the way out, past the
\* head of the loop, when the cancellation came.
CancelStopsAsking == lateAsks <= 1

\* The promise resolves with nothing only for a component that has cancelled.
NothingOnlyIfCanceled == place = "returned" /\ outcome = "none" => canceled

\* The promise is settled, whatever connections and answers are lost.
RequestSettles == (place = "read") ~> (place \in {"returned", "threw"})
=============================================================================
