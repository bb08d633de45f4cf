----------------------------- MODULE EditDelivery -----------------------------
(***************************************************************************)
(* What a browser promises of the edits made in it, without saying how: what *)
(* the user has typed is in the page until it closes; what has been kept      *)
(* outlives the page, is shown again by the next, and is there until the      *)
(* server has it; and the server is given only what has been kept, once.      *)
(***************************************************************************)
EXTENDS Sequences

CONSTANTS Edits, OtherEdits

VARIABLES
    shown, \* the edits the user sees
    kept,  \* the edits the browser keeps for the server
    log    \* the sets of edits the server has applied, in order

vars == <<shown, kept, log>>

Delivered == UNION {log[i] : i \in DOMAIN log}

Init == shown = {} /\ kept = {} /\ log = <<>>

\* The user makes an edit, on line or off line.
Make(e) == /\ e \notin shown \cup kept \cup Delivered
           /\ shown' = shown \cup {e}
           /\ UNCHANGED <<kept, log>>

\* The browser keeps some of what is shown, besides what it keeps.
Keep(new) == kept' = kept \cup new /\ UNCHANGED <<shown, log>>

\* The server applies some of what is kept, and it need be kept no longer.
Deliver(new) == /\ log' = Append(log, new)
                /\ kept' = kept \ new
                /\ UNCHANGED shown

\* Another user's edit is applied.
OtherEdit(e) == /\ e \notin Delivered
                /\ log' = Append(log, {e})
                /\ UNCHANGED <<shown, kept>>

\* The page is told of some of what the server has.
Receive(known) == shown' = shown \cup known /\ UNCHANGED <<kept, log>>

\* The page closes; opened again, it shows all that was kept, and what the browser knew the server had.
Close == shown' = {} /\ UNCHANGED <<kept, log>>
Reopen(known) == shown = {} /\ shown' = kept \cup known /\ UNCHANGED <<kept, log>>

Next ==
    \/ \E e \in Edits : Make(e)
    \/ \E new \in SUBSET (shown \ Delivered) : Keep(new)
    \/ \E new \in SUBSET kept : Deliver(new)
    \/ \E e \in OtherEdits : OtherEdit(e)
    \/ \E known \in SUBSET Delivered : Receive(known) \/ Reopen(known)
    \/ Close

Spec == Init /\ [][Next]_vars

=============================================================================
