----------------------------- MODULE EditExchange -----------------------------
(***************************************************************************)
(* What a project's synchronization promises, without saying how: edits     *)
(* made in Scripture Forge and in Paratext travel to the other side, none   *)
(* is ever lost on either, and the revision the project records as synced   *)
(* holds nothing Scripture Forge has not imported.                          *)
(***************************************************************************)
CONSTANTS SfEdits, PtEdits

VARIABLES
    sf,     \* the edits in the Scripture Forge texts
    server, \* the edits in the Paratext server's head revision
    synced  \* the revision, a set of edits, the project is recorded as synced to

vars == <<sf, server, synced>>

Init == sf = {} /\ server = {} /\ synced = {}

EditInSf(e) == sf' = sf \cup {e} /\ UNCHANGED <<server, synced>>

EditInParatext(e) == server' = server \cup {e} /\ UNCHANGED <<sf, synced>>

\* Some of Scripture Forge's edits reach the server.
Share == /\ \E new \in SUBSET sf : server' = server \cup new
         /\ UNCHANGED <<sf, synced>>

\* Some of the server's edits reach Scripture Forge.
Import == /\ \E new \in SUBSET server : sf' = sf \cup new
          /\ UNCHANGED <<server, synced>>

\* The project is recorded as synced to a later revision, imported and shared.
Record == /\ synced' \in SUBSET (sf \cap server)
          /\ synced \subseteq synced'
          /\ UNCHANGED <<sf, server>>

Next == \/ \E e \in SfEdits : EditInSf(e)
        \/ \E e \in PtEdits : EditInParatext(e)
        \/ Share \/ Import \/ Record

Spec == Init /\ [][Next]_vars

=============================================================================
