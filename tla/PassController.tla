--------------------------- MODULE PassController ---------------------------
(***************************************************************************)
(* What main() promises about the saved cache (/tmp/db.json) across the    *)
(* passes the supervisor starts, whatever a pass does to the host:         *)
(*   - a pass starts only while the saved counter is at most MaxFailCount; *)
(*   - the file is written only when a pass ends, never while it runs and  *)
(*     never by a killed pass;                                             *)
(*   - writing it is two steps, truncation then the new document; a kill   *)
(*     between them leaves it unreadable, and no pass starts again;        *)
(*   - a pass that ended in a caught error saves the counter plus one; a   *)
(*     success keeps it or resets it; an error that escapes the except     *)
(*     clause keeps it or counts it (the code keeps it; section 7 of the   *)
(*     spec counts it).                                                    *)
(* The rest of the saved document is not constrained here.                 *)
(***************************************************************************)
EXTENDS Naturals

CONSTANT MaxFailCount

VARIABLES
    store,  \* the saved document; store.failed is the counter
    phase,  \* Idle, Running, or how the pass ended: Succeeded, Failed, Escaped
    readable \* the file holds a complete document

Ended == {"Succeeded", "Failed", "Escaped"}

Init == phase = "Idle" /\ store.failed = 0 /\ readable = TRUE

Begin ==
    /\ phase = "Idle" /\ readable /\ store.failed <= MaxFailCount
    /\ phase' = "Running"
    /\ UNCHANGED <<store, readable>>

Finish ==
    /\ phase = "Running"
    /\ phase' \in Ended
    /\ UNCHANGED <<store, readable>>

Truncate ==
    /\ phase \in Ended /\ readable
    /\ readable' = FALSE
    /\ UNCHANGED <<store, phase>>

Save ==
    /\ phase \in Ended /\ ~readable
    /\ store'.failed \in CASE phase = "Failed"    -> {store.failed + 1}
                          [] phase = "Succeeded" -> {store.failed, 0}
                          [] OTHER               -> {store.failed, store.failed + 1}
    /\ phase' = "Idle"
    /\ readable' = TRUE

Kill ==
    /\ phase # "Idle"
    /\ phase' = "Idle"
    /\ UNCHANGED <<store, readable>>

Next == Begin \/ Finish \/ Truncate \/ Save \/ Kill

Spec == Init /\ [][Next]_<<store, phase, readable>>

=============================================================================
