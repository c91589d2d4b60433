------------------------- MODULE NotificationManager -------------------------
(***************************************************************************)
(* What App.WatchNotifications promises its caller, without the polling,   *)
(* the goroutine or the context: once the app is ready it returns a        *)
(* manager, which either watches the backend or does nothing; a watching   *)
(* manager hands every notification to the callback, in order, until it is *)
(* stopped; a stopped manager ends.                                        *)
(***************************************************************************)
EXTENDS Naturals

CONSTANT MaxNotify

VARIABLES
    ready,      \* the app has finished start-up
    state,      \* "waiting", "watching", "idle", "stopped", "ended"
    published,  \* notifications the backend sent
    delivered   \* notifications handed to the callback

vars == <<ready, state, published, delivered>>

Init ==
    /\ ready = FALSE
    /\ state = "waiting"
    /\ published = 0
    /\ delivered = 0

BecomeReady ==
    /\ ~ready
    /\ ready' = TRUE
    /\ UNCHANGED <<state, published, delivered>>

\* WatchNotifications returns, never before the app is ready.
Return ==
    /\ ready /\ state = "waiting"
    /\ state' \in {"watching", "idle"}
    /\ UNCHANGED <<ready, published, delivered>>

Publish ==
    /\ state = "watching" /\ published < MaxNotify
    /\ published' = published + 1
    /\ UNCHANGED <<ready, state, delivered>>

Deliver ==
    /\ state = "watching" /\ delivered < published
    /\ delivered' = delivered + 1
    /\ UNCHANGED <<ready, state, published>>

Stop ==
    /\ state \in {"watching", "idle"}
    /\ state' = "stopped"
    /\ UNCHANGED <<ready, published, delivered>>

End ==
    /\ state = "stopped"
    /\ state' = "ended"
    /\ UNCHANGED <<ready, published, delivered>>

Next == BecomeReady \/ Return \/ Publish \/ Deliver \/ Stop \/ End

\* Returning, delivering and ending are the manager's own work; the app,
\* the backend and the caller owe nothing.
Spec ==
    /\ Init /\ [][Next]_vars
    /\ WF_vars(Return) /\ WF_vars(Deliver) /\ WF_vars(End)

=============================================================================
