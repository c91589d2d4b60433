------------------------------ MODULE Notifier ------------------------------
(***************************************************************************)
(* App.WatchNotifications and notificationManager.Stop                     *)
(* (mesh-android/libtailscale/notifier.go).                                *)
(*                                                                         *)
(* WatchNotifications waits for app.ready, reads app.backend without any   *)
(* synchronisation and, while it is nil, polls it every 50 ms until a 5 s  *)
(* deadline.  With a backend it starts be.WatchNotifications in a          *)
(* goroutine whose callback marshals each notification and hands it to     *)
(* cb.OnNotify, logging errors and always returning true (keep watching).  *)
(* Without one it returns a no-op manager whose goroutine only waits for   *)
(* the context.  Stop cancels the context.                                 *)
(*                                                                         *)
(* The app's start-up (ready.Done, the assignment of app.backend) and the  *)
(* caller of Stop are the environment.  A poll is a counted sleep; the     *)
(* deadline may pass after any poll (sleeps overrun) and has passed after  *)
(* MaxPolls of them.  A racy read of the backend pointer sees the value    *)
(* before or after the assignment, as a step before or after it.          *)
(***************************************************************************)
EXTENDS Naturals

CONSTANTS
    MaxPolls,   \* polls before the deadline has surely passed (5 s / 50 ms)
    MaxNotify   \* notifications the backend publishes

ASSUME MaxPolls \in Nat \ {0} /\ MaxNotify \in Nat

VARIABLES
    ready,      \* app.ready has been released
    backend,    \* app.backend is non-nil
    pc,         \* WatchNotifications: "wait", "poll", "returned"
    be,         \* its local copy of app.backend
    polls,      \* sleeps done
    mgr,        \* the manager returned: "none", "noop", "watch"
    g,          \* the manager's goroutine: "none", "running", "exited"
    gctx,       \* the context that goroutine waits on: "mgr" or "background"
    cancelled,  \* the manager's context is cancelled
    stopped,    \* Stop was called
    published,  \* notifications the backend sent to the watcher
    delivered   \* notifications the callback has handled

vars == <<ready, backend, pc, be, polls, mgr, g, gctx, cancelled, stopped,
          published, delivered>>

Init ==
    /\ ready = FALSE
    /\ backend = FALSE
    /\ pc = "wait"
    /\ be = FALSE
    /\ polls = 0
    /\ mgr = "none"
    /\ g = "none"
    /\ gctx = "mgr"
    /\ cancelled = FALSE
    /\ stopped = FALSE
    /\ published = 0
    /\ delivered = 0

(* The environment *)

\* The app finishes start-up: app.ready.Done().
AppReady ==
    /\ ~ready
    /\ ready' = TRUE
    /\ UNCHANGED <<backend, pc, be, polls, mgr, g, gctx, cancelled, stopped,
                   published, delivered>>

\* app.backend is assigned.
SetBackend ==
    /\ ~backend
    /\ backend' = TRUE
    /\ UNCHANGED <<ready, pc, be, polls, mgr, g, gctx, cancelled, stopped,
                   published, delivered>>

\* The backend sends a notification to the running watcher.
Publish ==
    /\ mgr = "watch" /\ g = "running" /\ ~cancelled
    /\ published < MaxNotify
    /\ published' = published + 1
    /\ UNCHANGED <<ready, backend, pc, be, polls, mgr, g, gctx, cancelled,
                   stopped, delivered>>

(* WatchNotifications *)

\* Variant whose no-op goroutine waits on a context Stop does not cancel.
NewManagerDetached(kind) ==
    /\ pc' = "returned"
    /\ mgr' = kind
    /\ g' = "running"
    /\ gctx' = IF kind = "noop" THEN "background" ELSE "mgr"

\* context.WithCancel, the goroutine on its context, &notificationManager{cancel}.
NewManager(kind) ==
    /\ pc' = "returned"
    /\ mgr' = kind
    /\ g' = "running"
    /\ gctx' = "mgr"

\* Variant that reads app.backend without waiting for app.ready.
ReadyWaitNoWait ==
    /\ pc = "wait"
    /\ be' = backend
    /\ IF backend THEN NewManager("watch")
                  ELSE /\ pc' = "poll"
                       /\ UNCHANGED <<mgr, g, gctx>>
    /\ UNCHANGED <<ready, backend, polls, cancelled, stopped, published,
                   delivered>>

\* app.ready.Wait(); be := app.backend; with a backend, start the watch.
ReadyWait ==
    /\ pc = "wait"
    /\ ready
    /\ be' = backend
    /\ IF backend THEN NewManager("watch")
                  ELSE /\ pc' = "poll"
                       /\ UNCHANGED <<mgr, g, gctx>>
    /\ UNCHANGED <<ready, backend, polls, cancelled, stopped, published,
                   delivered>>

\* Variant of the loop with no deadline: for be == nil { sleep; re-read }.
PollBackendNoDeadline ==
    /\ pc = "poll"
    /\ \/ /\ ~be
          /\ polls' = IF polls < MaxPolls THEN polls + 1 ELSE polls
          /\ be' = backend
          /\ UNCHANGED <<pc, mgr, g, gctx>>
       \/ /\ be
          /\ NewManager("watch")
          /\ UNCHANGED <<be, polls>>
    /\ UNCHANGED <<ready, backend, cancelled, stopped, published, delivered>>

\* for be == nil && time.Now().Before(deadline) { sleep 50 ms; be =
\* app.backend }, then the watch if be is set, else the no-op manager.
PollBackend ==
    /\ pc = "poll"
    /\ \/ /\ ~be /\ polls < MaxPolls
          /\ polls' = polls + 1
          /\ be' = backend
          /\ UNCHANGED <<pc, mgr, g, gctx>>
       \/ /\ be \/ polls >= 1
          /\ NewManager(IF be THEN "watch" ELSE "noop")
          /\ UNCHANGED <<be, polls>>
    /\ UNCHANGED <<ready, backend, cancelled, stopped, published, delivered>>

\* Variant of the callback that stops watching when OnNotify fails.
DeliverStopOnError(ok) ==
    /\ mgr = "watch" /\ g = "running" /\ ~cancelled
    /\ delivered < published
    /\ delivered' = delivered + 1
    /\ g' = IF ok THEN g ELSE "exited"
    /\ UNCHANGED <<ready, backend, pc, be, polls, mgr, gctx, cancelled,
                   stopped, published>>

\* The callback for one notification: json.Marshal, cb.OnNotify; ok is
\* whether both succeed.  It returns true either way.
Deliver(ok) ==
    /\ mgr = "watch" /\ g = "running" /\ ~cancelled
    /\ delivered < published
    /\ delivered' = delivered + 1
    /\ UNCHANGED <<ready, backend, pc, be, polls, mgr, g, gctx, cancelled,
                   stopped, published>>

\* The goroutine returns once its context is done: <-ctx.Done() for the
\* no-op manager, be.WatchNotifications for the watch.
GoroutineExit ==
    /\ g = "running"
    /\ gctx = "mgr" /\ cancelled
    /\ g' = "exited"
    /\ UNCHANGED <<ready, backend, pc, be, polls, mgr, gctx, cancelled,
                   stopped, published, delivered>>

\* The caller: nm.Stop(), i.e. nm.cancel().
Stop ==
    /\ pc = "returned" /\ ~stopped
    /\ stopped' = TRUE
    /\ cancelled' = TRUE
    /\ UNCHANGED <<ready, backend, pc, be, polls, mgr, g, gctx, published,
                   delivered>>

\* After Stop the caller has nothing more to do.
Quiescent ==
    /\ stopped
    /\ UNCHANGED vars

Watcher == ReadyWait \/ PollBackend

Next ==
    \/ AppReady \/ SetBackend \/ Publish
    \/ Watcher
    \/ \E ok \in BOOLEAN : Deliver(ok)
    \/ GoroutineExit
    \/ Stop
    \/ Quiescent

\* Goroutines that can run eventually do; start-up, the backend's traffic
\* and the caller's Stop get no fairness.
Spec ==
    /\ Init /\ [][Next]_vars
    /\ WF_vars(Watcher)
    /\ WF_vars(\E ok \in BOOLEAN : Deliver(ok))
    /\ WF_vars(GoroutineExit)

-----------------------------------------------------------------------------

(***************************************************************************)
(* WatchNotifications returns once the app is ready, whether or not a      *)
(* backend ever appears: the nil-backend poll is bounded by its deadline.  *)
(***************************************************************************)
WatchReturns == ready ~> (pc = "returned")

(***************************************************************************)
(* Stop ends the manager's goroutine, the no-op one included: nothing      *)
(* keeps running after the caller lets go of the manager.                  *)
(***************************************************************************)
StopEndsGoroutine == stopped ~> (g = "exited")

(***************************************************************************)
(* A failing json.Marshal or OnNotify never ends the watch: every          *)
(* notification published is handled unless the manager is stopped.       *)
(***************************************************************************)
NotificationsDelivered ==
    (delivered < published) ~> (delivered = published \/ cancelled)

-----------------------------------------------------------------------------

\* The manager as its caller sees it.
ManagerState ==
    CASE pc # "returned" -> "waiting"
      [] g = "exited"    -> "ended"
      [] cancelled       -> "stopped"
      [] mgr = "watch"   -> "watching"
      [] OTHER           -> "idle"

Abstract == INSTANCE NotificationManager WITH state <- ManagerState

(***************************************************************************)
(* WatchNotifications, its goroutine and Stop implement the abstract       *)
(* manager: it returns only after app.ready and eventually does; only a    *)
(* watching, unstopped manager delivers, each notification once; a stopped *)
(* manager ends.  The poll, the racy read of app.backend and the context   *)
(* are hidden by the mapping.                                              *)
(***************************************************************************)
ImplementsManager == Abstract!Spec

=============================================================================
