--------------------------- MODULE LifecycleRoutes ---------------------------
(***************************************************************************)
(* The focused lifecycle routes of the terminal interface                  *)
(* (CloudQuotaManagerApp): Compose, Plan Review, Apply and Watch in the    *)
(* Quotas workspace, the workers they start and the reads of the ledger    *)
(* they supersede.  A handler runs to its next await without interruption, *)
(* so each is one action; the operator presses what is shown and enabled,  *)
(* and a worker continues whenever its await is over, whatever the screen  *)
(* shows by then.                                                          *)
(***************************************************************************)
EXTENDS ApplyContacts

CONSTANTS
  Watches,    \* the watch requests that may be prepared
  NoRequest   \* neither an Apply nor a watch request

ASSUME RoutesAssumption == NoRequest \notin Requests \cup Watches

VARIABLES
  workspace,    \* active_workspace
  screen,       \* _lifecycle_state, and the inputs it shows
  enabled,      \* the buttons that start a composition and a preparation, where enabled
  stage,        \* what has become of each Apply request
  taken,        \* the requests whose Apply has refreshed its contact
  streams,      \* the watch requests being streamed
  stopped,      \* those told to stop, by their token or by cancelling the worker
  reads,        \* the read of the ledger of each worker group
  reconciling,  \* _post_apply_reconciliation_active
  unwinding,    \* cancelled reconciliations whose finally clause is still to run
  shown         \* history: the requests whose result the operator was shown

workers == <<enabled, stage, taken, contexts>>
watching == <<streams, stopped>>
ledger == <<reads, reconciling, unwinding>>
vars == <<workspace, screen, workers, watching, ledger, shown>>

Routes == {"none", "compose", "plan-review", "apply", "watch"}
Groups == {"quota-load", "post-apply-refresh"}
Stages == {"new", "preparing", "pending", "applying", "cancelled", "ended"}
Read == [owner: {"none", "view", "nobody"}, knows: SUBSET Requests]
NoRead == [owner |-> "none", knows |-> {}]

\* LifecycleRouteState(): what a newly entered route starts with.  "input" is the group
\* of inputs it shows.
Fresh(route, input) ==
  [route |-> route, input |-> input, preview |-> FALSE, pending |-> NoRequest,
   progress |-> FALSE, result |-> "none", watch |-> NoRequest]
Inputs == {"none", "compose", "plan", "watch"}
Buttons == {"compose", "prepare"}
Screens ==
  [route: Routes, input: Inputs, preview: BOOLEAN, pending: Requests \cup {NoRequest},
   progress: BOOLEAN, result: {"none", "plain", "affecting"},
   watch: Watches \cup {NoRequest}]

\* An Apply awaits its confirmation or goes on only on its own route.
TypeOK ==
  /\ screen.progress => screen.pending # NoRequest
  /\ screen.pending # NoRequest => screen.route = "apply"
  /\ workspace \in {"quotas", "obtainability", "audit"} /\ screen \in Screens
  /\ enabled \subseteq Buttons /\ stage \in [Requests -> Stages] /\ taken \subseteq Requests
  /\ contexts \in Seq(Requests) /\ streams \subseteq Watches /\ stopped \subseteq Watches
  /\ reads \in [Groups -> Read] /\ reconciling \in BOOLEAN /\ unwinding \in Nat
  /\ shown \subseteq Requests

Init ==
  /\ workspace = "quotas" /\ screen = Fresh("none", "none") /\ enabled = {"compose"}
  /\ stage = [r \in Requests |-> "new"] /\ taken = {} /\ contexts = <<>>
  /\ streams = {} /\ stopped = {}
  /\ reads = [g \in Groups |-> NoRead] /\ reconciling = FALSE /\ unwinding = 0 /\ shown = {}

-----------------------------------------------------------------------------
(* Routes. *)

Doing(s) == {r \in Requests : stage[r] = s}
OnLedger == screen.route = "none" /\ workspace = "quotas"

\* _claim_provider_view: from here on no earlier read may paint.
Claimed ==
  [g \in Groups |-> IF reads[g].owner = "view" THEN [reads[g] EXCEPT !.owner = "nobody"]
                    ELSE reads[g]]

\* A faulty discard: nothing is released.
ForgetPending == NoRequest

\* _discard_pending_apply: a prepared request that is not running is abandoned with its
\* contact; one that is running only leaves the screen.
Abandoned == IF screen.progress THEN NoRequest ELSE screen.pending

DiscardPending ==
  /\ stage' = [r \in Requests |-> IF r = Abandoned THEN "ended" ELSE stage[r]]
  /\ contexts' = Without(Abandoned)

\* A faulty cancellation: the stream finds out at its next event.
LeaveWatching == UNCHANGED watching

\* The watch request of the route being left is cancelled.
CancelWatch ==
  /\ stopped' = stopped \cup ({screen.watch} \ {NoRequest})
  /\ UNCHANGED streams

\* A faulty entry: the reads of the ledger go on painting.
EnterUnclaimed(new) ==
  /\ CancelWatch /\ workspace' = "quotas" /\ screen' = new
  /\ UNCHANGED <<ledger, shown>>

\* _enter_lifecycle_route.
Enter(new) ==
  /\ CancelWatch /\ workspace' = "quotas" /\ screen' = new
  /\ reads' = Claimed /\ UNCHANGED <<reconciling, unwinding, shown>>

\* Entering from a handler that has nothing to say of the requests themselves.
Arrive(new) == Enter(new) /\ DiscardPending /\ UNCHANGED taken
Open(new) == Arrive(new) /\ UNCHANGED enabled

\* _open_selected_quota_composition, _open_plan_review_input, _open_watch_input.
OpenCompose == OnLedger /\ Open(Fresh("compose", "compose"))
OpenReview == OnLedger /\ Open(Fresh("plan-review", "plan"))
OpenWatch == OnLedger /\ Open(Fresh("watch", "watch"))

\* open_preview: the plan of a successful Preview may be reviewed.
Preview == screen.preview /\ \E input \in {"none", "plan"} : Open(Fresh("compose", input))

\* open_plan_review: only a reviewed plan is offered, and may be prepared if it is capable;
\* the button stays as it is in whatever route is entered next.
Review ==
  /\ screen.input = "plan"
  /\ \/ Open(Fresh("plan-review", "none"))
     \/ /\ Arrive(Fresh("plan-review", "plan"))
        /\ enabled' \in {enabled \cup {"prepare"}, enabled \ {"prepare"}}

\* _clear_lifecycle_route.
Clear == CancelWatch /\ screen' = Fresh("none", "none")

\* _leave_lifecycle_route behind its guard, for a route with this result, once the results
\* "known" were shown: after an Apply that touched slices they are read again.
Leave(result, known) ==
  /\ Clear /\ UNCHANGED <<workspace, enabled, taken>>
  /\ IF result = "affecting"
     THEN /\ reads' = [Claimed EXCEPT !["post-apply-refresh"] =
                         [owner |-> "view", knows |-> known]]
          /\ reconciling' = TRUE
          /\ unwinding' = unwinding + (IF reads["post-apply-refresh"] = NoRead THEN 0 ELSE 1)
     ELSE UNCHANGED ledger

Back ==
  /\ screen.route # "none" /\ ~screen.progress
  /\ Leave(screen.result, shown) /\ DiscardPending /\ UNCHANGED shown

\* _set_active_workspace: deferred while an Apply or its reconciliation goes on.
Switch(to) ==
  /\ ~screen.progress /\ ~reconciling
  /\ IF screen.route = "none" THEN UNCHANGED <<screen, stage, contexts, watching>>
     ELSE Clear /\ DiscardPending
  /\ reads' = IF to = "audit" \/ (to # workspace /\ workspace # "audit") THEN Claimed ELSE reads
  /\ workspace' = to /\ UNCHANGED <<enabled, taken, reconciling, unwinding, shown>>

-----------------------------------------------------------------------------
(* Compose and Prepare. *)

\* _submit_selected_quota_composition: the button stays disabled until the worker ends.
Compose ==
  /\ screen.input = "compose" /\ "compose" \in enabled /\ enabled' = enabled \ {"compose"}
  /\ UNCHANGED <<workspace, screen, stage, taken, contexts, watching, ledger, shown>>

\* _prepare_selected_quota_composition: the composition is opened, or refused on the spot.
Composed ==
  /\ "compose" \notin enabled /\ enabled' = enabled \cup {"compose"} /\ UNCHANGED taken
  /\ \/ \E preview \in BOOLEAN :
          /\ Enter([Fresh("compose", "none") EXCEPT !.preview = preview])
          /\ DiscardPending
     \/ UNCHANGED <<workspace, screen, stage, contexts, watching, ledger, shown>>

\* The finally clause of a preparation.
Reenabled(buttons) ==
  IF screen.route = "plan-review" THEN buttons \cup {"prepare"} ELSE buttons

\* _prepare_lifecycle_apply_from_inputs: a worker that is still preparing is cancelled,
\* and its finally clause runs.
Prepare(r) ==
  /\ screen.input = "plan" /\ "prepare" \in enabled /\ stage[r] = "new"
  /\ stage' = [x \in Requests |-> IF x = r THEN "preparing"
                                  ELSE IF stage[x] = "preparing" THEN "new" ELSE stage[x]]
  /\ enabled' = IF Doing("preparing") = {} THEN enabled \ {"prepare"}
                ELSE Reenabled(enabled \ {"prepare"})
  /\ UNCHANGED <<workspace, screen, taken, contexts, watching, ledger, shown>>

\* _prepare_lifecycle_apply_request: the contact is retained and Apply awaits its
\* confirmation, replacing whatever request was there.
Prepared(r) ==
  /\ stage[r] = "preparing" /\ UNCHANGED <<enabled, taken>>
  /\ Enter([Fresh("apply", "none") EXCEPT !.pending = r])
  /\ stage' = [x \in Requests |-> IF x = r THEN "pending"
                                  ELSE IF x = Abandoned THEN "ended" ELSE stage[x]]
  /\ Retain(Without(Abandoned), r)

\* The plan, the contact or the import fails: nothing is retained.
PrepareFails(r) ==
  /\ stage[r] = "preparing" /\ stage' = [stage EXCEPT ![r] = "new"]
  /\ enabled' = Reenabled(enabled)
  /\ UNCHANGED <<workspace, screen, taken, contexts, watching, ledger, shown>>

-----------------------------------------------------------------------------
(* Apply. *)

Owns(r) == screen.route = "apply" /\ screen.pending = r

\* _submit_lifecycle_apply: enabled by the typed scope; a running Apply is cancelled.
SubmitApply ==
  /\ screen.pending # NoRequest /\ ~screen.progress
  /\ screen' = [screen EXCEPT !.progress = TRUE]
  /\ stage' = [r \in Requests |-> IF r = screen.pending THEN "applying"
                                  ELSE IF stage[r] = "applying" THEN "cancelled" ELSE stage[r]]
  /\ UNCHANGED <<workspace, enabled, taken, contexts, watching, ledger, shown>>

\* The revalidation of the Apply refreshes the contact.
RefreshContact(r) ==
  /\ stage[r] = "applying" /\ r \notin taken /\ Take /\ taken' = taken \cup {r}
  /\ UNCHANGED <<workspace, screen, enabled, stage, watching, ledger, shown>>

\* Whatever way the worker ends, it discards the contact of its request.
Ended(r) ==
  /\ stage' = [stage EXCEPT ![r] = "ended"] /\ contexts' = Without(r)
  /\ UNCHANGED <<enabled, taken>>

\* The result is shown if the route still is the one of the request; with an intent to
\* watch the route stays, otherwise it is left.
Result(r) ==
  /\ stage[r] = "applying" /\ Ended(r)
  /\ IF ~Owns(r) THEN UNCHANGED <<workspace, screen, watching, ledger, shown>>
     ELSE \E result \in {"plain", "affecting"} :
            /\ shown' = shown \cup {r}
            /\ \/ /\ screen' = [screen EXCEPT !.progress = FALSE, !.pending = NoRequest,
                                              !.result = result, !.input = "watch"]
                  /\ UNCHANGED <<workspace, watching, ledger>>
               \/ Leave(result, shown')

\* A faulty end: the screen goes on showing progress.
InterruptedSilently(r) ==
  /\ stage[r] \in {"applying", "cancelled"} /\ Ended(r)
  /\ screen' = IF Owns(r) THEN [screen EXCEPT !.pending = NoRequest] ELSE screen
  /\ UNCHANGED <<workspace, watching, ledger, shown>>

\* The Apply raises, or is cancelled.
Interrupted(r) ==
  /\ stage[r] \in {"applying", "cancelled"} /\ Ended(r)
  /\ screen' = IF Owns(r) THEN [screen EXCEPT !.progress = FALSE, !.pending = NoRequest]
               ELSE screen
  /\ UNCHANGED <<workspace, watching, ledger, shown>>

-----------------------------------------------------------------------------
(* Watch, and the reads of the ledger. *)

\* prepare_watch.
PrepareWatch(w) ==
  /\ screen.input = "watch" /\ w \notin streams \cup stopped \cup {screen.watch}
  /\ Open([Fresh("watch", "none") EXCEPT !.watch = w])

\* _submit_lifecycle_watch: the button stays disabled until the stream ends.
StartWatch ==
  /\ screen.watch # NoRequest /\ screen.watch \notin streams
  /\ streams' = streams \cup {screen.watch} /\ stopped' = stopped \cup streams
  /\ UNCHANGED <<workspace, screen, workers, ledger, shown>>

\* _watch_lifecycle: the stream ends, or finds at an event that its route is gone.
StreamEnds(w) ==
  /\ w \in streams /\ streams' = streams \ {w}
  /\ UNCHANGED <<workspace, screen, workers, stopped, ledger, shown>>

\* _start_quota_load.
Load ==
  /\ OnLedger
  /\ reads' = [Claimed EXCEPT !["quota-load"] = [owner |-> "view", knows |-> shown]]
  /\ UNCHANGED <<workspace, screen, workers, watching, reconciling, unwinding, shown>>

\* _cancel_provider_read, and the tick that finds the deadline of the read reached.
CancelRead ==
  /\ reads["quota-load"].owner = "view" /\ reads' = Claimed
  /\ UNCHANGED <<workspace, screen, workers, watching, reconciling, unwinding, shown>>

\* A worker ends: it paints if it still owns the view.
LoadEnds ==
  /\ reads["quota-load"] # NoRead /\ reads' = [reads EXCEPT !["quota-load"] = NoRead]
  /\ UNCHANGED <<workspace, screen, workers, watching, reconciling, unwinding, shown>>

ReconciliationEnds ==
  /\ reads["post-apply-refresh"] # NoRead /\ reconciling' = FALSE
  /\ reads' = [reads EXCEPT !["post-apply-refresh"] = NoRead]
  /\ UNCHANGED <<workspace, screen, workers, watching, unwinding, shown>>

\* The finally clause of a reconciliation that a later one has cancelled.
ReconciliationUnwinds ==
  /\ unwinding > 0 /\ unwinding' = unwinding - 1 /\ reconciling' = FALSE
  /\ UNCHANGED <<workspace, screen, workers, watching, reads, shown>>

Next ==
  \/ OpenCompose \/ OpenReview \/ OpenWatch \/ Preview \/ Review \/ Back
  \/ Compose \/ Composed \/ SubmitApply \/ StartWatch
  \/ Load \/ CancelRead \/ LoadEnds \/ ReconciliationEnds \/ ReconciliationUnwinds
  \/ \E to \in {"quotas", "obtainability", "audit"} : Switch(to)
  \/ \E r \in Requests :
       \/ Prepare(r) \/ Prepared(r) \/ PrepareFails(r)
       \/ RefreshContact(r) \/ Result(r) \/ Interrupted(r)
  \/ \E w \in Watches : PrepareWatch(w) \/ StreamEnds(w)

Spec == Init /\ [][Next]_vars

-----------------------------------------------------------------------------
(* Properties. *)

\* A protected contact is retained only for the request on the screen and for an Apply
\* that has not ended, and whoever is still to be applied finds its own retained, although
\* an Apply takes the oldest and others are abandoned or cancelled meanwhile.
ContactsAreHeld ==
  /\ \A r \in Retained : r = screen.pending \/ stage[r] \in {"applying", "cancelled"}
  /\ Doing("pending") \cup (Doing("applying") \ taken) \subseteq Retained

\* A watch whose route was left or replaced, by the operator or by a late worker, has
\* been told to stop: nothing polls behind the screen.
WatchIsToldToStop == streams \subseteq stopped \cup {screen.watch}

\* A read that may still paint the ledger finds the ledger on the screen, and began
\* after every Apply whose result the operator has been shown.
PaintsAreCurrent ==
  \A g \in Groups : reads[g].owner = "view" => OnLedger /\ shown \subseteq reads[g].knows

\* tests/adapters/tui/test_app.py: Apply owns navigation through bound-scope
\* affected-slice reconciliation.
ApplyOwnsNavigation ==
  /\ \A r \in Doing("applying") : Owns(r) /\ screen.progress
  /\ reads["post-apply-refresh"].owner = "view" => reconciling
=============================================================================
