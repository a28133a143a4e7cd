------------------------------ MODULE CtPanel ------------------------------
(***************************************************************************)
(* The container side of the window (src/ui/window.c): the cache that       *)
(* ct_backend_refresh fills, the rows and counters rendered from it, the    *)
(* buttons and dialogs, and the two timers that creating a container        *)
(* starts instead of a refresh.                                            *)
(*                                                                         *)
(* The variable task is the handler being executed; the ct_* operations     *)
(* (module CtManager has their details) are one step here.  The filter      *)
(* "All" and no search text are in force, and the dashboard is left out:     *)
(* VmPanel models both.                                                    *)
(***************************************************************************)
EXTENDS Naturals, FiniteSets

CONSTANTS
  Names,      \* container names the create dialog accepts
  NoName,     \* no container
  MaxTimers   \* bound: creations, that is timers of each kind, in one session

ASSUME CtPanelAssumption ==
  IsFiniteSet(Names) /\ NoName \notin Names /\ MaxTimers \in Nat

VARIABLES
  available,  \* app->incus_available, settled at activation
  inst,       \* state of each instance in the daemon, "absent" if there is none
  cts,        \* app->containers: the cached state of each name or "none"
  stats,      \* app->stats.total_containers and running_containers
  rows,       \* state badge of each row in ct_list_box, "none" without a row
  label,      \* counters shown by ct_status_label
  fetchers,   \* live timeouts that call ct_backend_refresh
  drawers,    \* live timeouts that call ui_refresh_ct_list
  young,      \* the last pair of timeouts has not fired yet
  dialog,     \* the modal dialog that is open
  task,       \* the handler being executed
  fresh,      \* history: nothing went wrong and nobody else acted since the
              \* rows were last fetched and rendered
  created     \* history: a container just created whose row is still missing,
              \* until it is deleted or a request to the daemon fails

view == <<rows, label>>
cache == <<cts, stats>>
timers == <<fetchers, drawers, young>>
history == <<fresh, created>>
ctPanelVars == <<available, inst, cache, view, timers, dialog, task, history>>

---------------------------------------------------------------------------
InstStates == {"absent", "stopped", "running", "frozen"}
CtStates == InstStates \ {"absent"}

Entry(st) == IF st = "absent" THEN "none" ELSE st

Counters == [total : 0..Cardinality(Names), running : 0..Cardinality(Names)]
Zero == [total |-> 0, running |-> 0]
CountersOf(c) ==
  [total |-> Cardinality({n \in Names : c[n] # "none"}),
   running |-> Cardinality({n \in Names : c[n] = "running"})]

Ops == {"start", "stop", "force_stop", "restart", "delete", "create"}

\* When the daemon carries an operation out, and what it makes of the container.
From == [start |-> {"stopped"}, stop |-> {"running"}, restart |-> {"running"},
         force_stop |-> {"running", "frozen"}, delete |-> CtStates,
         create |-> {"absent"}]
After == [start |-> "running", stop |-> "stopped", restart |-> "running",
          force_stop |-> "stopped", delete |-> "absent", create |-> "stopped"]

\* Mutant: a frozen container is offered what a running one is.
ButtonsFrozenAsRunning ==
  [stopped |-> {"start", "delete"}, running |-> {"stop", "restart", "force_stop"},
   frozen |-> {"stop", "restart", "force_stop"}, none |-> {}]

\* make_ct_row: the buttons of a row, by the state on its badge.
Buttons ==
  [stopped |-> {"start", "delete"}, running |-> {"stop", "restart", "force_stop"},
   frozen |-> {}, none |-> {}]

Destructive == {"force_stop", "delete"}
NoDialog == [op |-> "none", name |-> NoName]
Dialog == {NoDialog} \cup [op : Destructive, name : Names]
            \cup {[op |-> "create", name |-> NoName]}

Task == [pc : {"idle", "op", "fetch"}, op : Ops \cup {"none"},
         name : Names \cup {NoName}, timer : BOOLEAN]
Idle == [pc |-> "idle", op |-> "none", name |-> NoName, timer |-> FALSE]

MainLoop == task.pc = "idle"

---------------------------------------------------------------------------
(* The user's clicks. *)

Perform(op, n) ==
  task' = [Idle EXCEPT !.pc = "op", !.op = op, !.name = n]

ClickButton(n) ==
  /\ MainLoop /\ dialog = NoDialog
  /\ \E op \in Buttons[rows[n]] :
       IF op \in Destructive
       THEN dialog' = [op |-> op, name |-> n] /\ UNCHANGED task
       ELSE Perform(op, n) /\ UNCHANGED dialog
  /\ UNCHANGED <<available, inst, cache, view, timers, history>>

Confirm ==
  /\ MainLoop /\ dialog.op \in Destructive
  /\ Perform(dialog.op, dialog.name) /\ dialog' = NoDialog
  /\ UNCHANGED <<available, inst, cache, view, timers, history>>

Cancel ==
  /\ MainLoop /\ dialog # NoDialog
  /\ dialog' = NoDialog
  /\ UNCHANGED <<available, inst, cache, view, timers, task, history>>

OpenCreate ==
  /\ MainLoop /\ dialog = NoDialog
  /\ dialog' = [op |-> "create", name |-> NoName]
  /\ UNCHANGED <<available, inst, cache, view, timers, task, history>>

CreateConfirm(n) ==
  /\ MainLoop /\ dialog.op = "create" /\ fetchers < MaxTimers
  /\ drawers < MaxTimers
  /\ Perform("create", n) /\ dialog' = NoDialog
  /\ UNCHANGED <<available, inst, cache, view, timers, history>>

\* F5 (ui_refresh_all) and the container entry of the sidebar (on_nav_clicked).
Refresh ==
  /\ MainLoop /\ dialog = NoDialog
  /\ task' = [Idle EXCEPT !.pc = "fetch"]
  /\ UNCHANGED <<available, inst, cache, view, timers, dialog, history>>

---------------------------------------------------------------------------
(* The steps of a handler. *)

\* Mutant: a deleted container is left in the daemon's list as unknown.
CarryForgets ==
  \/ /\ available /\ inst[task.name] \in From[task.op]
     /\ inst' = [inst EXCEPT ![task.name] =
                   IF task.op = "delete" THEN "none" ELSE After[task.op]]
  \/ UNCHANGED inst

\* The daemon carries the operation out, or it does not.
Carry ==
  \/ /\ available /\ inst[task.name] \in From[task.op]
     /\ inst' = [inst EXCEPT ![task.name] = After[task.op]]
  \/ UNCHANGED inst

RunOp ==
  /\ task.pc = "op" /\ task.op # "create"
  /\ Carry
  /\ task' = [task EXCEPT !.pc = "fetch"]
  /\ created' = IF inst'[task.name] = "absent" /\ created = task.name THEN NoName
                ELSE created
  /\ UNCHANGED <<available, cache, view, timers, dialog, fresh>>

\* Mutant: only the refresh of the cache is scheduled.
RunCreateNoDraw ==
  /\ task.pc = "op" /\ task.op = "create"
  /\ Carry
  /\ fetchers' = fetchers + 1 /\ young' = TRUE
  /\ fresh' = FALSE
  /\ created' = IF inst' # inst THEN task.name ELSE created
  /\ task' = Idle
  /\ UNCHANGED <<available, cache, view, drawers, dialog>>

\* on_ct_create_confirm: whatever ct_create returned, two timers and no refresh.
RunCreate ==
  /\ task.pc = "op" /\ task.op = "create"
  /\ Carry
  /\ fetchers' = fetchers + 1 /\ drawers' = drawers + 1 /\ young' = TRUE
  /\ fresh' = FALSE
  /\ created' = IF inst' # inst THEN task.name ELSE created
  /\ task' = Idle
  /\ UNCHANGED <<available, cache, view, dialog>>

\* ui_refresh_ct_list: a row for every cached container, and the counters.
Draw == rows' = cts' /\ label' = stats'

Shown == created # NoName /\ rows'[created] # "none"

\* ct_backend_refresh is over and has returned keep; called by a timer that is
\* all, called by a handler the list is rendered.  got: the daemon's list came.
FetchReturns(keep, got) ==
  /\ task' = Idle
  /\ fresh' = (got /\ (fresh \/ ~task.timer))
  /\ IF task.timer
     THEN UNCHANGED view /\ fetchers' = IF keep THEN fetchers ELSE fetchers - 1
     ELSE Draw /\ UNCHANGED fetchers
  /\ created' = IF Shown \/ ~got THEN NoName ELSE created
  /\ UNCHANGED <<available, inst, drawers, young, dialog>>

Fetch ==
  /\ task.pc = "fetch" /\ available
  /\ cts' = [n \in Names |-> Entry(inst[n])]
  /\ stats' = CountersOf(cts')
  /\ FetchReturns(TRUE, TRUE)

\* Mutant: a failed request leaves the counters as they were.
FetchFailsKeepsStats ==
  /\ task.pc = "fetch" /\ available
  /\ cts' = [n \in Names |-> "none"] /\ UNCHANGED stats
  /\ \E keep \in BOOLEAN : FetchReturns(keep, FALSE)

\* The cache and the counters are cleared before the request is made.  Without
\* a reply the function returns false; on an error reply, whose metadata holds
\* no list, it returns true.
FetchFails ==
  /\ task.pc = "fetch" /\ available
  /\ cts' = [n \in Names |-> "none"] /\ stats' = Zero
  /\ \E keep \in BOOLEAN : FetchReturns(keep, FALSE)

\* Without a daemon ct_backend_refresh returns false at once.
FetchUnavailable ==
  /\ task.pc = "fetch" /\ ~available
  /\ UNCHANGED cache
  /\ FetchReturns(FALSE, FALSE)

---------------------------------------------------------------------------
(* Timers: 1 s and 2 s after a creation, then again and again. *)

\* ct_backend_refresh as a GSourceFunc: true keeps the source.
FetchTimer ==
  /\ MainLoop /\ fetchers > 0
  /\ task' = [Idle EXCEPT !.pc = "fetch", !.timer = TRUE]
  /\ young' = FALSE
  /\ UNCHANGED <<available, inst, cache, view, fetchers, drawers, dialog, history>>

\* Mutant: the list is drawn after 1 s and the cache filled after 2 s.
DrawTimerFirst ==
  /\ MainLoop /\ drawers > 0
  /\ drawers' \in {drawers, drawers - 1}
  /\ UNCHANGED <<available, inst, cache, fetchers, young, dialog, task, fresh>>
  /\ Draw
  /\ created' = IF Shown THEN NoName ELSE created

\* ui_refresh_ct_list as a GSourceFunc returns nothing: whatever is in the
\* register decides whether the source stays.
DrawTimer ==
  /\ MainLoop /\ drawers > 0 /\ (young => drawers > 1)
  /\ drawers' \in {drawers, drawers - 1}
  /\ UNCHANGED <<available, inst, cache, fetchers, young, dialog, task, fresh>>
  /\ Draw
  /\ created' = IF Shown THEN NoName ELSE created

Elsewhere(n) ==
  /\ \E st \in InstStates : st # inst[n] /\ inst' = [inst EXCEPT ![n] = st]
  /\ fresh' = FALSE
  /\ created' = IF n = created THEN NoName ELSE created
  /\ UNCHANGED <<available, cache, view, timers, dialog, task>>

---------------------------------------------------------------------------
\* on_activate ends with ui_refresh_all.
Init ==
  /\ available \in BOOLEAN
  /\ inst \in [Names -> InstStates]
  /\ cts = [n \in Names |-> "none"] /\ stats = Zero
  /\ rows = cts /\ label = Zero
  /\ fetchers = 0 /\ drawers = 0 /\ young = FALSE
  /\ dialog = NoDialog
  /\ task = [Idle EXCEPT !.pc = "fetch"]
  /\ fresh = FALSE /\ created = NoName

User ==
  \/ \E n \in Names : ClickButton(n) \/ CreateConfirm(n)
  \/ Confirm \/ Cancel \/ OpenCreate \/ Refresh

HandlerStep ==
  \/ RunOp \/ RunCreate \/ Fetch \/ FetchFails \/ FetchUnavailable

Next ==
  \/ User \/ HandlerStep
  \/ FetchTimer \/ DrawTimer
  \/ \E n \in Names : Elsewhere(n)

\* Every request ends within its timeout, and the main loop dispatches a timer
\* that is due however busy the user is.
Fairness ==
  /\ WF_ctPanelVars(HandlerStep)
  /\ SF_ctPanelVars(FetchTimer) /\ SF_ctPanelVars(DrawTimer)

Spec == Init /\ [][Next]_ctPanelVars /\ Fairness

---------------------------------------------------------------------------
(* Properties *)

\* Every variable keeps its type.
TypeOK ==
  /\ available \in BOOLEAN /\ inst \in [Names -> InstStates]
  /\ cts \in [Names -> CtStates \cup {"none"}] /\ stats \in Counters
  /\ rows \in [Names -> CtStates \cup {"none"}]
  /\ label \in Counters
  /\ fetchers \in 0..MaxTimers /\ drawers \in 0..MaxTimers /\ young \in BOOLEAN
  /\ dialog \in Dialog /\ task \in Task
  /\ fresh \in BOOLEAN /\ created \in Names \cup {NoName}

\* The counters always belong to the cached list, whatever request failed.
CountersAgree == stats = CountersOf(cts)

\* A button that is offered works: if nothing moved or failed since the rows
\* were fetched, the daemon can carry the operation out; the timers that
\* refresh the cache behind the rows do not change that.
ClickIsLegal ==
  task.pc = "op" /\ task.op # "create" /\ fresh =>
    inst[task.name] \in From[task.op]

\* A created container is not forgotten while its row is missing: a timer that
\* will draw is alive, and either the cache has the container already or a timer
\* that will fetch it comes first.
RowIsPending ==
  created # NoName =>
    /\ inst[created] # "absent" /\ drawers > 0
    /\ young => fetchers > 0
    /\ MainLoop /\ ~young => cts[created] # "none"

\* A container that was created gets its row although the dialog's handler does
\* not refresh (the two timers do, in the right order), unless a request
\* fails or somebody changes the container meanwhile.
CreatedAppears == created # NoName ~> created = NoName

\* The comment at the timers' creation, "one-shot timer via g_idle_add wrapper":
\* a timer whose refresh has been made is gone.
OneShot == [][task.timer /\ MainLoop' => fetchers' = fetchers - 1]_ctPanelVars

=============================================================================
