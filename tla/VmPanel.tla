------------------------------ MODULE VmPanel ------------------------------
(***************************************************************************)
(* The virtual machine side of the window (src/ui/window.c, dialogs.c):     *)
(* the cache that vm_backend_refresh fills, the rows and counters rendered  *)
(* from it, the buttons the rows offer, the confirmation and create         *)
(* dialogs, and the dashboard timer.                                       *)
(*                                                                         *)
(* A handler runs to its end before the main loop dispatches the next       *)
(* event, but libvirtd's domains move between its blocking calls.  The      *)
(* variable task is the handler being executed: an operation of             *)
(* vm_manager.c (one step here: module VmManager has its details), the      *)
(* listing, one virDomainGetInfo per listed domain, and the rendering.      *)
(***************************************************************************)
EXTENDS Naturals, FiniteSets

CONSTANTS
  Names,       \* domain names
  ValidNames,  \* those the create dialog accepts
  NoName,      \* no domain
  Faults,      \* whether libvirt calls may fail for reasons of their own
  Filters,     \* bound: the filter toggles that are used
  Patterns,    \* bound: for each search text that is typed, the names it matches
  Active       \* bound: the states of an active domain that are considered

ASSUME PanelNamesAssumption ==
  IsFiniteSet(Names) /\ ValidNames \subseteq Names /\ NoName \notin Names
ASSUME FaultsAssumption == Faults \in BOOLEAN
ASSUME FiltersAssumption ==
  {"all"} \subseteq Filters /\ Filters \subseteq {"all", "running", "stopped"}
ASSUME PatternsAssumption == Patterns \subseteq SUBSET Names
ASSUME ActiveAssumption ==
  /\ Active \subseteq {"running", "paused", "crashed", "pmsuspended"}
  /\ {"running", "paused"} \subseteq Active

VARIABLES
  conn,    \* whether vm_backend_connect succeeded at activation
  dom,     \* state of each domain in libvirtd, "absent" if there is none
  vms,     \* app->vms: the cached state of each name, "none" if not listed
  stats,   \* app->stats.total_vms and running_vms
  rows,    \* state badge of each row in vm_list_box, "none" without a row
  label,   \* counters shown by vm_status_label
  dash,    \* counters shown by the dashboard
  timer,   \* whether app->refresh_timer runs
  filter,  \* app->vm_filter
  search,  \* app->vm_search: the names that contain it
  dialog,  \* the modal dialog that is open
  task,    \* the handler being executed
  quiet    \* history: the cache was filled without a fault and nobody else
           \* has acted since the listing

libvirt == <<conn, dom>>
cache == <<vms, stats>>
list == <<rows, label>>
query == <<filter, search>>
panelVars == <<libvirt, cache, list, dash, timer, query, dialog, task, quiet>>

---------------------------------------------------------------------------
DomStates == Active \cup {"absent", "shutoff"}
VmStates == {"running", "paused", "shutoff", "crashed", "unknown"}

\* libvirt_state_to_vm_state
VmState(st) == IF st = "pmsuspended" THEN "unknown" ELSE st

Defined == {n \in Names : dom[n] # "absent"}
Listed == {n \in Names : vms[n] # "none"}
Counters == [total : 0..Cardinality(Names), running : 0..Cardinality(Names)]
Zero == [total |-> 0, running |-> 0]

\* What libvirtd requires of a domain and makes of it (see VmManager).
Ops == {"start", "shutdown", "force_stop", "reboot", "pause", "resume",
        "delete", "create"}

From == [start |-> {"shutoff"}, shutdown |-> {"running", "paused"},
         force_stop |-> Active, reboot |-> {"running"}, pause |-> {"running"},
         resume |-> {"paused"}, delete |-> Active \cup {"shutoff"},
         create |-> {"absent"}]

\* A transient domain vanishes when it is stopped; an active domain that is
\* not running survives vm_delete.
Outcomes(op, st) ==
  CASE op \in {"start", "resume"} -> {"running"}
    [] op = "pause" -> {"paused"}
    [] op = "create" -> {"shutoff"}
    [] op = "force_stop" -> {"shutoff", "absent"}
    [] op = "delete" -> IF st \in {"running", "shutoff"} THEN {"absent"} ELSE {st}
    [] OTHER -> {st}

\* Mutant: a paused machine is offered Pause like a running one.
ButtonsPauseAgain ==
  [running |-> {"shutdown", "pause", "reboot", "force_stop"},
   shutoff |-> {"start", "delete"}, paused |-> {"resume", "pause", "force_stop"},
   crashed |-> {}, unknown |-> {}, none |-> {}]

\* make_vm_row: the buttons of a row, by the state on its badge.
Buttons ==
  [running |-> {"shutdown", "pause", "reboot", "force_stop"},
   shutoff |-> {"start", "delete"}, paused |-> {"resume", "force_stop"},
   crashed |-> {}, unknown |-> {}, none |-> {}]

Destructive == {"force_stop", "delete"}

NoDialog == [op |-> "none", name |-> NoName]

Dialog == {NoDialog} \cup [op : Destructive, name : Names]
            \cup [op : {"create", "settings"}, name : {NoName}]

Task == [pc : {"idle", "op", "list", "info", "render"}, op : Ops \cup {"none"},
         name : Names \cup {NoName}, todo : SUBSET Names, dash : BOOLEAN]

Idle == [pc |-> "idle", op |-> "none", name |-> NoName, todo |-> {},
         dash |-> FALSE]

\* vm_matches_filter
Visible(n) ==
  /\ filter = "running" => vms[n] = "running"
  /\ filter = "stopped" => vms[n] = "shutoff"
  /\ n \in search

---------------------------------------------------------------------------
(* Handlers: the user's clicks.  A modal dialog blocks the window. *)

MainLoop == task.pc = "idle"
UserAt(d) == MainLoop /\ dialog = d

\* An operation, then the refresh of the cache and of the list; create and
\* delete also refresh the dashboard.
Perform(op, n) ==
  task' = [Idle EXCEPT !.pc = "op", !.op = op, !.name = n,
                       !.dash = op \in {"delete", "create"}]

ClickButton(n) ==
  /\ UserAt(NoDialog)
  /\ \E op \in Buttons[rows[n]] :
       IF op \in Destructive
       THEN dialog' = [op |-> op, name |-> n] /\ UNCHANGED task
       ELSE Perform(op, n) /\ UNCHANGED dialog
  /\ UNCHANGED <<libvirt, cache, list, dash, timer, query, quiet>>

Confirm ==
  /\ MainLoop /\ dialog.op \in Destructive
  /\ Perform(dialog.op, dialog.name)
  /\ dialog' = NoDialog
  /\ UNCHANGED <<libvirt, cache, list, dash, timer, query, quiet>>

\* Cancel, Escape or the close button.
Cancel ==
  /\ MainLoop /\ dialog # NoDialog
  /\ dialog' = NoDialog
  /\ UNCHANGED <<libvirt, cache, list, dash, timer, query, task, quiet>>

OpenCreate ==
  /\ UserAt(NoDialog)
  /\ dialog' = [op |-> "create", name |-> NoName]
  /\ UNCHANGED <<libvirt, cache, list, dash, timer, query, task, quiet>>

OpenSettings ==
  /\ UserAt(NoDialog)
  /\ dialog' = [op |-> "settings", name |-> NoName]
  /\ UNCHANGED <<libvirt, cache, list, dash, timer, query, task, quiet>>

\* on_settings_save: the timer is removed, and started anew if auto-refresh is on.
\* Module AppLifecycle has the rest.
SaveSettings ==
  /\ MainLoop /\ dialog.op = "settings"
  /\ timer' \in BOOLEAN
  /\ dialog' = NoDialog
  /\ UNCHANGED <<libvirt, cache, list, dash, query, task, quiet>>

\* An invalid name (or ISO path) leaves the dialog as it is.
CreateConfirm(n) ==
  /\ MainLoop /\ dialog.op = "create"
  /\ n \in ValidNames
  /\ Perform("create", n)
  /\ dialog' = NoDialog
  /\ UNCHANGED <<libvirt, cache, list, dash, timer, query, quiet>>

\* F5 (ui_refresh_all) and the VM entry of the sidebar (on_nav_clicked).
Refresh ==
  /\ UserAt(NoDialog)
  /\ \E d \in BOOLEAN : task' = [Idle EXCEPT !.pc = "list", !.dash = d]
  /\ UNCHANGED <<libvirt, cache, list, dash, timer, query, dialog, quiet>>

---------------------------------------------------------------------------
(* The steps of a handler. *)

RunOp ==
  /\ task.pc = "op"
  /\ \/ /\ conn /\ dom[task.name] \in From[task.op]
        /\ \E st \in Outcomes(task.op, dom[task.name]) :
             dom' = [dom EXCEPT ![task.name] = st]
     \/ /\ Faults \/ ~conn \/ dom[task.name] \notin From[task.op]
        /\ UNCHANGED dom
  /\ task' = [task EXCEPT !.pc = "list"]
  /\ UNCHANGED <<conn, cache, list, dash, timer, query, dialog, quiet>>

\* Mutant: the listing asks for the active domains only.
ListActiveOnly ==
  /\ task.pc = "list" /\ conn
  /\ LET found == {n \in Names : dom[n] \in Active} IN
       /\ vms' = [n \in Names |-> IF n \in found THEN "running" ELSE "none"]
       /\ stats' = IF found = {} THEN stats
                   ELSE [total |-> Cardinality(found), running |-> 0]
       /\ task' = IF found = {} THEN [task EXCEPT !.pc = "render"]
                  ELSE [task EXCEPT !.pc = "info", !.todo = found]
  /\ quiet' = TRUE
  /\ UNCHANGED <<libvirt, list, dash, timer, query, dialog>>

\* Mutant: the running counter is not reset.
ListKeepsRunning ==
  /\ task.pc = "list" /\ conn
  /\ vms' = [n \in Names |-> IF n \in Defined THEN "running" ELSE "none"]
  /\ stats' = IF Defined = {} THEN stats
              ELSE [stats EXCEPT !.total = Cardinality(Defined)]
  /\ task' = IF Defined = {} THEN [task EXCEPT !.pc = "render"]
             ELSE [task EXCEPT !.pc = "info", !.todo = Defined]
  /\ quiet' = TRUE
  /\ UNCHANGED <<libvirt, list, dash, timer, query, dialog>>

\* vm_backend_refresh up to its loop.  The entries come zeroed from calloc, and
\* zero is VM_STATE_RUNNING; an empty list returns before the counters are set.
List ==
  /\ task.pc = "list" /\ conn
  /\ vms' = [n \in Names |-> IF n \in Defined THEN "running" ELSE "none"]
  /\ stats' = IF Defined = {} THEN stats
              ELSE [total |-> Cardinality(Defined), running |-> 0]
  /\ task' = IF Defined = {} THEN [task EXCEPT !.pc = "render"]
             ELSE [task EXCEPT !.pc = "info", !.todo = Defined]
  /\ quiet' = TRUE
  /\ UNCHANGED <<libvirt, list, dash, timer, query, dialog>>

\* No connection: nothing changes.  A failed listing leaves an empty cache.
ListFails ==
  /\ task.pc = "list" /\ (Faults \/ ~conn)
  /\ vms' = IF conn THEN [n \in Names |-> "none"] ELSE vms
  /\ task' = [task EXCEPT !.pc = "render"]
  /\ quiet' = FALSE
  /\ UNCHANGED <<libvirt, stats, list, dash, timer, query, dialog>>

InfoDone(n) ==
  task' = [task EXCEPT !.todo = @ \ {n},
                       !.pc = IF task.todo = {n} THEN "render" ELSE "info"]

\* Mutant: every active domain is counted as running.
InfoCountsActive(n) ==
  /\ task.pc = "info" /\ n \in task.todo /\ dom[n] # "absent"
  /\ vms' = [vms EXCEPT ![n] = VmState(dom[n])]
  /\ stats' = [stats EXCEPT !.running = @ + (IF dom[n] \in Active THEN 1 ELSE 0)]
  /\ InfoDone(n)
  /\ UNCHANGED <<libvirt, list, dash, timer, query, dialog, quiet>>

Info(n) ==
  /\ task.pc = "info" /\ n \in task.todo /\ dom[n] # "absent"
  /\ vms' = [vms EXCEPT ![n] = VmState(dom[n])]
  /\ stats' = [stats EXCEPT !.running = @ + (IF dom[n] = "running" THEN 1 ELSE 0)]
  /\ InfoDone(n)
  /\ UNCHANGED <<libvirt, list, dash, timer, query, dialog, quiet>>

\* A failed virDomainGetInfo leaves the entry as calloc made it.
InfoFails(n) ==
  /\ task.pc = "info" /\ n \in task.todo
  /\ Faults \/ dom[n] = "absent"
  /\ InfoDone(n)
  /\ quiet' = FALSE
  /\ UNCHANGED <<libvirt, cache, list, dash, timer, query, dialog>>

\* ui_refresh_vm_list, with the filter and the search text as they are now.
RefreshVmList ==
  /\ rows' = [n \in Names |-> IF vms[n] # "none" /\ Visible(n)' THEN vms[n] ELSE "none"]
  /\ label' = stats

\* Mutant: the handlers do not render the list after the refresh.
RenderDashOnly ==
  /\ task.pc = "render"
  /\ dash' = IF task.dash THEN stats ELSE dash
  /\ task' = Idle
  /\ UNCHANGED <<libvirt, cache, list, timer, query, dialog, quiet>>

Render ==
  /\ task.pc = "render"
  /\ UNCHANGED <<libvirt, cache, timer, query, dialog, quiet>>
  /\ RefreshVmList
  /\ dash' = IF task.dash THEN stats ELSE dash
  /\ task' = Idle

---------------------------------------------------------------------------
(* Handlers without a blocking call. *)

\* ui_set_vm_filter: a filter toggle also clears the search text.
SetFilter ==
  /\ UserAt(NoDialog)
  /\ filter' \in Filters \ {filter}
  /\ search' = Names
  /\ UNCHANGED <<libvirt, cache, dash, timer, dialog, task, quiet>>
  /\ RefreshVmList

SearchChanged ==
  /\ UserAt(NoDialog)
  /\ search' \in Patterns
  /\ UNCHANGED <<libvirt, cache, filter, dash, timer, dialog, task, quiet>>
  /\ RefreshVmList

\* The refresh timer, which only runs with auto-refresh on; a dialog does not hold
\* it up.  ui_refresh_dashboard shows what is cached.
AutoRefresh ==
  /\ MainLoop /\ timer
  /\ dash' = stats
  /\ UNCHANGED <<libvirt, cache, list, timer, query, dialog, task, quiet>>

---------------------------------------------------------------------------
(* Guests and libvirtd's other clients. *)

Elsewhere(n) ==
  /\ \E st \in DomStates : st # dom[n] /\ dom' = [dom EXCEPT ![n] = st]
  /\ quiet' = FALSE
  /\ UNCHANGED <<conn, cache, list, dash, timer, query, dialog, task>>

\* on_activate: the window is built with nothing cached, the connection is
\* made or not, the timer started or not, and ui_refresh_all runs.
Init ==
  /\ conn \in BOOLEAN
  /\ dom \in [Names -> DomStates]
  /\ vms = [n \in Names |-> "none"] /\ stats = Zero
  /\ rows = [n \in Names |-> "none"] /\ label = Zero /\ dash = Zero
  /\ timer \in BOOLEAN
  /\ filter = "all" /\ search = Names
  /\ dialog = NoDialog
  /\ task = [Idle EXCEPT !.pc = "list", !.dash = TRUE]
  /\ quiet = FALSE

User ==
  \/ \E n \in Names : ClickButton(n) \/ CreateConfirm(n)
  \/ Confirm \/ Cancel \/ OpenCreate \/ OpenSettings \/ SaveSettings
  \/ Refresh \/ SetFilter \/ SearchChanged

HandlerStep ==
  \/ RunOp \/ List \/ ListFails \/ Render
  \/ \E n \in Names : Info(n) \/ InfoFails(n)

Next == User \/ HandlerStep \/ AutoRefresh \/ \E n \in Names : Elsewhere(n)

\* Saving the settings starts the timer's interval anew, however often: it is sure
\* to fire only while the dialog for that is not open.
Tick == AutoRefresh /\ dialog.op # "settings"

\* Handlers run to their end, and GLib dispatches a timer that is left alone.
Fairness == WF_panelVars(HandlerStep) /\ WF_panelVars(Tick)

Spec == Init /\ [][Next]_panelVars /\ Fairness

---------------------------------------------------------------------------
(* Properties *)

\* Every variable keeps its type; the counters stay within the listed names.
TypeOK ==
  /\ conn \in BOOLEAN /\ dom \in [Names -> DomStates]
  /\ vms \in [Names -> VmStates \cup {"none"}] /\ stats \in Counters
  /\ rows \in [Names -> VmStates \cup {"none"}]
  /\ label \in Counters /\ dash \in Counters /\ timer \in BOOLEAN
  /\ filter \in Filters /\ search \in SUBSET Names
  /\ dialog \in Dialog /\ task \in Task /\ quiet \in BOOLEAN

\* Between two events the list on the screen is the cache seen through the
\* filter and the search text, and the label shows the counters: no handler
\* refreshes the one without the other.
PanelInSync ==
  MainLoop =>
    /\ \A n \in Names : rows[n] = IF Visible(n) THEN vms[n] ELSE "none"
    /\ label = stats

\* After a handler that nobody disturbed, whatever it did, the cache is what
\* libvirtd has.
PanelFresh ==
  MainLoop /\ quiet =>
    \A n \in Names :
      vms[n] = IF dom[n] = "absent" THEN "none" ELSE VmState(dom[n])

\* While machines are listed, the counters belong to this list: the total is
\* its length, and no more are counted as running than are shown as running.
CountersAgree ==
  MainLoop /\ Listed # {} =>
    /\ stats.total = Cardinality(Listed)
    /\ stats.running <= Cardinality({n \in Names : vms[n] = "running"})

\* A button that is offered works: if nothing moved since the list was
\* fetched, confirmations included, libvirtd accepts the operation.
ClickIsLegal ==
  task.pc = "op" /\ task.op # "create" /\ quiet =>
    dom[task.name] \in From[task.op]

---------------------------------------------------------------------------
(* Statements the code does not keep (see the README). *)

Real == [total |-> Cardinality(Defined),
         running |-> Cardinality({n \in Names : dom[n] = "running"})]

\* "Real-time ... VM/container counts": after an undisturbed refresh the
\* counters are those of libvirtd.
CountsFresh == MainLoop /\ quiet => label = Real

\* "Auto-refresh - Dashboard updates every 3 seconds": if auto-refresh stays on and
\* the domains stop changing, the dashboard ends up showing them (run with
\* Faults = FALSE).
DashShowsReal == conn /\ []timer /\ <>[][FALSE]_dom => <>[](dash = Real)
=============================================================================
