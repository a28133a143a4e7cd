----------------------------- MODULE Snapshots -----------------------------
(***************************************************************************)
(* src/backend/snapshot_manager.c: the modal snapshot dialog of one virtual *)
(* machine, with the machine's row in the VM list behind it.               *)
(*                                                                         *)
(* The dialog's handlers refresh the dialog's list and nothing else, the    *)
(* VM list's handlers refresh the VM list and nothing else; a revert        *)
(* changes what both show.  Each handler is a sequence of libvirt calls,    *)
(* and libvirtd is shared with other clients, so the machine and its        *)
(* snapshots move between any two of them.  What is kept of the VM list is  *)
(* the badge of this machine's row: filter, confirmations and counters are  *)
(* in VmPanel, the calls of a vm_* function in VmManager.                   *)
(***************************************************************************)
EXTENDS Naturals, FiniteSets

CONSTANTS
  SnapNames,  \* snapshot names that libvirtd accepts
  Cut,        \* what is left of a name in VmSnapshot.name and SnapAction.snap_name
  NoSnap,     \* no name
  Kinds       \* bound: the snapshot states that are considered

ASSUME SnapNamesAssumption == IsFiniteSet(SnapNames) /\ NoSnap \notin SnapNames
ASSUME CutAssumption ==
  Cut \in [SnapNames -> SnapNames] /\ \A n \in SnapNames : Cut[Cut[n]] = Cut[n]
ASSUME KindsAssumption ==
  {"disk"} \subseteq Kinds /\ Kinds \subseteq {"disk", "running", "paused", "shutoff"}

VARIABLES
  machine,  \* the domain: its state and whether its definition is persistent
  snaps,    \* the state each snapshot was taken in, "none" without a snapshot
  badge,    \* state on the machine's row in the VM list, "none" without a row
  dialog,   \* the snapshot dialog is open
  rows,     \* detail on each snapshot's row in the dialog, "none" without a row
  task,     \* the handler being executed
  moved,    \* history: what moved the machine since the VM list was fetched
  quiet     \* history: since the dialog's list was fetched nobody else has
            \* touched the snapshots, and no call faulted

libvirt == <<machine, snaps>>
window == <<badge, dialog, rows>>
snapVars == <<libvirt, window, task, moved, quiet>>

---------------------------------------------------------------------------
(* libvirtd *)

MachineStates == {"absent", "shutoff", "running", "paused"}
NoMachine == [st |-> "absent", persistent |-> FALSE]
NoSnapshots == [n \in SnapNames |-> "none"]

Taken == {n \in SnapNames : snaps[n] # "none"}
Exists == machine # NoMachine

\* The machine comes to m.  A transient one that stops vanishes, and the
\* snapshots vanish with the machine.
Becomes(m) ==
  LET gone == m.st \in {"absent", "shutoff"} /\ ~m.persistent IN
  /\ machine' = IF gone THEN NoMachine ELSE m
  /\ snaps' = IF gone THEN NoSnapshots ELSE snaps

To(st) == Becomes([machine EXCEPT !.st = st])

\* What a revert makes of the machine, by the snapshot's state.
RevertsTo == [disk |-> {"shutoff", "running"}, running |-> {"running"},
              paused |-> {"paused"}, shutoff |-> {"shutoff"}]

\* VIR_DOMAIN_SNAPSHOT_CREATE_DISK_ONLY
KindTaken ==
  IF machine.st = "shutoff" /\ "shutoff" \in Kinds THEN "shutoff" ELSE "disk"

---------------------------------------------------------------------------
(* The vm_* functions when libvirtd accepts what they ask (see VmManager). *)

VmOps == {"start", "pause", "resume", "force_stop", "delete"}

From == [start |-> {"shutoff"}, pause |-> {"running"}, resume |-> {"paused"},
         force_stop |-> {"running", "paused"}]
After == [start |-> "running", pause |-> "paused", resume |-> "running",
          force_stop |-> "shutoff"]

\* Mutant: the snapshots are given up with the definition.
VmDeleteWithSnapshots ==
  \/ machine.st \in {"running", "shutoff"} /\ Becomes(NoMachine)
  \/ /\ machine.st = "paused" /\ machine.persistent
     /\ Becomes([machine EXCEPT !.persistent = FALSE])

\* A running machine is stopped first; then an inactive one is undefined unless
\* it has snapshots, and an active one goes on without its definition.
VmDelete ==
  \/ /\ machine.st \in {"running", "shutoff"}
     /\ IF Taken # {} THEN To("shutoff") ELSE Becomes(NoMachine)
  \/ /\ machine.st = "paused" /\ machine.persistent
     /\ Becomes([machine EXCEPT !.persistent = FALSE])

VmOp(op) ==
  IF op = "delete" THEN VmDelete ELSE machine.st \in From[op] /\ To(After[op])

---------------------------------------------------------------------------
(* The window.  A handler runs to its end before the main loop goes on. *)

\* vm_snapshot_list: the detail it finds in a snapshot's XML; empty when the
\* snapshot is not there any more.
Detail == [disk |-> "Unknown", running |-> "Running", paused |-> "Paused",
           shutoff |-> "Stopped", none |-> ""]

\* make_vm_row: the buttons that move the machine, by the state on the badge.
Buttons == [shutoff |-> {"start", "delete"}, running |-> {"pause", "force_stop"},
            paused |-> {"resume", "force_stop"}, none |-> {}]

SnapOps == {"create", "revert", "delete_snapshot"}

Task == [pc : {"idle", "snap_op", "num", "names", "detail", "vm_op", "vm_list"},
         op : VmOps \cup SnapOps \cup {"none"}, row : SnapNames \cup {NoSnap},
         num : 0..Cardinality(SnapNames), todo : SUBSET SnapNames]

Idle == [pc |-> "idle", op |-> "none", row |-> NoSnap, num |-> 0, todo |-> {}]

MainLoop == task.pc = "idle"

\* The dialog's list is fetched anew: refresh_snapshot_list.
RefreshSnapshotList == task' = [Idle EXCEPT !.pc = "num"]

---------------------------------------------------------------------------
(* The user.  The dialog is modal: while it is open the VM list is not reached. *)

\* on_vm_snapshot, ui_show_snapshot_dialog: every row has the button.
OpenDialog ==
  /\ MainLoop /\ ~dialog /\ badge # "none"
  /\ dialog' = TRUE
  /\ RefreshSnapshotList
  /\ UNCHANGED <<libvirt, badge, rows, moved, quiet>>

\* Mutant: the dialog is hidden with its rows.
CloseDialogHides ==
  /\ MainLoop /\ dialog
  /\ dialog' = FALSE
  /\ UNCHANGED <<libvirt, badge, rows, task, moved, quiet>>

CloseDialog ==
  /\ MainLoop /\ dialog
  /\ dialog' = FALSE /\ rows' = NoSnapshots
  /\ UNCHANGED <<libvirt, badge, task, moved, quiet>>

\* on_create_snapshot; with no name typed it does nothing.
ClickCreate(n) ==
  /\ MainLoop /\ dialog
  /\ task' = [Idle EXCEPT !.pc = "snap_op", !.op = "create", !.row = n]
  /\ UNCHANGED <<libvirt, window, moved, quiet>>

ClickRow(n) ==
  /\ MainLoop /\ dialog /\ rows[n] # "none"
  /\ \E op \in {"revert", "delete_snapshot"} :
       task' = [Idle EXCEPT !.pc = "snap_op", !.op = op, !.row = n]
  /\ UNCHANGED <<libvirt, window, moved, quiet>>

\* on_vm_start .. on_vm_delete_confirmed
ClickVm ==
  /\ MainLoop /\ ~dialog
  /\ \E op \in Buttons[badge] : task' = [Idle EXCEPT !.pc = "vm_op", !.op = op]
  /\ UNCHANGED <<libvirt, window, moved, quiet>>

\* F5, the sidebar.
Refresh ==
  /\ MainLoop /\ ~dialog
  /\ task' = [Idle EXCEPT !.pc = "vm_list"]
  /\ UNCHANGED <<libvirt, window, moved, quiet>>

---------------------------------------------------------------------------
(* vm_snapshot_create, vm_snapshot_revert, vm_snapshot_delete. *)

\* The snapshot that libvirtd is asked about: a row's buttons carry the cut name.
Named == IF task.op = "create" THEN task.row ELSE Cut[task.row]

SnapOpDone ==
  /\ task.pc = "snap_op"
  /\ \/ /\ task.op = "create" /\ Exists /\ snaps[Named] = "none"
        /\ snaps' = [snaps EXCEPT ![Named] = KindTaken]
        /\ UNCHANGED <<machine, moved>>
     \/ /\ task.op = "revert" /\ snaps[Named] # "none"
        /\ \E st \in RevertsTo[snaps[Named]] : To(st)
        /\ moved' = moved \cup {"revert"}
     \/ /\ task.op = "delete_snapshot" /\ snaps[Named] # "none"
        /\ snaps' = [snaps EXCEPT ![Named] = "none"]
        /\ UNCHANGED <<machine, moved>>
  /\ UNCHANGED window

\* Mutant: the list stays as it was.
SnapOpSucceedsNoRefresh ==
  SnapOpDone /\ task' = Idle /\ UNCHANGED quiet

SnapOpSucceeds ==
  SnapOpDone /\ RefreshSnapshotList /\ UNCHANGED quiet

\* A failure is logged and the list stays as it is, even when the operation took
\* effect and only the answer was lost.  libvirtd may refuse for reasons of its
\* own (a revert to an external snapshot, say).
SnapOpFails ==
  /\ task.pc = "snap_op"
  /\ task' = Idle
  /\ \/ UNCHANGED <<libvirt, window, moved, quiet>>
     \/ SnapOpDone /\ quiet' = FALSE

---------------------------------------------------------------------------
(* refresh_snapshot_list over vm_snapshot_list: number, names, one XML each. *)

\* virDomainSnapshotNum; a machine that is gone counts as one without snapshots.
Num ==
  /\ task.pc = "num"
  /\ rows' = NoSnapshots
  /\ task' = IF Taken = {} THEN Idle
             ELSE [task EXCEPT !.pc = "names", !.num = Cardinality(Taken)]
  /\ quiet' = TRUE
  /\ UNCHANGED <<libvirt, badge, dialog, moved>>

NumFails ==
  /\ task.pc = "num"
  /\ rows' = NoSnapshots /\ task' = Idle /\ quiet' = FALSE
  /\ UNCHANGED <<libvirt, badge, dialog, moved>>

\* Mutant: when the number has changed in between, start over.
NamesStartsOver ==
  /\ task.pc = "names"
  /\ task' = IF Cardinality(Taken) # task.num THEN [Idle EXCEPT !.pc = "num"]
             ELSE [Idle EXCEPT !.pc = "detail", !.todo = Taken]
  /\ UNCHANGED <<libvirt, window, moved, quiet>>

\* virDomainSnapshotListNames: no more than there is room for.
Names ==
  /\ task.pc = "names"
  /\ \E found \in SUBSET Taken :
       /\ IF Cardinality(Taken) <= task.num THEN found = Taken
          ELSE Cardinality(found) = task.num
       /\ task' = IF found = {} THEN Idle
                  ELSE [Idle EXCEPT !.pc = "detail", !.todo = found]
  /\ UNCHANGED <<libvirt, window, moved, quiet>>

NamesFail ==
  /\ task.pc = "names"
  /\ task' = Idle /\ quiet' = FALSE
  /\ UNCHANGED <<libvirt, window, moved>>

\* One row, with the detail that was found.
Row(n, detail) ==
  /\ task.pc = "detail" /\ n \in task.todo
  /\ rows' = [rows EXCEPT ![n] = detail]
  /\ task' = IF task.todo = {n} THEN Idle ELSE [task EXCEPT !.todo = @ \ {n}]
  /\ UNCHANGED <<libvirt, badge, dialog, moved>>

DetailOf(n) == Row(n, Detail[snaps[n]]) /\ UNCHANGED quiet

\* The lookup or the XML failed: the row is shown all the same.
DetailFails(n) == Row(n, "") /\ quiet' = FALSE

---------------------------------------------------------------------------
(* The handlers of the VM list: an operation, then the list (see VmPanel). *)

\* Mutant: the operation is not followed by a refresh.
RunVmOpNoRefresh ==
  /\ task.pc = "vm_op"
  /\ VmOp(task.op) \/ UNCHANGED libvirt
  /\ task' = Idle
  /\ UNCHANGED <<window, moved, quiet>>

\* A failed operation has done nothing, or vm_delete half its work.
RunVmOp ==
  /\ task.pc = "vm_op"
  /\ \/ VmOp(task.op)
     \/ UNCHANGED libvirt
     \/ task.op = "delete" /\ machine.st = "running" /\ To("shutoff")
  /\ task' = [Idle EXCEPT !.pc = "vm_list"]
  /\ UNCHANGED <<window, moved, quiet>>

FetchVmList ==
  /\ task.pc = "vm_list"
  /\ badge' = IF Exists THEN machine.st ELSE "none"
  /\ moved' = {}
  /\ task' = Idle
  /\ UNCHANGED <<libvirt, dialog, rows, quiet>>

\* No row, or the row that a failed virDomainGetInfo leaves.
FetchVmListFails ==
  /\ task.pc = "vm_list"
  /\ badge' \in {"none"} \cup {b \in {"running"} : Exists}
  /\ moved' = {"others"}
  /\ task' = Idle
  /\ UNCHANGED <<libvirt, dialog, rows, quiet>>

---------------------------------------------------------------------------
\* The guest, and libvirtd's other clients: the machine moves, is undefined or
\* defined; a snapshot is made, replaced or deleted.
Elsewhere ==
  /\ \/ \E st \in MachineStates \ {"absent"}, p \in BOOLEAN :
          /\ [st |-> st, persistent |-> p] # machine
          /\ Becomes([st |-> st, persistent |-> p])
     \/ Exists /\ Becomes(NoMachine)
     \/ /\ Exists /\ UNCHANGED machine
        /\ \E n \in SnapNames, kind \in Kinds \cup {"none"} :
             kind # snaps[n] /\ snaps' = [snaps EXCEPT ![n] = kind]
  /\ moved' = IF machine' = machine THEN moved ELSE moved \cup {"others"}
  /\ quiet' = (quiet /\ snaps' = snaps)
  /\ UNCHANGED <<window, task>>

\* The window has been built; ui_refresh_all is about to fetch the list.
Init ==
  /\ machine = NoMachine /\ snaps = NoSnapshots
  /\ badge = "none" /\ dialog = FALSE /\ rows = NoSnapshots
  /\ task = [Idle EXCEPT !.pc = "vm_list"]
  /\ moved = {} /\ quiet = TRUE

HandlerStep ==
  \/ SnapOpSucceeds \/ SnapOpFails
  \/ Num \/ NumFails \/ Names \/ NamesFail
  \/ \E n \in SnapNames : DetailOf(n) \/ DetailFails(n)
  \/ RunVmOp \/ FetchVmList \/ FetchVmListFails

User ==
  \/ OpenDialog \/ CloseDialog \/ ClickVm \/ Refresh
  \/ \E n \in SnapNames : ClickCreate(n) \/ ClickRow(n)

Next == User \/ HandlerStep \/ Elsewhere

\* Every libvirt call returns, and a handler runs to its end.
Fairness == WF_snapVars(HandlerStep)

Spec == Init /\ [][Next]_snapVars /\ Fairness

---------------------------------------------------------------------------
(* Properties *)

\* Every variable keeps its type; without a machine there is no snapshot, without
\* the dialog no row.
TypeOK ==
  /\ machine \in {NoMachine} \cup [st : {"shutoff"}, persistent : {TRUE}]
                   \cup [st : {"running", "paused"}, persistent : BOOLEAN]
  /\ snaps \in [SnapNames -> Kinds \cup {"none"}] /\ (~Exists => Taken = {})
  /\ badge \in (MachineStates \ {"absent"}) \cup {"none"}
  /\ rows \in [SnapNames -> {Detail[k] : k \in Kinds \cup {"none"}} \cup {"none"}]
  /\ dialog \in BOOLEAN /\ (~dialog => rows = NoSnapshots)
  /\ task \in Task
  /\ moved \in SUBSET {"revert", "others"} /\ quiet \in BOOLEAN

\* What the user sees and clicks in the dialog is what libvirtd has, each row
\* with its snapshot's state, as long as nobody else touches the snapshots: after
\* every create, revert and delete, refused ones included, although a refresh
\* takes three kinds of calls and a failed operation makes none.
ListFresh ==
  dialog /\ quiet /\ task.pc \in {"idle", "snap_op"} =>
    rows = [n \in SnapNames |->
              IF snaps[n] = "none" THEN "none" ELSE Detail[snaps[n]]]

ByProgram == task' # task

\* While the machine is persistent, no button loses a snapshot, however outdated
\* the row or list it is on, but Delete in the dialog: and this one loses the
\* snapshot of the name on its row, which is another's if it is too long to keep.
KeepsSnapshots ==
  [][ByProgram /\ machine.persistent =>
       \A n \in SnapNames :
         snaps[n] # "none" /\ snaps'[n] = "none" =>
           task.op = "delete_snapshot" /\ n = Cut[task.row]]_snapVars

\* On a row that shows where the machine is (neither a revert nor anybody else
\* has moved it since the list was fetched) Delete does nothing to a machine that
\* has snapshots, and no button takes its definition: that vm_delete fails only
\* after it has stopped a machine, or leaves it transient, takes an outdated row.
RowIsSafe ==
  [][task.pc = "vm_op" /\ ByProgram /\ moved = {} /\ Taken # {} =>
       /\ machine.persistent => machine'.persistent /\ snaps' = snaps
       /\ task.op = "delete" => UNCHANGED libvirt]_snapVars

\* The dialog answers: however the snapshots change under it, every handler ends.
HandlersReturn == ~MainLoop ~> MainLoop
=============================================================================
