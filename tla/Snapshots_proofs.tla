-------------------------- MODULE Snapshots_proofs --------------------------
(***************************************************************************)
(* Proofs of the safety properties of Snapshots, invariants and properties  *)
(* of steps, for any finite set of snapshot names and any way to cut them.  *)
(*                                                                         *)
(* Inv follows the two lists through their refreshes: the dialog's, which   *)
(* takes three kinds of calls, by what each call has left to the next, and   *)
(* the VM list's, whose badge is what the buttons of a row go by.           *)
(***************************************************************************)
EXTENDS Snapshots, FiniteSetTheorems, TLAPS

SnapHandler == task.pc \in {"snap_op", "num", "names", "detail"}

\* Which handlers run with the dialog open, and what started them.
TaskOK ==
  /\ SnapHandler => dialog
  /\ task.pc \in {"vm_op", "vm_list"} => ~dialog
  /\ task.pc = "snap_op" => task.op \in SnapOps /\ task.row \in SnapNames
  /\ task.pc = "vm_op" => task.op \in Buttons[badge]

\* What the row of n should be.
RowOf(n) == IF snaps[n] = "none" THEN "none" ELSE Detail[snaps[n]]

\* While nobody interferes, the names that are found are those that were counted,
\* and a row is missing only for the names still to be asked about.
ListOK ==
  dialog /\ quiet =>
    /\ task.pc \in {"idle", "snap_op"} => \A n \in SnapNames : rows[n] = RowOf(n)
    /\ task.pc = "names" => /\ task.num = Cardinality(Taken) /\ Taken # {}
                            /\ rows = NoSnapshots
    /\ task.pc = "detail" =>
         /\ task.todo \subseteq Taken
         /\ \A n \in SnapNames : rows[n] = IF n \in task.todo THEN "none" ELSE RowOf(n)

\* The badge shows where the machine is, but between an operation and the list.
BadgeOK ==
  moved = {} /\ task.pc # "vm_list" =>
    badge = IF Exists THEN machine.st ELSE "none"

Inv == TypeOK /\ TaskOK /\ ListOK /\ BadgeOK

-----------------------------------------------------------------------------
(* What libvirtd makes of the machine and its snapshots. *)

LibvirtOK ==
  /\ machine \in {NoMachine} \cup [st : {"shutoff"}, persistent : {TRUE}]
                   \cup [st : {"running", "paused"}, persistent : BOOLEAN]
  /\ snaps \in [SnapNames -> Kinds \cup {"none"}] /\ (~Exists => Taken = {})

LEMMA BecomesEffect ==
  ASSUME LibvirtOK,
         NEW m \in {NoMachine} \cup [st : MachineStates \ {"absent"},
                                     persistent : BOOLEAN],
         Becomes(m)
  PROVE  /\ LibvirtOK'
         /\ m.persistent => machine' = m /\ snaps' = snaps
<1>1. CASE m.st \in {"absent", "shutoff"} /\ ~m.persistent
  <2>1. machine' = NoMachine /\ snaps' = NoSnapshots
    BY <1>1 DEF Becomes
  <2>2. snaps' \in [SnapNames -> Kinds \cup {"none"}] /\ Taken' = {}
    BY <2>1 DEF NoSnapshots, Taken
  <2> QED BY <1>1, <2>1, <2>2 DEF LibvirtOK
<1>2. CASE ~(m.st \in {"absent", "shutoff"} /\ ~m.persistent)
  <2>1. machine' = m /\ snaps' = snaps
    BY <1>2 DEF Becomes
  <2>2. /\ m \in [st : {"shutoff"}, persistent : {TRUE}]
                 \cup [st : {"running", "paused"}, persistent : BOOLEAN]
        /\ m # NoMachine
    <3>1. m # NoMachine
      BY <1>2 DEF NoMachine
    <3>2. PICK st \in {"shutoff", "running", "paused"}, p \in BOOLEAN :
            m = [st |-> st, persistent |-> p]
      BY <3>1 DEF MachineStates
    <3>3. m.st = st /\ m.persistent = p
      BY <3>2
    <3>4. CASE p = TRUE
      BY <3>1, <3>2, <3>4
    <3>5. CASE p = FALSE
      BY <1>2, <3>1, <3>2, <3>3, <3>5
    <3> QED BY <3>4, <3>5
  <2> QED BY <2>1, <2>2 DEF LibvirtOK, Exists
<1> QED BY <1>1, <1>2

LEMMA MachineType ==
  ASSUME LibvirtOK, Exists
  PROVE  /\ machine.st \in {"shutoff", "running", "paused"}
         /\ machine.persistent \in BOOLEAN
         /\ machine = [st |-> machine.st, persistent |-> machine.persistent]
         /\ machine.st = "shutoff" => machine.persistent
<1>1. CASE machine \in [st : {"shutoff"}, persistent : {TRUE}]
  BY <1>1
<1>2. CASE machine \in [st : {"running", "paused"}, persistent : BOOLEAN]
  BY <1>2
<1> QED BY <1>1, <1>2 DEF LibvirtOK, Exists

LEMMA ToEffect ==
  ASSUME LibvirtOK, Exists, NEW st \in {"shutoff", "running", "paused"}, To(st)
  PROVE  /\ LibvirtOK'
         /\ machine.persistent =>
              machine' = [st |-> st, persistent |-> TRUE] /\ snaps' = snaps
<1> DEFINE m == [machine EXCEPT !.st = st]
<1>1. machine = [st |-> machine.st, persistent |-> machine.persistent]
      /\ machine.persistent \in BOOLEAN
  BY MachineType
<1>2. /\ m \in [st : MachineStates \ {"absent"}, persistent : BOOLEAN]
      /\ m.persistent = machine.persistent
      /\ machine.persistent => m = [st |-> st, persistent |-> TRUE]
  <2>1. m = [st |-> st, persistent |-> machine.persistent]
    BY <1>1
  <2>2. st \in MachineStates \ {"absent"}
    BY DEF MachineStates
  <2> HIDE DEF m
  <2>3. /\ m \in [st : MachineStates \ {"absent"}, persistent : BOOLEAN]
        /\ m.persistent = machine.persistent
    BY <1>1, <2>1, <2>2
  <2>4. machine.persistent => machine.persistent = TRUE
    BY <1>1
  <2> QED BY <2>1, <2>3, <2>4
<1>3. Becomes(m)
  BY DEF To
<1> HIDE DEF m
<1> QED BY <1>2, <1>3, BecomesEffect

\* A machine that is somewhere exists, and so does one with a snapshot.
LEMMA ExistsType ==
  ASSUME LibvirtOK
  PROVE  /\ machine.st \in {"shutoff", "running", "paused"} => Exists
         /\ Taken # {} => Exists
BY DEF LibvirtOK, Exists, NoMachine

LEMMA KindTakenType == KindTaken \in Kinds /\ KindTaken # "none"
BY KindsAssumption DEF KindTaken

\* A snapshot operation: the snapshot that is created or deleted is the one that
\* is named, and a revert loses none of a persistent machine's.
LEMMA SnapOpEffect ==
  ASSUME Inv, SnapOpDone
  PROVE  /\ LibvirtOK' /\ task.op \in SnapOps /\ task.row \in SnapNames
         /\ Named \in SnapNames /\ UNCHANGED <<badge, dialog, rows>>
         /\ \/ UNCHANGED <<machine, moved>>
            \/ moved' = moved \cup {"revert"}
         /\ machine.persistent =>
              \A n \in SnapNames :
                snaps[n] # "none" /\ snaps'[n] = "none" =>
                  task.op = "delete_snapshot" /\ n = Named
<1>1. /\ LibvirtOK /\ task.op \in SnapOps /\ task.row \in SnapNames
      /\ UNCHANGED <<badge, dialog, rows>>
  BY DEF SnapOpDone, window, Inv, TypeOK, LibvirtOK, TaskOK
<1>2. Named \in SnapNames
  BY <1>1, CutAssumption DEF Named
<1>3. snaps \in [SnapNames -> Kinds \cup {"none"}]
  BY <1>1 DEF LibvirtOK
<1>4. CASE /\ task.op = "create" /\ Exists /\ snaps[Named] = "none"
           /\ snaps' = [snaps EXCEPT ![Named] = KindTaken]
           /\ UNCHANGED <<machine, moved>>
  <2>1. snaps' \in [SnapNames -> Kinds \cup {"none"}] /\ Exists'
    BY <1>3, <1>4, KindTakenType DEF Exists
  <2>2. LibvirtOK'
    BY <1>1, <1>4, <2>1 DEF LibvirtOK
  <2> QED BY <1>1, <1>2, <1>3, <1>4, <2>2, KindTakenType
<1>5. CASE /\ task.op = "revert" /\ snaps[Named] # "none"
           /\ \E st \in RevertsTo[snaps[Named]] : To(st)
           /\ moved' = moved \cup {"revert"}
  <2>1. snaps[Named] \in Kinds /\ Exists
    BY <1>1, <1>2, <1>3, <1>5, ExistsType DEF Taken
  <2>2. RevertsTo[snaps[Named]] \subseteq {"shutoff", "running", "paused"}
    <3>1. snaps[Named] \in {"disk", "running", "paused", "shutoff"}
      BY <2>1, KindsAssumption
    <3> QED BY <3>1 DEF RevertsTo
  <2>3. LibvirtOK' /\ (machine.persistent => snaps' = snaps)
    BY <1>1, <1>5, <2>1, <2>2, ToEffect
  <2> QED BY <1>1, <1>2, <1>5, <2>3
<1>6. CASE /\ task.op = "delete_snapshot" /\ snaps[Named] # "none"
           /\ snaps' = [snaps EXCEPT ![Named] = "none"]
           /\ UNCHANGED <<machine, moved>>
  <2>1. snaps' \in [SnapNames -> Kinds \cup {"none"}]
        /\ Taken' \subseteq Taken /\ Exists' = Exists
    BY <1>2, <1>3, <1>6 DEF Taken, Exists
  <2>2. LibvirtOK'
    BY <1>1, <1>6, <2>1 DEF LibvirtOK
  <2> QED BY <1>1, <1>2, <1>3, <1>6, <2>2
<1> QED BY <1>4, <1>5, <1>6 DEF SnapOpDone

\* An operation of the VM list: no snapshot of a persistent machine goes with
\* it, and vm_delete does half its work on an active machine at the most.
LEMMA VmOpEffect ==
  ASSUME Inv, RunVmOp
  PROVE  /\ LibvirtOK'
         /\ machine.persistent /\ Taken # {} => snaps' = snaps
<1>1. LibvirtOK /\ task.op \in Buttons[badge]
      /\ badge \in (MachineStates \ {"absent"}) \cup {"none"}
  BY DEF RunVmOp, Inv, TypeOK, LibvirtOK, TaskOK
<1>2. task.op \in VmOps
  BY <1>1 DEF Buttons, MachineStates, VmOps
<1>3. CASE UNCHANGED libvirt
  BY <1>1, <1>3 DEF libvirt, LibvirtOK, Exists, Taken
<1>4. CASE task.op = "delete" /\ machine.st = "running" /\ To("shutoff")
  BY <1>1, <1>4, ExistsType, ToEffect
<1>5. CASE task.op # "delete" /\ VmOp(task.op)
  <2>1. machine.st \in From[task.op] /\ To(After[task.op])
    BY <1>5 DEF VmOp
  <2>2. /\ From[task.op] \subseteq {"shutoff", "running", "paused"}
        /\ After[task.op] \in {"shutoff", "running", "paused"}
    BY <1>2, <1>5 DEF VmOps, From, After
  <2> QED BY <1>1, <2>1, <2>2, ExistsType, ToEffect
<1>6. CASE task.op = "delete" /\ VmDelete
  <2>1. CASE machine.st \in {"running", "shutoff"} /\ Taken # {} /\ To("shutoff")
    BY <1>1, <2>1, ExistsType, ToEffect
  <2>2. CASE /\ machine.st \in {"running", "shutoff"} /\ Taken = {}
             /\ Becomes(NoMachine)
    BY <1>1, <2>2, ExistsType, BecomesEffect
  <2>3. CASE /\ machine.st = "paused" /\ machine.persistent
             /\ Becomes([machine EXCEPT !.persistent = FALSE])
    <3> DEFINE m == [machine EXCEPT !.persistent = FALSE]
    <3>1. machine \in [st : MachineStates \ {"absent"}, persistent : BOOLEAN]
      BY <1>1, <2>3, ExistsType, MachineType DEF MachineStates
    <3>2. m \in [st : MachineStates \ {"absent"}, persistent : BOOLEAN]
          /\ m.st = "paused"
      BY <2>3, <3>1
    <3> HIDE DEF m
    <3>3. Becomes(m)
      BY <2>3 DEF m
    <3>4. LibvirtOK'
      BY <1>1, <3>2, <3>3, BecomesEffect
    <3> QED BY <3>2, <3>3, <3>4 DEF Becomes
  <2> QED BY <1>6, <2>1, <2>2, <2>3 DEF VmDelete
<1> QED BY <1>3, <1>4, <1>5, <1>6 DEF RunVmOp, VmOp

-----------------------------------------------------------------------------
(* Counting and handlers. *)

LEMMA CountTaken ==
  /\ 0 \in 0..Cardinality(SnapNames)
  /\ IsFiniteSet(Taken) /\ Cardinality(Taken) \in 0..Cardinality(SnapNames)
<1>1. Taken \subseteq SnapNames
  BY DEF Taken
<1>2. /\ IsFiniteSet(SnapNames) /\ IsFiniteSet(Taken)
      /\ Cardinality(Taken) <= Cardinality(SnapNames)
  BY <1>1, SnapNamesAssumption, FS_Subset
<1>3. Cardinality(Taken) \in Nat /\ Cardinality(SnapNames) \in Nat
  BY <1>2, FS_CardinalityType
<1> QED BY <1>2, <1>3

LEMMA IdleType == Idle \in Task /\ Idle.pc = "idle"
BY CountTaken DEF Idle, Task

LEMMA RefreshType ==
  ASSUME RefreshSnapshotList PROVE task' \in Task /\ task'.pc = "num"
BY CountTaken DEF RefreshSnapshotList, Idle, Task

\* The parts of the type invariant.
WindowOK ==
  /\ badge \in (MachineStates \ {"absent"}) \cup {"none"}
  /\ rows \in [SnapNames -> {Detail[k] : k \in Kinds \cup {"none"}} \cup {"none"}]
  /\ dialog \in BOOLEAN /\ (~dialog => rows = NoSnapshots)
  /\ moved \in SUBSET {"revert", "others"} /\ quiet \in BOOLEAN

LEMMA TypeParts == TypeOK <=> LibvirtOK /\ WindowOK /\ task \in Task
BY DEF TypeOK, LibvirtOK, WindowOK

LEMMA TypeParts1 == TypeOK' <=> LibvirtOK' /\ WindowOK' /\ task' \in Task
BY DEF TypeOK, LibvirtOK, WindowOK

\* A step that does not reach libvirtd.
LEMMA SameLibvirt ==
  ASSUME Inv, UNCHANGED libvirt
  PROVE  /\ LibvirtOK' /\ UNCHANGED <<machine, snaps>>
         /\ Taken' = Taken /\ Exists' = Exists
         /\ \A n \in SnapNames : RowOf(n)' = RowOf(n)
<1>1. UNCHANGED <<machine, snaps>> /\ LibvirtOK
  BY TypeParts DEF libvirt, Inv
<1> QED BY <1>1 DEF LibvirtOK, Taken, Exists, RowOf

-----------------------------------------------------------------------------
(* The user's clicks. *)

LEMMA ClickInv ==
  ASSUME Inv, MainLoop, UNCHANGED <<libvirt, window, moved, quiet>>,
         task' \in Task, task'.pc \in {"snap_op", "vm_op", "vm_list"},
         task'.pc = "snap_op" =>
           dialog /\ task'.op \in SnapOps /\ task'.row \in SnapNames,
         task'.pc \in {"vm_op", "vm_list"} => ~dialog,
         task'.pc = "vm_op" => task'.op \in Buttons[badge]
  PROVE  Inv'
<1>1. /\ UNCHANGED <<libvirt, machine, snaps, badge, dialog, rows, moved, quiet>>
      /\ task.pc = "idle"
  BY DEF libvirt, window, MainLoop
<1>2. TypeOK'
  BY <1>1, TypeParts, TypeParts1, SameLibvirt DEF Inv, WindowOK
<1>3. TaskOK'
  BY <1>1 DEF TaskOK, SnapHandler
<1>4. ListOK'
  BY <1>1, SameLibvirt DEF Inv, ListOK
<1>5. BadgeOK'
  BY <1>1, SameLibvirt DEF Inv, BadgeOK
<1> QED BY <1>2, <1>3, <1>4, <1>5 DEF Inv

LEMMA ClicksInv ==
  ASSUME Inv,
         \/ ClickVm \/ Refresh
         \/ \E n \in SnapNames : ClickCreate(n) \/ ClickRow(n)
  PROVE  Inv'
<1>1. MainLoop /\ UNCHANGED <<libvirt, window, moved, quiet>>
  BY Zenon DEF ClickVm, Refresh, ClickCreate, ClickRow
<1>2. CASE \E n \in SnapNames : ClickCreate(n) \/ ClickRow(n)
  <2>1. PICK n \in SnapNames, op \in SnapOps :
          dialog /\ task' = [Idle EXCEPT !.pc = "snap_op", !.op = op, !.row = n]
    BY <1>2, Zenon DEF ClickCreate, ClickRow, SnapOps
  <2>2. /\ task' \in Task /\ task'.pc = "snap_op" /\ task'.op = op
        /\ task'.row = n
    BY <2>1, CountTaken DEF Idle, Task
  <2> QED BY <1>1, <2>1, <2>2, ClickInv
<1>3. CASE ClickVm
  <2>1. PICK op \in Buttons[badge] :
          ~dialog /\ task' = [Idle EXCEPT !.pc = "vm_op", !.op = op]
    BY <1>3 DEF ClickVm
  <2>2. op \in VmOps
    BY DEF Inv, TypeOK, Buttons, VmOps, MachineStates
  <2>3. task' \in Task /\ task'.pc = "vm_op" /\ task'.op = op
    BY <2>1, <2>2, CountTaken DEF Idle, Task
  <2> QED BY <1>1, <2>1, <2>3, ClickInv
<1>4. CASE Refresh
  <2>1. ~dialog /\ task' \in Task /\ task'.pc = "vm_list"
    BY <1>4, CountTaken DEF Refresh, Idle, Task
  <2> QED BY <1>1, <2>1, ClickInv
<1> QED BY <1>2, <1>3, <1>4

LEMMA OpenDialogInv == ASSUME Inv, OpenDialog PROVE Inv'
<1>1. /\ UNCHANGED <<libvirt, machine, snaps, badge, rows, moved, quiet>>
      /\ task.pc = "idle" /\ dialog' = TRUE
      /\ task' \in Task /\ task'.pc = "num"
  BY RefreshType DEF OpenDialog, MainLoop, libvirt
<1>2. TypeOK'
  BY <1>1, TypeParts, TypeParts1, SameLibvirt DEF Inv, WindowOK
<1>3. TaskOK' /\ ListOK'
  BY <1>1 DEF TaskOK, SnapHandler, ListOK
<1>4. BadgeOK'
  BY <1>1, SameLibvirt DEF Inv, BadgeOK
<1> QED BY <1>2, <1>3, <1>4 DEF Inv

LEMMA NoRowsType ==
  NoSnapshots \in [SnapNames -> {Detail[k] : k \in Kinds \cup {"none"}} \cup {"none"}]
BY DEF NoSnapshots

LEMMA CloseDialogInv == ASSUME Inv, CloseDialog PROVE Inv'
<1>1. /\ UNCHANGED <<libvirt, machine, snaps, badge, moved, task, quiet>>
      /\ task.pc = "idle" /\ dialog' = FALSE /\ rows' = NoSnapshots
  BY DEF CloseDialog, MainLoop, libvirt
<1>2. TypeOK'
  BY <1>1, TypeParts, TypeParts1, SameLibvirt, NoRowsType DEF Inv, WindowOK
<1>3. TaskOK' /\ ListOK'
  BY <1>1 DEF TaskOK, SnapHandler, ListOK
<1>4. BadgeOK'
  BY <1>1, SameLibvirt DEF Inv, BadgeOK
<1> QED BY <1>2, <1>3, <1>4 DEF Inv

-----------------------------------------------------------------------------
(* The dialog's handlers: an operation, and the list in three kinds of calls. *)

LEMMA SnapOpInv == ASSUME Inv, SnapOpSucceeds \/ SnapOpFails PROVE Inv'
<1>1. task.pc = "snap_op" /\ dialog
  BY DEF SnapOpSucceeds, SnapOpFails, SnapOpDone, Inv, TaskOK, SnapHandler
<1>2. CASE SnapOpFails /\ UNCHANGED <<libvirt, window, moved, quiet>>
  <2>1. /\ UNCHANGED <<libvirt, machine, snaps, badge, dialog, rows, moved, quiet>>
        /\ task' = Idle
    BY <1>2 DEF libvirt, window, SnapOpFails
  <2>2. TypeOK'
    BY <2>1, TypeParts, TypeParts1, SameLibvirt, IdleType DEF Inv, WindowOK
  <2>3. TaskOK'
    BY <2>1, IdleType DEF TaskOK, SnapHandler
  <2>4. ListOK'
    BY <1>1, <2>1, SameLibvirt, IdleType DEF Inv, ListOK
  <2>5. BadgeOK'
    BY <1>1, <2>1, SameLibvirt DEF Inv, BadgeOK
  <2> QED BY <2>2, <2>3, <2>4, <2>5 DEF Inv
<1>3. CASE /\ SnapOpDone
           /\ \/ RefreshSnapshotList /\ UNCHANGED quiet
              \/ task' = Idle /\ quiet' = FALSE
  <2>1. /\ LibvirtOK' /\ UNCHANGED <<badge, dialog, rows>>
        /\ \/ UNCHANGED <<machine, moved>>
           \/ moved' = moved \cup {"revert"}
    BY <1>3, SnapOpEffect
  <2>2. /\ task' \in Task /\ task'.pc \in {"num", "idle"}
        /\ quiet' \in BOOLEAN /\ (task'.pc = "idle" => quiet' = FALSE)
    BY <1>3, RefreshType, IdleType DEF Inv, TypeOK
  <2>3. TypeOK'
    BY <2>1, <2>2, TypeParts, TypeParts1 DEF Inv, WindowOK
  <2>4. TaskOK' /\ ListOK'
    BY <1>1, <2>1, <2>2 DEF TaskOK, SnapHandler, ListOK
  <2>5. BadgeOK'
    BY <1>1, <2>1 DEF Inv, BadgeOK, Exists
  <2> QED BY <2>3, <2>4, <2>5 DEF Inv
<1> QED BY <1>2, <1>3 DEF SnapOpSucceeds, SnapOpFails

\* The rows are gone and the number is known, or the list is empty.
LEMMA NumInv == ASSUME Inv, Num \/ NumFails PROVE Inv'
<1>1. /\ UNCHANGED <<libvirt, machine, snaps, badge, dialog, moved>>
      /\ task.pc = "num" /\ dialog /\ rows' = NoSnapshots /\ quiet' \in BOOLEAN
      /\ task \in Task
  BY DEF Num, NumFails, libvirt, Inv, TypeOK, TaskOK, SnapHandler
<1>2. /\ task' \in Task
      /\ \/ task'.pc = "idle" /\ quiet' = FALSE
         \/ task'.pc = "idle" /\ Taken = {}
         \/ task'.pc = "names" /\ Taken # {} /\ task'.num = Cardinality(Taken)
  <2>1. CASE NumFails
    BY <2>1, IdleType DEF NumFails
  <2>2. CASE Num /\ Taken = {}
    BY <2>2, IdleType DEF Num
  <2>3. CASE Num /\ Taken # {}
    BY <1>1, <2>3, CountTaken DEF Num, Task
  <2> QED BY <2>1, <2>2, <2>3
<1>3. TypeOK'
  BY <1>1, <1>2, TypeParts, TypeParts1, SameLibvirt, NoRowsType DEF Inv, WindowOK
<1>4. TaskOK'
  BY <1>1, <1>2 DEF TaskOK, SnapHandler
<1>5. ListOK'
  <2>1. Taken = {} => \A n \in SnapNames : rows'[n] = RowOf(n)
    BY <1>1 DEF Taken, RowOf, NoSnapshots
  <2> QED BY <1>1, <1>2, <2>1, SameLibvirt DEF ListOK
<1>6. BadgeOK'
  BY <1>1, <1>2, SameLibvirt DEF Inv, BadgeOK
<1> QED BY <1>3, <1>4, <1>5, <1>6 DEF Inv

LEMMA NamesInv == ASSUME Inv, Names \/ NamesFail PROVE Inv'
<1>1. /\ UNCHANGED <<libvirt, machine, snaps, badge, dialog, rows, moved>>
      /\ task.pc = "names" /\ dialog /\ quiet' \in BOOLEAN
      /\ quiet' => quiet
      /\ Idle \in Task /\ Idle.pc = "idle"
  <2>1. UNCHANGED <<libvirt, window, moved>> /\ task.pc = "names" /\ dialog
    BY DEF Names, NamesFail, Inv, TaskOK, SnapHandler
  <2>2. quiet \in BOOLEAN /\ (quiet' = quiet \/ quiet' = FALSE)
    BY DEF Names, NamesFail, Inv, TypeOK
  <2>3. quiet' \in BOOLEAN /\ (quiet' => quiet)
    <3>1. CASE quiet = TRUE
      BY <2>2, <3>1
    <3>2. CASE quiet = FALSE
      <4>1. quiet' = FALSE
        BY <2>2, <3>2
      <4> QED BY <4>1
    <3> QED BY <2>2, <3>1, <3>2
  <2>4. UNCHANGED <<libvirt, machine, snaps, badge, dialog, rows, moved>>
    BY <2>1 DEF libvirt, window
  <2> QED BY <2>1, <2>3, <2>4, IdleType
<1>2. /\ task' \in Task /\ task'.pc \in {"idle", "detail"}
      /\ quiet' => task'.pc = "detail" /\ task'.todo = Taken
  <2>1. CASE NamesFail
    BY <1>1, <2>1 DEF NamesFail
  <2>2. CASE Names
    <3>1. PICK found \in SUBSET Taken :
            /\ Cardinality(Taken) <= task.num => found = Taken
            /\ task' = IF found = {} THEN Idle
                       ELSE [Idle EXCEPT !.pc = "detail", !.todo = found]
      BY <2>2 DEF Names
    <3>2. found \in SUBSET SnapNames
      BY DEF Taken
    <3>3. found # {} => task' \in Task /\ task'.pc = "detail" /\ task'.todo = found
      BY <3>1, <3>2, CountTaken DEF Idle, Task
    <3>4. quiet' => task.num = Cardinality(Taken) /\ Taken # {}
      BY <1>1 DEF Inv, ListOK
    <3>5. quiet' => found = Taken
      BY <3>1, <3>4, CountTaken
    <3> QED BY <1>1, <3>1, <3>3, <3>4, <3>5
  <2> QED BY <2>1, <2>2
<1>3. TypeOK'
  BY <1>1, <1>2, TypeParts, TypeParts1, SameLibvirt DEF Inv, WindowOK
<1>4. TaskOK'
  BY <1>1, <1>2 DEF TaskOK, SnapHandler
<1>5. ListOK'
  <2>1. quiet' => rows = NoSnapshots
    BY <1>1 DEF Inv, ListOK
  <2>2. \A n \in SnapNames : n \notin Taken => RowOf(n) = "none"
    BY DEF Taken, RowOf
  <2>3. \A n \in SnapNames : NoSnapshots[n] = "none"
    BY DEF NoSnapshots
  <2> QED BY <1>1, <1>2, <2>1, <2>2, <2>3, SameLibvirt DEF ListOK
<1>6. BadgeOK'
  BY <1>1, <1>2, SameLibvirt DEF Inv, BadgeOK
<1> QED BY <1>3, <1>4, <1>5, <1>6 DEF Inv

LEMMA RowInv ==
  ASSUME Inv, NEW n \in SnapNames, DetailOf(n) \/ DetailFails(n) PROVE Inv'
<1>1. /\ UNCHANGED <<libvirt, machine, snaps, badge, dialog, moved>>
      /\ task.pc = "detail" /\ dialog /\ n \in task.todo /\ task \in Task
      /\ quiet' \in BOOLEAN
      /\ snaps[n] \in Kinds \cup {"none"}
      /\ rows \in [SnapNames -> {Detail[k] : k \in Kinds \cup {"none"}} \cup {"none"}]
  BY DEF DetailOf, DetailFails, Row, libvirt, Inv, TypeOK, TaskOK, SnapHandler
<1>2. PICK detail \in {Detail[k] : k \in Kinds \cup {"none"}} :
        /\ rows' = [rows EXCEPT ![n] = detail]
        /\ quiet' => quiet /\ detail = Detail[snaps[n]]
  <2>1. Detail["none"] = ""
    BY DEF Detail
  <2> QED BY <1>1, <2>1 DEF DetailOf, DetailFails, Row
<1>3. /\ rows'[n] = detail /\ \A m \in SnapNames : m # n => rows'[m] = rows[m]
      /\ rows' \in [SnapNames -> {Detail[k] : k \in Kinds \cup {"none"}} \cup {"none"}]
  BY <1>1, <1>2
<1>4. /\ task' \in Task
      /\ \/ task'.pc = "idle" /\ task.todo = {n}
         \/ task'.pc = "detail" /\ task'.todo = task.todo \ {n}
  <2>1. CASE task.todo = {n}
    BY <2>1, IdleType DEF DetailOf, DetailFails, Row
  <2>2. CASE task.todo # {n}
    <3>1. task' = [task EXCEPT !.todo = task.todo \ {n}]
      BY <2>2 DEF DetailOf, DetailFails, Row
    <3> QED BY <1>1, <3>1 DEF Task
  <2> QED BY <2>1, <2>2
<1>5. TypeOK'
  BY <1>1, <1>3, <1>4, TypeParts, TypeParts1, SameLibvirt DEF Inv, WindowOK
<1>6. TaskOK'
  BY <1>1, <1>4 DEF TaskOK, SnapHandler
<1>7. ListOK'
  <2>1. ASSUME quiet' PROVE /\ task.todo \subseteq Taken /\ rows'[n] = RowOf(n)
                            /\ \A m \in SnapNames :
                                 rows[m] = IF m \in task.todo THEN "none" ELSE RowOf(m)
    BY <1>1, <1>2, <1>3, <2>1 DEF Inv, ListOK, RowOf, Taken
  <2>2. Taken' = Taken /\ \A m \in SnapNames : RowOf(m)' = RowOf(m)
    BY <1>1, SameLibvirt
  <2> QED BY <1>1, <1>3, <1>4, <2>1, <2>2 DEF ListOK
<1>8. BadgeOK'
  BY <1>1, <1>4, SameLibvirt DEF Inv, BadgeOK
<1> QED BY <1>5, <1>6, <1>7, <1>8 DEF Inv

-----------------------------------------------------------------------------
(* The VM list's handlers, and libvirtd's other clients. *)

LEMMA RunVmOpInv == ASSUME Inv, RunVmOp PROVE Inv'
<1>1. /\ task.pc = "vm_op" /\ dialog = FALSE
      /\ UNCHANGED <<badge, dialog, rows, moved, quiet>>
      /\ task' \in Task /\ task'.pc = "vm_list"
  BY CountTaken DEF RunVmOp, window, Inv, TypeOK, TaskOK, Idle, Task
<1>2. TypeOK'
  BY <1>1, VmOpEffect, TypeParts, TypeParts1 DEF Inv, WindowOK
<1> QED BY <1>1, <1>2 DEF Inv, TaskOK, SnapHandler, ListOK, BadgeOK

LEMMA FetchInv == ASSUME Inv, FetchVmList \/ FetchVmListFails PROVE Inv'
<1>1. /\ UNCHANGED <<libvirt, machine, snaps, dialog, rows, quiet>>
      /\ task.pc = "vm_list" /\ dialog = FALSE /\ task' = Idle
      /\ LibvirtOK
  BY TypeParts DEF FetchVmList, FetchVmListFails, libvirt, Inv, TypeOK, TaskOK
<1>2. badge' \in (MachineStates \ {"absent"}) \cup {"none"}
  <2>1. {"shutoff", "running", "paused"} \subseteq MachineStates \ {"absent"}
    BY DEF MachineStates
  <2> QED BY <1>1, <2>1, MachineType DEF FetchVmList, FetchVmListFails
<1>3. \/ moved' = {} /\ badge' = IF Exists THEN machine.st ELSE "none"
      \/ moved' = {"others"}
  BY DEF FetchVmList, FetchVmListFails
<1>4. TypeOK'
  BY <1>1, <1>2, <1>3, TypeParts, TypeParts1, SameLibvirt, IdleType
  DEF Inv, WindowOK
<1>5. TaskOK' /\ ListOK'
  BY <1>1, IdleType DEF TaskOK, SnapHandler, ListOK
<1>6. BadgeOK'
  BY <1>1, <1>3, SameLibvirt DEF BadgeOK
<1> QED BY <1>4, <1>5, <1>6 DEF Inv

LEMMA ElsewhereInv == ASSUME Inv, Elsewhere PROVE Inv'
<1>1. /\ UNCHANGED <<badge, dialog, rows, task>>
      /\ moved' = IF machine' = machine THEN moved ELSE moved \cup {"others"}
      /\ quiet' = (quiet /\ snaps' = snaps)
  BY DEF Elsewhere, window
<1>2. LibvirtOK'
  <2>1. LibvirtOK /\ snaps \in [SnapNames -> Kinds \cup {"none"}]
    BY TypeParts DEF Inv, LibvirtOK
  <2>2. CASE \E st \in MachineStates \ {"absent"}, p \in BOOLEAN :
               Becomes([st |-> st, persistent |-> p])
    BY <2>1, <2>2, BecomesEffect
  <2>3. CASE Becomes(NoMachine)
    BY <2>1, <2>3, BecomesEffect
  <2>4. CASE /\ Exists /\ UNCHANGED machine
             /\ \E n \in SnapNames, kind \in Kinds \cup {"none"} :
                  snaps' = [snaps EXCEPT ![n] = kind]
    BY <2>1, <2>4 DEF LibvirtOK, Exists
  <2> QED BY <2>2, <2>3, <2>4 DEF Elsewhere
<1>3. TypeOK'
  BY <1>1, <1>2, TypeParts, TypeParts1 DEF Inv, WindowOK
<1>4. TaskOK'
  BY <1>1 DEF Inv, TaskOK, SnapHandler
<1>5. ListOK'
  <2>1. snaps' = snaps => Taken' = Taken /\ \A n \in SnapNames : RowOf(n)' = RowOf(n)
    BY DEF Taken, RowOf
  <2> QED BY <1>1, <2>1 DEF Inv, ListOK
<1>6. BadgeOK'
  BY <1>1 DEF Inv, BadgeOK, Exists
<1> QED BY <1>3, <1>4, <1>5, <1>6 DEF Inv

-----------------------------------------------------------------------------
(* Inv is an invariant. *)

LEMMA InitInv == Init => Inv
<1> SUFFICES ASSUME Init PROVE Inv
  OBVIOUS
<1>1. /\ machine = NoMachine /\ snaps = NoSnapshots /\ rows = NoSnapshots
      /\ badge = "none" /\ dialog = FALSE /\ moved = {} /\ quiet = TRUE
      /\ task \in Task /\ task.pc = "vm_list"
  BY CountTaken DEF Init, Idle, Task
<1>2. LibvirtOK
  BY <1>1 DEF LibvirtOK, NoSnapshots, Taken
<1>3. TypeOK
  BY <1>1, <1>2, NoRowsType, TypeParts DEF WindowOK
<1> QED BY <1>1, <1>3 DEF Inv, TaskOK, SnapHandler, ListOK, BadgeOK

LEMMA NextInv == Inv /\ [Next]_snapVars => Inv'
<1> SUFFICES ASSUME Inv, [Next]_snapVars PROVE Inv'
  OBVIOUS
<1>1. CASE User
  BY <1>1, OpenDialogInv, CloseDialogInv, ClicksInv DEF User
<1>2. CASE HandlerStep
  BY <1>2, SnapOpInv, NumInv, NamesInv, RowInv, RunVmOpInv, FetchInv
  DEF HandlerStep
<1>3. CASE Elsewhere
  BY <1>3, ElsewhereInv
<1>4. CASE UNCHANGED snapVars
  <2>1. UNCHANGED <<libvirt, machine, snaps, badge, dialog, rows, task, moved, quiet>>
    BY <1>4 DEF snapVars, libvirt, window
  <2>2. TypeOK'
    BY <2>1, TypeParts, TypeParts1, SameLibvirt DEF Inv, WindowOK
  <2>3. TaskOK' /\ ListOK' /\ BadgeOK'
    BY <2>1, SameLibvirt DEF Inv, TaskOK, SnapHandler, ListOK, BadgeOK
  <2> QED BY <2>2, <2>3 DEF Inv
<1> QED BY <1>1, <1>2, <1>3, <1>4 DEF Next

LEMMA Invariance == Spec => []Inv
BY InitInv, NextInv, PTL DEF Spec

-----------------------------------------------------------------------------

\* The machine, its snapshots, both lists and the handlers keep their types: no
\* snapshot outlives its machine, and no row the dialog.
THEOREM TypeCorrect == Spec => []TypeOK
<1>1. Inv => TypeOK
  BY DEF Inv
<1> QED BY <1>1, Invariance, PTL

\* refresh_snapshot_list, in three kinds of calls, and the operations, which
\* refresh only when they succeed, leave the dialog with the list that libvirtd
\* has, unless another client touches the snapshots.
THEOREM ListIsFresh == Spec => []ListFresh
<1>1. Inv => ListFresh
  <2> SUFFICES ASSUME Inv, dialog, quiet, task.pc \in {"idle", "snap_op"}
               PROVE  rows = [n \in SnapNames |-> RowOf(n)]
    BY DEF ListFresh, RowOf
  <2>1. \A n \in SnapNames : rows[n] = RowOf(n)
    BY DEF Inv, ListOK
  <2>2. rows = [n \in SnapNames |-> rows[n]]
    BY DEF Inv, TypeOK
  <2> QED BY <2>1, <2>2
<1> QED BY <1>1, Invariance, PTL

Keeps ==
  ByProgram /\ machine.persistent =>
    \A n \in SnapNames :
      snaps[n] # "none" /\ snaps'[n] = "none" =>
        task.op = "delete_snapshot" /\ n = Cut[task.row]

\* The program takes no snapshot of a persistent machine away, with any row of
\* any outdated list, but vm_snapshot_delete: and this one only the snapshot that
\* the name on the row, cut to its buffer, is the name of.
THEOREM SnapshotsKept == Spec => KeepsSnapshots
<1>1. Inv /\ [Next]_snapVars => [Keeps]_snapVars
  <2> SUFFICES ASSUME Inv, Next, task' # task, machine.persistent,
                      NEW n \in SnapNames, snaps[n] # "none", snaps'[n] = "none"
               PROVE  task.op = "delete_snapshot" /\ n = Cut[task.row]
    BY DEF Keeps, ByProgram
  <2>1. snaps' # snaps /\ Taken # {}
    BY DEF Taken
  <2>2. SnapOpDone \/ RunVmOp
    <3>1. CASE User
      BY <2>1, <3>1, Zenon
      DEF User, OpenDialog, CloseDialog, ClickVm, Refresh, ClickCreate, ClickRow, libvirt
    <3>2. CASE HandlerStep
      BY <2>1, <3>2
      DEF HandlerStep, SnapOpSucceeds, SnapOpFails, Num, NumFails, Names, NamesFail,
          DetailOf, DetailFails, Row, FetchVmList, FetchVmListFails, libvirt
    <3>3. CASE Elsewhere
      BY <3>3 DEF Elsewhere
    <3> QED BY <3>1, <3>2, <3>3 DEF Next
  <2>3. CASE SnapOpDone
    <3>1. task.op = "delete_snapshot" /\ n = Named
      BY <2>3, SnapOpEffect
    <3> QED BY <3>1 DEF Named
  <2>4. CASE RunVmOp
    BY <2>1, <2>4, VmOpEffect
  <2> QED BY <2>2, <2>3, <2>4
<1>2. [][Keeps]_snapVars <=> KeepsSnapshots
  BY DEF Keeps, KeepsSnapshots
<1> QED BY <1>1, <1>2, Invariance, PTL DEF Spec

Safe ==
  task.pc = "vm_op" /\ ByProgram /\ moved = {} /\ Taken # {} =>
    /\ machine.persistent => machine'.persistent /\ snaps' = snaps
    /\ task.op = "delete" => UNCHANGED libvirt

\* An operation that the machine's row offers, while the row shows where the
\* machine is, keeps the definition of a machine with snapshots; Delete, which
\* vm_delete cannot carry out, changes nothing at all.
THEOREM RowsAreSafe == Spec => RowIsSafe
<1>1. Inv /\ [Next]_snapVars => [Safe]_snapVars
  <2> SUFFICES ASSUME Inv, Next, task.pc = "vm_op", task' # task, moved = {},
                      Taken # {}
               PROVE  /\ machine.persistent => machine'.persistent /\ snaps' = snaps
                      /\ task.op = "delete" => UNCHANGED libvirt
    BY DEF Safe, ByProgram
  <2>1. RunVmOp
    BY DEF Next, User, OpenDialog, CloseDialog, ClickVm, Refresh, ClickCreate, ClickRow,
           MainLoop, HandlerStep, SnapOpSucceeds, SnapOpFails, SnapOpDone, Num, NumFails,
           Names, NamesFail, DetailOf, DetailFails, Row, FetchVmList,
           FetchVmListFails, Elsewhere
  <2>2. /\ LibvirtOK /\ Exists /\ badge = machine.st
        /\ task.op \in Buttons[machine.st]
    BY ExistsType, TypeParts DEF Inv, BadgeOK, TaskOK
  <2>3. /\ machine.st \in {"shutoff", "running", "paused"}
        /\ machine.st = "shutoff" => machine.persistent
    BY <2>2, MachineType
  <2>4. CASE UNCHANGED libvirt
    BY <2>4 DEF libvirt
  <2>5. CASE task.op = "delete" /\ To("shutoff") /\ machine.st = "shutoff"
    <3>1. /\ machine' = [st |-> "shutoff", persistent |-> TRUE] /\ snaps' = snaps
      BY <2>2, <2>3, <2>5, ToEffect
    <3>2. machine \in [st : {"shutoff"}, persistent : {TRUE}]
      BY <2>2, <2>5 DEF LibvirtOK, Exists
    <3>3. machine = [st |-> "shutoff", persistent |-> TRUE]
      BY <3>2
    <3> QED BY <3>1, <3>3 DEF libvirt
  <2>6. CASE task.op # "delete" /\ task.op \in VmOps /\ To(After[task.op])
    <3>1. After[task.op] \in {"shutoff", "running", "paused"}
      BY <2>6 DEF VmOps, After
    <3> DEFINE st == After[task.op]
    <3>2. To(st)
      BY <2>6
    <3> HIDE DEF st
    <3>3. machine.persistent =>
            machine' = [st |-> st, persistent |-> TRUE] /\ snaps' = snaps
      BY <2>2, <3>1, <3>2, ToEffect DEF st
    <3> QED BY <2>6, <3>3
  <2>7. \/ UNCHANGED libvirt
        \/ task.op = "delete" /\ To("shutoff") /\ machine.st = "shutoff"
        \/ task.op # "delete" /\ task.op \in VmOps /\ To(After[task.op])
    <3>1. CASE task.op = "delete"
      <4>1. machine.st = "shutoff"
        BY <2>2, <2>3, <3>1 DEF Buttons
      <4> QED BY <2>1, <3>1, <4>1 DEF RunVmOp, VmOp, VmDelete
    <3>2. CASE task.op # "delete"
      <4>1. task.op \in VmOps
        BY <2>2, <2>3, <3>2 DEF Buttons, VmOps
      <4> QED BY <2>1, <3>2, <4>1 DEF RunVmOp, VmOp
    <3> QED BY <3>1, <3>2
  <2> QED BY <2>4, <2>5, <2>6, <2>7
<1>2. [][Safe]_snapVars <=> RowIsSafe
  BY DEF Safe, RowIsSafe
<1> QED BY <1>1, <1>2, Invariance, PTL DEF Spec
=============================================================================
