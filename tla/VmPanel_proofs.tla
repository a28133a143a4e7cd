--------------------------- MODULE VmPanel_proofs ---------------------------
(***************************************************************************)
(* Proofs of VmPanel's safety properties, for any finite set of domains and *)
(* any filters and searches.                                               *)
(*                                                                         *)
(* The properties speak of the main loop between two handlers.  Inv says    *)
(* what a handler that is half way through may rely on: which entries of    *)
(* the cache the refresh has already filled (all but task.todo), and up to  *)
(* which step the rows are still those of the cache.                       *)
(***************************************************************************)
EXTENDS VmPanel, FiniteSetTheorems, TLAPS

TaskOK ==
  /\ task.pc = "op" => task.op \in Ops /\ task.name \in Names
  /\ task.pc = "info" => task.todo # {} /\ task.todo \subseteq Listed
  /\ task.pc # "info" => task.todo = {}
  /\ dialog # NoDialog => MainLoop

ShownRunning == {n \in Names : vms[n] = "running"}

\* A name still to be queried is cached as running and not counted yet.
CountersOK ==
  Listed # {} =>
    /\ stats.total = Cardinality(Listed)
    /\ stats.running <= Cardinality(ShownRunning \ task.todo)

InSync ==
  /\ \A n \in Names : rows[n] = IF Visible(n) THEN vms[n] ELSE "none"
  /\ label = stats

SyncOK == task.pc \in {"idle", "op", "list"} => InSync

\* The entry of n is what libvirtd has.
Current(n) == vms[n] = IF dom[n] = "absent" THEN "none" ELSE VmState(dom[n])

\* From the listing on, up to the operation of the next handler.
FreshOK ==
  quiet /\ task.pc # "list" => \A n \in Names \ task.todo : Current(n)

\* What a confirmation dialog asks about is still possible.
LegalOK ==
  /\ ClickIsLegal
  /\ quiet /\ dialog.op \in Destructive => dom[dialog.name] \in From[dialog.op]

Inv == TypeOK /\ TaskOK /\ CountersOK /\ SyncOK /\ FreshOK /\ LegalOK

-----------------------------------------------------------------------------
(* Counting. *)

LEMMA CountBound ==
  ASSUME NEW S \in SUBSET Names
  PROVE  /\ IsFiniteSet(S) /\ Cardinality(S) \in Nat
         /\ Cardinality(S) \in 0..Cardinality(Names)
         /\ Cardinality(Names) \in Nat
<1>1. IsFiniteSet(Names)
  BY PanelNamesAssumption
<1>2. /\ IsFiniteSet(S) /\ Cardinality(S) <= Cardinality(Names)
      /\ Cardinality(S) \in Nat /\ Cardinality(Names) \in Nat
  BY <1>1, FS_Subset, FS_CardinalityType
<1> QED BY <1>2

LEMMA ZeroType == Zero \in Counters
<1>1. Cardinality(Names) \in Nat
  BY PanelNamesAssumption, FS_CardinalityType
<1> QED BY <1>1 DEF Zero, Counters

LEMMA PerformType ==
  ASSUME NEW op \in Ops, NEW n \in Names, Perform(op, n)
  PROVE  /\ task' \in Task /\ task'.todo = {}
         /\ task'.pc = "op" /\ task'.op = op /\ task'.name = n
<1> DEFINE d == op \in {"delete", "create"}
<1>1. task' = [pc |-> "op", op |-> op, name |-> n, todo |-> {}, dash |-> d]
  BY DEF Perform, Idle
<1>2. d \in BOOLEAN
  OBVIOUS
<1> HIDE DEF d
<1> QED BY <1>1, <1>2 DEF Task

-----------------------------------------------------------------------------
(* The user's clicks: nothing moves but the dialog and the handler. *)

LEMMA UserInv ==
  ASSUME Inv, MainLoop,
         UNCHANGED <<libvirt, cache, list, dash, query, quiet>>,
         timer' \in BOOLEAN,
         task' \in Task, task'.pc \in {"idle", "op", "list"}, task'.todo = {},
         task'.pc = "op" => /\ task'.op \in Ops /\ task'.name \in Names
                            /\ task'.op # "create" /\ quiet =>
                                 dom[task'.name] \in From[task'.op],
         dialog' \in Dialog, dialog' # NoDialog => task'.pc = "idle",
         quiet /\ dialog'.op \in Destructive =>
           dom[dialog'.name] \in From[dialog'.op]
  PROVE  Inv'
<1>1. /\ UNCHANGED <<conn, dom, vms, stats, rows, label, dash, filter, search, quiet>>
      /\ task.pc = "idle" /\ task.todo = {}
  BY DEF libvirt, cache, list, query, MainLoop, Inv, TaskOK
<1>2. TypeOK'
  BY <1>1 DEF Inv, TypeOK
<1>3. TaskOK' /\ LegalOK'
  BY <1>1 DEF TaskOK, LegalOK, ClickIsLegal, MainLoop
<1>4. CountersOK'
  BY <1>1 DEF Inv, CountersOK, Listed, ShownRunning
<1>5. SyncOK'
  BY <1>1 DEF Inv, SyncOK, InSync, Visible
<1>6. FreshOK'
  BY <1>1 DEF Inv, FreshOK, Current
<1> QED BY <1>2, <1>3, <1>4, <1>5, <1>6 DEF Inv

\* What a row offers, while nobody has disturbed it, libvirtd accepts.
LEMMA OfferedIsLegal ==
  ASSUME Inv, MainLoop, NEW n \in Names, NEW op \in Buttons[rows[n]]
  PROVE  op \in Ops /\ op # "create" /\ (quiet => dom[n] \in From[op])
<1>1. rows[n] \in {vms[n], "none"} /\ vms[n] \in VmStates \cup {"none"}
      /\ rows[n] \in VmStates \cup {"none"} /\ dom[n] \in DomStates
  BY DEF Inv, SyncOK, InSync, MainLoop, TypeOK
<1>2. op \in Ops /\ op # "create"
  BY <1>1 DEF Buttons, VmStates, Ops
<1>3. ASSUME quiet PROVE dom[n] \in From[op]
  <2>1. rows[n] # "none" => dom[n] # "absent" /\ rows[n] = VmState(dom[n])
    BY <1>1, <1>3 DEF Inv, FreshOK, TaskOK, Current, MainLoop
  <2>2. rows[n] \in {"running", "shutoff", "paused"}
    BY <1>1 DEF Buttons, VmStates
  <2>3. dom[n] = rows[n]
    BY <2>1, <2>2 DEF VmState
  <2> QED BY <2>2, <2>3, ActiveAssumption DEF Buttons, From
<1> QED BY <1>2, <1>3

LEMMA ClickButtonInv == ASSUME Inv, NEW n \in Names, ClickButton(n) PROVE Inv'
<1>1. /\ MainLoop /\ UNCHANGED <<libvirt, cache, list, dash, query, quiet>>
      /\ timer' \in BOOLEAN
      /\ task \in Task /\ dialog \in Dialog /\ dialog = NoDialog /\ task.todo = {}
  BY DEF ClickButton, UserAt, Inv, TypeOK, TaskOK, MainLoop
<1>2. PICK op \in Buttons[rows[n]] :
        IF op \in Destructive
        THEN dialog' = [op |-> op, name |-> n] /\ UNCHANGED task
        ELSE Perform(op, n) /\ UNCHANGED dialog
  BY DEF ClickButton
<1>3. op \in Ops /\ op # "create" /\ (quiet => dom[n] \in From[op])
  BY <1>1, <1>2, OfferedIsLegal
<1>4. CASE op \in Destructive
  <2>1. dialog' \in Dialog /\ dialog'.op = op /\ dialog'.name = n
    BY <1>2, <1>4 DEF Dialog
  <2> QED BY <1>1, <1>2, <1>3, <1>4, <2>1, UserInv DEF MainLoop
<1>5. CASE op \notin Destructive
  <2>1. task' \in Task /\ task'.todo = {} /\ task'.pc = "op" /\ task'.op = op
        /\ task'.name = n
    BY <1>2, <1>3, <1>5, PerformType
  <2>2. dialog' = dialog /\ dialog.op \notin Destructive
    BY <1>1, <1>2, <1>5 DEF NoDialog, Destructive
  <2> QED BY <1>1, <1>3, <2>1, <2>2, UserInv
<1> QED BY <1>4, <1>5

LEMMA DialogType ==
  ASSUME Inv, dialog.op \in Destructive
  PROVE  /\ dialog.name \in Names /\ dialog.op \in Ops /\ dialog.op # "create"
         /\ MainLoop /\ NoDialog \in Dialog /\ NoDialog.op \notin Destructive
<1>1. dialog # NoDialog /\ dialog \in Dialog
  BY DEF NoDialog, Destructive, Inv, TypeOK
<1>2. dialog.name \in Names
  BY <1>1 DEF Dialog, Destructive
<1> QED BY <1>1, <1>2 DEF Inv, TaskOK, Dialog, NoDialog, Destructive, Ops

LEMMA ConfirmInv == ASSUME Inv, Confirm PROVE Inv'
<1>1. /\ MainLoop /\ UNCHANGED <<libvirt, cache, list, dash, query, quiet>>
      /\ timer' \in BOOLEAN
      /\ Perform(dialog.op, dialog.name) /\ dialog' = NoDialog
      /\ dialog.op \in Destructive
  BY DEF Confirm, Inv, TypeOK
<1>2. quiet => dom[dialog.name] \in From[dialog.op]
  BY <1>1 DEF Inv, LegalOK
<1>3. /\ task' \in Task /\ task'.todo = {} /\ task'.pc = "op"
      /\ task'.op = dialog.op /\ task'.name = dialog.name
  BY <1>1, DialogType, PerformType
<1> QED BY <1>1, <1>2, <1>3, DialogType, UserInv

LEMMA CreateConfirmInv ==
  ASSUME Inv, NEW n \in Names, CreateConfirm(n) PROVE Inv'
<1>1. /\ MainLoop /\ UNCHANGED <<libvirt, cache, list, dash, query, quiet>>
      /\ timer' \in BOOLEAN
      /\ Perform("create", n) /\ dialog' = NoDialog /\ "create" \in Ops
      /\ NoDialog \in Dialog /\ NoDialog.op \notin Destructive
  BY DEF CreateConfirm, Ops, Dialog, NoDialog, Destructive, Inv, TypeOK
<1>2. /\ task' \in Task /\ task'.todo = {} /\ task'.pc = "op"
      /\ task'.op = "create" /\ task'.name = n
  BY <1>1, PerformType
<1> QED BY <1>1, <1>2, UserInv

\* Dialogs that open or close, and Refresh, start no operation.
LEMMA DialogInv ==
  ASSUME Inv, Cancel \/ OpenCreate \/ OpenSettings \/ SaveSettings \/ Refresh
  PROVE  Inv'
<1>1. /\ MainLoop /\ UNCHANGED <<libvirt, cache, list, dash, query, quiet>>
      /\ timer' \in BOOLEAN
      /\ task \in Task /\ task.todo = {} /\ task.pc = "idle"
  BY DEF Cancel, OpenCreate, OpenSettings, SaveSettings, Refresh, UserAt, Inv,
         TypeOK, TaskOK, MainLoop
<1>2. CASE Cancel \/ OpenCreate \/ OpenSettings \/ SaveSettings
  <2>1. dialog' \in Dialog /\ dialog'.op \notin Destructive /\ task' = task
    BY <1>2
    DEF Cancel, OpenCreate, OpenSettings, SaveSettings, Dialog, NoDialog, Destructive
  <2> QED BY <1>1, <2>1, UserInv
<1>3. CASE Refresh
  <2>1. /\ dialog' = NoDialog /\ NoDialog \in Dialog /\ NoDialog.op \notin Destructive
        /\ \E d \in BOOLEAN : task' = [Idle EXCEPT !.pc = "list", !.dash = d]
    BY <1>3 DEF Refresh, UserAt, Dialog, NoDialog, Destructive
  <2>2. task' \in Task /\ task'.todo = {} /\ task'.pc = "list"
    BY <2>1 DEF Idle, Task
  <2> QED BY <1>1, <2>1, <2>2, UserInv
<1> QED BY <1>2, <1>3

-----------------------------------------------------------------------------
(* The steps of a handler. *)

LEMMA OutcomesType ==
  ASSUME NEW op \in Ops, NEW st \in DomStates
  PROVE  Outcomes(op, st) \subseteq DomStates
BY ActiveAssumption DEF Outcomes, DomStates, Ops

LEMMA RunOpInv == ASSUME Inv, RunOp PROVE Inv'
<1>1. /\ task.pc = "op" /\ task.op \in Ops /\ task.name \in Names /\ task.todo = {}
      /\ dialog = NoDialog /\ NoDialog.op \notin Destructive
      /\ UNCHANGED <<conn, vms, stats, rows, label, dash, timer, filter, search, dialog, quiet>>
  BY DEF RunOp, Inv, TaskOK, MainLoop, cache, list, query, NoDialog, Destructive
<1>2. dom' \in [Names -> DomStates]
  <2>1. dom[task.name] \in DomStates
    BY <1>1 DEF Inv, TypeOK
  <2> QED BY <1>1, <2>1, OutcomesType DEF RunOp, Inv, TypeOK
<1>3. task' \in Task /\ task'.pc = "list" /\ task'.todo = {}
  BY <1>1 DEF RunOp, Inv, TypeOK, Task
<1>4. TypeOK' /\ TaskOK'
  BY <1>1, <1>2, <1>3 DEF Inv, TypeOK, TaskOK
<1>5. CountersOK'
  BY <1>1, <1>3 DEF Inv, CountersOK, Listed, ShownRunning
<1>6. SyncOK'
  BY <1>1, <1>3 DEF Inv, SyncOK, InSync, Visible
<1>7. FreshOK' /\ LegalOK'
  BY <1>1, <1>3 DEF FreshOK, LegalOK, ClickIsLegal
<1> QED BY <1>4, <1>5, <1>6, <1>7 DEF Inv

LEMMA ListInv == ASSUME Inv, List PROVE Inv'
<1>1. /\ task.pc = "list" /\ task.todo = {} /\ task \in Task
      /\ dialog = NoDialog /\ NoDialog.op \notin Destructive
      /\ UNCHANGED <<conn, dom, rows, label, dash, timer, filter, search, dialog>>
      /\ quiet' = TRUE
  BY DEF List, Inv, TypeOK, TaskOK, MainLoop, libvirt, list, query, NoDialog, Destructive
<1>2. /\ vms' = [n \in Names |-> IF n \in Defined THEN "running" ELSE "none"]
      /\ Listed' = Defined /\ ShownRunning' = Defined
  BY DEF List, Listed, Defined, ShownRunning
<1>3. /\ Cardinality(Defined) \in 0..Cardinality(Names)
      /\ Cardinality(Defined) \in Nat /\ 0 \in 0..Cardinality(Names)
  BY CountBound DEF Defined
<1>4. /\ task' \in Task /\ task'.todo = Defined
      /\ task'.pc = IF Defined = {} THEN "render" ELSE "info"
  BY <1>1 DEF List, Task, Defined
<1>5. stats' \in Counters
  BY <1>3 DEF List, Inv, TypeOK, Counters
<1>6. TypeOK' /\ TaskOK'
  <2>1. vms' \in [Names -> VmStates \cup {"none"}]
    BY <1>2 DEF VmStates
  <2> QED BY <1>1, <1>2, <1>4, <1>5, <2>1 DEF Inv, TypeOK, TaskOK
<1>7. CountersOK'
  <2>1. Cardinality(ShownRunning' \ task'.todo) \in Nat
    BY <1>2, CountBound DEF Defined
  <2> QED BY <1>2, <2>1 DEF List, CountersOK
<1>8. SyncOK' /\ LegalOK'
  BY <1>1, <1>4 DEF SyncOK, LegalOK, ClickIsLegal
<1>9. FreshOK'
  BY <1>1, <1>2, <1>4 DEF FreshOK, Current, Defined
<1> QED BY <1>6, <1>7, <1>8, <1>9 DEF Inv

LEMMA ListFailsInv == ASSUME Inv, ListFails PROVE Inv'
<1>1. /\ task.pc = "list" /\ task.todo = {} /\ task \in Task
      /\ UNCHANGED <<conn, dom, stats, rows, label, dash, timer, filter, search, dialog>>
      /\ quiet' = FALSE /\ dialog = NoDialog
      /\ task' = [task EXCEPT !.pc = "render"]
  BY DEF ListFails, Inv, TypeOK, TaskOK, MainLoop, libvirt, list, query
<1>2. task' \in Task /\ task'.todo = {} /\ task'.pc = "render"
  BY <1>1 DEF Task
<1>3. \/ vms' = vms
      \/ vms' = [n \in Names |-> "none"] /\ Listed' = {}
  BY DEF ListFails, Listed
<1>4. TypeOK' /\ TaskOK'
  BY <1>1, <1>2, <1>3 DEF Inv, TypeOK, TaskOK
<1>5. CountersOK'
  BY <1>1, <1>2, <1>3 DEF Inv, CountersOK, Listed, ShownRunning
<1> QED BY <1>1, <1>2, <1>4, <1>5
        DEF Inv, SyncOK, FreshOK, LegalOK, ClickIsLegal

LEMMA InfoDoneEffect ==
  ASSUME Inv, task.pc = "info", NEW n \in task.todo, InfoDone(n)
  PROVE  /\ task' \in Task /\ task'.todo = task.todo \ {n} /\ n \in Names
         /\ task'.pc = IF task'.todo = {} THEN "render" ELSE "info"
         /\ task.todo \subseteq Listed /\ vms[n] # "none" /\ dialog = NoDialog
<1>1. /\ task \in Task /\ task.todo \subseteq Listed /\ dialog = NoDialog
      /\ task.todo \subseteq Names
  BY DEF Inv, TypeOK, TaskOK, MainLoop, Listed
<1>2. task' \in Task /\ task'.todo = task.todo \ {n}
      /\ task'.pc = IF task.todo = {n} THEN "render" ELSE "info"
  BY <1>1 DEF InfoDone, Task
<1>3. task.todo = {n} <=> task.todo \ {n} = {}
  OBVIOUS
<1> QED BY <1>1, <1>2, <1>3 DEF Listed

\* The counter follows the list: one entry is filled in, and counted if running.
LEMMA CountOne ==
  ASSUME Inv, NEW n \in task.todo, n \in Names, NEW counted \in BOOLEAN,
         NEW S, S = IF counted THEN (ShownRunning \ task.todo) \cup {n}
                    ELSE ShownRunning \ task.todo,
         stats.running <= Cardinality(ShownRunning \ task.todo),
         stats' = [stats EXCEPT !.running = @ + (IF counted THEN 1 ELSE 0)]
  PROVE  /\ stats' \in Counters /\ stats'.total = stats.total
         /\ stats'.running <= Cardinality(S)
<1> DEFINE R == ShownRunning \ task.todo
<1>1. IsFiniteSet(R) /\ Cardinality(R) \in Nat /\ R \in SUBSET Names
  BY CountBound DEF ShownRunning
<1>2. S \in SUBSET Names
  BY <1>1
<1>3. Cardinality(S) \in 0..Cardinality(Names) /\ Cardinality(Names) \in Nat
  BY <1>2, CountBound
<1>4. Cardinality(S) = Cardinality(R) + (IF counted THEN 1 ELSE 0)
  <2>1. n \notin R
    OBVIOUS
  <2>2. Cardinality(R \cup {n}) = Cardinality(R) + 1
    BY <1>1, <2>1, FS_AddElement
  <2>3. CASE counted
    BY <2>2, <2>3
  <2>4. CASE ~counted
    BY <1>1, <2>4
  <2> QED BY <2>3, <2>4
<1>5. stats \in Counters
  BY DEF Inv, TypeOK
<1>6. /\ stats'.running = stats.running + (IF counted THEN 1 ELSE 0)
      /\ stats'.total = stats.total
      /\ stats' = [total |-> stats.total, running |-> stats'.running]
  BY <1>5 DEF Counters
<1>7. stats'.running <= Cardinality(S) /\ stats'.running \in Nat
  BY <1>1, <1>4, <1>5, <1>6 DEF Counters
<1>8. stats'.running \in 0..Cardinality(Names)
  BY <1>3, <1>7
<1> QED BY <1>5, <1>6, <1>7, <1>8 DEF Counters

LEMMA InfoInv == ASSUME Inv, NEW n \in Names, Info(n) PROVE Inv'
<1>1. /\ task.pc = "info" /\ n \in task.todo /\ dom[n] # "absent" /\ InfoDone(n)
      /\ UNCHANGED <<conn, dom, rows, label, dash, timer, filter, search, dialog, quiet>>
      /\ vms' = [vms EXCEPT ![n] = VmState(dom[n])]
      /\ dom[n] \in DomStates /\ vms \in [Names -> VmStates \cup {"none"}]
  BY DEF Info, libvirt, list, query, Inv, TypeOK
<1>2. /\ task' \in Task /\ task'.todo = task.todo \ {n}
      /\ task'.pc = IF task'.todo = {} THEN "render" ELSE "info"
      /\ task.todo \subseteq Listed /\ dialog = NoDialog /\ vms[n] # "none"
  BY <1>1, InfoDoneEffect
<1>3. /\ VmState(dom[n]) \in VmStates
      /\ VmState(dom[n]) = "running" <=> dom[n] = "running"
  BY <1>1, ActiveAssumption DEF VmState, VmStates, DomStates
<1>4. /\ vms' \in [Names -> VmStates \cup {"none"}] /\ vms'[n] = VmState(dom[n])
      /\ \A m \in Names : m # n => vms'[m] = vms[m]
  BY <1>1, <1>3
<1>5. VmState(dom[n]) # "none"
  BY <1>3 DEF VmStates
<1>6. Listed' = Listed
  BY <1>2, <1>4, <1>5 DEF Listed
<1> DEFINE counted == dom[n] = "running"
           S == ShownRunning' \ task'.todo
<1>7. S = IF counted THEN (ShownRunning \ task.todo) \cup {n}
          ELSE ShownRunning \ task.todo
  BY <1>1, <1>2, <1>3, <1>4 DEF ShownRunning
<1>8. /\ stats.running <= Cardinality(ShownRunning \ task.todo)
      /\ stats.total = Cardinality(Listed)
  BY <1>1, <1>2 DEF Inv, CountersOK
<1>9. /\ stats' \in Counters /\ stats'.total = stats.total
      /\ stats'.running <= Cardinality(S)
  <2>1. stats' = [stats EXCEPT !.running = @ + (IF counted THEN 1 ELSE 0)]
    BY DEF Info
  <2>2. counted \in BOOLEAN
    OBVIOUS
  <2> HIDE DEF counted, S
  <2> QED BY <1>1, <1>7, <1>8, <2>1, <2>2, CountOne
<1>10. TypeOK' /\ TaskOK'
  BY <1>1, <1>2, <1>4, <1>6, <1>9 DEF Inv, TypeOK, TaskOK
<1>11. CountersOK'
  BY <1>6, <1>8, <1>9 DEF CountersOK
<1>12. SyncOK' /\ LegalOK'
  BY <1>1, <1>2 DEF SyncOK, LegalOK, ClickIsLegal, NoDialog, Destructive
<1>13. FreshOK'
  BY <1>1, <1>2, <1>4 DEF Inv, FreshOK, Current
<1> QED BY <1>10, <1>11, <1>12, <1>13 DEF Inv

LEMMA InfoFailsInv == ASSUME Inv, NEW n \in Names, InfoFails(n) PROVE Inv'
<1>1. /\ task.pc = "info" /\ n \in task.todo /\ InfoDone(n)
      /\ UNCHANGED <<conn, dom, vms, stats, rows, label, dash, timer, filter, search, dialog>>
      /\ quiet' = FALSE
  BY DEF InfoFails, libvirt, cache, list, query
<1>2. /\ task' \in Task /\ task'.todo = task.todo \ {n}
      /\ task'.pc = IF task'.todo = {} THEN "render" ELSE "info"
      /\ task.todo \subseteq Listed /\ dialog = NoDialog
  BY <1>1, InfoDoneEffect
<1>3. TypeOK' /\ TaskOK'
  BY <1>1, <1>2 DEF Inv, TypeOK, TaskOK, Listed
<1>4. Cardinality(ShownRunning \ task.todo)
        <= Cardinality(ShownRunning \ (task.todo \ {n}))
  <2> DEFINE S == ShownRunning \ (task.todo \ {n})
             T == ShownRunning \ task.todo
  <2>1. S \in SUBSET Names /\ T \in SUBSET S
    BY DEF ShownRunning
  <2> QED BY <2>1, CountBound, FS_Subset
<1>5. CountersOK'
  <2>1. /\ Cardinality(ShownRunning \ task.todo) \in Nat
        /\ Cardinality(ShownRunning \ (task.todo \ {n})) \in Nat
        /\ stats.running \in Nat
    BY CountBound DEF ShownRunning, Inv, TypeOK, Counters
  <2> QED BY <1>1, <1>2, <1>4, <2>1 DEF Inv, CountersOK, Listed, ShownRunning
<1> QED BY <1>1, <1>2, <1>3, <1>5
        DEF Inv, SyncOK, FreshOK, LegalOK, ClickIsLegal

-----------------------------------------------------------------------------
(* The steps that draw, and the rest of the world. *)

LEMMA RenderInv == ASSUME Inv, Render PROVE Inv'
<1>1. /\ task.pc = "render" /\ task.todo = {} /\ dialog = NoDialog
      /\ UNCHANGED <<conn, dom, vms, stats, timer, filter, search, dialog, quiet>>
      /\ RefreshVmList /\ dash' \in {dash, stats} /\ task' = Idle
      /\ vms \in [Names -> VmStates \cup {"none"}]
  BY DEF Render, libvirt, cache, query, Inv, TypeOK, TaskOK, MainLoop
<1>2. Idle \in Task /\ Idle.pc = "idle" /\ Idle.todo = {}
  BY DEF Idle, Task
<1>3. /\ label' = stats /\ rows' \in [Names -> VmStates \cup {"none"}]
      /\ \A n \in Names :
           rows'[n] = IF vms[n] # "none" /\ Visible(n)' THEN vms[n] ELSE "none"
  BY <1>1 DEF RefreshVmList
<1>4. TypeOK' /\ TaskOK'
  BY <1>1, <1>2, <1>3 DEF Inv, TypeOK, TaskOK
<1>5. CountersOK' /\ FreshOK'
  BY <1>1, <1>2
  DEF Inv, CountersOK, Listed, ShownRunning, FreshOK, Current
<1>6. SyncOK'
  BY <1>1, <1>3 DEF SyncOK, InSync
<1>7. LegalOK'
  BY <1>1, <1>2 DEF LegalOK, ClickIsLegal, NoDialog, Destructive
<1> QED BY <1>4, <1>5, <1>6, <1>7 DEF Inv

LEMMA QueryInv == ASSUME Inv, SetFilter \/ SearchChanged PROVE Inv'
<1>1. /\ task.pc = "idle"
      /\ UNCHANGED <<conn, dom, vms, stats, dash, timer, dialog, task, quiet>>
      /\ RefreshVmList /\ vms \in [Names -> VmStates \cup {"none"}]
      /\ filter' \in Filters /\ search' \in SUBSET Names
  BY PatternsAssumption
  DEF SetFilter, SearchChanged, UserAt, MainLoop, libvirt, cache, Inv, TypeOK
<1>2. /\ label' = stats /\ rows' \in [Names -> VmStates \cup {"none"}]
      /\ \A n \in Names :
           rows'[n] = IF vms[n] # "none" /\ Visible(n)' THEN vms[n] ELSE "none"
  BY <1>1 DEF RefreshVmList
<1>3. TypeOK' /\ TaskOK'
  BY <1>1, <1>2 DEF Inv, TypeOK, TaskOK, Listed, MainLoop
<1>4. CountersOK' /\ FreshOK' /\ LegalOK'
  BY <1>1 DEF Inv, CountersOK, Listed, ShownRunning, FreshOK, Current,
              LegalOK, ClickIsLegal
<1>5. SyncOK'
  BY <1>1, <1>2 DEF SyncOK, InSync
<1> QED BY <1>3, <1>4, <1>5 DEF Inv

LEMMA AutoRefreshInv == ASSUME Inv, AutoRefresh PROVE Inv'
<1>1. /\ UNCHANGED <<conn, dom, vms, stats, rows, label, timer, filter, search, dialog,
                     task, quiet>>
      /\ dash' = stats
  BY DEF AutoRefresh, libvirt, cache, list, query
<1>2. TypeOK' /\ TaskOK'
  BY <1>1 DEF Inv, TypeOK, TaskOK, Listed, MainLoop
<1>3. CountersOK' /\ FreshOK' /\ LegalOK'
  BY <1>1 DEF Inv, CountersOK, Listed, ShownRunning, FreshOK, Current,
              LegalOK, ClickIsLegal
<1>4. SyncOK'
  BY <1>1 DEF Inv, SyncOK, InSync, Visible
<1> QED BY <1>2, <1>3, <1>4 DEF Inv

LEMMA ElsewhereInv == ASSUME Inv, NEW n \in Names, Elsewhere(n) PROVE Inv'
<1>1. /\ UNCHANGED <<conn, vms, stats, rows, label, dash, timer, filter, search, dialog, task>>
      /\ quiet' = FALSE /\ dom' \in [Names -> DomStates]
  BY DEF Elsewhere, cache, list, query, Inv, TypeOK
<1>2. TypeOK' /\ TaskOK'
  BY <1>1 DEF Inv, TypeOK, TaskOK, Listed, MainLoop
<1>3. CountersOK' /\ FreshOK' /\ LegalOK'
  BY <1>1 DEF Inv, CountersOK, Listed, ShownRunning, FreshOK, LegalOK, ClickIsLegal
<1>4. SyncOK'
  BY <1>1 DEF Inv, SyncOK, InSync, Visible
<1> QED BY <1>2, <1>3, <1>4 DEF Inv

-----------------------------------------------------------------------------
(* Inv is an invariant. *)

LEMMA InitInv == Init => Inv
<1> SUFFICES ASSUME Init PROVE Inv
  OBVIOUS
<1>1. /\ task.pc = "list" /\ task.todo = {} /\ task \in Task
      /\ dialog = NoDialog /\ quiet = FALSE
      /\ vms = [n \in Names |-> "none"] /\ rows = [n \in Names |-> "none"]
      /\ stats = Zero /\ label = Zero
  BY DEF Init, Idle, Task
<1>2. TypeOK
  BY <1>1, ZeroType, FiltersAssumption DEF Init, TypeOK, Dialog
<1>3. TaskOK /\ CountersOK
  BY <1>1 DEF TaskOK, CountersOK, Listed
<1>4. SyncOK /\ FreshOK /\ LegalOK
  BY <1>1 DEF SyncOK, InSync, FreshOK, LegalOK, ClickIsLegal
<1> QED BY <1>2, <1>3, <1>4 DEF Inv

LEMMA NextInv == Inv /\ [Next]_panelVars => Inv'
<1> SUFFICES ASSUME Inv, [Next]_panelVars PROVE Inv'
  OBVIOUS
<1>1. CASE User
  BY <1>1, ClickButtonInv, CreateConfirmInv, ConfirmInv, DialogInv, QueryInv
  DEF User
<1>2. CASE HandlerStep
  BY <1>2, RunOpInv, ListInv, ListFailsInv, RenderInv, InfoInv, InfoFailsInv
  DEF HandlerStep
<1>3. CASE AutoRefresh
  BY <1>3, AutoRefreshInv
<1>4. CASE \E n \in Names : Elsewhere(n)
  BY <1>4, ElsewhereInv
<1>5. CASE UNCHANGED panelVars
  <2>1. UNCHANGED <<conn, dom, vms, stats, rows, label, dash, timer, filter, search,
                    dialog, task, quiet>>
    BY <1>5 DEF panelVars, libvirt, cache, list, query
  <2>2. TypeOK' /\ TaskOK'
    BY <2>1 DEF Inv, TypeOK, TaskOK, Listed, MainLoop
  <2>3. CountersOK' /\ SyncOK'
    BY <2>1 DEF Inv, CountersOK, Listed, ShownRunning, SyncOK, InSync, Visible
  <2>4. FreshOK' /\ LegalOK'
    BY <2>1 DEF Inv, FreshOK, Current, LegalOK, ClickIsLegal
  <2> QED BY <2>2, <2>3, <2>4 DEF Inv
<1> QED BY <1>1, <1>2, <1>3, <1>4, <1>5 DEF Next

LEMMA Invariance == Spec => []Inv
BY InitInv, NextInv, PTL DEF Spec

-----------------------------------------------------------------------------

\* The cache, the list, the dialogs and the handlers keep their types, and
\* vm_backend_refresh never counts more machines than there are.
THEOREM TypeCorrect == Spec => []TypeOK
<1>1. Inv => TypeOK
  BY DEF Inv
<1> QED BY <1>1, Invariance, PTL

\* Whatever handler ran last, the rows of vm_list_box are the cache seen through
\* the filter and the search text, and vm_status_label shows its counters.
THEOREM RowsInSync == Spec => []PanelInSync
<1>1. Inv => PanelInSync
  BY DEF Inv, SyncOK, InSync, PanelInSync, MainLoop
<1> QED BY <1>1, Invariance, PTL

\* A handler that nobody disturbed leaves in app->vms what libvirtd has, the
\* machine it has just created, deleted or stopped included.
THEOREM CacheFresh == Spec => []PanelFresh
<1>1. Inv => PanelFresh
  BY DEF Inv, FreshOK, TaskOK, Current, PanelFresh, MainLoop
<1> QED BY <1>1, Invariance, PTL

\* As long as machines are listed, app->stats belongs to this list: the total is
\* its length, and each machine is counted as running at most once.
THEOREM CountersKeepUp == Spec => []CountersAgree
<1>1. Inv => CountersAgree
  BY DEF Inv, CountersOK, TaskOK, CountersAgree, ShownRunning, MainLoop
<1> QED BY <1>1, Invariance, PTL

\* The buttons that make_vm_row gives a row, and the confirmation dialogs they
\* open, ask libvirtd for nothing it refuses, unless another client or the guest
\* moved the domain after the refresh.
THEOREM OfferedClicksAreLegal == Spec => []ClickIsLegal
<1>1. Inv => ClickIsLegal
  BY DEF Inv, LegalOK
<1> QED BY <1>1, Invariance, PTL
=============================================================================
