--------------------------- MODULE CtPanel_proofs ---------------------------
(***************************************************************************)
(* Proofs of CtPanel's safety properties, for any finite set of containers  *)
(* and any number of timers.                                               *)
(*                                                                         *)
(* The timers are the difficulty: they change the cache and the rows behind *)
(* a handler's back and behind an open dialog.  Inv says what holds between *)
(* two steps of a handler, and of which fetch (a handler's, which has no     *)
(* dialog and will draw, or a timer's, which draws nothing).                *)
(***************************************************************************)
EXTENDS CtPanel, FiniteSetTheorems, TLAPS

HandlerFetch == task.pc = "fetch" /\ ~task.timer
TimerFetch == task.pc = "fetch" /\ task.timer

TaskOK ==
  /\ task.pc = "op" =>
       task.op \in Ops /\ task.name \in Names /\ ~task.timer /\ dialog = NoDialog
  /\ task.pc = "op" /\ task.op = "create" =>
       fetchers < MaxTimers /\ drawers < MaxTimers
  /\ HandlerFetch => dialog = NoDialog
  /\ TimerFetch => fetchers > 0 /\ ~young

\* The cache and the row of n are what the daemon has.
Current(n) == cts[n] = Entry(inst[n]) /\ rows[n] = Entry(inst[n])

\* What fresh means, except between a handler's operation and its fetch.
FreshOK == fresh /\ ~HandlerFetch => \A n \in Names : Current(n)

\* What a confirmation dialog asks about is still possible, even if a timer has
\* fetched or drawn since it was opened.
LegalOK ==
  /\ ClickIsLegal
  /\ fresh /\ dialog.op \in Destructive => inst[dialog.name] \in From[dialog.op]

\* A container whose row is missing is in the cache, unless the timer that comes
\* first has not fired or is fetching.
PendingOK ==
  /\ young => fetchers > 0 /\ drawers > 0
  /\ created # NoName =>
       /\ inst[created] # "absent" /\ drawers > 0
       /\ ~young /\ ~TimerFetch => cts[created] # "none"

Inv == TypeOK /\ TaskOK /\ CountersAgree /\ FreshOK /\ LegalOK /\ PendingOK

-----------------------------------------------------------------------------
(* Types of what the actions compute. *)

LEMMA CountersType == ASSUME NEW c PROVE CountersOf(c) \in Counters
<1>1. ASSUME NEW S \in SUBSET Names PROVE Cardinality(S) \in 0..Cardinality(Names)
  <2>1. /\ IsFiniteSet(Names) /\ IsFiniteSet(S)
        /\ Cardinality(S) <= Cardinality(Names)
    BY CtPanelAssumption, FS_Subset
  <2>2. Cardinality(S) \in Nat /\ Cardinality(Names) \in Nat
    BY <2>1, FS_CardinalityType
  <2> QED BY <2>1, <2>2
<1>2. /\ {n \in Names : c[n] # "none"} \in SUBSET Names
      /\ {n \in Names : c[n] = "running"} \in SUBSET Names
  OBVIOUS
<1> QED BY <1>1, <1>2 DEF CountersOf, Counters

\* An emptied cache, at the start or after a failed request, counts nothing.
LEMMA NothingCounted ==
  ASSUME NEW c, c = [n \in Names |-> "none"]
  PROVE  CountersOf(c) = Zero /\ Zero \in Counters
<1>1. /\ {n \in Names : c[n] # "none"} = {}
      /\ {n \in Names : c[n] = "running"} = {}
  OBVIOUS
<1>2. CountersOf(c) = Zero
  BY <1>1, FS_EmptySet DEF CountersOf, Zero
<1> QED BY <1>2, CountersType

LEMMA EntryType ==
  ASSUME NEW st \in InstStates
  PROVE  /\ Entry(st) \in CtStates \cup {"none"}
         /\ Entry(st) = "none" <=> st = "absent"
BY DEF Entry, InstStates, CtStates

LEMMA IdleType ==
  /\ Idle \in Task /\ Idle.pc = "idle" /\ NoDialog \in Dialog
  /\ NoDialog.op \notin Destructive
BY DEF Idle, Task, Dialog, NoDialog, Destructive

LEMMA PerformType ==
  ASSUME NEW op \in Ops, NEW n \in Names, Perform(op, n)
  PROVE  /\ task' \in Task /\ task'.pc = "op" /\ task'.op = op /\ task'.name = n
         /\ task'.timer = FALSE
BY DEF Perform, Idle, Task

-----------------------------------------------------------------------------
(* The user's clicks: only the dialog and the handler change. *)

LEMMA UserInv ==
  ASSUME Inv, MainLoop,
         UNCHANGED <<available, inst, cache, view, timers, history>>,
         dialog' \in Dialog, task' \in Task,
         task'.pc # "idle" => dialog' = NoDialog /\ task'.timer = FALSE,
         task'.pc = "op" =>
           /\ task'.op \in Ops /\ task'.name \in Names
           /\ task'.op = "create" => fetchers < MaxTimers /\ drawers < MaxTimers
           /\ task'.op # "create" /\ fresh => inst[task'.name] \in From[task'.op],
         fresh /\ dialog'.op \in Destructive =>
           inst[dialog'.name] \in From[dialog'.op]
  PROVE  Inv'
<1>1. /\ UNCHANGED <<available, inst, cts, stats, rows, label, fetchers, drawers,
                     young, fresh, created>>
      /\ task.pc = "idle"
  BY DEF cache, view, timers, history, MainLoop
<1>2. TypeOK' /\ CountersAgree'
  BY <1>1 DEF Inv, TypeOK, CountersAgree
<1>3. TaskOK' /\ LegalOK'
  BY <1>1 DEF TaskOK, HandlerFetch, TimerFetch, LegalOK, ClickIsLegal
<1>4. FreshOK' /\ PendingOK'
  BY <1>1 DEF Inv, FreshOK, PendingOK, HandlerFetch, TimerFetch, Current
<1> QED BY <1>2, <1>3, <1>4 DEF Inv

\* What a row offers, while nobody has disturbed it, the daemon carries out.
LEMMA OfferedIsLegal ==
  ASSUME Inv, MainLoop, NEW n \in Names, NEW op \in Buttons[rows[n]]
  PROVE  op \in Ops /\ op # "create" /\ (fresh => inst[n] \in From[op])
<1>1. rows[n] \in CtStates \cup {"none"} /\ inst[n] \in InstStates
  BY DEF Inv, TypeOK
<1>2. /\ op \in Ops /\ op # "create"
      /\ rows[n] \in {"stopped", "running"} /\ rows[n] \in From[op]
  BY <1>1 DEF Buttons, CtStates, InstStates, Ops, From
<1>3. fresh => rows[n] = Entry(inst[n])
  BY DEF Inv, FreshOK, Current, HandlerFetch, MainLoop
<1> QED BY <1>1, <1>2, <1>3 DEF Entry

LEMMA ClickButtonInv == ASSUME Inv, NEW n \in Names, ClickButton(n) PROVE Inv'
<1>1. /\ MainLoop /\ dialog = NoDialog
      /\ UNCHANGED <<available, inst, cache, view, timers, history>>
      /\ task \in Task /\ task.pc = "idle"
  BY DEF ClickButton, Inv, TypeOK, MainLoop
<1>2. PICK op \in Buttons[rows[n]] :
        IF op \in Destructive
        THEN dialog' = [op |-> op, name |-> n] /\ UNCHANGED task
        ELSE Perform(op, n) /\ UNCHANGED dialog
  BY DEF ClickButton
<1>3. op \in Ops /\ op # "create" /\ (fresh => inst[n] \in From[op])
  BY <1>1, <1>2, OfferedIsLegal
<1>4. CASE op \in Destructive
  <2>1. /\ dialog' \in Dialog /\ dialog'.op = op /\ dialog'.name = n
        /\ task' = task
    BY <1>2, <1>4 DEF Dialog
  <2> QED BY <1>1, <1>3, <2>1, UserInv
<1>5. CASE op \notin Destructive
  <2>1. /\ task' \in Task /\ task'.timer = FALSE /\ task'.pc = "op"
        /\ task'.op = op /\ task'.name = n /\ dialog' = NoDialog
    BY <1>1, <1>2, <1>3, <1>5, PerformType
  <2> QED BY <1>1, <1>3, <2>1, IdleType, UserInv
<1> QED BY <1>4, <1>5

\* A confirmed deletion or forced stop; Inv has kept its dialog possible.
LEMMA ConfirmInv == ASSUME Inv, Confirm PROVE Inv'
<1>1. /\ MainLoop /\ UNCHANGED <<available, inst, cache, view, timers, history>>
      /\ Perform(dialog.op, dialog.name) /\ dialog' = NoDialog
      /\ dialog.op \in Destructive
  BY DEF Confirm
<1>2. /\ dialog.name \in Names /\ dialog.op \in Ops /\ dialog.op # "create"
  BY <1>1 DEF Inv, TypeOK, Dialog, NoDialog, Destructive, Ops
<1>3. fresh => inst[dialog.name] \in From[dialog.op]
  BY <1>1 DEF Inv, LegalOK
<1>4. /\ task' \in Task /\ task'.timer = FALSE /\ task'.pc = "op"
      /\ task'.op = dialog.op /\ task'.name = dialog.name
  BY <1>1, <1>2, PerformType
<1> QED BY <1>1, <1>2, <1>3, <1>4, IdleType, UserInv

LEMMA CreateConfirmInv ==
  ASSUME Inv, NEW n \in Names, CreateConfirm(n) PROVE Inv'
<1>1. /\ MainLoop /\ UNCHANGED <<available, inst, cache, view, timers, history>>
      /\ Perform("create", n) /\ dialog' = NoDialog /\ "create" \in Ops
      /\ fetchers < MaxTimers /\ drawers < MaxTimers
  BY DEF CreateConfirm, Ops
<1>2. /\ task' \in Task /\ task'.timer = FALSE /\ task'.pc = "op"
      /\ task'.op = "create" /\ task'.name = n
  BY <1>1, PerformType
<1> QED BY <1>1, <1>2, IdleType, UserInv

\* Cancel, OpenCreate and Refresh start no operation.
LEMMA DialogInv == ASSUME Inv, Cancel \/ OpenCreate \/ Refresh PROVE Inv'
<1>1. /\ MainLoop /\ UNCHANGED <<available, inst, cache, view, timers, history>>
      /\ task \in Task /\ task.pc = "idle"
  BY DEF Cancel, OpenCreate, Refresh, Inv, TypeOK, MainLoop
<1>2. CASE Cancel \/ OpenCreate
  <2>1. dialog' \in Dialog /\ dialog'.op \notin Destructive /\ task' = task
    BY <1>2 DEF Cancel, OpenCreate, Dialog, NoDialog, Destructive
  <2> QED BY <1>1, <2>1, UserInv
<1>3. CASE Refresh
  <2>1. /\ dialog' = NoDialog /\ task' \in Task /\ task'.pc = "fetch"
        /\ task'.timer = FALSE
    BY <1>3 DEF Refresh, Idle, Task
  <2> QED BY <1>1, <2>1, IdleType, UserInv
<1> QED BY <1>2, <1>3

-----------------------------------------------------------------------------
(* The steps of a handler. *)

\* The daemon: only the task's container moves, and it is there if it was.
LEMMA CarryEffect ==
  ASSUME Inv, task.pc = "op", Carry
  PROVE  /\ inst' \in [Names -> InstStates] /\ task.name \in Names
         /\ \A n \in Names : n # task.name => inst'[n] = inst[n]
         /\ task.op = "create" /\ inst' # inst => inst'[task.name] = "stopped"
         /\ task.op = "create" /\ inst[task.name] # "absent" =>
              inst'[task.name] # "absent"
<1>1. inst \in [Names -> InstStates] /\ task.name \in Names /\ task.op \in Ops
  BY DEF Inv, TypeOK, TaskOK
<1>2. After[task.op] \in InstStates
  BY <1>1 DEF Ops, After, InstStates
<1>3. \/ inst' = inst
      \/ /\ inst' = [inst EXCEPT ![task.name] = After[task.op]]
         /\ inst[task.name] \in From[task.op]
  BY DEF Carry
<1>4. After["create"] = "stopped" /\ From["create"] = {"absent"}
  BY DEF After, From
<1> QED BY <1>1, <1>2, <1>3, <1>4

LEMMA RunOpInv == ASSUME Inv, RunOp PROVE Inv'
<1>1. /\ task.pc = "op" /\ Carry /\ task \in Task /\ task.timer = FALSE
      /\ dialog = NoDialog /\ task' = [task EXCEPT !.pc = "fetch"]
      /\ UNCHANGED <<available, cts, stats, rows, label, fetchers, drawers, young,
                     dialog, fresh>>
      /\ created' = IF inst'[task.name] = "absent" /\ created = task.name
                    THEN NoName ELSE created
  BY DEF RunOp, cache, view, timers, Inv, TypeOK, TaskOK, Task
<1>2. /\ inst' \in [Names -> InstStates] /\ task.name \in Names
      /\ \A n \in Names : n # task.name => inst'[n] = inst[n]
  BY <1>1, CarryEffect
<1>3. task' \in Task /\ task'.pc = "fetch" /\ task'.timer = FALSE
  BY <1>1 DEF Task
<1>4. TypeOK' /\ CountersAgree'
  BY <1>1, <1>2, <1>3 DEF Inv, TypeOK, CountersAgree
<1>5. TaskOK' /\ FreshOK' /\ LegalOK'
  BY <1>1, <1>3, IdleType
  DEF TaskOK, HandlerFetch, TimerFetch, FreshOK, LegalOK, ClickIsLegal
<1>6. PendingOK'
  <2>1. CASE created' = NoName
    BY <1>1, <2>1 DEF Inv, PendingOK
  <2>2. CASE created' # NoName
    <3>1. created' = created /\ created \in Names /\ inst'[created] # "absent"
      BY <1>1, <1>2, <2>2 DEF Inv, TypeOK, PendingOK
    <3> QED BY <1>1, <2>2, <3>1 DEF Inv, PendingOK, TimerFetch
  <2> QED BY <2>1, <2>2
<1> QED BY <1>4, <1>5, <1>6 DEF Inv

LEMMA RunCreateInv == ASSUME Inv, RunCreate PROVE Inv'
<1>1. /\ task.pc = "op" /\ task.op = "create" /\ Carry
      /\ dialog = NoDialog /\ task' = Idle /\ fresh' = FALSE /\ young' = TRUE
      /\ fetchers' = fetchers + 1 /\ drawers' = drawers + 1
      /\ fetchers < MaxTimers /\ drawers < MaxTimers
      /\ UNCHANGED <<available, cts, stats, rows, label, dialog>>
      /\ created' = IF inst' # inst THEN task.name ELSE created
  BY DEF RunCreate, cache, view, Inv, TaskOK
<1>2. /\ inst' \in [Names -> InstStates] /\ task.name \in Names
      /\ inst' # inst => inst'[task.name] = "stopped"
  BY <1>1, CarryEffect
<1>3. fetchers' \in 1..MaxTimers /\ drawers' \in 1..MaxTimers
  BY <1>1, CtPanelAssumption DEF Inv, TypeOK
<1>4. TypeOK' /\ CountersAgree'
  <2>1. /\ fetchers' \in 0..MaxTimers /\ drawers' \in 0..MaxTimers
        /\ created' \in Names \cup {NoName}
    BY <1>1, <1>2, <1>3 DEF Inv, TypeOK
  <2> QED BY <1>1, <1>2, <2>1, IdleType DEF Inv, TypeOK, CountersAgree
<1>5. TaskOK' /\ FreshOK' /\ LegalOK'
  BY <1>1, IdleType
  DEF TaskOK, HandlerFetch, TimerFetch, FreshOK, LegalOK, ClickIsLegal
<1>6. created' # NoName => inst'[created'] # "absent"
  BY <1>1, <1>2 DEF Inv, PendingOK
<1>7. PendingOK'
  BY <1>1, <1>3, <1>6 DEF PendingOK
<1> QED BY <1>4, <1>5, <1>7 DEF Inv

\* However a fetch ends: the counters belong to the cache, and what made the
\* rows, or the row that is waited for, uncertain clears its flag.
LEMMA FetchInv ==
  ASSUME Inv, task.pc = "fetch", NEW keep \in BOOLEAN, NEW got \in BOOLEAN,
         FetchReturns(keep, got),
         cts' \in [Names -> CtStates \cup {"none"}], CountersAgree',
         got => cts' = [n \in Names |-> Entry(inst[n])]
  PROVE  Inv'
<1>1. /\ UNCHANGED <<available, inst, drawers, young, dialog>>
      /\ task' = Idle /\ Idle \in Task /\ Idle.pc = "idle"
      /\ fresh' = (got /\ (fresh \/ ~task.timer))
      /\ created' = IF Shown \/ ~got THEN NoName ELSE created
      /\ task.timer \in BOOLEAN
  BY IdleType DEF FetchReturns, Inv, TypeOK, Task
<1>2. /\ task.timer => /\ UNCHANGED <<rows, label>>
                       /\ fetchers' \in {fetchers, fetchers - 1}
                       /\ fetchers > 0 /\ ~young
      /\ ~task.timer => /\ rows' = cts' /\ label' = stats' /\ fetchers' = fetchers
                        /\ dialog = NoDialog
  BY DEF FetchReturns, Draw, view, Inv, TaskOK, HandlerFetch, TimerFetch
<1>3. TypeOK'
  <2>1. stats' \in Counters
    BY CountersType DEF CountersAgree
  <2>2. rows' \in [Names -> CtStates \cup {"none"}] /\ label' \in Counters
    BY <1>2, <2>1 DEF Inv, TypeOK
  <2>3. fetchers' \in 0..MaxTimers
    BY <1>2, CtPanelAssumption DEF Inv, TypeOK
  <2>4. fresh' \in BOOLEAN /\ created' \in Names \cup {NoName}
    BY <1>1 DEF Inv, TypeOK
  <2> QED BY <1>1, <2>1, <2>2, <2>3, <2>4 DEF Inv, TypeOK
<1>4. TaskOK'
  BY <1>1 DEF TaskOK, HandlerFetch, TimerFetch
<1>5. FreshOK'
  <2> SUFFICES ASSUME fresh', NEW n \in Names PROVE Current(n)'
    BY DEF FreshOK
  <2>1. got /\ cts'[n] = Entry(inst[n])
    BY <1>1
  <2>2. CASE task.timer
    BY <1>1, <1>2, <2>1, <2>2 DEF Inv, FreshOK, HandlerFetch, Current
  <2>3. CASE ~task.timer
    BY <1>1, <1>2, <2>1, <2>3 DEF Current
  <2> QED BY <2>2, <2>3
<1>6. LegalOK'
  <2>1. fresh' /\ dialog'.op \in Destructive => fresh /\ dialog' = dialog
    BY <1>1, <1>2, IdleType
  <2> QED BY <1>1, <2>1 DEF Inv, LegalOK, ClickIsLegal
<1>7. PendingOK'
  <2>1. young' => fetchers' > 0 /\ drawers' > 0
    BY <1>1, <1>2 DEF Inv, PendingOK
  <2>2. ASSUME created' # NoName
        PROVE  /\ inst'[created'] # "absent" /\ drawers' > 0
               /\ cts'[created'] # "none"
    <3>1. /\ got /\ created' = created /\ created \in Names
          /\ inst[created] # "absent" /\ drawers > 0
      BY <1>1, <2>2 DEF Inv, TypeOK, PendingOK
    <3>2. inst[created] \in InstStates
      BY <3>1 DEF Inv, TypeOK
    <3> QED BY <1>1, <3>1, <3>2, EntryType
  <2> QED BY <2>1, <2>2 DEF PendingOK
<1> QED BY <1>3, <1>4, <1>5, <1>6, <1>7 DEF Inv

LEMMA FetchesInv == ASSUME Inv, Fetch \/ FetchFails \/ FetchUnavailable PROVE Inv'
<1>1. /\ task.pc = "fetch" /\ cts \in [Names -> CtStates \cup {"none"}]
      /\ inst \in [Names -> InstStates] /\ CountersAgree
  BY DEF Fetch, FetchFails, FetchUnavailable, Inv, TypeOK
<1>2. CASE Fetch
  <2>1. /\ cts' = [n \in Names |-> Entry(inst[n])] /\ CountersAgree'
        /\ FetchReturns(TRUE, TRUE)
    BY <1>2 DEF Fetch, CountersAgree
  <2>2. cts' \in [Names -> CtStates \cup {"none"}]
    BY <1>1, <2>1, EntryType
  <2> QED BY <1>1, <2>1, <2>2, FetchInv
<1>3. CASE FetchFails
  <2>1. PICK keep \in BOOLEAN : FetchReturns(keep, FALSE)
    BY <1>3 DEF FetchFails
  <2>2. cts' = [n \in Names |-> "none"] /\ stats' = Zero
    BY <1>3 DEF FetchFails
  <2>3. CountersAgree'
    BY <2>2, NothingCounted DEF CountersAgree
  <2> QED BY <1>1, <2>1, <2>2, <2>3, FetchInv
<1>4. CASE FetchUnavailable
  <2>1. FetchReturns(FALSE, FALSE) /\ UNCHANGED <<cts, stats>>
    BY <1>4 DEF FetchUnavailable, cache
  <2>2. CountersAgree'
    BY <1>1, <2>1 DEF CountersAgree
  <2> QED BY <1>1, <2>1, <2>2, FetchInv
<1> QED BY <1>2, <1>3, <1>4

-----------------------------------------------------------------------------
(* The timers, and the rest of the world. *)

LEMMA FetchTimerInv == ASSUME Inv, FetchTimer PROVE Inv'
<1>1. /\ task.pc = "idle" /\ fetchers > 0 /\ young' = FALSE
      /\ UNCHANGED <<available, inst, cts, stats, rows, label, fetchers, drawers,
                     dialog, fresh, created>>
      /\ task' \in Task /\ task'.pc = "fetch" /\ task'.timer = TRUE
  BY DEF FetchTimer, MainLoop, cache, view, history, Idle, Task
<1>2. TypeOK' /\ CountersAgree'
  BY <1>1 DEF Inv, TypeOK, CountersAgree
<1>3. TaskOK' /\ LegalOK'
  BY <1>1 DEF TaskOK, HandlerFetch, TimerFetch, Inv, LegalOK, ClickIsLegal
<1>4. FreshOK' /\ PendingOK'
  BY <1>1 DEF Inv, FreshOK, PendingOK, HandlerFetch, TimerFetch, Current
<1> QED BY <1>2, <1>3, <1>4 DEF Inv

LEMMA DrawTimerInv == ASSUME Inv, DrawTimer PROVE Inv'
<1>1. /\ task.pc = "idle" /\ drawers > 0 /\ (young => drawers > 1)
      /\ drawers' \in {drawers, drawers - 1}
      /\ UNCHANGED <<available, inst, cts, stats, fetchers, young, dialog, task, fresh>>
      /\ rows' = cts /\ label' = stats
      /\ created' = IF Shown THEN NoName ELSE created
  BY DEF DrawTimer, MainLoop, cache, Draw
<1>2. TypeOK' /\ CountersAgree'
  <2>1. drawers' \in 0..MaxTimers
    BY <1>1, CtPanelAssumption DEF Inv, TypeOK
  <2>2. created' \in Names \cup {NoName}
    BY <1>1 DEF Inv, TypeOK
  <2> QED BY <1>1, <2>1, <2>2 DEF Inv, TypeOK, CountersAgree
<1>3. TaskOK' /\ LegalOK'
  BY <1>1 DEF Inv, TaskOK, HandlerFetch, TimerFetch, LegalOK, ClickIsLegal
<1>4. FreshOK'
  BY <1>1 DEF Inv, FreshOK, HandlerFetch, Current
<1>5. PendingOK'
  <2>1. young' => fetchers' > 0 /\ drawers' > 0
    BY <1>1 DEF Inv, TypeOK, PendingOK
  <2>2. created' # NoName => created' = created /\ cts[created] = "none"
    BY <1>1 DEF Shown
  <2>3. created' # NoName => young /\ inst[created] # "absent"
    BY <1>1, <2>2 DEF Inv, PendingOK, TimerFetch
  <2> QED BY <1>1, <2>1, <2>2, <2>3 DEF PendingOK
<1> QED BY <1>2, <1>3, <1>4, <1>5 DEF Inv

LEMMA ElsewhereInv == ASSUME Inv, NEW n \in Names, Elsewhere(n) PROVE Inv'
<1>1. PICK st \in InstStates : inst' = [inst EXCEPT ![n] = st]
  BY DEF Elsewhere
<1>2. /\ UNCHANGED <<available, cts, stats, rows, label, fetchers, drawers, young,
                     dialog, task>>
      /\ fresh' = FALSE
      /\ created' = IF n = created THEN NoName ELSE created
  BY DEF Elsewhere, cache, view, timers
<1>3. TypeOK' /\ CountersAgree'
  BY <1>1, <1>2 DEF Inv, TypeOK, CountersAgree
<1>4. TaskOK' /\ FreshOK' /\ LegalOK'
  BY <1>2 DEF Inv, TaskOK, HandlerFetch, TimerFetch, FreshOK, LegalOK, ClickIsLegal
<1>5. PendingOK'
  BY <1>1, <1>2 DEF Inv, TypeOK, PendingOK, TimerFetch
<1> QED BY <1>3, <1>4, <1>5 DEF Inv

-----------------------------------------------------------------------------
(* Inv is an invariant. *)

LEMMA InitInv == Init => Inv
<1> SUFFICES ASSUME Init PROVE Inv
  OBVIOUS
<1>1. /\ task \in Task /\ task.pc = "fetch" /\ task.timer = FALSE
      /\ dialog = NoDialog /\ NoDialog \in Dialog
      /\ fetchers = 0 /\ drawers = 0 /\ young = FALSE
      /\ fresh = FALSE /\ created = NoName
      /\ cts = [n \in Names |-> "none"] /\ rows = cts /\ stats = Zero /\ label = Zero
  BY IdleType DEF Init, Idle, Task
<1>2. CountersAgree /\ Zero \in Counters
  BY <1>1, NothingCounted DEF CountersAgree
<1>3. TypeOK
  <2>1. fetchers \in 0..MaxTimers /\ drawers \in 0..MaxTimers
    BY <1>1, CtPanelAssumption
  <2>2. /\ cts \in [Names -> CtStates \cup {"none"}]
        /\ rows \in [Names -> CtStates \cup {"none"}]
    BY <1>1
  <2> QED BY <1>1, <1>2, <2>1, <2>2 DEF Init, TypeOK
<1>4. TaskOK /\ FreshOK /\ LegalOK /\ PendingOK
  BY <1>1
  DEF TaskOK, HandlerFetch, TimerFetch, FreshOK, LegalOK, ClickIsLegal, PendingOK
<1> QED BY <1>2, <1>3, <1>4 DEF Inv

LEMMA NextInv == Inv /\ [Next]_ctPanelVars => Inv'
<1> SUFFICES ASSUME Inv, [Next]_ctPanelVars PROVE Inv'
  OBVIOUS
<1>1. CASE User
  BY <1>1, ClickButtonInv, CreateConfirmInv, ConfirmInv, DialogInv DEF User
<1>2. CASE HandlerStep
  BY <1>2, RunOpInv, RunCreateInv, FetchesInv DEF HandlerStep
<1>3. CASE FetchTimer \/ DrawTimer \/ \E n \in Names : Elsewhere(n)
  BY <1>3, FetchTimerInv, DrawTimerInv, ElsewhereInv
<1>4. CASE UNCHANGED ctPanelVars
  <2>1. UNCHANGED <<available, inst, cts, stats, rows, label, fetchers, drawers,
                    young, dialog, task, fresh, created>>
    BY <1>4 DEF ctPanelVars, cache, view, timers, history
  <2>2. TypeOK' /\ CountersAgree'
    BY <2>1 DEF Inv, TypeOK, CountersAgree
  <2>3. TaskOK' /\ LegalOK'
    BY <2>1 DEF Inv, TaskOK, HandlerFetch, TimerFetch, LegalOK, ClickIsLegal
  <2>4. FreshOK' /\ PendingOK'
    BY <2>1 DEF Inv, FreshOK, PendingOK, HandlerFetch, TimerFetch, Current
  <2> QED BY <2>2, <2>3, <2>4 DEF Inv
<1> QED BY <1>1, <1>2, <1>3, <1>4 DEF Next

LEMMA Invariance == Spec => []Inv
BY InitInv, NextInv, PTL DEF Spec

-----------------------------------------------------------------------------

\* The cache, the list, the dialogs, the timers and the handlers keep their
\* types; no timer is removed twice.
THEOREM TypeCorrect == Spec => []TypeOK
<1>1. Inv => TypeOK
  BY DEF Inv
<1> QED BY <1>1, Invariance, PTL

\* ct_backend_refresh never leaves counters of another list in app->stats, also
\* when the request fails after the cache has been cleared.
THEOREM CountersKeepUp == Spec => []CountersAgree
<1>1. Inv => CountersAgree
  BY DEF Inv
<1> QED BY <1>1, Invariance, PTL

\* The buttons of make_ct_row, and the confirmation dialogs they open, ask the
\* daemon for nothing it refuses, whichever timer fires before the user answers,
\* unless somebody else moves the container or a refresh fails.
THEOREM OfferedClicksAreLegal == Spec => []ClickIsLegal
<1>1. Inv => ClickIsLegal
  BY DEF Inv, LegalOK
<1> QED BY <1>1, Invariance, PTL

\* on_ct_create_confirm refreshes nothing, and yet the row of the container it
\* created is never forgotten: with any number of timers of earlier creations,
\* the one that draws is alive until the row is there.
THEOREM CreationIsPending == Spec => []RowIsPending
<1>1. Inv => RowIsPending
  BY DEF Inv, PendingOK, RowIsPending, MainLoop, TimerFetch
<1> QED BY <1>1, Invariance, PTL
=============================================================================
