# Verification of VMManager in TLA+

VMManager (`src/`) is a GTK 4 program in C that manages QEMU/KVM virtual
machines through libvirt and Incus/LXD containers through a REST API on a Unix
socket. This directory holds TLA+ models of it, the TLC runs that check them on
small instances and the TLAPS proofs of what holds on every instance. Every
definition that models code is listed in `PROJECT.json` with the lines it
translates.

## 1. The system

| Part | Code | State | Operations |
|---|---|---|---|
| VM backend | `src/backend/vm_manager.c` | `virt_conn` | connect, disconnect, refresh, start, shutdown, force stop, reboot, pause, resume, delete, create |
| Container backend | `src/backend/ct_manager.c` | `incus_available`, socket path | connect, refresh, start, stop, force stop, restart, delete, create; request, wait for an operation |
| VM panel | `src/ui/window.c`, `src/ui/dialogs.c` | `vms`, `stats`, rows, label, filter, search, dialogs | one handler per button, confirmation, creation, filter, search, F5, sidebar |
| Container panel | the same | `containers`, `stats`, rows, label, two timers per creation | the same |
| Dashboard | `src/ui/window.c` | its labels, `refresh_timer` | refresh, periodic refresh |
| Snapshots | `src/backend/snapshot_manager.c` | list in a modal dialog | create, revert, delete, list |
| Lifecycle and settings | `src/main.c`, `src/ui/dialogs.c`, end of `window.c` | `settings`, settings file, `refresh_timer` | activate, load, save, shut down |
| Consoles | `src/ui/dialogs.c` | none | fork and exec a viewer |
| System statistics | `src/utils/system_info.c` | previous CPU sample | read `/proc`, `statvfs` |
| Log, errors | `src/main.c`, `src/utils/error_handling.c` | text buffer | append, clear, export; tables of messages |

How they interact. There is one thread. GTK calls a handler; the handler calls
an operation of a backend, then the backend's refresh, which replaces the cached
list (`vms`, `containers`) and the counters in `stats`, then the function that
rebuilds the rows from the cache. Everything a handler calls blocks: libvirt
calls, a `qemu-img` child, HTTP requests. A timer refreshes the dashboard from
`stats`, and the creation of a container starts two more timers instead of
refreshing.

What is hard. The program is sequential, but what it manages is not: guests
halt and crash, other clients (`virsh`, `incus`) act, and Incus carries an
operation on after the request that started it has timed out. So domains and
containers may change between any two blocking calls of one function; every call
may fail before or after it took effect; results of some calls are dropped; rows,
dialogs and handles refer to machines by a name that may mean something else by
then; caches, rows and counters are separate copies refreshed at different
times; timers change the cache behind rows that are on the screen; a revert to a snapshot moves
a machine behind its row; settings are written in one unit and kept in another. `PROJECT.json`
lists these places under `hazards`, each with the properties that cover it or a note
on what they leave out.

What makes each part correct:

* VM backend: an undisturbed delete or create does what it reports; a domain is
  never defined on an image that was not made; no interference keeps a function
  from returning.
* Container backend: success is reported only for what is over; an undisturbed
  operation that suits the container's state succeeds; every function returns
  even if the daemon never answers.
* Panels: between two events rows and label are the cache seen through filter and
  search; after an undisturbed handler the cache is what the daemon has; the
  counters belong to the list; a button that is offered works; new rows appear.
* Snapshots: the dialog lists what there is, nothing but its own Delete loses a
  snapshot, and an accurate row never offers a Delete that fails half way.
* Lifecycle: the timer in force follows the settings, the settings follow the
  file, and only a file edited by hand brings in an odd interval; once no settings
  are saved any more, the dashboard catches up.

## 2. The modules

| Module | Models | Runs |
|---|---|---|
| `VmManager` | `vm_manager.c`, one action per blocking call | `VmManager.cfg`, `VmDelete.cfg`, `VmCreate.cfg` |
| `MachineService` | the abstract service that both backends implement | (as `ServesMachines`) |
| `VmManager_proofs`, `VmContracts_proofs`, `VmService_proofs` | theorems about `VmManager`; the last, that it implements `MachineService` | |
| `VmPanel` | VM side of the window, `vm_backend_refresh`, dashboard | `VmPanel.cfg`, `PanelCounts.cfg`, `PanelDashboard.cfg` |
| `CtManager` | `ct_manager.c`, one action per request or move of the daemon | `CtManager.cfg`, `CtDelete.cfg` |
| `VmPanel_proofs` | theorems about `VmPanel` | |
| `CtManager_proofs` | theorems about `CtManager`, and that it implements `MachineService` | |
| `CtPanel` | container side of the window, `ct_backend_refresh`, its timers | `CtPanel.cfg`, `CtTimers.cfg` |
| `CtPanel_proofs` | theorems about `CtPanel` | |
| `Snapshots` | `snapshot_manager.c`: the snapshot dialog and one row of the VM list | |
| `MCSnapshots` | its instance: a short name, and a long one that is cut to it | `Snapshots.cfg` |
| `Snapshots_proofs` | theorems about `Snapshots` | |
| `AppLifecycle` | activation, windows, settings, refresh timers, CPU figure, shutdown, crashes | `AppLifecycle.cfg` |
| `AppLifecycle_proofs` | theorems about `AppLifecycle` | |

The panels use one step for a backend operation whose details are in the backend
modules: `RunOp` carries the operation out when the daemon accepts it (`From`)
with one of its outcomes (`Outcomes`, `After`), or not. `Snapshots` does the same for
the buttons of its row.

### MachineService

What a caller in the window may rely on, said once for both backends. A request
names an operation and a machine, is served by steps that each change that machine
only and only as the operation may (`Step`), and is answered once. While it is
`tranquil` (nobody else touched the machine, nothing broke) the answer is worth
something: a request that was sure to succeed (`Serves`) is answered "done" and has
the `Outcome`; any other leaves the machine as it was, operations that are
`Divided` excepted, and is answered "failed" if its operation is `Honest`.
Disturbed, a request loses the promise about its answer but not the one about its
steps.

`VmManager` and `CtManager` instantiate it with their own state: a domain's state or
a container's is the machine's, the call's operation, name and result are the
request, `quiet` (`Quiet`) is `tranquil`. The property `ServesMachines` is the
abstract specification under this mapping. The two parameters say where the
backends differ from the service one would wish for. `vm_delete` and `ct_delete` are
divided: they stop the machine first, and what fails then has stopped it. Every
`vm_*` function is honest; of the `ct_*` functions only `ct_create` is, because
`ct_wait_operation` takes a refusal for success (finding 5).

### VmManager

`call` is the position (`pc`) and the locals of the running C function: operation,
name, the identity its `virDomainPtr` was looked up for (`h`), the location of the
image. `dom` is libvirtd: each name's state, whether the definition is persistent,
its identity (a UUID) and its image. `disk` is the file system: the image of a
name in the system pool and under `$HOME`. `conn` is `virt_conn`.

A function is entered (`BeginOp`, `BeginCreate`), makes its calls one action at
a time and is left (`Finish`). `Lookup` is `find_domain`; `VmStart` .. `VmReboot`
are the single calls of the lifecycle functions; `GetInfo`, `Destroy`, `Relookup`
and `Undefine` are `vm_delete`; `CreateSystemDisk`, `CreateHomeDisk` and `Define` are
`vm_create`. `Attempt` is a libvirt call: accepted or refused by the domain's
state, or failed for another reason with or without its effect (the reply is
lost), which sets the history flag `quiet` to false. `Elsewhere` is everybody
else; `GuestWrites` puts data on a running machine's image. The contracts speak of
calls in which `quiet` still holds. The creation of an image in the system pool
may fail without a fault (that is the normal case for a user without rights
there), its fallback only with one.

A domain has snapshots or not: `virDomainUndefine` refuses an inactive one that
has, after `vm_delete` has stopped it, and `DeleteContract` says what is left then.
Snapshots are made and deleted by `Elsewhere`, which stands for this program's own
snapshot dialog too: it runs between calls.

Not in it: which of the two daemons `virt_conn` is open to; the first handle that `vm_delete` leaks after the re-lookup;
paths longer than 512 bytes; sizes.

### VmPanel

`vms` and `stats` are the cache, `rows` and `label` the widgets, `dash` the
dashboard, `task` the handler: operation, listing (`List`), one
`virDomainGetInfo` per listed domain (`Info`, in any order, while domains
move), rendering (`Render`). Handlers run to their end before the main loop goes on
(`MainLoop`). A modal dialog blocks the window but not the timer, which exists
(`timer`) only with auto-refresh on: activation starts it or not, and saving the
settings (`SaveSettings`) removes it and starts it anew or not. `List` keeps two
things the code does: entries come zeroed, and zero is `VM_STATE_RUNNING`; an
empty listing returns before the counters are set. One activation is modelled.

### Snapshots

One machine: the domain and its snapshots in libvirtd (`machine`, `snaps`), its row in
the VM list (`badge`), the rows of the snapshot dialog (`rows`). The dialog is modal,
so while it is open the VM list is not reached. `on_create_snapshot`,
`on_snapshot_revert` and `on_snapshot_delete` make their call (`SnapOpSucceeds`,
`SnapOpFails`) and fetch the list again only if it succeeded; `vm_snapshot_list` is a
number (`Num`), that many names (`Names`) and one XML per name (`DetailOf`), between
which other clients (`Elsewhere`) make and delete snapshots. None of it refreshes the
VM list: after a revert `badge` is wrong until the list is fetched. `moved` and
`quiet` record what has made badge and rows outdated.

`Cut` is what is left of a name in 127 bytes, the size of `VmSnapshot.name` and of
`SnapAction.snap_name`. A row is identified by the snapshot it was made for; its
buttons act on the snapshot of the cut name (`Named`), which may be another one or
none. `KeepsSnapshots` says what the code then loses.

The creation asks for a disk-only snapshot, so a snapshot taken here has no memory;
those of other clients may. Not in it: the creation time on a row; a program
without a connection, whose VM list is empty and offers no dialog; snapshots that
outlive their domain, which libvirtd does not keep.

### CtManager

`ops` are the daemon's background operations in `MaxOps` slots. A function sends a
request (`SendAccepted`, `SendRefused`, `SendFails`) and waits for the operation
(`WaitAnswered`, `WaitTimeout`, `WaitForNothing`); `ct_delete` does both twice and
drops the first result (`Answer`). The daemon ends an operation when it likes
(`OperationEnds`), also after nobody waits any more. `alone` and `faultless` record
whether another client, an operation left over from an earlier call, or a failure
disturbed the call.

### CtPanel

As VmPanel, with one step for `ct_backend_refresh` (a single request) and two
counters of live timeouts, `fetchers` and `drawers`: `ct_backend_refresh` returns
true and so keeps its source; `ui_refresh_ct_list` returns nothing, so whether its
source stays is undefined and the model takes both. `young` keeps the newest
drawer, due after 2 s, behind the fetcher due after 1 s. `RowIsPending` is what that
order is for: until a created container has its row, what brings it is still to come. The filter and the
dashboard are VmPanel's; the state "frozen" stands for every state without a button.

### AppLifecycle

A process is activated once or, when the program is started again, more often:
`Activate` is what `ui_build_window` and `on_activate` do with state (a window, load the
settings, refresh, start the timer). `windows` are the activations whose window is
open. AppData has one pointer to a window and one to each widget, so it is
`Attached` only while the newest window is open. `timers` are the live timeouts that call
`ui_auto_refresh`, `refreshTimer` is the one AppData knows. A second activation
leaves the first timer running for good; `NoStrayTimer` says that nothing else does.

When the newest window is closed before an older one, the timers write to widgets
that are gone (`TickDetached`): undefined, and the model takes a crash or nothing.
The settings dialog still opens from the older window's sidebar, tied to nothing.
`Shutdown` follows when no window is open, but timers due in the same iteration of
the main loop come first.

`on_settings_save` is two steps, `Save` (memory and timer) and `WriteFile`, with a `Crash`
possible between them. Without `HOME` nothing is written and the defaults are
loaded. The file holds seconds, the memory milliseconds in an `int` (`ToInt`), the
timer a `guint` (`Period`). The dialog offers 1 to 60 seconds; `EditFile` writes
anything. `byHand` records which of file and memory go back to an edit:
`SaneUnlessEdited` says that nothing else brings an interval of zero, of weeks or
otherwise out of range, and that saving from the dialog mends it.

`cpu` is `sys_get_cpu_usage`: what its next reading will cover (since boot, some time, no
clock tick) and what the figure on the dashboard covers. The first reading of a
process is the average since boot; three readings of an activation keep it from
staying (`ReadThrice`).

Not in it: a file that is not an object or lacks members, members of another type
or beyond 64 bits, the settings that nothing acts on in time; a `/proc` that cannot be read.

## 3. The runs

| Run | Shows | States |
|---|---|---|
| `VmManager.cfg` | `TypeOK`, `DefinedVmHasDisk`, `DeleteContract`, `CreateContract`, `CallsReturn`, `ServesMachines` hold | 690 thousand |
| `VmPanel.cfg` | `TypeOK`, `PanelInSync`, `PanelFresh`, `CountersAgree`, `ClickIsLegal` hold | 2.9 million |
| `CtManager.cfg` | `TypeOK`, `SuccessIsSettled`, `Contract`, `CallsReturn`, `ServesMachines` hold | 597 thousand |
| `CtPanel.cfg` | `TypeOK`, `CountersAgree`, `ClickIsLegal`, `RowIsPending`, `CreatedAppears` hold | 788 thousand |
| `AppLifecycle.cfg` | `TypeOK`, `TimerFollowsSettings`, `NoStrayTimer`, `SettingsAreStored`, `SaneUnlessEdited`, `CpuFigureIsRecent`, `DashCatchesUp` hold | 531 thousand |
| `Snapshots.cfg` | `TypeOK`, `ListFresh`, `KeepsSnapshots`, `RowIsSafe`, `HandlersReturn` hold | 149 thousand |
| `VmDelete.cfg` | `DeletedMeansGone` fails: a paused VM survives a successful delete | |
| `VmCreate.cfg` | `CreateKeepsDisks` fails: a create that libvirt refuses has wiped the image | |
| `PanelCounts.cfg` | `CountsFresh` fails: the last VM stays in the counters | |
| `PanelDashboard.cfg` | `DashShowsReal` fails: the timer is on and never fetches | |
| `CtDelete.cfg` | `DeletedMeansGone` fails: a refused DELETE counts as success | |
| `CtTimers.cfg` | `OneShot` fails: the "one-shot" refresh repeats | |

Every property of a passing run has a mutant, an operator beside the definition
it replaces, under which TLC finds the property violated.

The disagreements with the documentation:

1. `vm_delete` stops a domain only if it is running (`vm_manager.c:261`). A paused
   or crashed domain is undefined while active, lives on as a transient domain
   and is logged as deleted. The panel offers Delete only on machines it believes
   to be shut off, so this takes a row that is out of date.
2. `vm_create` writes the image before libvirtd refuses the name
   (`vm_manager.c:296`): creating a VM with the name of an existing, stopped one
   fails and leaves that one with an empty disk. The comment that the image is made
   "safely" (`vm_manager.c:17`) is about fork and exec; the loss is real all the same.
3. `vm_backend_refresh` returns on an empty listing before the counters are reset
   (`vm_manager.c:112`).
4. The periodic refresh displays cached numbers only (`window.c:1447`): without
   user action the VM and container counts never change, against
   `README.md:24` and `:33`.
5. `ct_wait_operation` takes any reply without an operation for success, error
   replies too (`ct_manager.c:157`). If the stop before it failed, `ct_delete` logs a
   container as deleted that the daemon has refused to delete.
6. The refresh after creating a container is called "one-shot" and repeats every
   second for the rest of the session (`window.c:1038`, the comment at 1037).

Observed on the way, in code that the models abstract or that no document
contradicts:

* A create, revert or delete whose answer is lost leaves the snapshot dialog's list
  as it was (`snapshot_manager.c:236`, `:244`): the list is fetched again only on
  success, and `ListFresh` excludes lost answers.
* Revert and Delete on a snapshot whose name is longer than 127 bytes act on the one
  that has the cut name, or on none (`snapshot_manager.c:161`).
* After a revert the VM list offers the buttons of the state before it. The Delete
  on such a row stops the machine and then fails for its snapshots: `RowIsSafe`
  holds for rows that are up to date only.
* Each save of the settings starts the refresh interval anew (`dialogs.c:619`), so saves
  that come more often than that hold the dashboard's refresh up: without its hypothesis
  that the saves stop, `DashCatchesUp` fails.
* `refresh_interval` is read unchecked (`dialogs.c:815`); 0 makes the timer fire in every
  iteration of the main loop.
* The comment at `main.c:91` says of the CPU reader that its "first read is always 0".
  The first reading is the average since boot and is made before, by
  `ui_build_window`; priming shortens the interval of the third, which is the one
  that stays on the dashboard, to almost nothing.
* `confirm_destructive_actions` is saved and loaded and nothing asks for it.
* A terminal that is not installed fails in the child's `exec`, after
  `launch_process` has returned true (`dialogs.c:1020`): the two terminals after it in
  the list are never tried and the shell is logged as opened.

### Bounds

* `VmManager`: one name and two identities. Operations touch one name only, so
  a second one adds nothing but an independent domain; two identities
  let the domain be deleted and its name defined again while a call holds the
  first. `MaxId` bounds definitions, `DefineFails` lets `vm_create` end when it is
  reached. The proofs cover any number of names and identities.
  Snapshots of a domain are there or not: nothing in the backend counts them.
* `VmPanel`: two domains, so that one can be listed, counted, filtered or clicked
  while the other moves; one of the names is refused by the create dialog. Filters
  "all" and "stopped" and two search texts are enough for a filter that hides and
  one that does not; "running" and "paused" are the active states with buttons.
  `Faults = FALSE` in `PanelDashboard.cfg` shows that the dashboard does not need
  a failure to be wrong.
* `CtManager`: one container and two operations: the one the running function
  started and one that outlived an earlier call.
* `CtPanel`: two containers, and two timers of each kind, so that timers of an
  earlier creation come between those of a later one.
* `Snapshots`: two names, one cut to the other, so that a row can act on the wrong
  snapshot and a listing can miss one of two; three of the four states a snapshot
  can have, one of them without a memory image.
* `AppLifecycle`: two intervals from the dialog, so that a timer can have the wrong
  one; 0 and 100 s by hand. An `int` has 17 bits (`Half` is 65536), so that 100 s do not
  fit in milliseconds and come out negative, as larger values do in 32 bits; the
  dialog's 60 s fit, as they do in 32. Three activations, so that there can be two stray
  timers. The proofs cover any width that holds the dialog's intervals, any file
  and any number of activations.

### Fairness

* `VmManager`, `CtManager`: weak fairness of the steps of the running function.
  `curl` gives each request a timeout (10 s and 60 s), so nothing is assumed of
  Incus; for libvirt and `qemu-img`, which have none, it is assumed that the call
  returns. No fairness for guests, daemon operations or other clients.
* `VmPanel`, `CtPanel`, `Snapshots`, `AppLifecycle`: weak fairness of the handler's steps,
  for the same reason. No fairness for the user.
* `CtPanel`: strong fairness of its two timers, which nothing restarts: GLib dispatches a
  source that is due in the next iteration of the main loop, although handlers
  disable it again and again.
* `AppLifecycle`, `VmPanel`: weak fairness of the refresh timer, since a save removes it
  and starts a whole interval anew: only a timer that is left alone is sure to fire.
  In `AppLifecycle` every save passes through a state (`pc = "write"`) in which no timer
  ticks, so that the assumption says nothing when saves go on for ever; it is
  made for each timer, and only for intervals of the dialog's, since another may
  be weeks away. In `VmPanel` it is assumed only while the settings dialog is not open
  (`Tick`), and only `DashShowsReal` uses it.

## 4. The proofs

Every safety invariant and action property that a passing run checks is proved by
TLAPS, and so is that both backends implement `MachineService`. The theorems hold for
every value of the constants that satisfies the assumptions of their module, which
are those the code justifies: sets of names are finite where the code counts them,
the name that stands for none is none of them, bounds are natural numbers, the
filters and states are among those the code has, a name that is cut twice is cut
once. The bounds of section 3 are the runs' only.

All of them have the same argument. An inductive invariant (`IInv` or `Inv`, a
conjunction of named parts) says what a property leaves out because it speaks of
the end of a function or handler only; one lemma per action shows that the action
preserves it, lemmas about the operators (`...Effect`, `...Type`) say what a step leaves in
the variables, and a temporal step combines them. TLC has checked each of these
invariants on the instance of the run.

### The backends

`VmManager_proofs`:

* `TypeCorrect`: `Spec => []TypeOK`.
* `DefinedVmsHaveDisks`: `Spec => []DefinedVmHasDisk`. The invariant is not inductive
  alone: when the XML is defined, nothing in it says that the image exists. The
  strengthening adds that a call at `define` has made the image at its `loc`.

`VmContracts_proofs`:

* `DeleteKeepsContract`, `CreateKeepsContract`: `Spec => []DeleteContract` and
  `[]CreateContract`. Their invariant says, for each position of the function, how
  the target's domain still relates to `before` as long as `quiet` holds, snapshots
  included, and which identity the handle has.

`VmService_proofs`:

* `VmServesMachines`: `Spec => ServesMachines`, the refinement. The initial states map to
  the service's; entering a function is `Accept` or `Reject`, a call that changes the
  domain or answers is `Serve`, leaving is `Return`, others are `Elsewhere`, and lookups,
  images and losses that the service does not show stutter. `ServeStep` is the
  lemma all calls go through. Beyond the contracts it needs `Entered` (who gets past
  the first step had a connection and a name that is accepted) and
  `LifecycleProgress`: an undisturbed function's handle is that of the domain as it was
  on entry.

`CtManager_proofs`:

* `TypeCorrect`, `SuccessSettles`, `KeepsContract`: the invariants of its run.
  `SuccessIsSettled` is about the moment a function returns; `RunsOn` says of every
  operation of the daemon that a function has started, for as long as it runs, that
  the function waits for it, or has lost something and will not report success. For
  `Contract`, `Progress` follows an undisturbed call through its one or two requests,
  with `Base` the state the second one finds.
* `CtServesMachines`: `Spec => ServesMachines`. The end of an operation (`OperationEnds`) is
  a step of the service whose author depends on whose it is: of the request
  being served, or of `Elsewhere` if the function that started it has returned.

### The panels

`VmPanel_proofs`: `TypeCorrect`, `RowsInSync`, `CacheFresh`, `CountersKeepUp`,
`OfferedClicksAreLegal`, the five invariants of its run. They hold between handlers; the
invariant carries them through one. `CountersOK` counts as running only what is not in
`task.todo`, because an entry still to be asked about is cached as running and has
not been counted; that is why a failed `virDomainGetInfo` leaves the counter too low
and never too high. `FreshOK` says the same of what libvirtd has. `LegalOK` adds the open
confirmation dialog, behind which nothing of the panel's own may move the machine.

`CtPanel_proofs`: `TypeCorrect`, `CountersKeepUp`, `OfferedClicksAreLegal`, `CreationIsPending`. Here
timers do fetch and draw behind an open dialog. `FreshOK` holds of the cache and of the
rows together, so that it does not matter which of the two a timer renews;
`PendingOK` says which timer a created container still waits for, with any number of
timers that earlier creations have left.

### Snapshots

`Snapshots_proofs`: `TypeCorrect`, `ListIsFresh` and two properties of steps, `SnapshotsKept`
and `RowsAreSafe`. `ListOK` says what the number of snapshots is worth to the call
for the names and the names to the calls for the details: only as long as nobody
else touches the snapshots is no name missing. `BadgeOK` says when the row in the VM
list is right, from which `RowsAreSafe` follows; `SnapshotsKept` does not need it, and
holds of rows however outdated.

### The lifecycle

`AppLifecycle_proofs`, for every set of intervals of the dialog, every set of integers
written by hand, every width of an `int` that holds the dialog's intervals and every
bound on the activations:

* `TypeCorrect`, `TimerInForce`, `TimersAccountedFor`, `SettingsSurvive`, `IntervalsAreSane`,
  `FigureIsRecent`: the six invariants of its run. `NoStrayTimer` is not inductive,
  because it does not know whether the timer AppData holds is among those counted;
  the strengthening counts the others, at most one for each activation but the
  last. `SettingsAreStored` needs to know that what is about to be written comes
  from the dialog, a whole number of seconds; `RoundTrip` is the lemma about
  seconds, milliseconds and back.

### Only model-checked

The liveness properties `CallsReturn`, `DashCatchesUp`, `CreatedAppears` and
`HandlersReturn`: they need fairness and ENABLED, which are out of the prover's reach.
`RowIsPending` is the safety part of `CreatedAppears`: what brings the row is not lost;
that it comes is left to TLC.

## 5. Not modelled

* Consoles: a fork whose child is never asked and of which the program keeps no
  state.
* Memory and disk figures: read anew each time from `/proc/meminfo` and `statvfs`,
  and shown.
* The log: text that nothing reads back. The functions of `error_handling.c` are
  called by nothing outside it.
* Widget construction, CSS, the details and error dialogs: layout.
* The container filter: the VM panel's code again.
* The tests: small programs to be run by hand against a daemon.

Memory management is abstracted, as are sizes, addresses, images and all wording.

## 6. Plan

What the models still invite to prove or to state:

1. What `MachineService` promises its user, as theorems about the abstract service
   that hold of both backends by the refinements: an answer is given once, a
   machine that was not asked for is left alone by the request.
2. That the panels' one-step operations (`RunOp`, `VmOp`) are what `MachineService` allows, so
   that the panels and the backends meet in one module instead of in the tables
   `From`, `Outcomes` and `After`.
3. A shared set of lemmas about the caches and counters of the two panels, which are
   proved separately now.
