---------------------------- MODULE AppLifecycle ----------------------------
(***************************************************************************)
(* The program as a process: activation (src/main.c, ui_build_window), its  *)
(* windows, the settings and their file (src/ui/dialogs.c), the timers that *)
(* refresh the dashboard, the CPU figure they bring (system_info.c),        *)
(* shutdown and crashes.                                                   *)
(*                                                                         *)
(* Starting the program a second time activates the running process again: *)
(* a second window is built, AppData points to its widgets from then on,    *)
(* and its timer replaces the first in AppData.  Of the settings, the two   *)
(* that the program acts on are modelled; the others are read and written  *)
(* with them.  The file holds seconds, the memory milliseconds.            *)
(***************************************************************************)
EXTENDS Integers, FiniteSets

CONSTANTS
  Seconds,        \* bound: refresh intervals that are picked in the dialog
  HandWritten,    \* bound: intervals that are written into the file by hand
  Half,           \* an int is one of -Half .. Half-1
  Default,        \* REFRESH_INTERVAL
  NoFile,         \* there is no settings file
  MaxActivations  \* bound: activations of one process

\* The dialog's spin button: 1 to 60 s, which an int holds in milliseconds.
MaxPeriod == 60000

ASSUME SecondsAssumption == Seconds \subseteq 1..60
ASSUME HandWrittenAssumption == HandWritten \subseteq Int
ASSUME HalfAssumption == Half \in Nat /\ Half > MaxPeriod
ASSUME DefaultAssumption == Default \in 1..MaxPeriod
ASSUME MaxActivationsAssumption == MaxActivations \in Nat \ {0}
ASSUME NoFileAssumption == NoFile \notin [auto : BOOLEAN, seconds : Int]

VARIABLES
  home,          \* whether HOME is set in the environment
  file,          \* the settings in ~/.config/vmmanager/settings.json
  activations,   \* of the running process, 0 when it does not run
  windows,       \* the activations whose window is open
  settings,      \* app->settings
  timers,        \* period of each timeout that calls ui_auto_refresh
  refreshTimer,  \* app->refresh_timer, 0: none
  dialog,        \* the settings dialog is open
  pc,            \* "write": on_settings_save is about to write the file
  cpu,           \* the CPU figure: what its next reading covers, and what the
                 \* one on the dashboard covers
  stored,        \* history: reading or writing the file has not failed, and it
                 \* has not been edited since
  byHand         \* history: which of file and memory go back to an edited file

disk == <<home, file>>
process == <<activations, windows, settings>>
timing == <<timers, refreshTimer>>
history == <<stored, byHand>>
appVars == <<disk, process, timing, dialog, pc, cpu, history>>

---------------------------------------------------------------------------
Settings == [auto : BOOLEAN, interval : -Half..(Half - 1)]
File == [auto : BOOLEAN, seconds : Int]
DefaultSettings == [auto |-> TRUE, interval |-> Default]

Ids == 1..MaxActivations
NoTimer == -1
Live == {i \in Ids : timers[i] # NoTimer}
NoTimers == [i \in Ids |-> NoTimer]

Running == activations > 0
MainLoop == Running /\ pc = "loop"

\* AppData points to the widgets of the newest window.
Attached == activations \in windows

\* Conversion of a product to int, and of an int to the guint of g_timeout_add.
ToInt(x) ==
  IF x \in -Half..(Half - 1) THEN x ELSE ((x + Half) % (2 * Half)) - Half
Period(ms) == IF ms >= 0 THEN ms ELSE ms + 2 * Half

\* g_timeout_add if s asks for it; ts are the timers, known is refresh_timer.
StartTimer(s, ts, known) ==
  IF s.auto
  THEN \E i \in Ids :
         /\ ts[i] = NoTimer
         /\ timers' = [ts EXCEPT ![i] = Period(s.interval)] /\ refreshTimer' = i
  ELSE timers' = ts /\ refreshTimer' = known

---------------------------------------------------------------------------
(* sys_get_cpu_usage: the share of the time since the previous sample, which *)
(* is kept in static variables; the first sample goes back to the boot, and  *)
(* without a clock tick since the last one the result is 0.0.              *)

NeverRead == [span |-> "boot", shown |-> "nothing"]

Spans == {"boot", "none", "some"}
Shows == [boot |-> "boot", none |-> "zero", some |-> "recent"]

Reading(c) == [span |-> "none", shown |-> Shows[c.span]]

\* Clock ticks may be counted before the next reading, or not.
Later(c) == {c, IF c.span = "none" THEN [c EXCEPT !.span = "some"] ELSE c}

\* Mutant: an activation reads it once.
ReadOnce(c) == {Reading(c)}

\* An activation reads it in ui_build_window, to prime it, and in ui_refresh_all.
ReadThrice(c) ==
  {Reading(b) : b \in UNION {Later(Reading(a)) : a \in Later(Reading(c))}}

---------------------------------------------------------------------------
(* settings_load: the file, else the defaults.  Without HOME it looks under  *)
(* /tmp, where the program never writes.                                    *)
Stored ==
  IF home /\ file # NoFile
  THEN [auto |-> file.auto, interval |-> ToInt(file.seconds * 1000)]
  ELSE DefaultSettings

\* ui_build_window and on_activate: load, refresh everything, start the timer.
\* The timer of an earlier activation goes on.
Activate ==
  /\ activations < MaxActivations /\ pc = "loop"
  /\ Running => windows # {}
  /\ \/ /\ settings' = Stored /\ stored' = home
        /\ byHand' = {x \in {"file", "memory"} : "file" \in byHand}
     \/ /\ settings' = DefaultSettings /\ stored' = FALSE
        /\ byHand' = byHand \ {"memory"}
  /\ StartTimer(settings', timers, refreshTimer)
  /\ activations' = activations + 1
  /\ windows' = windows \cup {activations + 1}
  /\ cpu' \in ReadThrice(cpu)
  /\ UNCHANGED <<disk, dialog, pc>>

\* The sidebar of any window has the button.  In a window that AppData does not
\* point to, what the dialog is tied to is undefined: it opens, or see Crash.
OpenSettings ==
  /\ MainLoop /\ ~dialog
  /\ dialog' = TRUE
  /\ UNCHANGED <<disk, process, timing, pc, cpu, history>>

CancelSettings ==
  /\ MainLoop /\ dialog
  /\ dialog' = FALSE
  /\ UNCHANGED <<disk, process, timing, pc, cpu, history>>

\* The timer in refresh_timer is removed.
Removed == [i \in Ids |-> IF i = refreshTimer THEN NoTimer ELSE timers[i]]

\* Mutant: the dialog's range begins at zero.
TakeSettingsFromZero ==
  /\ MainLoop /\ dialog
  /\ \E a \in BOOLEAN, n \in Seconds \cup {0} :
       settings' = [auto |-> a, interval |-> n * 1000]
  /\ byHand' = byHand \ {"memory"}
  /\ pc' = "write"
  /\ UNCHANGED <<disk, activations, windows, dialog, cpu, stored>>

\* on_settings_save, up to the timer: what the user has picked.
TakeSettings ==
  /\ MainLoop /\ dialog
  /\ \E a \in BOOLEAN, n \in Seconds :
       settings' = [auto |-> a, interval |-> n * 1000]
  /\ byHand' = byHand \ {"memory"}
  /\ pc' = "write"
  /\ UNCHANGED <<disk, activations, windows, dialog, cpu, stored>>

\* Mutant: the timer is removed and not started again.
SaveStopsTimer == TakeSettings /\ timers' = Removed /\ refreshTimer' = 0

\* Mutant: a timer is started without removing the one before.
SaveKeepsTimer == TakeSettings /\ Live # Ids /\ StartTimer(settings', timers, 0)

\* Mutant: refresh_timer is not reset when its timer is removed.
SaveForgetsReset == TakeSettings /\ StartTimer(settings', Removed, refreshTimer)

\* on_settings_save up to settings_save.
Save == TakeSettings /\ StartTimer(settings', Removed, 0)

\* Mutant: the file is given milliseconds.
WriteFileMilliseconds ==
  /\ pc = "write"
  /\ \/ /\ home /\ stored' = TRUE
        /\ file' = [auto |-> settings.auto, seconds |-> settings.interval]
        /\ byHand' = {}
     \/ UNCHANGED <<file, byHand>> /\ stored' = FALSE
  /\ pc' = "loop" /\ dialog' = FALSE
  /\ UNCHANGED <<home, process, timing, cpu>>

\* settings_save: nothing without HOME; an error is logged and nothing more.
\* json_generator_to_file replaces the file as a whole.
WriteFile ==
  /\ pc = "write"
  /\ \/ /\ home /\ stored' = TRUE
        /\ file' = [auto |-> settings.auto, seconds |-> settings.interval \div 1000]
        /\ byHand' = {}
     \/ UNCHANGED <<file, byHand>> /\ stored' = FALSE
  /\ pc' = "loop" /\ dialog' = FALSE
  /\ UNCHANGED <<home, process, timing, cpu>>

\* The file is edited by hand, whether the program runs or not.
EditFile ==
  /\ home
  /\ file' \in [auto : BOOLEAN, seconds : HandWritten]
  /\ stored' = FALSE /\ byHand' = byHand \cup {"file"}
  /\ UNCHANGED <<home, process, timing, dialog, pc, cpu>>

---------------------------------------------------------------------------
ProcessEnds ==
  /\ activations' = 0 /\ windows' = {} /\ settings' = DefaultSettings
  /\ timers' = NoTimers /\ refreshTimer' = 0
  /\ dialog' = FALSE /\ pc' = "loop" /\ cpu' = NeverRead
  /\ stored' = TRUE /\ byHand' = byHand \ {"memory"}
  /\ UNCHANGED disk

\* Mutant: G_SOURCE_REMOVE.
TickOnce(i) ==
  /\ MainLoop /\ i \in Live /\ Attached
  /\ cpu' = Reading(cpu)
  /\ timers' = [timers EXCEPT ![i] = NoTimer]
  /\ UNCHANGED <<disk, process, refreshTimer, dialog, pc, history>>

\* ui_auto_refresh: always G_SOURCE_CONTINUE.
Tick(i) ==
  /\ MainLoop /\ i \in Live /\ Attached
  /\ cpu' = Reading(cpu)
  /\ UNCHANGED <<disk, process, timing, dialog, pc, history>>

\* The widgets that it writes to are gone: undefined, a crash or nothing.
TickDetached ==
  /\ MainLoop /\ Live # {} /\ ~Attached
  /\ \/ ProcessEnds
     \/ /\ cpu' = [Reading(cpu) EXCEPT !.shown = cpu.shown]
        /\ UNCHANGED <<disk, process, timing, dialog, pc, history>>

\* The kernel counts clock ticks.
TimePasses ==
  /\ Running /\ cpu' \in Later(cpu)
  /\ UNCHANGED <<disk, process, timing, dialog, pc, history>>

\* The settings dialog is modal.
CloseWindow(w) ==
  /\ MainLoop /\ ~dialog /\ w \in windows
  /\ windows' = windows \ {w}
  /\ UNCHANGED <<disk, activations, settings, timing, dialog, pc, cpu, history>>

\* on_shutdown, and main returns: when the last window is closed.  Timers that
\* were due in the same iteration of the main loop are dispatched before it.
Shutdown == MainLoop /\ windows = {} /\ ProcessEnds

Crash == Running /\ ProcessEnds

---------------------------------------------------------------------------
Init ==
  /\ home \in BOOLEAN
  /\ file = NoFile
  /\ activations = 0 /\ windows = {} /\ settings = DefaultSettings
  /\ timers = NoTimers /\ refreshTimer = 0
  /\ dialog = FALSE /\ pc = "loop" /\ cpu = NeverRead
  /\ stored = TRUE /\ byHand = {}

Next ==
  \/ Activate \/ OpenSettings \/ CancelSettings \/ Save \/ WriteFile \/ EditFile
  \/ \E i \in Ids : Tick(i)
  \/ TickDetached \/ TimePasses
  \/ \E w \in Ids : CloseWindow(w)
  \/ Shutdown \/ Crash

\* A timer whose period is not one of the dialog's may take weeks.
TickSoon(i) == timers[i] \in 1..MaxPeriod /\ Tick(i)

\* Handlers run to their end, and a timer that is left alone fires once its interval
\* is over: GLib dispatches it with the user's events.  Saving starts a new timer
\* with a whole interval; the fairness is weak because no old one need have
\* fired by then (no timer ticks while pc = "write", which every save goes through).
Fairness == WF_appVars(WriteFile) /\ \A i \in Ids : WF_appVars(TickSoon(i))

Spec == Init /\ [][Next]_appVars /\ Fairness

---------------------------------------------------------------------------
(* Properties *)

\* Every variable keeps its type; refresh_timer never names a dead timer, and no
\* window is older or newer than the process.
TypeOK ==
  /\ home \in BOOLEAN /\ file \in File \cup {NoFile}
  /\ activations \in 0..MaxActivations /\ windows \subseteq 1..activations
  /\ settings \in Settings
  /\ timers \in [Ids -> NoTimer..(2 * Half - 1)]
  /\ refreshTimer \in Live \cup {0}
  /\ dialog \in BOOLEAN /\ pc \in {"loop", "write"}
  /\ cpu \in [span : Spans, shown : {Shows[s] : s \in Spans} \cup {"nothing"}]
  /\ stored \in BOOLEAN /\ byHand \in SUBSET {"file", "memory"}

\* With auto-refresh on, the timer that AppData knows is live and has the
\* interval of the settings in force, through loads, saves and activations.
TimerFollowsSettings ==
  Running /\ settings.auto =>
    refreshTimer # 0 /\ timers[refreshTimer] = Period(settings.interval)

\* Saving never leaks a timer, only another activation does: a process that
\* was activated once has the one timer of its settings, or none.
NoStrayTimer ==
  /\ Cardinality(Live) <= activations
  /\ activations = 1 => Live = IF settings.auto THEN {refreshTimer} ELSE {}

\* Between two events the settings in force are those the next start will load,
\* through seconds and back, unless the file could not be read or written, was
\* edited since, or has no HOME to be in.
SettingsAreStored == MainLoop /\ stored => settings = Stored

\* A refresh interval of zero, of weeks or otherwise out of the dialog's range is
\* in force, or comes with the next start, only if the file was edited by hand;
\* one save from the dialog puts memory and timer right, and the file with them
\* if it can be written.
SaneUnlessEdited ==
  /\ "memory" \notin byHand =>
       /\ settings.interval \in 1..MaxPeriod
       /\ Running /\ settings.auto => timers[refreshTimer] \in 1..MaxPeriod
  /\ "file" \notin byHand => Stored.interval \in 1..MaxPeriod

\* The first reading of the CPU is the average since boot; the dashboard never
\* goes on showing that one, since an activation reads three times.
CpuFigureIsRecent == Running => cpu.shown \in {"zero", "recent"}

\* Once the user stops saving settings (each save starts a whole interval anew),
\* a figure that is behind is refreshed, whatever was saved before and whatever
\* becomes of other windows and timers, unless auto-refresh is off, its interval was
\* edited by hand, or the window AppData points to is closed.
DashCatchesUp ==
  <>[][~Save]_appVars =>
    (Running /\ cpu.span = "some" ~>
       \/ cpu.span = "none" \/ ~Running
       \/ ~settings.auto \/ "memory" \in byHand \/ ~Attached)
=============================================================================
