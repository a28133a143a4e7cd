------------------------ MODULE AppLifecycle_proofs ------------------------
(***************************************************************************)
(* Proofs about AppLifecycle, for every width of an int that holds the      *)
(* dialog's intervals, whatever is written into the file by hand, and any   *)
(* bound on the activations.  Inv adds to the properties how many timers    *)
(* are strays: live ones that are not app->refresh_timer.                  *)
(***************************************************************************)
EXTENDS AppLifecycle, FiniteSetTheorems, TLAPS

Strays == Live \ {refreshTimer}

\* Each activation but the last has left at most one stray.
StraysBounded ==
  IF Running THEN Cardinality(Strays) <= activations - 1 ELSE Live = {}

\* The first activation knows its timer.
TimerKnown == activations = 1 => (refreshTimer # 0 <=> settings.auto)

\* An interval as the dialog makes it, in milliseconds.
Whole(s) == \E n \in 1..60 : s.interval = n * 1000

\* What the dialog has put into memory and not yet into the file survives the
\* way there and back; while the process is down, memory goes back to no file.
Writable ==
  /\ pc = "write" => Running /\ "memory" \notin byHand /\ Whole(settings)
  /\ ~Running => "memory" \notin byHand

\* The reader of a running process has read once.
Sampled == Running => cpu.span # "boot"

Inv ==
  /\ TypeOK /\ TimerFollowsSettings /\ SettingsAreStored
  /\ SaneUnlessEdited /\ CpuFigureIsRecent
  /\ StraysBounded /\ TimerKnown /\ Writable /\ Sampled

-----------------------------------------------------------------------------
(* Constants, conversions, finite sets, and what the operators do. *)

LEMMA HalfFacts ==
  /\ MaxPeriod \in Nat /\ Half \in Nat /\ Half > 0
  /\ \A p \in 1..MaxPeriod : p \in -Half..(Half - 1)
<1>1. MaxPeriod \in Nat
  BY DEF MaxPeriod
<1>2. Half \in Nat /\ Half > MaxPeriod
  BY HalfAssumption
<1>3. Half > 0
  BY <1>1, <1>2
<1>4. ASSUME NEW p \in 1..MaxPeriod PROVE p \in -Half..(Half - 1)
  BY <1>1, <1>2
<1> QED BY <1>1, <1>2, <1>3, <1>4

\* The intervals of the dialog, in milliseconds, fit into an int.
LEMMA DialogInterval ==
  ASSUME NEW n \in 1..60
  PROVE  n * 1000 \in 1..MaxPeriod /\ n * 1000 \in -Half..(Half - 1)
<1>1. n * 1000 \in 1..MaxPeriod
  <2>1. n \in Int /\ 1 <= n /\ n <= 60
    OBVIOUS
  <2>2. n * 1000 \in Int /\ 1 <= n * 1000 /\ n * 1000 <= 60000
    BY <2>1
  <2>3. n * 1000 <= MaxPeriod /\ MaxPeriod \in Int
    BY <2>2 DEF MaxPeriod
  <2> QED BY <2>2, <2>3
<1>2. \A p \in 1..MaxPeriod : p \in -Half..(Half - 1)
  BY HalfFacts
<1>3. n * 1000 \in -Half..(Half - 1)
  BY <1>1, <1>2, Zenon
<1> QED BY <1>1, <1>3

LEMMA ConstantFacts ==
  /\ 0 \notin Ids /\ MaxPeriod \in Nat /\ Half \in Nat /\ Half > 0
  /\ DefaultSettings \in Settings
  /\ \A f \in File : f # NoFile /\ f.auto \in BOOLEAN /\ f.seconds \in Int
  /\ \A s \in Settings : s.auto \in BOOLEAN /\ s.interval \in -Half..(Half - 1)
<1>1. MaxPeriod \in Nat /\ Half \in Nat /\ Half > 0 /\ 1..MaxPeriod \subseteq -Half..(Half - 1)
  BY HalfFacts
<1>2. 0 \notin Ids
  BY MaxActivationsAssumption DEF Ids
<1>3. DefaultSettings \in Settings
  BY <1>1, DefaultAssumption DEF Settings, DefaultSettings
<1>4. \A f \in File : f # NoFile /\ f.auto \in BOOLEAN /\ f.seconds \in Int
  BY NoFileAssumption DEF File
<1>5. \A s \in Settings : s.auto \in BOOLEAN /\ s.interval \in -Half..(Half - 1)
  BY DEF Settings
<1> QED BY <1>1, <1>2, <1>3, <1>4, <1>5

\* Every product comes out of the conversion as an int.
LEMMA ToIntType ==
  ASSUME NEW x \in Int PROVE ToInt(x) \in -Half..(Half - 1)
<1>1. CASE x \in -Half..(Half - 1)
  BY <1>1 DEF ToInt
<1>2. CASE x \notin -Half..(Half - 1)
  <2> DEFINE m == (x + Half) % (2 * Half)
  <2>1. 2 * Half \in Nat /\ 2 * Half > 0 /\ x + Half \in Int
    BY ConstantFacts
  <2>2. m \in 0..(2 * Half - 1)
    BY <2>1
  <2>3. ToInt(x) = m - Half
    BY <1>2 DEF ToInt
  <2> HIDE DEF m
  <2> QED BY <2>2, <2>3, ConstantFacts
<1> QED BY <1>1, <1>2

LEMMA PeriodType ==
  ASSUME NEW ms \in -Half..(Half - 1)
  PROVE  Period(ms) \in 0..(2 * Half - 1) /\ Period(ms) # NoTimer
BY ConstantFacts DEF Period, NoTimer

LEMMA FiniteIds ==
  ASSUME NEW S \in SUBSET Ids
  PROVE  IsFiniteSet(S) /\ Cardinality(S) \in Nat
<1>1. IsFiniteSet(Ids)
  BY FS_Interval, MaxActivationsAssumption DEF Ids
<1>2. IsFiniteSet(S)
  BY <1>1, FS_Subset
<1> QED BY <1>2, FS_CardinalityType

LEMMA StoredType ==
  ASSUME file \in File \cup {NoFile} PROVE Stored \in Settings
<1>1. CASE home /\ file # NoFile
  <2>1. file.seconds * 1000 \in Int
    BY <1>1, ConstantFacts
  <2>2. ToInt(file.seconds * 1000) \in -Half..(Half - 1)
    BY <2>1, ToIntType
  <2> QED BY <1>1, <2>2, ConstantFacts DEF Stored, Settings
<1>2. CASE ~(home /\ file # NoFile)
  BY <1>2, ConstantFacts DEF Stored
<1> QED BY <1>1, <1>2

\* What the dialog offers survives the way into the file and back.
LEMMA RoundTrip ==
  ASSUME NEW s \in Settings, Whole(s)
  PROVE  /\ s.interval \div 1000 \in Int
         /\ ToInt((s.interval \div 1000) * 1000) = s.interval
         /\ s.interval \in 1..MaxPeriod
         /\ s = [auto |-> s.auto, interval |-> s.interval]
<1>1. PICK n \in 1..60 : s.interval = n * 1000
  BY DEF Whole
<1>2. (n * 1000) \div 1000 = n
  OBVIOUS
<1>3. n * 1000 \in 1..MaxPeriod /\ n * 1000 \in -Half..(Half - 1)
  BY DialogInterval
<1> QED BY <1>1, <1>2, <1>3 DEF ToInt, Settings

\* A timer that is started is the only change, and refresh_timer knows it.
LEMMA StartTimerEffect ==
  ASSUME NEW s \in Settings, NEW ts \in [Ids -> NoTimer..(2 * Half - 1)],
         NEW known \in Ids \cup {0}, known # 0 => ts[known] # NoTimer,
         StartTimer(s, ts, known)
  PROVE  /\ timers' \in [Ids -> NoTimer..(2 * Half - 1)]
         /\ refreshTimer' \in Live' \cup {0}
         /\ IF s.auto
            THEN /\ refreshTimer' # 0
                 /\ timers'[refreshTimer'] = Period(s.interval)
                 /\ Strays' = {i \in Ids : ts[i] # NoTimer}
            ELSE timers' = ts /\ refreshTimer' = known
<1>1. CASE s.auto
  <2> DEFINE period == Period(s.interval)
  <2>1. PICK i \in Ids :
          /\ ts[i] = NoTimer
          /\ timers' = [ts EXCEPT ![i] = period] /\ refreshTimer' = i
    BY <1>1 DEF StartTimer
  <2>2. period \in 0..(2 * Half - 1) /\ period # NoTimer /\ i # 0
    BY ConstantFacts, PeriodType
  <2>3. period \in NoTimer..(2 * Half - 1)
    BY <2>2, ConstantFacts DEF NoTimer
  <2> HIDE DEF period
  <2>4. timers' \in [Ids -> NoTimer..(2 * Half - 1)] /\ timers'[i] = period
    BY <2>1, <2>3
  <2>5. Live' = {j \in Ids : ts[j] # NoTimer} \cup {i}
    BY <2>1, <2>2 DEF Live
  <2>6. Strays' = {j \in Ids : ts[j] # NoTimer}
    BY <2>1, <2>5 DEF Strays
  <2> QED BY <1>1, <2>1, <2>2, <2>4, <2>5, <2>6 DEF period
<1>2. CASE ~s.auto
  BY <1>2 DEF StartTimer, Live
<1> QED BY <1>1, <1>2, ConstantFacts

\* After three readings the average since boot is off the dashboard.
LEMMA ReadThriceFigure ==
  ASSUME NEW c \in [span : Spans, shown : {Shows[s] : s \in Spans} \cup {"nothing"}],
         NEW d \in ReadThrice(c)
  PROVE  /\ d \in [span : Spans, shown : {Shows[s] : s \in Spans} \cup {"nothing"}]
         /\ d.shown \in {"zero", "recent"} /\ d.span = "none"
<1>1. PICK a \in Later(Reading(c)) : \E b \in Later(Reading(a)) : d = Reading(b)
  BY DEF ReadThrice
<1>2. PICK b \in Later(Reading(a)) : d = Reading(b)
  BY <1>1
<1>3. b.span \in {"none", "some"}
  BY <1>2 DEF Later, Reading
<1> QED BY <1>2, <1>3 DEF Reading, Shows, Spans

-----------------------------------------------------------------------------
(* The invariant. *)

\* What holds of a process that does not run.
LEMMA DownInv ==
  ASSUME home \in BOOLEAN, file \in File \cup {NoFile}, activations = 0,
         windows = {}, settings = DefaultSettings, timers = NoTimers,
         refreshTimer = 0, dialog = FALSE, pc = "loop", cpu = NeverRead,
         stored = TRUE, byHand \in SUBSET {"file"},
         "file" \notin byHand => Stored.interval \in 1..MaxPeriod
  PROVE  Inv
<1>1. ~Running
  BY DEF Running
<1>2. timers \in [Ids -> NoTimer..(2 * Half - 1)] /\ Live = {}
  BY ConstantFacts DEF NoTimers, NoTimer, Live
<1>3. TypeOK
  <2>1. activations \in 0..MaxActivations /\ windows \subseteq 1..activations
    BY MaxActivationsAssumption
  <2>2. settings \in Settings /\ refreshTimer \in Live \cup {0}
    BY ConstantFacts
  <2>3. dialog \in BOOLEAN /\ pc \in {"loop", "write"}
    OBVIOUS
  <2>4. cpu \in [span : Spans, shown : {Shows[s] : s \in Spans} \cup {"nothing"}]
    BY DEF NeverRead, Spans
  <2>5. stored \in BOOLEAN /\ byHand \in SUBSET {"file", "memory"}
    OBVIOUS
  <2> QED BY <1>2, <2>1, <2>2, <2>3, <2>4, <2>5, Zenon DEF TypeOK
<1>4. SaneUnlessEdited
  BY <1>1, DefaultAssumption DEF SaneUnlessEdited, DefaultSettings
<1>5. Writable
  BY <1>1 DEF Writable
<1> QED BY <1>1, <1>2, <1>3, <1>4, <1>5 DEF Inv, TimerFollowsSettings,
             SettingsAreStored, CpuFigureIsRecent, Sampled, MainLoop, StraysBounded,
             TimerKnown

LEMMA InitInv == Init => Inv
<1> SUFFICES ASSUME Init PROVE Inv
  OBVIOUS
<1>1. file \in File \cup {NoFile} /\ byHand \in SUBSET {"file"}
  BY DEF Init
<1>2. Stored.interval \in 1..MaxPeriod
  BY DefaultAssumption DEF Init, Stored, DefaultSettings
<1> QED BY <1>1, <1>2, DownInv DEF Init

\* A timer that follows sane settings has a sane period.
LEMMA SanePeriod ==
  ASSUME NEW ms \in 1..MaxPeriod PROVE Period(ms) \in 1..MaxPeriod
BY ConstantFacts DEF Period

LEMMA ActivateInv == Inv /\ Activate => Inv'
<1> SUFFICES ASSUME Inv, Activate PROVE Inv'
  OBVIOUS
<1> USE DEF Inv
<1>1. /\ \/ /\ settings' = Stored /\ stored' = home
            /\ byHand' = {x \in {"file", "memory"} : "file" \in byHand}
         \/ /\ settings' = DefaultSettings /\ stored' = FALSE
            /\ byHand' = byHand \ {"memory"}
      /\ StartTimer(settings', timers, refreshTimer)
  BY DEF Activate
<1>2. /\ activations' = activations + 1 /\ activations \in Nat
      /\ activations' \in 0..MaxActivations /\ Running' /\ pc' = "loop"
      /\ windows' = windows \cup {activations + 1}
      /\ cpu' \in ReadThrice(cpu)
      /\ UNCHANGED <<home, file, dialog>>
  BY MaxActivationsAssumption DEF Activate, TypeOK, disk, Running
<1>3. /\ settings' \in Settings /\ stored' \in BOOLEAN
      /\ byHand' \in SUBSET {"file", "memory"} /\ Stored' = Stored
  <2>1. settings' \in Settings
    BY <1>1, StoredType, ConstantFacts DEF TypeOK
  <2>2. home \in BOOLEAN /\ byHand \in SUBSET {"file", "memory"}
    BY DEF TypeOK
  <2> HIDE DEF Inv
  <2>3. stored' \in BOOLEAN
    BY <1>1, <2>2
  <2>4. Stored' = Stored
    BY <1>2 DEF Stored
  <2>5. byHand' \in SUBSET {"file", "memory"}
    BY <1>1, <2>2
  <2> QED BY <2>1, <2>3, <2>4, <2>5
<1>4. /\ timers' \in [Ids -> NoTimer..(2 * Half - 1)]
      /\ refreshTimer' \in Live' \cup {0}
      /\ IF settings'.auto
         THEN /\ refreshTimer' # 0
              /\ timers'[refreshTimer'] = Period(settings'.interval)
              /\ Strays' = Live
         ELSE timers' = timers /\ refreshTimer' = refreshTimer
  <2> DEFINE new == settings'
  <2> HIDE DEF new
  <2>1. new \in Settings /\ StartTimer(new, timers, refreshTimer)
    BY <1>1, <1>3 DEF new
  <2>2. /\ timers' \in [Ids -> NoTimer..(2 * Half - 1)]
        /\ refreshTimer' \in Live' \cup {0}
        /\ IF new.auto
           THEN /\ refreshTimer' # 0
                /\ timers'[refreshTimer'] = Period(new.interval)
                /\ Strays' = {i \in Ids : timers[i] # NoTimer}
           ELSE timers' = timers /\ refreshTimer' = refreshTimer
    BY <2>1, StartTimerEffect DEF TypeOK, Live
  <2> QED BY <2>2 DEF new, Live
<1>5. /\ cpu' \in [span : Spans, shown : {Shows[s] : s \in Spans} \cup {"nothing"}]
      /\ cpu'.shown \in {"zero", "recent"} /\ cpu'.span = "none"
  <2> DEFINE d == cpu'
  <2> HIDE DEF d
  <2>1. d \in ReadThrice(cpu)
    BY <1>2 DEF d
  <2>2. /\ d \in [span : Spans, shown : {Shows[s] : s \in Spans} \cup {"nothing"}]
        /\ d.shown \in {"zero", "recent"} /\ d.span = "none"
    BY <2>1, ReadThriceFigure DEF TypeOK
  <2> QED BY <2>2 DEF d
<1>6. TypeOK'
  <2>1. windows' \subseteq 1..activations'
    BY <1>2 DEF TypeOK
  <2>2. home' \in BOOLEAN /\ file' \in File \cup {NoFile} /\ dialog' \in BOOLEAN
    BY <1>2 DEF TypeOK
  <2>3. pc' \in {"loop", "write"}
    BY <1>2
  <2> QED BY <1>2, <1>3, <1>4, <1>5, <2>1, <2>2, <2>3, Zenon DEF TypeOK
<1>7. TimerFollowsSettings' /\ CpuFigureIsRecent' /\ Writable' /\ Sampled'
  BY <1>2, <1>4, <1>5 DEF TimerFollowsSettings, CpuFigureIsRecent, Writable, Sampled
<1>8. SettingsAreStored'
  BY <1>1, <1>3 DEF SettingsAreStored
<1>9. SaneUnlessEdited'
  <2>1. "file" \notin byHand' => Stored'.interval \in 1..MaxPeriod
    BY <1>1, <1>3 DEF SaneUnlessEdited
  <2>2. "memory" \notin byHand' => settings'.interval \in 1..MaxPeriod
    BY <1>1, DefaultAssumption DEF SaneUnlessEdited, DefaultSettings
  <2>3. "memory" \notin byHand' /\ settings'.auto
          => timers'[refreshTimer'] \in 1..MaxPeriod
    BY <2>2, <1>4, SanePeriod
  <2> QED BY <2>1, <2>2, <2>3 DEF SaneUnlessEdited
<1>10. StraysBounded'
  <2>1. /\ IsFiniteSet(Live) /\ Cardinality(Live) \in Nat
        /\ IsFiniteSet(Strays) /\ Cardinality(Strays) \in Nat
    BY FiniteIds DEF Live, Strays
  <2>2. Cardinality(Live) <= activations
    <3>1. CASE Running
      <4>1. Cardinality(Strays) <= activations - 1
        BY <3>1 DEF StraysBounded
      <4>2. Cardinality(Live) <= Cardinality(Strays) + 1
        BY <2>1, FS_RemoveElement DEF Strays
      <4> QED BY <4>1, <4>2, <2>1, <1>2
    <3>2. CASE ~Running
      BY <3>2, <1>2, FS_EmptySet DEF StraysBounded
    <3> QED BY <3>1, <3>2
  <2>3. Cardinality(Strays) <= Cardinality(Live)
    BY <2>1, FS_Subset DEF Strays
  <2>4. CASE settings'.auto
    BY <2>4, <1>2, <1>4, <2>1, <2>2 DEF StraysBounded
  <2>5. CASE ~settings'.auto
    <3>1. Strays' = Strays
      BY <2>5, <1>4 DEF Strays, Live
    <3> QED BY <3>1, <1>2, <2>1, <2>2, <2>3 DEF StraysBounded
  <2> QED BY <2>4, <2>5
<1>11. TimerKnown'
  <2>1. CASE settings'.auto
    BY <2>1, <1>4 DEF TimerKnown
  <2>2. CASE ~settings'.auto /\ activations = 0
    <3>1. Live = {}
      BY <2>2 DEF StraysBounded, Running
    <3> QED BY <3>1, <2>2, <1>4 DEF TimerKnown, TypeOK
  <2>3. CASE activations # 0
    BY <2>3, <1>2 DEF TimerKnown
  <2> QED BY <2>1, <2>2, <2>3
<1> QED BY <1>6, <1>7, <1>8, <1>9, <1>10, <1>11

LEMMA SaveInv == Inv /\ Save => Inv'
<1> SUFFICES ASSUME Inv, Save PROVE Inv'
  OBVIOUS
<1> USE DEF Inv
<1>1. /\ Running /\ Running' /\ pc' = "write"
      /\ byHand' = byHand \ {"memory"}
      /\ UNCHANGED <<home, file, activations, windows, dialog, cpu, stored>>
      /\ StartTimer(settings', Removed, 0)
  BY DEF Save, TakeSettings, MainLoop, Running, disk
<1>2. /\ settings' \in Settings /\ Whole(settings')
      /\ settings'.interval \in 1..MaxPeriod
  <2>1. PICK a \in BOOLEAN, n \in Seconds :
          settings' = [auto |-> a, interval |-> n * 1000]
    BY DEF Save, TakeSettings
  <2>2. n \in 1..60
    BY SecondsAssumption
  <2>3. n * 1000 \in 1..MaxPeriod
    BY <2>2, DialogInterval
  <2>4. n * 1000 \in -Half..(Half - 1)
    BY <2>2, DialogInterval
  <2>5. settings' \in Settings /\ settings'.interval = n * 1000
    BY <2>1, <2>4 DEF Settings
  <2>6. Whole(settings')
    BY <2>2, <2>5 DEF Whole
  <2> QED BY <2>3, <2>5, <2>6
<1>3. /\ Removed \in [Ids -> NoTimer..(2 * Half - 1)]
      /\ {i \in Ids : Removed[i] # NoTimer} = Strays
  BY ConstantFacts DEF TypeOK, Removed, Strays, Live, NoTimer
<1>4. /\ timers' \in [Ids -> NoTimer..(2 * Half - 1)]
      /\ refreshTimer' \in Live' \cup {0}
      /\ IF settings'.auto
         THEN /\ refreshTimer' # 0
              /\ timers'[refreshTimer'] = Period(settings'.interval)
              /\ Strays' = Strays
         ELSE timers' = Removed /\ refreshTimer' = 0
  <2> DEFINE new == settings'
  <2> HIDE DEF new
  <2>1. new \in Settings /\ StartTimer(new, Removed, 0)
    BY <1>1, <1>2 DEF new
  <2>2. /\ timers' \in [Ids -> NoTimer..(2 * Half - 1)]
        /\ refreshTimer' \in Live' \cup {0}
        /\ IF new.auto
           THEN /\ refreshTimer' # 0
                /\ timers'[refreshTimer'] = Period(new.interval)
                /\ Strays' = {i \in Ids : Removed[i] # NoTimer}
           ELSE timers' = Removed /\ refreshTimer' = 0
    BY <2>1, <1>3, StartTimerEffect
  <2> QED BY <2>2, <1>3 DEF new
<1>5. TypeOK'
  BY <1>1, <1>2, <1>4 DEF TypeOK
<1>6. Strays' = Strays
  <2>1. CASE settings'.auto
    BY <2>1, <1>4
  <2>2. CASE ~settings'.auto
    <3>1. Live' = Strays
      BY <2>2, <1>4, <1>3 DEF Live
    <3> QED BY <3>1, <2>2, <1>4, ConstantFacts DEF Strays, Live
  <2> QED BY <2>1, <2>2
<1>7. StraysBounded'
  BY <1>1, <1>6 DEF StraysBounded
<1>8. TimerFollowsSettings' /\ TimerKnown'
  BY <1>4 DEF TimerFollowsSettings, TimerKnown
<1>9. SettingsAreStored' /\ CpuFigureIsRecent' /\ Sampled'
  BY <1>1 DEF SettingsAreStored, CpuFigureIsRecent, MainLoop, Sampled
<1>10. SaneUnlessEdited'
  <2>1. Stored' = Stored /\ ("file" \in byHand' <=> "file" \in byHand)
    BY <1>1 DEF Stored
  <2>2. settings'.auto => timers'[refreshTimer'] \in 1..MaxPeriod
    BY <1>2, <1>4, SanePeriod
  <2> QED BY <2>1, <2>2, <1>2 DEF SaneUnlessEdited
<1>11. Writable'
  BY <1>1, <1>2 DEF Writable
<1> QED BY <1>5, <1>7, <1>8, <1>9, <1>10, <1>11

LEMMA WriteFileInv == Inv /\ WriteFile => Inv'
<1> SUFFICES ASSUME Inv, WriteFile PROVE Inv'
  OBVIOUS
<1> USE DEF Inv
<1>1. /\ pc = "write" /\ pc' = "loop" /\ dialog' = FALSE
      /\ UNCHANGED <<home, activations, windows, settings, timers, refreshTimer,
                     cpu>>
      /\ Running /\ Running' /\ Whole(settings)
  BY DEF WriteFile, process, timing, Writable, Running
<1>2. StraysBounded' /\ TimerFollowsSettings' /\ TimerKnown'
  BY <1>1 DEF TimerFollowsSettings, StraysBounded, Strays, Live, TimerKnown
<1>3. CpuFigureIsRecent' /\ Sampled'
  BY <1>1 DEF CpuFigureIsRecent, Sampled
<1>4. CASE /\ home /\ stored' = TRUE /\ byHand' = {}
           /\ file' = [auto |-> settings.auto,
                       seconds |-> settings.interval \div 1000]
  <2>1. /\ settings.interval \div 1000 \in Int
        /\ ToInt((settings.interval \div 1000) * 1000) = settings.interval
        /\ settings.interval \in 1..MaxPeriod
        /\ settings = [auto |-> settings.auto, interval |-> settings.interval]
    BY <1>1, RoundTrip DEF TypeOK
  <2>2. file' \in File /\ file' # NoFile
    BY <1>4, <2>1, ConstantFacts DEF File, TypeOK
  <2>3. Stored' = settings
    BY <1>1, <1>4, <2>1, <2>2 DEF Stored
  <2>4. SettingsAreStored' /\ SaneUnlessEdited'
    BY <1>1, <2>1, <2>3, SanePeriod
       DEF SettingsAreStored, SaneUnlessEdited, TimerFollowsSettings
  <2>5. TypeOK'
    BY <1>1, <1>4, <2>2 DEF TypeOK, Live
  <2>6. Writable'
    BY <1>1 DEF Writable
  <2> QED BY <1>2, <1>3, <2>4, <2>5, <2>6
<1>5. CASE UNCHANGED <<file, byHand>> /\ stored' = FALSE
  <2>1. TypeOK' /\ Writable' /\ SettingsAreStored'
    BY <1>1, <1>5 DEF TypeOK, Writable, SettingsAreStored, Live
  <2>2. SaneUnlessEdited'
    BY <1>1, <1>5 DEF SaneUnlessEdited, Stored, Running
  <2> QED BY <1>2, <1>3, <2>1, <2>2
<1> HIDE DEF Inv
<1> QED BY <1>4, <1>5, Zenon DEF WriteFile

LEMMA EndInv == Inv /\ ProcessEnds => Inv'
<1> SUFFICES ASSUME Inv, ProcessEnds PROVE Inv'
  OBVIOUS
<1>1. /\ ~Running' /\ Stored' = Stored
      /\ "file" \in byHand' <=> "file" \in byHand
  BY DEF ProcessEnds, Running, Stored, disk
<1>2. timers' \in [Ids -> NoTimer..(2 * Half - 1)] /\ Live' = {}
  BY ConstantFacts DEF ProcessEnds, NoTimers, NoTimer, Live
<1>3. TypeOK'
  <2>1. activations' \in 0..MaxActivations /\ windows' \subseteq 1..activations'
    BY MaxActivationsAssumption DEF ProcessEnds
  <2>2. settings' \in Settings /\ refreshTimer' \in Live' \cup {0}
    BY ConstantFacts DEF ProcessEnds
  <2>3. dialog' \in BOOLEAN /\ pc' \in {"loop", "write"}
    BY DEF ProcessEnds
  <2>4. cpu' \in [span : Spans, shown : {Shows[s] : s \in Spans} \cup {"nothing"}]
    BY DEF ProcessEnds, NeverRead, Spans
  <2>5. stored' \in BOOLEAN /\ byHand' \in SUBSET {"file", "memory"}
    BY DEF ProcessEnds, Inv, TypeOK
  <2>6. home' \in BOOLEAN /\ file' \in File \cup {NoFile}
    BY DEF ProcessEnds, disk, Inv, TypeOK
  <2> QED BY <1>2, <2>1, <2>2, <2>3, <2>4, <2>5, <2>6, Zenon DEF TypeOK
<1>4. SaneUnlessEdited'
  BY <1>1, DefaultAssumption
     DEF Inv, SaneUnlessEdited, ProcessEnds, DefaultSettings
<1>5. Writable' /\ TimerKnown'
  BY <1>1 DEF ProcessEnds, Writable, TimerKnown
<1> QED BY <1>1, <1>2, <1>3, <1>4, <1>5 DEF Inv, TimerFollowsSettings,
             SettingsAreStored, CpuFigureIsRecent, Sampled, MainLoop, StraysBounded

\* The remaining steps leave settings and timers alone.
LEMMA NextInv == Inv /\ [Next]_appVars => Inv'
<1> SUFFICES ASSUME Inv, [Next]_appVars PROVE Inv'
  OBVIOUS
<1> USE DEF Inv
<1>1. CASE Activate
  BY <1>1, ActivateInv
<1>2. CASE Save
  BY <1>2, SaveInv
<1>3. CASE WriteFile
  BY <1>3, WriteFileInv
<1>4. CASE ProcessEnds
  BY <1>4, EndInv
<1>5. ASSUME UNCHANGED <<home, file, activations, settings, timers, refreshTimer,
                         pc, stored, byHand>>,
             dialog' \in BOOLEAN, windows' \subseteq windows,
             cpu' \in [span : Spans, shown : {Shows[s] : s \in Spans} \cup {"nothing"}],
             Running => cpu'.shown \in {"zero", "recent"} /\ cpu'.span # "boot"
      PROVE  Inv'
  BY <1>5 DEF TypeOK, TimerFollowsSettings, SettingsAreStored, MainLoop,
              SaneUnlessEdited, CpuFigureIsRecent, Running, Stored,
              StraysBounded, Strays, Live, TimerKnown, Writable, Sampled
<1>6. CASE OpenSettings \/ CancelSettings \/ UNCHANGED appVars
           \/ \E w \in Ids : CloseWindow(w)
  <2>1. /\ UNCHANGED <<home, file, activations, settings, timers, refreshTimer,
                       pc, stored, byHand, cpu>>
        /\ dialog' \in BOOLEAN /\ windows' \subseteq windows
    BY <1>6 DEF OpenSettings, CancelSettings, CloseWindow, appVars,
                disk, process, timing, history, TypeOK
  <2> QED BY <2>1, <1>5 DEF TypeOK, CpuFigureIsRecent, Sampled
<1>7. CASE TimePasses \/ (\E i \in Ids : Tick(i))
           \/ (/\ MainLoop /\ cpu' = [Reading(cpu) EXCEPT !.shown = cpu.shown]
               /\ UNCHANGED <<disk, process, timing, dialog, pc, history>>)
  <2>1. /\ UNCHANGED <<home, file, activations, settings, timers, refreshTimer,
                       pc, stored, byHand, dialog, windows>>
        /\ \/ cpu' \in Later(cpu)
           \/ cpu' = Reading(cpu)
           \/ cpu' = [Reading(cpu) EXCEPT !.shown = cpu.shown]
    BY <1>7 DEF TimePasses, Tick, disk, process, timing, history
  <2>2. /\ cpu' \in [span : Spans, shown : {Shows[s] : s \in Spans} \cup {"nothing"}]
        /\ Running => cpu'.shown \in {"zero", "recent"} /\ cpu'.span # "boot"
    BY <2>1 DEF TypeOK, CpuFigureIsRecent, Sampled, Later, Reading, Shows, Spans
  <2> QED BY <2>1, <2>2, <1>5 DEF TypeOK
<1>8. CASE EditFile
  <2>1. /\ UNCHANGED <<home, activations, settings, timers, refreshTimer, pc,
                       dialog, windows, cpu>>
        /\ file' \in File /\ stored' = FALSE /\ byHand' = byHand \cup {"file"}
    BY <1>8, HandWrittenAssumption DEF EditFile, process, timing, File
  <2> QED BY <2>1 DEF TypeOK, TimerFollowsSettings, SettingsAreStored,
              SaneUnlessEdited, CpuFigureIsRecent, MainLoop, Running,
              StraysBounded, Strays, Live, TimerKnown, Writable, Sampled
<1> QED BY <1>1, <1>2, <1>3, <1>4, <1>6, <1>7, <1>8
        DEF Next, Shutdown, Crash, TickDetached

LEMMA InvHolds == Spec => []Inv
<1> QED BY InitInv, NextInv, PTL DEF Spec

LEMMA InvNoStray == Inv => NoStrayTimer
<1> SUFFICES ASSUME Inv PROVE NoStrayTimer
  OBVIOUS
<1>1. /\ IsFiniteSet(Live) /\ Cardinality(Live) \in Nat
      /\ IsFiniteSet(Strays) /\ Cardinality(Strays) \in Nat
      /\ activations \in Nat
  BY FiniteIds, MaxActivationsAssumption DEF Live, Strays, Inv, TypeOK
<1>2. CASE ~Running
  BY <1>1, <1>2, FS_EmptySet DEF Inv, StraysBounded, Running, NoStrayTimer
<1>3. CASE Running
  <2>1. Cardinality(Strays) <= activations - 1
    BY <1>3 DEF Inv, StraysBounded
  <2>2. Cardinality(Live) <= Cardinality(Strays) + 1
    BY <1>1, FS_RemoveElement DEF Strays
  <2>3. ASSUME activations = 1
        PROVE  Live = IF settings.auto THEN {refreshTimer} ELSE {}
    <3>1. Cardinality(Strays) = 0
      BY <2>1, <2>3, <1>1
    <3>2. Strays = {}
      BY <3>1, <1>1, FS_EmptySet
    <3> QED BY <3>2, <2>3, ConstantFacts DEF Strays, Inv, TimerKnown, TypeOK, Live
  <2> QED BY <2>1, <2>2, <2>3, <1>1 DEF NoStrayTimer
<1> QED BY <1>2, <1>3

-----------------------------------------------------------------------------
\* Every variable keeps its type, and refresh_timer never names a dead timer.
THEOREM TypeCorrect == Spec => []TypeOK
<1>1. Inv => TypeOK
  BY DEF Inv
<1> QED BY InvHolds, <1>1, PTL

\* With auto-refresh on, the timer that AppData knows runs at the interval of
\* the settings in force (on_settings_save, ui_build_window).
THEOREM TimerInForce == Spec => []TimerFollowsSettings
<1>1. Inv => TimerFollowsSettings
  BY DEF Inv
<1> QED BY InvHolds, <1>1, PTL

\* on_settings_save never leaks a timer: only a further activation does.
THEOREM TimersAccountedFor == Spec => []NoStrayTimer
BY InvHolds, InvNoStray, PTL

\* Unless the file failed or was edited, what is in force is what the next start
\* loads (settings_save, settings_load).
THEOREM SettingsSurvive == Spec => []SettingsAreStored
<1>1. Inv => SettingsAreStored
  BY DEF Inv
<1> QED BY InvHolds, <1>1, PTL

\* An interval out of the dialog's range comes from a file edited by hand, and a
\* save from the dialog is the end of it (settings_load, on_settings_save).
THEOREM IntervalsAreSane == Spec => []SaneUnlessEdited
<1>1. Inv => SaneUnlessEdited
  BY DEF Inv
<1> QED BY InvHolds, <1>1, PTL

\* The average since boot does not stay on the dashboard (on_activate,
\* sys_get_cpu_usage).
THEOREM FigureIsRecent == Spec => []CpuFigureIsRecent
<1>1. Inv => CpuFigureIsRecent
  BY DEF Inv
<1> QED BY InvHolds, <1>1, PTL
=============================================================================
