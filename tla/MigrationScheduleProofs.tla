---------------------- MODULE MigrationScheduleProofs ----------------------
(***************************************************************************)
(* For any number of runs, pages, saves, restarts and failing writes: an   *)
(* enabled schedule has a next run, runs overlap no more than pages have   *)
(* written back old statuses, only such a save or a restart wedges the     *)
(* schedule, and the log tells what its runs asked for.                    *)
(***************************************************************************)
EXTENDS MigrationSchedule, FiniteSetTheorems, SequenceTheorems, TLAPS

\* The settings file agrees with memory unless it was last written with an error,
\* and never holds an enabled schedule without a next run.
FilesFollow ==
    /\ ~stale => disk = settings
    /\ disk.enabled => disk.next # "none"

IInv ==
    /\ TypeOK
    /\ FilesFollow
    /\ EnabledHasNext
    /\ OverlapBounded

-----------------------------------------------------------------------------
\* Cutting the log leaves a log, no longer than it was and than KeptLogs.
LEMMA TrimmedTyped ==
    ASSUME NEW l \in Seq(LogEntries)
    PROVE  Trimmed(l) \in Seq(LogEntries) /\ Len(Trimmed(l)) <= KeptLogs
<1> DEFINE n == IF Len(l) < KeptLogs THEN Len(l) ELSE KeptLogs
<1>1. Len(l) \in Nat /\ KeptLogs \in Nat
  BY LenProperties, MigrationScheduleAssumption
<1>2. n \in Nat /\ n <= Len(l) /\ n <= KeptLogs
  BY <1>1
<1>3. \A i \in 1..n : l[i] \in LogEntries
  BY <1>1, <1>2, ElementOfSeq
<1> HIDE DEF n
<1>4. SubSeq(l, 1, n) \in Seq(LogEntries) /\ Len(SubSeq(l, 1, n)) = IF 1 <= n THEN n - 1 + 1 ELSE 0
  BY <1>2, <1>3, SubSeqProperties
<1>5. Len(SubSeq(l, 1, n)) <= KeptLogs
  BY <1>2, <1>4, <1>1
<1>6. Trimmed(l) = SubSeq(l, 1, n)
  BY DEF Trimmed, n
<1>7. QED BY <1>4, <1>5, <1>6

\* The log with a new entry, in memory and on disk.
LEMMA AddLogTyped ==
    ASSUME TypeOK, NEW status \in {"SUCCESS", "FAILED"}, NEW listed \in SUBSET Entities,
           NEW synced \in SUBSET Entities, NEW edited \in BOOLEAN,
           AddLog(status, listed, synced, edited)
    PROVE  /\ logs' \in Seq(LogEntries) /\ Len(logs') <= KeptLogs
           /\ logDisk' \in Seq(LogEntries) /\ Len(logDisk') <= KeptLogs
<1> DEFINE e == [status |-> status, listed |-> listed, synced |-> synced, edited |-> edited]
<1>1. e \in LogEntries
  BY DEF LogEntries
<1>2. <<e>> \in Seq(LogEntries)
  BY <1>1
<1>3. <<e>> \o logs \in Seq(LogEntries)
  BY <1>2, ConcatProperties DEF TypeOK
<1>4. logs' = Trimmed(<<e>> \o logs) /\ logDisk' \in {logs', logDisk, <<>>}
  BY DEF AddLog, SaveLogs, Logged
<1>5. logs' \in Seq(LogEntries) /\ Len(logs') <= KeptLogs
  BY <1>3, <1>4, TrimmedTyped
<1>6. <<>> \in Seq(LogEntries) /\ Len(<<>>) <= KeptLogs
  BY MigrationScheduleAssumption
<1>7. QED BY <1>4, <1>5, <1>6 DEF TypeOK

\* A save puts settings in memory, and leaves a file that follows.
LEMMA SaveFollows ==
    ASSUME TypeOK, FilesFollow, NEW s \in Settings, s.enabled => s.next # "none", SaveSettings(s)
    PROVE  settings' = s /\ disk' \in Settings /\ stale' \in BOOLEAN /\ FilesFollow'
<1>1. Defaults \in Settings /\ ~Defaults.enabled
  BY DEF Defaults, Settings, Statuses, Entities
<1>2. QED BY <1>1 DEF SaveSettings, FilesFollow, TypeOK

\* Settings stay what they are when time passes, but for the next run being due.
LEMMA AgedTyped ==
    ASSUME NEW d \in Settings, d.enabled => d.next # "none", NEW s \in Aged(d)
    PROVE  s \in Settings /\ (s.enabled => s.next # "none") /\ s.status = d.status
                         /\ s.entities = d.entities
BY DEF Aged, Settings

-----------------------------------------------------------------------------
\* There are finitely many runs in flight.
LEMMA InFlightFinite == IsFiniteSet(InFlight) /\ Cardinality(InFlight) \in Nat
BY MigrationScheduleAssumption, FS_Subset, FS_CardinalityType DEF InFlight

\* A run that ends leaves one fewer.
LEMMA RunEnds ==
    ASSUME TypeOK, NEW r \in Runs, run[r].pc # "idle", run' = [run EXCEPT ![r] = NoRun]
    PROVE  Cardinality(InFlight') = Cardinality(InFlight) - 1
<1>1. InFlight' = InFlight \ {r} /\ r \in InFlight
  BY DEF InFlight, TypeOK, NoRun
<1>2. QED BY <1>1, InFlightFinite, FS_RemoveElement

\* A run that begins makes one more.
LEMMA RunBegins ==
    ASSUME TypeOK, NEW r \in Runs, run[r].pc = "idle", NEW s, s.pc # "idle",
           run' = [run EXCEPT ![r] = s]
    PROVE  Cardinality(InFlight') = Cardinality(InFlight) + 1
<1>1. InFlight' = InFlight \cup {r} /\ r \notin InFlight
  BY DEF InFlight, TypeOK
<1>2. QED BY <1>1, InFlightFinite, FS_AddElement

\* An idle slot is a slot.
LEMMA NoRunTyped == NoRun \in RunStates
<1>1. 0 \in 0..MaxEdits
  BY MigrationScheduleAssumption
<1>2. QED BY <1>1 DEF NoRun, RunStates

\* No run is in flight at the start or after a restart.
LEMMA NoneInFlight ==
    ASSUME run = [r \in Runs |-> NoRun]
    PROVE  Cardinality(InFlight) = 0 /\ run \in [Runs -> RunStates]
<1>1. InFlight = {} /\ run \in [Runs -> RunStates]
  BY NoRunTyped DEF InFlight, NoRun
<1>2. QED BY <1>1, FS_EmptySet

LEMMA InitIInv == Init => IInv
<1> SUFFICES ASSUME Init PROVE IInv
  OBVIOUS
<1>1. Defaults \in Settings /\ ~Defaults.enabled
  BY DEF Defaults, Settings, Statuses, Entities
<1>2. Cardinality(InFlight) = 0 /\ run \in [Runs -> RunStates]
  BY NoneInFlight DEF Init
<1>3. <<>> \in Seq(LogEntries) /\ Len(<<>>) <= KeptLogs
  BY MigrationScheduleAssumption
<1>8. page \in [Pages -> Statuses] /\ stale \in BOOLEAN
  BY DEF Init, Statuses
<1>9. edits \in 0..MaxEdits /\ crashes \in 0..MaxCrashes
  BY MigrationScheduleAssumption DEF Init
<1>4. TypeOK
  BY <1>1, <1>2, <1>3, <1>8, <1>9 DEF TypeOK, Init
<1>5. FilesFollow /\ EnabledHasNext
  BY <1>1 DEF FilesFollow, EnabledHasNext, Init
<1>6. OverlapBounded
  BY <1>2 DEF OverlapBounded, Init
<1>7. QED BY <1>4, <1>5, <1>6 DEF IInv

-----------------------------------------------------------------------------
\* Pages read, and write back with one more save on the count.
LEMMA LoadPageStep == ASSUME IInv, NEW p \in Pages, LoadPage(p) PROVE IInv'
<1>1. TypeOK'
  BY DEF IInv, TypeOK, LoadPage, Settings
<1>2. (FilesFollow /\ EnabledHasNext)'
  BY DEF IInv, FilesFollow, EnabledHasNext, LoadPage
<1>3. OverlapBounded'
  BY DEF IInv, OverlapBounded, InFlight, LoadPage
<1>4. QED BY <1>1, <1>2, <1>3 DEF IInv

LEMMA SavePageStep ==
    ASSUME IInv, NEW p \in Pages, NEW b \in BOOLEAN, NEW e \in SUBSET Entities, SavePage(p, b, e)
    PROVE  IInv'
<1> DEFINE s == [enabled |-> b, status |-> page[p], entities |-> e,
                 next |-> IF b THEN "later" ELSE "none"]
<1>1. /\ edits < MaxEdits /\ edits' = edits + 1 /\ SaveSettings(s)
      /\ UNCHANGED <<logs, logDisk, run, page, crashes>>
  BY DEF SavePage
<1>2. s \in Settings /\ (s.enabled => s.next # "none")
  BY DEF IInv, TypeOK, Settings
<1> HIDE DEF s
<1>3. settings' = s /\ disk' \in Settings /\ stale' \in BOOLEAN /\ FilesFollow'
  BY <1>1, <1>2, SaveFollows DEF IInv
<1>4. edits' \in 0..MaxEdits
  BY <1>1, MigrationScheduleAssumption DEF IInv, TypeOK
<1>5. TypeOK'
  BY <1>1, <1>2, <1>3, <1>4 DEF IInv, TypeOK
<1>6. FilesFollow' /\ EnabledHasNext'
  BY <1>2, <1>3 DEF EnabledHasNext
<1>7. OverlapBounded'
  <2>1. InFlight' = InFlight
    BY <1>1 DEF InFlight
  <2>2. Cardinality(InFlight) <= edits + 1
    BY InFlightFinite DEF IInv, TypeOK, OverlapBounded
  <2>3. QED BY <1>1, <2>1, <2>2, InFlightFinite DEF IInv, TypeOK, OverlapBounded
<1>8. QED BY <1>5, <1>6, <1>7 DEF IInv

-----------------------------------------------------------------------------
\* A start needs a status other than RUNNING, and makes it RUNNING.
LEMMA TriggerStep == ASSUME IInv, NEW r \in Runs, TriggerMigration(r) PROVE IInv'
<1> DEFINE s == [settings EXCEPT !.status = "RUNNING"]
           t == Ended(s)
           n == [pc |-> FirstAwait, listed |-> s.entities, synced |-> {}, since |-> edits]
<1>1. TypeOK /\ settings \in Settings /\ run \in [Runs -> RunStates] /\ edits \in Nat
  BY DEF IInv, TypeOK
<1>2. settings.status # "RUNNING" /\ run[r].pc = "idle" /\ UNCHANGED <<page, edits, crashes>>
  BY DEF TriggerMigration, Begin
<1>3. /\ s \in Settings /\ s.status = "RUNNING"
      /\ s.enabled = settings.enabled /\ s.next = settings.next
  BY <1>1 DEF Settings, Statuses
<1>4. t \in Settings /\ t.next = "later" /\ t.status = "IDLE" /\ s.entities \in SUBSET Entities
  BY <1>1 DEF Settings, Statuses, Ended
<1>5. CASE FirstAwait = "idle"
  <2>1. SaveSettings(t) /\ AddLog("SUCCESS", s.entities, {}, FALSE) /\ UNCHANGED run
    BY <1>5 DEF TriggerMigration, Begin
  <2> HIDE DEF t, s
  <2>2. /\ logs' \in Seq(LogEntries) /\ Len(logs') <= KeptLogs
        /\ logDisk' \in Seq(LogEntries) /\ Len(logDisk') <= KeptLogs
    BY <1>1, <1>4, <2>1, AddLogTyped
  <2>7. settings' = t /\ disk' \in Settings /\ stale' \in BOOLEAN /\ FilesFollow'
    BY <1>4, <2>1, SaveFollows DEF IInv
  <2>3. TypeOK'
    BY <1>1, <1>2, <1>4, <2>1, <2>2, <2>7 DEF TypeOK
  <2>4. FilesFollow' /\ EnabledHasNext'
    BY <1>4, <2>7 DEF EnabledHasNext
  <2>5. OverlapBounded'
    BY <1>1, <1>2, <1>4, <2>1, <2>7 DEF IInv, OverlapBounded, InFlight
  <2>6. QED BY <2>3, <2>4, <2>5 DEF IInv
<1>6. CASE FirstAwait # "idle"
  <2>1. SaveSettings(s) /\ run' = [run EXCEPT ![r] = n] /\ UNCHANGED <<logs, logDisk>>
    BY <1>6 DEF TriggerMigration, Begin
  <2>2. n \in RunStates /\ n.pc # "idle"
    <3>1. edits \in 0..MaxEdits
      BY <1>1 DEF TypeOK
    <3>2. FirstAwait \in {"stock", "designs"}
      BY <1>6 DEF FirstAwait
    <3>3. s.entities \in SUBSET Entities /\ {} \in SUBSET Entities
      BY <1>4
    <3> HIDE DEF s
    <3>4. QED BY <3>1, <3>2, <3>3 DEF RunStates
  <2> HIDE DEF s, n, t
  <2>7. settings' = s /\ disk' \in Settings /\ stale' \in BOOLEAN /\ FilesFollow'
    BY <1>3, <2>1, SaveFollows DEF IInv, EnabledHasNext
  <2>3. TypeOK'
    BY <1>1, <1>2, <1>3, <2>1, <2>2, <2>7 DEF TypeOK
  <2>4. FilesFollow' /\ EnabledHasNext'
    BY <1>3, <2>7 DEF IInv, EnabledHasNext
  <2>5. OverlapBounded'
    <3>1. Cardinality(InFlight') = Cardinality(InFlight) + 1
      BY <1>1, <1>2, <2>1, <2>2, RunBegins
    <3>2. Cardinality(InFlight) <= edits
      BY <1>1, <1>2, InFlightFinite DEF IInv, OverlapBounded
    <3>3. QED BY <1>1, <1>2, <1>3, <2>7, <3>1, <3>2, InFlightFinite DEF OverlapBounded
  <2>6. QED BY <2>3, <2>4, <2>5 DEF IInv
<1>7. QED BY <1>5, <1>6

\* The clock only makes the next run due.
LEMMA TimePassesStep == ASSUME IInv, TimePasses PROVE IInv'
<1> DEFINE s == [settings EXCEPT !.next = "due"]
<1>1. /\ settings' = s /\ IF stale THEN disk' \in Aged(disk) ELSE disk' = s
      /\ UNCHANGED <<logs, logDisk, run, page, stale, edits, crashes>>
  BY DEF TimePasses
<1>2. s \in Settings /\ s.next = "due" /\ s.status = settings.status
  BY DEF IInv, TypeOK, Settings
<1> HIDE DEF s
<1>5. disk' \in Settings /\ (disk'.enabled => disk'.next # "none")
  <2>1. CASE stale
    BY <1>1, <2>1, AgedTyped DEF IInv, TypeOK, FilesFollow
  <2>2. CASE ~stale
    BY <1>1, <1>2, <2>2
  <2>3. QED BY <2>1, <2>2
<1>3. TypeOK' /\ FilesFollow' /\ EnabledHasNext'
  BY <1>1, <1>2, <1>5 DEF IInv, TypeOK, FilesFollow, EnabledHasNext
<1>4. OverlapBounded'
  BY <1>1, <1>2 DEF IInv, OverlapBounded, InFlight
<1>6. QED BY <1>3, <1>4 DEF IInv

\* An end takes the status away from RUNNING and one run out of flight.
LEMMA EndRunStep ==
    ASSUME IInv, NEW r \in Runs, run[r].pc # "idle", NEW status \in {"SUCCESS", "FAILED"},
           NEW synced \in SUBSET Entities, EndRun(r, status, synced)
    PROVE  IInv'
<1> DEFINE s == Ended(settings)
<1>1. /\ SaveSettings(s) /\ AddLog(status, run[r].listed, synced, run[r].since # edits)
      /\ run' = [run EXCEPT ![r] = NoRun] /\ UNCHANGED <<page, edits, crashes>>
  BY DEF EndRun
<1>2. s \in Settings /\ s.next = "later" /\ s.status # "RUNNING"
  BY DEF IInv, TypeOK, Settings, Statuses, Ended
<1>3. run[r].listed \in SUBSET Entities /\ NoRun \in RunStates
  BY NoRunTyped DEF IInv, TypeOK, RunStates
<1> HIDE DEF s
<1>4. /\ logs' \in Seq(LogEntries) /\ Len(logs') <= KeptLogs
      /\ logDisk' \in Seq(LogEntries) /\ Len(logDisk') <= KeptLogs
  BY <1>1, <1>3, AddLogTyped DEF IInv
<1>8. settings' = s /\ disk' \in Settings /\ stale' \in BOOLEAN /\ FilesFollow'
  BY <1>1, <1>2, SaveFollows DEF IInv
<1>5. TypeOK' /\ FilesFollow' /\ EnabledHasNext'
  BY <1>1, <1>2, <1>3, <1>4, <1>8 DEF IInv, TypeOK, EnabledHasNext
<1>6. OverlapBounded'
  <2>1. Cardinality(InFlight') = Cardinality(InFlight) - 1
    BY <1>1, RunEnds DEF IInv
  <2>2. Cardinality(InFlight) <= edits + 1 /\ edits \in Nat
    BY InFlightFinite DEF IInv, TypeOK, OverlapBounded
  <2>3. QED BY <1>1, <1>2, <1>8, <2>1, <2>2, InFlightFinite DEF OverlapBounded
<1>7. QED BY <1>5, <1>6 DEF IInv

\* A run goes on from stock to designs, or ends.
LEMMA RunStepStep == ASSUME IInv, NEW r \in Runs, RunStep(r) PROVE IInv'
<1>1. run[r] \in RunStates
  BY DEF IInv, TypeOK
<1>2. ASSUME StockDone(r) PROVE IInv'
  <2>1. run[r].pc = "stock" /\ {"stock"} \in SUBSET Entities
    BY <1>2 DEF StockDone, Entities
  <2>2. CASE "designs" \notin settings.entities
    BY <1>2, <2>1, <2>2, EndRunStep DEF StockDone
  <2>3. CASE "designs" \in settings.entities
    <3>1. /\ run' = [run EXCEPT ![r].pc = "designs", ![r].synced = {"stock"}]
          /\ UNCHANGED <<settings, disk, logs, logDisk, page, stale, edits, crashes>>
      BY <1>2, <2>3 DEF StockDone
    <3>2. run' \in [Runs -> RunStates] /\ InFlight' = InFlight
      BY <2>1, <3>1 DEF IInv, TypeOK, RunStates, InFlight
    <3>3. QED BY <3>1, <3>2 DEF IInv, TypeOK, FilesFollow, EnabledHasNext, OverlapBounded
  <2>4. QED BY <2>2, <2>3
<1>3. ASSUME DesignsDone(r) PROVE IInv'
  <2>1. run[r].pc = "designs" /\ run[r].synced \cup {"designs"} \in SUBSET Entities
    BY <1>1, <1>3 DEF DesignsDone, RunStates, Entities
  <2>2. QED BY <1>3, <2>1, EndRunStep DEF DesignsDone
<1>4. ASSUME RunFails(r) PROVE IInv'
  <2>1. run[r].pc # "idle" /\ run[r].synced \in SUBSET Entities
    BY <1>1, <1>4 DEF RunFails, RunStates
  <2>2. QED BY <1>4, <2>1, EndRunStep DEF RunFails
<1>5. QED BY <1>2, <1>3, <1>4 DEF RunStep

LEMMA ClearLogsStep == ASSUME IInv, ClearLogs PROVE IInv'
<1>1. <<>> \in Seq(LogEntries) /\ Len(<<>>) <= KeptLogs
  BY MigrationScheduleAssumption
<1>2. TypeOK' /\ FilesFollow' /\ EnabledHasNext'
  BY <1>1 DEF IInv, TypeOK, FilesFollow, EnabledHasNext, ClearLogs, SaveLogs
<1>3. OverlapBounded'
  BY DEF IInv, OverlapBounded, InFlight, ClearLogs
<1>4. QED BY <1>2, <1>3 DEF IInv

\* A restart loads settings that have a next run if enabled, and drops all runs.
LEMMA ReloadStep ==
    ASSUME IInv, NEW s \in Settings, s.enabled => s.next # "none",
           NEW l \in Seq(LogEntries), Len(l) <= KeptLogs, Reload(s, l)
    PROVE  IInv'
<1>1. /\ crashes < MaxCrashes /\ crashes' = crashes + 1 /\ settings' = s /\ disk' = s
      /\ logs' = l /\ logDisk' = l /\ run' = [r \in Runs |-> NoRun] /\ stale' = FALSE
      /\ UNCHANGED <<page, edits>>
  BY DEF Reload
<1>2. Cardinality(InFlight') = 0 /\ run' \in [Runs -> RunStates]
  <2>1. InFlight' = {} /\ run' \in [Runs -> RunStates]
    BY <1>1, NoRunTyped DEF InFlight, NoRun
  <2>2. QED BY <2>1, FS_EmptySet
<1>3. crashes' \in 0..MaxCrashes
  BY <1>1, MigrationScheduleAssumption DEF IInv, TypeOK
<1>4. TypeOK' /\ FilesFollow' /\ EnabledHasNext'
  BY <1>1, <1>2, <1>3 DEF IInv, TypeOK, FilesFollow, EnabledHasNext
<1>5. OverlapBounded'
  BY <1>1, <1>2 DEF IInv, TypeOK, OverlapBounded
<1>6. QED BY <1>4, <1>5 DEF IInv

LEMMA RestartStep ==
    ASSUME IInv, \/ Restart \/ RestartTorn \/ \E r \in Runs : RestartUnlogged(r)
    PROVE  IInv'
<1>1. /\ disk \in Settings /\ (disk.enabled => disk.next # "none")
      /\ logDisk \in Seq(LogEntries) /\ Len(logDisk) <= KeptLogs
  BY DEF IInv, TypeOK, FilesFollow
<1>2. <<>> \in Seq(LogEntries) /\ Len(<<>>) <= KeptLogs
  BY MigrationScheduleAssumption
<1>3. Defaults \in Settings /\ ~Defaults.enabled
  BY DEF Defaults, Settings, Statuses, Entities
<1>4. Ended(settings) \in Settings /\ Ended(settings).next # "none"
  BY DEF IInv, TypeOK, Settings, Statuses, Ended
<1>5. ASSUME NEW s \in Aged(disk), NEW l \in {logDisk, <<>>}, Reload(s, l) PROVE IInv'
  <2>1. s \in Settings /\ (s.enabled => s.next # "none")
    BY <1>1, AgedTyped
  <2>2. l \in Seq(LogEntries) /\ Len(l) <= KeptLogs
    BY <1>1, <1>2
  <2>3. QED BY <1>5, <2>1, <2>2, ReloadStep
<1>9. CASE Restart
  BY <1>5, <1>9 DEF Restart
<1>6. CASE RestartTorn
  <2>1. CASE Reload(Defaults, logDisk)
    BY <1>1, <1>3, <2>1, ReloadStep
  <2>2. QED BY <1>5, <1>6, <2>1 DEF RestartTorn
<1>7. CASE \E r \in Runs : RestartUnlogged(r)
  <2>1. PICK s \in Aged(Ended(settings)), l \in {logDisk, <<>>} : Reload(s, l)
    BY <1>7 DEF RestartUnlogged
  <2>2. l \in Seq(LogEntries) /\ Len(l) <= KeptLogs
    BY <1>1, <1>2
  <2>3. s \in Settings /\ (s.enabled => s.next # "none")
    BY <1>4, AgedTyped
  <2>4. QED BY <2>1, <2>2, <2>3, ReloadStep
<1>8. QED BY <1>6, <1>7, <1>9

-----------------------------------------------------------------------------
LEMMA NextIInv == IInv /\ [Next]_vars => IInv'
<1> SUFFICES ASSUME IInv, [Next]_vars PROVE IInv'
  OBVIOUS
<1>1. ASSUME NEW p \in Pages, LoadPage(p) PROVE IInv'
  BY <1>1, LoadPageStep
<1>2. ASSUME NEW p \in Pages, NEW b \in BOOLEAN, NEW e \in SUBSET Entities, SavePage(p, b, e)
      PROVE  IInv'
  BY <1>2, SavePageStep
<1>3. ASSUME NEW r \in Runs, TriggerMigration(r) PROVE IInv'
  BY <1>3, TriggerStep
<1>4. ASSUME NEW r \in Runs, Tick(r) PROVE IInv'
  BY <1>4, TriggerStep DEF Tick
<1>5. ASSUME NEW r \in Runs, RunStep(r) PROVE IInv'
  BY <1>5, RunStepStep
<1>6. CASE TimePasses
  BY <1>6, TimePassesStep
<1>7. CASE ClearLogs
  BY <1>7, ClearLogsStep
<1>8. CASE Restart \/ RestartTorn \/ \E r \in Runs : RestartUnlogged(r)
  BY <1>8, RestartStep
<1>9. CASE UNCHANGED vars
  BY <1>9 DEF IInv, TypeOK, FilesFollow, EnabledHasNext, OverlapBounded, InFlight, vars
<1>10. QED BY <1>1, <1>2, <1>3, <1>4, <1>5, <1>6, <1>7, <1>8, <1>9 DEF Next

\* The strengthened invariant of the scheduler holds in every state.
THEOREM InvariantHolds == Spec => []IInv
BY InitIInv, NextIInv, PTL DEF Spec

\* triggerMigration's status check admits one run; only a settings page that
\* writes back an old status admits another.
THEOREM OverlapHolds == Spec => []OverlapBounded
<1>1. IInv => OverlapBounded
  BY DEF IInv
<1>2. QED BY <1>1, InvariantHolds, PTL

\* Steps other than starts, saves and restarts leave no RUNNING behind with nothing
\* in flight: an end takes the status away with the run.
LEMMA EndNotWedged ==
    ASSUME IInv, NEW r \in Runs, NEW status, NEW synced, EndRun(r, status, synced)
    PROVE  ~Wedged'
<1>1. SaveSettings(Ended(settings))
  BY DEF EndRun
<1>2. Ended(settings).status # "RUNNING"
  BY DEF IInv, TypeOK, Settings, Ended
<1>3. QED BY <1>1, <1>2 DEF SaveSettings, Wedged

\* A start has something in flight, or has ended.
LEMMA TriggerNotWedged ==
    ASSUME IInv, NEW r \in Runs, TriggerMigration(r)
    PROVE  ~Wedged'
<1> DEFINE s == [settings EXCEPT !.status = "RUNNING"]
           n == [pc |-> FirstAwait, listed |-> s.entities, synced |-> {}, since |-> edits]
<1>1. s \in Settings
  BY DEF IInv, TypeOK, Settings, Statuses
<1>2. CASE FirstAwait = "idle"
  <2>1. SaveSettings(Ended(s))
    BY <1>2 DEF TriggerMigration, Begin
  <2> HIDE DEF s
  <2>2. Ended(s).status # "RUNNING"
    BY <1>1 DEF Settings, Ended
  <2>3. QED BY <2>1, <2>2 DEF SaveSettings, Wedged
<1>3. CASE FirstAwait # "idle"
  <2>1. run' = [run EXCEPT ![r] = n] /\ n.pc # "idle"
    BY <1>3 DEF TriggerMigration, Begin
  <2> HIDE DEF n
  <2>2. r \in InFlight'
    BY <2>1 DEF IInv, TypeOK, InFlight
  <2>3. QED BY <2>2 DEF Wedged
<1>4. QED BY <1>2, <1>3

\* A restart wedges the schedule only with a RUNNING of the file.
LEMMA ReloadWedges ==
    ASSUME IInv, ~Wedged, Wedged', NEW s, NEW l, Reload(s, l), s.status \in {disk.status, "IDLE"}
    PROVE  crashes' > crashes /\ disk.status = "RUNNING" /\ (InFlight # {} \/ stale)
<1>1. crashes' = crashes + 1 /\ settings' = s /\ crashes \in Nat
  BY DEF Reload, IInv, TypeOK
<1>2. s.status = "RUNNING"
  BY <1>1 DEF Wedged
<1>3. InFlight # {} \/ stale
  BY <1>2 DEF Wedged, IInv, FilesFollow
<1>4. QED BY <1>1, <1>2, <1>3

\* The schedule is wedged only by a page that writes back a RUNNING it loaded, and by
\* a restart that loads the RUNNING of a run in flight or of a file last written
\* with an error.
THEOREM WedgedHolds == Spec => WedgedOnlyBySavesAndRestarts
<1> DEFINE Cause == \/ edits' > edits /\ \E p \in Pages : page[p] = "RUNNING"
                    \/ crashes' > crashes /\ disk.status = "RUNNING" /\ (InFlight # {} \/ stale)
<1>1. IInv /\ [Next]_vars => [~Wedged /\ Wedged' => Cause]_vars
  <2> SUFFICES ASSUME IInv, Next, ~Wedged, Wedged' PROVE Cause
    OBVIOUS
  <2>0. disk \in Settings /\ settings \in Settings /\ (disk.enabled => disk.next # "none")
    BY DEF IInv, TypeOK, FilesFollow
  <2>1. ASSUME NEW p \in Pages, LoadPage(p) PROVE Cause
    BY <2>1 DEF LoadPage, Wedged, InFlight
  <2>2. ASSUME NEW p \in Pages, NEW b \in BOOLEAN, NEW e \in SUBSET Entities, SavePage(p, b, e)
        PROVE  Cause
    <3>1. edits' = edits + 1 /\ edits \in Nat /\ settings'.status = page[p]
      BY <2>2 DEF SavePage, SaveSettings, IInv, TypeOK
    <3>2. QED BY <3>1 DEF Wedged
  <2>3. ASSUME NEW r \in Runs, TriggerMigration(r) \/ Tick(r) PROVE Cause
    BY <2>3, TriggerNotWedged DEF Tick
  <2>4. ASSUME NEW r \in Runs, RunStep(r) PROVE Cause
    <3>1. CASE StockDone(r) /\ "designs" \in settings.entities
      <4>1. run[r].pc = "stock" /\ run' = [run EXCEPT ![r].pc = "designs", ![r].synced = {"stock"}]
        BY <3>1 DEF StockDone
      <4>2. r \in InFlight'
        BY <4>1 DEF IInv, TypeOK, RunStates, InFlight
      <4>3. QED BY <4>2 DEF Wedged
    <3>2. CASE \E status, synced : EndRun(r, status, synced)
      BY <3>2, EndNotWedged
    <3>3. QED BY <2>4, <3>1, <3>2 DEF RunStep, StockDone, DesignsDone, RunFails
  <2>5. CASE TimePasses
    <3>1. settings'.status = settings.status /\ UNCHANGED run
      BY <2>0, <2>5 DEF TimePasses, Settings
    <3>2. QED BY <3>1 DEF Wedged, InFlight
  <2>6. CASE ClearLogs
    BY <2>6 DEF ClearLogs, Wedged, InFlight
  <2>7. ASSUME NEW s \in Aged(disk), NEW l, Reload(s, l) PROVE Cause
    <3>1. s.status = disk.status
      BY <2>0, AgedTyped
    <3>2. QED BY <2>7, <3>1, ReloadWedges
  <2>8. CASE Reload(Defaults, logDisk)
    <3>1. Defaults.status = "IDLE"
      BY DEF Defaults
    <3>2. QED BY <2>8, <3>1, ReloadWedges
  <2>9. ASSUME NEW r \in Runs, RestartUnlogged(r) PROVE Cause
    <3>1. Ended(settings) \in Settings /\ Ended(settings).next # "none" /\ Ended(settings).status = "IDLE"
      BY <2>0 DEF Settings, Statuses, Ended
    <3>2. PICK s \in Aged(Ended(settings)), l \in {logDisk, <<>>} : Reload(s, l)
      BY <2>9 DEF RestartUnlogged
    <3>3. s.status = "IDLE"
      BY <3>1, AgedTyped
    <3>4. QED BY <3>2, <3>3, ReloadWedges
  <2>10. QED BY <2>1, <2>2, <2>3, <2>4, <2>5, <2>6, <2>7, <2>8, <2>9 DEF Next, Restart, RestartTorn
<1>2. QED BY <1>1, InvariantHolds, PTL DEF Spec, WedgedOnlyBySavesAndRestarts

\* checkAndRunScheduled never finds an enabled schedule without a next run.
THEOREM NextHolds == Spec => []EnabledHasNext
<1>1. IInv => EnabledHasNext
  BY DEF IInv
<1>2. QED BY <1>1, InvariantHolds, PTL

\* Type correctness of the scheduler.
THEOREM TypesHold == Spec => []TypeOK
<1>1. IInv => TypeOK
  BY DEF IInv
<1>2. QED BY <1>1, InvariantHolds, PTL

-----------------------------------------------------------------------------
\* What a run in flight is going to log: it asks for the stock if it lists it, and
\* as long as no page is saved the settings are what it lists.
RunsTell ==
    \A r \in Runs : run[r].pc # "idle" =>
        /\ run[r].since <= edits
        /\ run[r].since = edits => settings.entities = run[r].listed
        /\ run[r].pc = "stock" => "stock" \in run[r].listed /\ run[r].synced = {}
        /\ run[r].pc = "designs" =>
              /\ run[r].synced = run[r].listed \cap {"stock"}
              /\ run[r].since = edits => "designs" \in run[r].listed

\* One entry of the log.
Tells(e) ==
    LET told == IF e.edited THEN {"stock"} ELSE {"stock", "designs"} IN
    e.status = "SUCCESS" => e.synced \cap told = e.listed \cap told

\* The log, and what its file holds.
LogsTell ==
    /\ \A i \in 1..Len(logs) : Tells(logs[i])
    /\ \A i \in 1..Len(logDisk) : Tells(logDisk[i])

TInv == RunsTell /\ LogsTell

\* An entry that tells keeps the log telling, also where it is cut.
LEMMA AddLogTells ==
    ASSUME IInv, LogsTell, NEW status \in {"SUCCESS", "FAILED"},
           NEW listed \in SUBSET Entities, NEW synced \in SUBSET Entities, NEW edited \in BOOLEAN,
           AddLog(status, listed, synced, edited),
           Tells([status |-> status, listed |-> listed, synced |-> synced, edited |-> edited])
    PROVE  LogsTell'
<1> DEFINE e == [status |-> status, listed |-> listed, synced |-> synced, edited |-> edited]
           l == <<e>> \o logs
           n == IF Len(l) < KeptLogs THEN Len(l) ELSE KeptLogs
<1>1. e \in LogEntries /\ Tells(e)
  BY DEF LogEntries
<1>2. logs' = SubSeq(l, 1, n) /\ logDisk' \in {logs', logDisk, <<>>}
  BY DEF AddLog, SaveLogs, Logged, Trimmed
<1>3. \A i \in 1..Len(logs) : Tells(logs[i])
  BY DEF LogsTell
<1> HIDE DEF e
<1>4. logs \in Seq(LogEntries) /\ <<e>> \in Seq(LogEntries) /\ Len(<<e>>) = 1 /\ <<e>>[1] = e
  BY <1>1 DEF IInv, TypeOK
<1>5. l \in Seq(LogEntries) /\ Len(l) = Len(logs) + 1
  BY <1>4, ConcatProperties
<1>6. \A i \in 1..Len(l) : Tells(l[i])
  <2> TAKE i \in 1..Len(l)
  <2>1. CASE i = 1
    BY <1>1, <1>4, <2>1, ConcatProperties
  <2>2. CASE i # 1
    <3>1. i - 1 \in 1..Len(logs) /\ l[i] = logs[i - 1]
      BY <1>4, <1>5, <2>2, ConcatProperties, LenProperties
    <3>2. QED BY <1>3, <3>1
  <2>3. QED BY <2>1, <2>2
<1> HIDE DEF l
<1>7. n \in Nat /\ n <= Len(l)
  BY <1>5, LenProperties, MigrationScheduleAssumption
<1>8. \A i \in 1..n : l[i] \in LogEntries
  BY <1>5, <1>7, ElementOfSeq, LenProperties
<1> HIDE DEF n
<1>9. Len(SubSeq(l, 1, n)) = n /\ \A i \in 1..n : SubSeq(l, 1, n)[i] = l[i]
  <2>1. Len(SubSeq(l, 1, n)) = (IF 1 <= n THEN n - 1 + 1 ELSE 0)
        /\ \A i \in 1..(n - 1 + 1) : SubSeq(l, 1, n)[i] = l[1 + i - 1]
    BY <1>7, <1>8, SubSeqProperties
  <2>2. QED BY <1>7, <2>1
<1>10. \A i \in 1..Len(logs') : Tells(logs'[i])
  BY <1>2, <1>5, <1>6, <1>7, <1>9, LenProperties
<1>11. Len(<<>>) = 0
  OBVIOUS
<1>12. \A i \in 1..Len(logDisk) : Tells(logDisk[i])
  BY DEF LogsTell
<1>13. \A i \in 1..Len(logDisk') : Tells(logDisk'[i])
  <2>1. CASE logDisk' = logs'
    BY <1>10, <2>1
  <2>2. CASE logDisk' = logDisk
    BY <1>12, <2>2
  <2>3. CASE logDisk' = <<>>
    BY <1>11, <2>3
  <2>4. QED BY <1>2, <2>1, <2>2, <2>3
<1>14. QED BY <1>10, <1>13 DEF LogsTell, Tells

LEMMA InitTInv == Init => TInv
<1> SUFFICES ASSUME Init PROVE TInv
  OBVIOUS
<1>1. Len(<<>>) = 0
  OBVIOUS
<1>2. QED BY <1>1 DEF Init, NoRun, TInv, RunsTell, LogsTell

\* An end logs what the run has asked for.
LEMMA EndRunTells ==
    ASSUME IInv, TInv, NEW r \in Runs, run[r].pc # "idle", NEW status \in {"SUCCESS", "FAILED"},
           NEW synced \in SUBSET Entities, EndRun(r, status, synced),
           Tells([status |-> status, listed |-> run[r].listed, synced |-> synced,
                  edited |-> run[r].since # edits])
    PROVE  TInv'
<1>1. /\ settings' = Ended(settings) /\ UNCHANGED edits
      /\ run' = [run EXCEPT ![r] = NoRun]
      /\ AddLog(status, run[r].listed, synced, run[r].since # edits)
  BY DEF EndRun, SaveSettings
<1>2. run \in [Runs -> RunStates] /\ settings \in Settings /\ run[r].listed \in SUBSET Entities
  BY DEF IInv, TypeOK, RunStates
<1>3. settings'.entities = settings.entities
  BY <1>1, <1>2 DEF Ended, Settings
<1>4. RunsTell'
  <2> SUFFICES ASSUME NEW q \in Runs, run'[q].pc # "idle"
               PROVE  run'[q] = run[q] /\ run[q].pc # "idle"
    BY <1>1, <1>3 DEF TInv, RunsTell
  <2>1. QED BY <1>1, <1>2 DEF NoRun
<1>5. LogsTell'
  BY <1>1, <1>2, AddLogTells DEF TInv
<1>6. QED BY <1>4, <1>5 DEF TInv

LEMMA RunStepTells == ASSUME IInv, TInv, NEW r \in Runs, RunStep(r) PROVE TInv'
<1> DEFINE entry(status, synced) == [status |-> status, listed |-> run[r].listed,
                                     synced |-> synced, edited |-> run[r].since # edits]
<1>1. /\ run \in [Runs -> RunStates] /\ run[r] \in RunStates /\ settings \in Settings
      /\ run[r].listed \in SUBSET Entities /\ run[r].synced \in SUBSET Entities
  BY DEF IInv, TypeOK, RunStates
<1>2. CASE StockDone(r) /\ "designs" \notin settings.entities
  <2>1. run[r].pc = "stock" /\ EndRun(r, "SUCCESS", {"stock"})
    BY <1>2 DEF StockDone
  <2>2. "stock" \in run[r].listed /\ (run[r].since = edits => "designs" \notin run[r].listed)
    BY <1>2, <2>1 DEF TInv, RunsTell
  <2>3. Tells(entry("SUCCESS", {"stock"}))
    BY <2>2 DEF Tells
  <2>4. {"stock"} \in SUBSET Entities
    BY DEF Entities
  <2>5. QED BY <2>1, <2>3, <2>4, EndRunTells
<1>3. CASE StockDone(r) /\ "designs" \in settings.entities
  <2>1. /\ run' = [run EXCEPT ![r].pc = "designs", ![r].synced = {"stock"}]
        /\ run[r].pc = "stock" /\ UNCHANGED <<settings, logs, logDisk, edits>>
    BY <1>3 DEF StockDone
  <2>2. "stock" \in run[r].listed /\ (run[r].since = edits => "designs" \in run[r].listed)
    BY <1>3, <2>1 DEF TInv, RunsTell
  <2>3. RunsTell'
    <3> SUFFICES ASSUME NEW q \in Runs, run'[q].pc # "idle"
                 PROVE  /\ run'[q].since <= edits
                        /\ run'[q].since = edits => settings.entities = run'[q].listed
                        /\ run'[q].pc = "stock" =>
                              "stock" \in run'[q].listed /\ run'[q].synced = {}
                        /\ run'[q].pc = "designs" =>
                              /\ run'[q].synced = run'[q].listed \cap {"stock"}
                              /\ run'[q].since = edits => "designs" \in run'[q].listed
      BY <2>1 DEF RunsTell
    <3>1. CASE q # r
      BY <1>1, <2>1, <3>1 DEF TInv, RunsTell
    <3>2. CASE q = r
      <4>1. /\ run'[r].since = run[r].since /\ run'[r].listed = run[r].listed
            /\ run'[r].pc = "designs" /\ run'[r].synced = {"stock"}
        BY <1>1, <2>1 DEF RunStates
      <4>2. run[r].since <= edits /\ (run[r].since = edits => settings.entities = run[r].listed)
        BY <2>1 DEF TInv, RunsTell
      <4>3. QED BY <2>2, <3>2, <4>1, <4>2
    <3>3. QED BY <3>1, <3>2
  <2>4. LogsTell'
    BY <2>1 DEF TInv, LogsTell
  <2>5. QED BY <2>3, <2>4 DEF TInv
<1>4. CASE DesignsDone(r)
  <2>1. run[r].pc = "designs" /\ EndRun(r, "SUCCESS", run[r].synced \cup {"designs"})
    BY <1>4 DEF DesignsDone
  <2>2. /\ run[r].synced = run[r].listed \cap {"stock"}
        /\ run[r].since = edits => "designs" \in run[r].listed
    BY <2>1 DEF TInv, RunsTell
  <2>3. Tells(entry("SUCCESS", run[r].synced \cup {"designs"}))
    BY <2>2 DEF Tells
  <2>4. run[r].synced \cup {"designs"} \in SUBSET Entities
    BY <1>1 DEF Entities
  <2>5. QED BY <2>1, <2>3, <2>4, EndRunTells
<1>5. CASE RunFails(r)
  <2>1. run[r].pc # "idle" /\ EndRun(r, "FAILED", run[r].synced)
    BY <1>5 DEF RunFails
  <2>2. Tells(entry("FAILED", run[r].synced))
    BY DEF Tells
  <2>3. QED BY <1>1, <2>1, <2>2, EndRunTells
<1>6. QED BY <1>2, <1>3, <1>4, <1>5 DEF RunStep

LEMMA TriggerTells == ASSUME IInv, TInv, NEW r \in Runs, TriggerMigration(r) PROVE TInv'
<1> DEFINE s == [settings EXCEPT !.status = "RUNNING"]
           n == [pc |-> FirstAwait, listed |-> s.entities, synced |-> {}, since |-> edits]
<1>1. /\ run \in [Runs -> RunStates] /\ settings \in Settings /\ edits \in Nat
      /\ UNCHANGED edits /\ run[r].pc = "idle"
  BY DEF IInv, TypeOK, TriggerMigration, Begin
<1>2. s.entities = settings.entities /\ s \in Settings /\ s.entities \in SUBSET Entities
  BY <1>1 DEF Settings, Statuses
<1>3. CASE FirstAwait = "idle"
  <2>1. /\ settings' = Ended(s) /\ UNCHANGED run
        /\ AddLog("SUCCESS", s.entities, {}, FALSE)
    BY <1>3 DEF TriggerMigration, Begin, SaveSettings
  <2>2. settings'.entities = settings.entities
    BY <1>2, <2>1 DEF Ended, Settings
  <2>3. "stock" \notin s.entities /\ "designs" \notin s.entities
    BY <1>2, <1>3 DEF FirstAwait
  <2> HIDE DEF s
  <2>4. Tells([status |-> "SUCCESS", listed |-> s.entities, synced |-> {}, edited |-> FALSE])
    BY <2>3 DEF Tells
  <2>5. RunsTell'
    BY <1>1, <2>1, <2>2 DEF TInv, RunsTell
  <2>6. LogsTell'
    BY <1>2, <2>1, <2>4, AddLogTells DEF TInv
  <2>7. QED BY <2>5, <2>6 DEF TInv
<1>4. CASE FirstAwait # "idle"
  <2>1. settings' = s /\ run' = [run EXCEPT ![r] = n] /\ UNCHANGED <<logs, logDisk>>
    BY <1>4 DEF TriggerMigration, Begin, SaveSettings
  <2>2. /\ n.since = edits /\ n.listed = settings.entities /\ n.synced = {}
        /\ n.pc = "stock" => "stock" \in n.listed
        /\ n.pc = "designs" => "stock" \notin n.listed /\ "designs" \in n.listed
    BY <1>2 DEF FirstAwait
  <2> HIDE DEF s, n
  <2>3. RunsTell'
    <3> SUFFICES ASSUME NEW q \in Runs, run'[q].pc # "idle"
                 PROVE  /\ run'[q].since <= edits
                        /\ run'[q].since = edits => settings.entities = run'[q].listed
                        /\ run'[q].pc = "stock" =>
                              "stock" \in run'[q].listed /\ run'[q].synced = {}
                        /\ run'[q].pc = "designs" =>
                              /\ run'[q].synced = run'[q].listed \cap {"stock"}
                              /\ run'[q].since = edits => "designs" \in run'[q].listed
      BY <1>1, <1>2, <2>1 DEF RunsTell
    <3>1. CASE q # r
      BY <1>1, <2>1, <3>1 DEF TInv, RunsTell
    <3>2. CASE q = r
      <4>1. run'[q] = n
        BY <1>1, <2>1, <3>2
      <4>2. QED BY <1>1, <2>2, <4>1
    <3>3. QED BY <3>1, <3>2
  <2>4. LogsTell'
    BY <2>1 DEF TInv, LogsTell
  <2>5. QED BY <2>3, <2>4 DEF TInv
<1>5. QED BY <1>3, <1>4

\* The settings change otherwise only with a save, which counts, or a restart, which
\* ends all runs.
LEMMA OthersTell ==
    ASSUME IInv, TInv,
           \/ \E p \in Pages : LoadPage(p) \/ \E b \in BOOLEAN, e \in SUBSET Entities : SavePage(p, b, e)
           \/ TimePasses \/ ClearLogs \/ Restart \/ RestartTorn
           \/ \E r \in Runs : RestartUnlogged(r)
           \/ UNCHANGED vars
    PROVE  TInv'
<1>1. run \in [Runs -> RunStates] /\ settings \in Settings /\ edits \in Nat
  BY DEF IInv, TypeOK
<1>2. ASSUME NEW p \in Pages, LoadPage(p) PROVE TInv'
  BY <1>2 DEF LoadPage, TInv, RunsTell, LogsTell
<1>3. ASSUME NEW p \in Pages, NEW b \in BOOLEAN, NEW e \in SUBSET Entities, SavePage(p, b, e)
      PROVE  TInv'
  <2>1. edits' = edits + 1 /\ UNCHANGED <<run, logs, logDisk>>
    BY <1>3 DEF SavePage
  <2>2. \A r \in Runs : run[r].since \in Nat
    BY <1>1, MigrationScheduleAssumption DEF RunStates
  <2>3. RunsTell'
    <3> SUFFICES ASSUME NEW q \in Runs, run'[q].pc # "idle"
                 PROVE  /\ run'[q].since <= edits' /\ run'[q].since # edits'
                        /\ run'[q].pc = "stock" =>
                              "stock" \in run'[q].listed /\ run'[q].synced = {}
                        /\ run'[q].pc = "designs" =>
                              run'[q].synced = run'[q].listed \cap {"stock"}
      BY DEF RunsTell
    <3>1. run[q].since <= edits
      BY <2>1 DEF TInv, RunsTell
    <3>2. run'[q].since <= edits' /\ run'[q].since # edits'
      BY <1>1, <2>1, <2>2, <3>1
    <3>3. QED BY <2>1, <3>2 DEF TInv, RunsTell
  <2>4. LogsTell'
    BY <2>1 DEF TInv, LogsTell
  <2>5. QED BY <2>3, <2>4 DEF TInv
<1>4. CASE TimePasses
  <2>1. settings'.entities = settings.entities /\ UNCHANGED <<run, logs, logDisk, edits>>
    BY <1>1, <1>4 DEF TimePasses, Settings
  <2>2. QED BY <2>1 DEF TInv, RunsTell, LogsTell
<1>5. CASE ClearLogs
  <2>1. /\ logs' = <<>> /\ logDisk' \in {logDisk, <<>>} /\ Len(<<>>) = 0
        /\ UNCHANGED <<settings, run, edits>>
    BY <1>5 DEF ClearLogs, SaveLogs
  <2>2. QED BY <2>1 DEF TInv, RunsTell, LogsTell
<1>6. ASSUME NEW s, NEW l \in {logDisk, <<>>}, Reload(s, l) PROVE TInv'
  <2>1. logs' = l /\ logDisk' = l /\ run' = [r \in Runs |-> NoRun] /\ Len(<<>>) = 0
    BY <1>6 DEF Reload
  <2>2. RunsTell'
    BY <2>1 DEF RunsTell, NoRun
  <2>3. LogsTell'
    BY <2>1 DEF TInv, LogsTell
  <2>4. QED BY <2>2, <2>3 DEF TInv
<1>7. CASE Restart \/ RestartTorn \/ \E r \in Runs : RestartUnlogged(r)
  BY <1>6, <1>7 DEF Restart, RestartTorn, RestartUnlogged
<1>8. CASE UNCHANGED vars
  BY <1>8 DEF vars, TInv, RunsTell, LogsTell
<1>9. QED BY <1>2, <1>3, <1>4, <1>5, <1>7, <1>8

LEMMA NextTInv == IInv /\ TInv /\ [Next]_vars => TInv'
<1> SUFFICES ASSUME IInv, TInv, [Next]_vars PROVE TInv'
  OBVIOUS
<1>1. ASSUME NEW r \in Runs, TriggerMigration(r) \/ Tick(r) PROVE TInv'
  BY <1>1, TriggerTells DEF Tick
<1>2. ASSUME NEW r \in Runs, RunStep(r) PROVE TInv'
  BY <1>2, RunStepTells
<1>3. QED BY <1>1, <1>2, OthersTell DEF Next

\* The log of triggerMigration's runs: a run that succeeds lists what it has asked
\* for, however runs, pages and restarts follow each other.
THEOREM LogHolds == Spec => []LogTellsRun
<1>1. TInv => LogTellsRun
  BY DEF TInv, LogsTell, LogTellsRun, Tells
<1>2. QED BY <1>1, InvariantHolds, InitTInv, NextTInv, PTL DEF Spec
=============================================================================
