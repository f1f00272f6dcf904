------------------------- MODULE MigrationSchedule -------------------------
(***************************************************************************)
(* The scheduled synchronisation with the legacy database: settings kept   *)
(* in memory and in a file, a tick that starts due runs, runs in the       *)
(* background, and the settings page, which posts back everything it       *)
(* loaded, the status of the last run included.                            *)
(*                                                                         *)
(* Node runs one handler at a time up to its next await, so a handler is   *)
(* one action; a background run is one action per await.  A restart drops  *)
(* the background runs and loads the files.  An error while a file is      *)
(* written is only logged: the file then lags behind memory, or is torn.   *)
(***************************************************************************)
EXTENDS Integers, Sequences, FiniteSets

CONSTANTS
    Runs,       \* slots for background runs
    Pages,      \* open settings pages
    KeptLogs,   \* log entries kept: 100
    MaxEdits,   \* bound: settings saved from pages
    MaxCrashes  \* bound: restarts of the server

ASSUME MigrationScheduleAssumption ==
    /\ IsFiniteSet(Runs)
    /\ KeptLogs \in Nat \ {0}
    /\ MaxEdits \in Nat
    /\ MaxCrashes \in Nat

VARIABLES
    settings,   \* this.settings
    disk,       \* what loading the settings file would give
    logs,       \* this.logs, newest first
    logDisk,    \* what loading the logs file would give
    run,        \* background runs
    page,       \* the status each settings page loaded
    stale,      \* history: the settings were last written with an error
    edits, crashes

vars == <<settings, disk, logs, logDisk, run, page, stale, edits, crashes>>

\* The other twelve modules, which a run lists and does not touch, are left out.
Entities == {"stock", "designs"}

\* SUCCESS and FAILED, treated as IDLE is, are IDLE here.
Statuses == {"IDLE", "RUNNING"}

\* next: nextRunAt is null, in the future, or past.
Settings == [enabled: BOOLEAN, status: Statuses,
             next: {"none", "later", "due"}, entities: SUBSET Entities]

\* pc: what the run awaits.  listed: enabledEntities, fixed at the start.
\* synced: the entities whose migration has been called and has returned.
\* since: history, the saves there had been when the run began.
RunStates == [pc: {"idle", "stock", "designs"}, listed: SUBSET Entities,
              synced: SUBSET Entities, since: 0..MaxEdits]

\* edited: history, whether a page was saved during the run.
LogEntries == [status: {"SUCCESS", "FAILED"}, listed: SUBSET Entities,
               synced: SUBSET Entities, edited: BOOLEAN]

\* A missing file, and one torn by a crash, load as this.
Defaults == [enabled |-> FALSE, status |-> "IDLE", next |-> "none",
             entities |-> {"stock"}]

NoRun == [pc |-> "idle", listed |-> {}, synced |-> {}, since |-> 0]

TypeOK ==
    /\ settings \in Settings
    /\ disk \in Settings
    /\ logs \in Seq(LogEntries) /\ Len(logs) <= KeptLogs
    /\ logDisk \in Seq(LogEntries) /\ Len(logDisk) <= KeptLogs
    /\ run \in [Runs -> RunStates]
    /\ page \in [Pages -> Statuses]
    /\ stale \in BOOLEAN
    /\ edits \in 0..MaxEdits
    /\ crashes \in 0..MaxCrashes

Init ==
    /\ settings = Defaults
    /\ disk = Defaults
    /\ logs = <<>>
    /\ logDisk = <<>>
    /\ run = [r \in Runs |-> NoRun]
    /\ page = [p \in Pages |-> "IDLE"]
    /\ stale = FALSE
    /\ edits = 0
    /\ crashes = 0

-----------------------------------------------------------------------------
\* Every change of the settings is written to the file by the same handler; an
\* error leaves the file as it was, or emptied.
SaveSettings(s) ==
    /\ settings' = s
    /\ \/ disk' = s /\ stale' = FALSE
       \/ disk' \in {disk, Defaults} /\ stale' = TRUE

\* The page loads the settings, on its own every 15 seconds.
LoadPage(p) ==
    /\ page' = [page EXCEPT ![p] = settings.status]
    /\ UNCHANGED <<settings, disk, logs, logDisk, run, stale, edits, crashes>>

\* updateSettings: the page posts all it loaded, with the administrator's edits,
\* and it replaces what is in memory, except the time of the next run, which
\* counts from now.  So of what was loaded the status is left.
SavePage(p, enabled, entities) ==
    /\ edits < MaxEdits
    /\ edits' = edits + 1
    /\ SaveSettings([enabled |-> enabled, status |-> page[p], entities |-> entities,
                     next |-> IF enabled THEN "later" ELSE "none"])
    /\ UNCHANGED <<logs, logDisk, run, page, crashes>>

-----------------------------------------------------------------------------
\* Fault: the next run is not calculated at the end of a run.
EndedWithoutNext(s) == [s EXCEPT !.status = "IDLE"]

\* The end of a run, in the handler that resumes it: the status, the next
\* run, whether or not the schedule is still enabled, and the log entry.
Ended(s) == [s EXCEPT !.status = "IDLE", !.next = "later"]

\* Fault: the log is not cut.
Untrimmed(l) == l

\* saveLogs keeps the newest entries.
Trimmed(l) == SubSeq(l, 1, IF Len(l) < KeptLogs THEN Len(l) ELSE KeptLogs)
Logged(status, listed, synced, edited) ==
    Trimmed(<<[status |-> status, listed |-> listed, synced |-> synced, edited |-> edited]>>
            \o logs)
\* The log is written with the same errors.
SaveLogs(l) == logs' = l /\ logDisk' \in {l, logDisk, <<>>}
AddLog(status, listed, synced, edited) == SaveLogs(Logged(status, listed, synced, edited))

\* Fault: the designs go first, and the stock is not asked for after them.
DesignsFirst == IF "designs" \in settings.entities THEN "designs"
                ELSE IF "stock" \in settings.entities THEN "stock" ELSE "idle"

\* What a run awaits first.
FirstAwait == IF "stock" \in settings.entities THEN "stock"
              ELSE IF "designs" \in settings.entities THEN "designs" ELSE "idle"

\* The status is saved before the run begins; a run with nothing to await ends
\* in the same handler.
Begin(r) ==
    LET s == [settings EXCEPT !.status = "RUNNING"] IN
    /\ run[r].pc = "idle"
    /\ IF FirstAwait = "idle"
       THEN /\ SaveSettings(Ended(s))
            /\ AddLog("SUCCESS", s.entities, {}, FALSE)
            /\ UNCHANGED run
       ELSE /\ SaveSettings(s)
            /\ run' = [run EXCEPT ![r] = [pc |-> FirstAwait, listed |-> s.entities,
                                         synced |-> {}, since |-> edits]]
            /\ UNCHANGED <<logs, logDisk>>
    /\ UNCHANGED <<page, edits, crashes>>

\* Fault: a run is started whatever the status is.
StartAnyway(r) == Begin(r)

\* triggerMigration: refused while the status is RUNNING.
TriggerMigration(r) == settings.status # "RUNNING" /\ Begin(r)

\* checkAndRunScheduled, every minute.  An enabled schedule without a next run
\* would be given one (EnabledHasNext says there is none).
Tick(r) ==
    /\ settings.enabled
    /\ settings.next = "due"
    /\ TriggerMigration(r)

\* The time a file holds for the next run may have come.
Aged(d) == IF d.next = "later" THEN {d, [d EXCEPT !.next = "due"]} ELSE {d}

\* The time of the next run comes; the one in the file is past, too, if it is
\* the same.
TimePasses ==
    /\ settings.next = "later"
    /\ settings' = [settings EXCEPT !.next = "due"]
    /\ IF stale THEN disk' \in Aged(disk) ELSE disk' = settings'
    /\ UNCHANGED <<logs, logDisk, run, page, stale, edits, crashes>>

\* Fault: the end of a run is not saved.
EndUnsaved(r, status, synced) ==
    /\ settings' = Ended(settings)
    /\ AddLog(status, run[r].listed, synced, run[r].since # edits)
    /\ run' = [run EXCEPT ![r] = NoRun]
    /\ UNCHANGED <<disk, page, stale, edits, crashes>>

EndRun(r, status, synced) ==
    /\ SaveSettings(Ended(settings))
    /\ AddLog(status, run[r].listed, synced, run[r].since # edits)
    /\ run' = [run EXCEPT ![r] = NoRun]
    /\ UNCHANGED <<page, edits, crashes>>

\* The stock migration returns; whether designs follow is looked up only now.
StockDone(r) ==
    /\ run[r].pc = "stock"
    /\ IF "designs" \in settings.entities
       THEN /\ run' = [run EXCEPT ![r].pc = "designs", ![r].synced = {"stock"}]
            /\ UNCHANGED <<settings, disk, logs, logDisk, page, stale, edits, crashes>>
       ELSE EndRun(r, "SUCCESS", {"stock"})

DesignsDone(r) ==
    /\ run[r].pc = "designs"
    /\ EndRun(r, "SUCCESS", run[r].synced \cup {"designs"})

\* The legacy database, or a row of it, raises an error.
RunFails(r) ==
    /\ run[r].pc # "idle"
    /\ EndRun(r, "FAILED", run[r].synced)

ClearLogs ==
    /\ logs # <<>>
    /\ SaveLogs(<<>>)
    /\ UNCHANGED <<settings, disk, run, page, stale, edits, crashes>>

-----------------------------------------------------------------------------
\* A restart: background runs are gone, and s and l are what the files hold.
Reload(s, l) ==
    /\ crashes < MaxCrashes
    /\ crashes' = crashes + 1
    /\ settings' = s /\ disk' = s
    /\ logs' = l /\ logDisk' = l
    /\ run' = [r \in Runs |-> NoRun]
    /\ stale' = FALSE
    /\ UNCHANGED <<page, edits>>

\* The time of the next run may come while the server is down.
Restart == \E s \in Aged(disk) : Reload(s, logDisk)

\* The server dies while it writes one of the files; a torn log loads empty.
RestartTorn == Reload(Defaults, logDisk) \/ \E s \in Aged(disk) : Reload(s, <<>>)

\* It dies at the end of a run, before the log is written or while it is.
RestartUnlogged(r) ==
    /\ run[r].pc # "idle"
    /\ \E s \in Aged(Ended(settings)), l \in {logDisk, <<>>} : Reload(s, l)

-----------------------------------------------------------------------------
RunStep(r) == StockDone(r) \/ DesignsDone(r) \/ RunFails(r)

Next ==
    \/ \E p \in Pages :
          \/ LoadPage(p)
          \/ \E b \in BOOLEAN, e \in SUBSET Entities : SavePage(p, b, e)
    \/ \E r \in Runs :
          \/ TriggerMigration(r)
          \/ Tick(r)
          \/ RunStep(r)
          \/ RestartUnlogged(r)
    \/ TimePasses
    \/ ClearLogs
    \/ Restart
    \/ RestartTorn

Spec == Init /\ [][Next]_vars

\* The interval timer fires, time passes, and the migration of designs ends.
\* That of the stock need not: it asks for a page of lines again for as long as
\* it fails (LegacyStock).  Nothing obliges administrators.
Fairness ==
    /\ WF_vars(\E r \in Runs : Tick(r))
    /\ WF_vars(TimePasses)
    /\ \A r \in Runs : WF_vars(run[r].pc = "designs" /\ RunStep(r))

FairSpec == Spec /\ Fairness

-----------------------------------------------------------------------------
InFlight == {r \in Runs : run[r].pc # "idle"}

\* The tick never meets an enabled schedule that has no next run, not even one
\* re-enabled by a page that loaded while it was off.
EnabledHasNext == settings.enabled => settings.next # "none"

\* Runs overlap only because a page wrote back an old status: with one run
\* admitted by the status, each save lets in at most one more.
OverlapBounded ==
    Cardinality(InFlight) <= edits + (IF settings.status = "RUNNING" THEN 1 ELSE 0)

\* Wedged: the status says RUNNING and nothing runs, so every start is refused.
Wedged == settings.status = "RUNNING" /\ InFlight = {}

\* Two things wedge the schedule: a page that loaded the status while a run was
\* on and is saved after it, and a restart that loads RUNNING because it came
\* during a run, or because the settings were last written with an error.
WedgedOnlyBySavesAndRestarts ==
    [][~Wedged /\ Wedged' =>
          \/ edits' > edits /\ \E p \in Pages : page[p] = "RUNNING"
          \/ crashes' > crashes /\ disk.status = "RUNNING" /\ (InFlight # {} \/ stale)]_vars

\* A run that is due takes place, or the schedule is switched off (by a page, or
\* by a file that lags or is torn) or counted anew, unless the schedule is wedged
\* or a migration of the stock never ends: nothing else, and no order in which
\* runs end, pages save and servers restart, stops it.
DueRunsUnlessWedged ==
    settings.enabled /\ settings.next = "due"
        ~> \/ ~settings.enabled \/ settings.next # "due"
           \/ Wedged
           \/ \E r \in Runs : [](run[r].pc = "stock")

\* A log entry lists, of what runs ask the legacy database for, what this run has
\* asked for, although the list is made at the start and the designs are looked up
\* when their turn comes: of these it tells only if no page was saved meanwhile.
LogTellsRun ==
    \A i \in 1..Len(logs) :
        LET told == IF logs[i].edited THEN {"stock"} ELSE {"stock", "designs"} IN
        logs[i].status = "SUCCESS" => logs[i].synced \cap told = logs[i].listed \cap told
=============================================================================
