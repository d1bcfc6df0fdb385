------------------------------- MODULE Schedule -------------------------------
(***************************************************************************)
(* The daily auto-submit job (scheduler.py) and the settings it is made    *)
(* from (services/settings_service.py, POST /admin/settings/auto-submit).  *)
(* The settings are two rows of a key/value table (the time zone is part   *)
(* of the time); the job lives in the memory of the process and is made    *)
(* again from the rows when they are saved and when the process starts.    *)
(*                                                                         *)
(* The clock goes round the hours of a day; an hour is the job's           *)
(* misfire_grace_time.  APScheduler is external: a job is due when the     *)
(* clock reaches its time, and adding a job plans it for the next time     *)
(* after now.                                                              *)
(*                                                                         *)
(* Unleashed is taken to be configured: without its credentials            *)
(* start_scheduler makes no scheduler at all (scheduler.py:61), and        *)
(* nothing is ever swept.  With them the scheduler exists exactly while    *)
(* the process runs, so that up stands for _scheduler is not None too      *)
(* (scheduler.py:64,69).                                                   *)
(***************************************************************************)
EXTENDS Naturals

CONSTANTS
  Request,    \* administrators' requests that save the settings
  Hours,      \* hours of the day
  Default,    \* DEFAULT_AUTO_SUBMIT_TIME
  None

Hour == 0 .. (Hours - 1)

ASSUME ScheduleAssumption ==
  /\ Hours \in Nat \ {0}
  /\ Default \in Hour
  /\ None \notin Hour \union [time: Hour, due: BOOLEAN]

Form == [enabled: BOOLEAN, time: Hour]
Rows == [enabled: BOOLEAN \union {None}, time: Hour \union {None}]

VARIABLES
  rows,       \* the settings rows, None for one that does not exist
  up,         \* the process runs
  job,        \* the job: its time and whether it is due; None if there is none
  hour,       \* the clock
  planned,    \* when this hour began, the settings asked for its sweep
  swept,      \* the sweep has run in this hour
  pc,         \* how far a request is
  form,       \* what it was asked to save
  view,       \* the rows its session has loaded, then the settings read back
  raced,      \* another request has committed since it began
  overlapped  \* two requests were under way together since the process started

vars == <<rows, up, job, hour, planned, swept, pc, form, view, raced, overlapped>>

Idle == [r \in Request |-> "idle"]

\* get_auto_submit_config, with the defaults for what was never saved.
Config ==
  [enabled |-> rows.enabled = TRUE, time |-> IF rows.time = None THEN Default ELSE rows.time]

\* Variant: the trigger is not replaced when the job exists.
JobKept(cfg) ==
  IF ~ cfg.enabled THEN None
  ELSE IF job # None THEN job ELSE [time |-> cfg.time, due |-> FALSE]

\* Variant: the trigger counts the hours from one.
JobAnHourLate(cfg) == IF cfg.enabled THEN [time |-> cfg.time + 1, due |-> FALSE] ELSE None

\* _sync_auto_submit_job: the job is added anew, replaced or removed.  The next
\* fire time is counted from now, so what was due is due no more.
JobFor(cfg) == IF cfg.enabled THEN [time |-> cfg.time, due |-> FALSE] ELSE None

-----------------------------------------------------------------------------
\* settings_auto_submit: set_setting loads the rows ...
BeginSave(r, f) ==
  /\ up /\ pc[r] = "idle"
  /\ pc' = [pc EXCEPT ![r] = "saving"]
  /\ form' = [form EXCEPT ![r] = f]
  /\ view' = [view EXCEPT ![r] = rows]
  /\ raced' = [raced EXCEPT ![r] = FALSE]
  /\ overlapped' = (overlapped \/ pc # Idle)
  /\ UNCHANGED <<rows, up, job, hour, planned, swept>>

\* Variant: a row that exists is not written.
WrittenOnce(loaded, asked, current) == IF loaded = None THEN asked ELSE current

\* ... and the flush inserts those that did not exist and updates those that
\* differ from what was loaded.
Written(loaded, asked, current) == IF loaded # asked THEN asked ELSE current

\* A row that another request has inserted meanwhile.
Inserted(r) ==
  \/ view[r].enabled = None /\ rows.enabled # None
  \/ view[r].time = None /\ rows.time # None

CommitSave(r) ==
  /\ pc[r] = "saving"
  /\ ~ Inserted(r)
  /\ rows' = [enabled |-> Written(view[r].enabled, form[r].enabled, rows.enabled),
              time |-> Written(view[r].time, form[r].time, rows.time)]
  /\ pc' = [pc EXCEPT ![r] = "saved"]
  /\ raced' = [q \in Request |-> raced[q] \/ (q # r /\ pc[q] # "idle")]
  /\ UNCHANGED <<up, job, hour, planned, swept, form, view, overlapped>>

\* IntegrityError: nothing is saved, and the job is left as it is.
FailSave(r) ==
  /\ pc[r] = "saving"
  /\ Inserted(r)
  /\ pc' = [pc EXCEPT ![r] = "idle"]
  /\ UNCHANGED <<rows, up, job, hour, planned, swept, form, view, raced, overlapped>>

\* reschedule_auto_submit reads the settings in a session of its own ...
ReadBack(r) ==
  /\ pc[r] = "saved"
  /\ view' = [view EXCEPT ![r] = Config]
  /\ pc' = [pc EXCEPT ![r] = "read"]
  /\ UNCHANGED <<rows, up, job, hour, planned, swept, form, raced, overlapped>>

\* ... and changes the job.
ChangeJob(r) ==
  /\ pc[r] = "read"
  /\ job' = JobFor(view[r])
  /\ pc' = [pc EXCEPT ![r] = "idle"]
  /\ UNCHANGED <<rows, up, hour, planned, swept, form, view, raced, overlapped>>

-----------------------------------------------------------------------------
\* Variant: the job is one for a date, gone once it has run.
FireOnce ==
  /\ up /\ job # None /\ job.due
  /\ job' = None
  /\ swept' = TRUE
  /\ UNCHANGED <<rows, up, hour, planned, pc, form, view, raced, overlapped>>

\* The scheduler's thread runs the due job; the job stays for the next day.
Fire ==
  /\ up /\ job # None /\ job.due
  /\ job' = [job EXCEPT !.due = FALSE]
  /\ swept' = TRUE
  /\ UNCHANGED <<rows, up, hour, planned, pc, form, view, raced, overlapped>>

\* An hour passes.  The thread is never an hour late.
Tick ==
  LET next == (hour + 1) % Hours
  IN /\ job # None => ~ job.due
     /\ hour' = next
     /\ planned' = (Config.enabled /\ Config.time = next)
     /\ swept' = FALSE
     /\ job' = IF job = None THEN None ELSE [job EXCEPT !.due = job.time = next]
     /\ UNCHANGED <<rows, up, pc, form, view, raced, overlapped>>

\* The process stops or dies: the memory job store is gone, requests too.
Stop ==
  /\ up
  /\ up' = FALSE
  /\ job' = None
  /\ pc' = Idle
  /\ UNCHANGED <<rows, hour, planned, swept, form, view, raced, overlapped>>

\* Variant: the settings are not read at startup.
StartBare ==
  /\ ~ up
  /\ up' = TRUE
  /\ overlapped' = FALSE
  /\ UNCHANGED <<rows, job, hour, planned, swept, pc, form, view, raced>>

\* start_scheduler, before the first request is served.
Start ==
  /\ ~ up
  /\ up' = TRUE
  /\ job' = JobFor(Config)
  /\ overlapped' = FALSE
  /\ UNCHANGED <<rows, hour, planned, swept, pc, form, view, raced>>

-----------------------------------------------------------------------------
Init ==
  /\ rows = [enabled |-> None, time |-> None]
  /\ up = FALSE
  /\ job = None
  /\ hour = 0
  /\ planned = FALSE
  /\ swept = FALSE
  /\ pc = Idle
  /\ form = [r \in Request |-> None]
  /\ view = [r \in Request |-> None]
  /\ raced = [r \in Request |-> FALSE]
  /\ overlapped = FALSE

Proceed(r) == CommitSave(r) \/ FailSave(r) \/ ReadBack(r) \/ ChangeJob(r)

Next ==
  \/ \E r \in Request : Proceed(r) \/ \E f \in Form : BeginSave(r, f)
  \/ Fire
  \/ Tick
  \/ Stop
  \/ Start

\* Time passes, the scheduler's thread runs, a request that was accepted is
\* carried out.  Nobody has to save settings or to start the process.
Fairness == WF_vars(Tick) /\ WF_vars(Fire) /\ \A r \in Request : WF_vars(Proceed(r))

Spec == Init /\ [][Next]_vars
FairSpec == Spec /\ Fairness
-----------------------------------------------------------------------------
\* The module's type invariant.
TypeOK ==
  /\ rows \in Rows
  /\ up \in BOOLEAN /\ planned \in BOOLEAN /\ swept \in BOOLEAN /\ overlapped \in BOOLEAN
  /\ job \in [time: Hour, due: BOOLEAN] \union {None}
  /\ hour \in Hour
  /\ pc \in [Request -> {"idle", "saving", "saved", "read"}]
  /\ form \in [Request -> Form \union {None}]
  /\ view \in [Request -> Rows \union {None}]
  /\ raced \in [Request -> BOOLEAN]

\* scheduler.py:28, "Add, update or remove the auto-submit cron job to match
\* the DB config": when no change is under way the job is the one the settings
\* ask for, across crashes between the commit and the change of the job,
\* unless two changes overlapped since the process started.
JobMatchesSettings ==
  up /\ pc = Idle /\ ~ overlapped =>
    IF Config.enabled THEN job # None /\ job.time = Config.time ELSE job = None

\* A save that no other save came between saves the whole form, whatever rows
\* there were (set_setting inserts or updates each key by itself).
SavesForm(r) == pc[r] = "saving" /\ pc'[r] = "saved" /\ ~ raced[r] => Config' = form[r]

SavedAsAsked == [][\A r \in Request : SavesForm(r)]_vars

\* admin.py:626, "requests go to Unleashed daily": a process that stays up with
\* the job switched on and settings left alone sweeps every day, for ever.
SweptDaily ==
  <>[](up /\ pc = Idle /\ Config.enabled /\ ~ overlapped) => []<>swept

\* scheduler.py:52, "a restart near the fire time still runs it": a process
\* that comes back within the hour of a fire time that it missed has the job
\* due.
RestartStillRuns ==
  [][~ up /\ up' /\ planned /\ ~ swept /\ Config.enabled /\ Config.time = hour => job'.due]_vars
=============================================================================
