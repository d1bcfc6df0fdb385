--------------------------- MODULE Schedule_proofs ---------------------------
(***************************************************************************)
(* That the auto-submit job follows the saved settings and that these are  *)
(* what was asked for, for any requests and any length of the day.         *)
(***************************************************************************)
EXTENDS Schedule, TLAPS

Job == [time: Hour, due: BOOLEAN]

\* The types, of what a request has in hand at each step too.
WellFormed ==
  /\ rows \in Rows
  /\ up \in BOOLEAN
  /\ job \in Job \union {None}
  /\ pc \in [Request -> {"idle", "saving", "saved", "read"}]
  /\ form \in [Request -> Form \union {None}]
  /\ view \in [Request -> Rows \union {None}]
  /\ \A r \in Request : pc[r] = "saving" => form[r] \in Form
  /\ \A r \in Request : pc[r] = "read" => view[r] \in Form
  /\ overlapped \in BOOLEAN /\ planned \in BOOLEAN /\ swept \in BOOLEAN
  /\ hour \in Hour
  /\ raced \in [Request -> BOOLEAN]

\* While the process is down nothing is under way; while it is up, and without
\* an overlap, one request at most.
OneAtATime ==
  /\ ~ up => pc = Idle
  /\ ~ overlapped => \A r, q \in Request : pc[r] # "idle" /\ pc[q] # "idle" => r = q

Matches == IF Config.enabled THEN job # None /\ job.time = Config.time ELSE job = None

\* Only between its commit and its change of the job does a request leave the
\* job behind the settings, and what it has read back is what is saved.
JobFollows ==
  up /\ ~ overlapped =>
    /\ (\A r \in Request : pc[r] \in {"idle", "saving"}) => Matches
    /\ \A r \in Request : pc[r] = "read" => view[r] = Config

\* What a request has loaded is what is stored until another one commits.
FreshView == \A r \in Request : pc[r] = "saving" /\ ~ raced[r] => view[r] = rows

IInv == WellFormed /\ OneAtATime /\ JobFollows /\ FreshView

\* The settings read are a form's, defaults included, and the job made from
\* them is theirs.
LEMMA ConfigIsForm ==
  ASSUME rows \in Rows
  PROVE  Config \in Form
  BY ScheduleAssumption DEF Config, Form, Rows

LEMMA JobForMatches ==
  ASSUME NEW cfg \in Form
  PROVE  /\ JobFor(cfg) \in Job \union {None}
         /\ IF cfg.enabled THEN JobFor(cfg) # None /\ JobFor(cfg).time = cfg.time
                           ELSE JobFor(cfg) = None
  <1>1. CASE cfg.enabled
    <2>1. JobFor(cfg) = [time |-> cfg.time, due |-> FALSE] /\ cfg.time \in Hour
      BY <1>1 DEF JobFor, Form
    <2>2. JobFor(cfg) \in Job
      BY <2>1 DEF Job
    <2>3. None \notin Job
      BY ScheduleAssumption DEF Job
    <2>4. JobFor(cfg).time = cfg.time
      BY <2>1
    <2>5. JobFor(cfg) # None
      BY <2>2, <2>3
    <2> QED
      BY <1>1, <2>2, <2>4, <2>5
  <1>2. CASE ~ cfg.enabled
    BY <1>2 DEF JobFor
  <1> QED
    BY <1>1, <1>2

LEMMA InitIInv == Init => IInv
  <1> SUFFICES ASSUME Init PROVE IInv
    OBVIOUS
  <1>1. rows \in Rows
    BY DEF Init, Rows
  <1>2. hour \in Hour
    BY ScheduleAssumption DEF Init, Hour
  <1> QED
    BY <1>1, <1>2 DEF Init, IInv, WellFormed, OneAtATime, JobFollows, FreshView, Idle

LEMMA BeginSaveKeeps ==
  ASSUME IInv, NEW r \in Request, NEW f \in Form, BeginSave(r, f)
  PROVE  IInv'
  <1>1. WellFormed'
    BY DEF IInv, WellFormed, BeginSave
  <1>2. OneAtATime'
    BY DEF IInv, WellFormed, OneAtATime, BeginSave, Idle
  <1>3. JobFollows'
    BY DEF IInv, WellFormed, JobFollows, BeginSave, Idle, Matches, Config
  <1>4. FreshView'
    BY DEF IInv, WellFormed, FreshView, BeginSave
  <1> QED
    BY <1>1, <1>2, <1>3, <1>4 DEF IInv

\* The job is now behind the settings: a request is past its commit.
LEMMA CommitSaveKeeps ==
  ASSUME IInv, NEW r \in Request, CommitSave(r)
  PROVE  IInv'
  <1>1. pc' = [pc EXCEPT ![r] = "saved"] /\ pc[r] = "saving"
    BY DEF CommitSave
  <1>2. WellFormed'
    <2>1. form[r] \in Form
      BY <1>1 DEF IInv, WellFormed
    <2>2. rows' \in Rows
      BY <2>1 DEF IInv, WellFormed, CommitSave, Written, Rows, Form
    <2> QED
      BY <2>2 DEF IInv, WellFormed, CommitSave
  <1>3. OneAtATime'
    BY <1>1 DEF IInv, WellFormed, OneAtATime, CommitSave, Idle
  <1>4. JobFollows'
    <2> SUFFICES ASSUME up', ~ overlapped'
                 PROVE  /\ ~ \A q \in Request : pc'[q] \in {"idle", "saving"}
                        /\ \A q \in Request : pc'[q] # "read"
      BY DEF JobFollows
    <2> QED
      BY <1>1 DEF IInv, WellFormed, OneAtATime, CommitSave
  <1>5. FreshView'
    <2> SUFFICES ASSUME NEW q \in Request, pc'[q] = "saving"
                 PROVE  raced'[q]
      BY DEF FreshView
    <2>1. q # r /\ pc[q] = "saving"
      BY <1>1 DEF IInv, WellFormed
    <2> QED
      BY <2>1 DEF CommitSave
  <1> QED
    BY <1>2, <1>3, <1>4, <1>5 DEF IInv

LEMMA FailSaveKeeps ==
  ASSUME IInv, NEW r \in Request, FailSave(r)
  PROVE  IInv'
  BY DEF IInv, WellFormed, OneAtATime, JobFollows, FreshView, FailSave, Idle, Matches, Config

LEMMA ReadBackKeeps ==
  ASSUME IInv, NEW r \in Request, ReadBack(r)
  PROVE  IInv'
  <1>1. /\ pc[r] = "saved" /\ pc' = [pc EXCEPT ![r] = "read"] /\ view' = [view EXCEPT ![r] = Config]
        /\ Config' = Config
        /\ UNCHANGED <<rows, up, job, form, overlapped, planned, swept, hour, raced>>
    BY DEF ReadBack, Config
  <1>2. Config \in Form /\ Config \in Rows
    BY ConfigIsForm DEF IInv, WellFormed, Form, Rows
  <1>3. WellFormed'
    BY <1>1, <1>2 DEF IInv, WellFormed
  <1>4. OneAtATime'
    BY <1>1 DEF IInv, WellFormed, OneAtATime, Idle
  <1>5. JobFollows'
    BY <1>1 DEF IInv, WellFormed, JobFollows
  <1>6. FreshView'
    BY <1>1 DEF IInv, WellFormed, FreshView
  <1> QED
    BY <1>3, <1>4, <1>5, <1>6 DEF IInv

LEMMA ChangeJobKeeps ==
  ASSUME IInv, NEW r \in Request, ChangeJob(r)
  PROVE  IInv'
  <1>1. /\ pc[r] = "read" /\ pc' = [pc EXCEPT ![r] = "idle"] /\ job' = JobFor(view[r])
        /\ Config' = Config
        /\ UNCHANGED <<rows, up, view, form, overlapped, planned, swept, hour, raced>>
        /\ view[r] \in Form
    BY DEF ChangeJob, Config, IInv, WellFormed
  <1>2. WellFormed'
    BY <1>1, JobForMatches DEF IInv, WellFormed
  <1>3. OneAtATime'
    BY <1>1 DEF IInv, WellFormed, OneAtATime, Idle
  <1>4. JobFollows'
    <2> SUFFICES ASSUME up, ~ overlapped
                 PROVE  Matches' /\ \A q \in Request : pc'[q] # "read"
      BY <1>1 DEF JobFollows
    <2>1. view[r] = Config
      BY <1>1 DEF IInv, JobFollows
    <2>2. Matches'
      BY <1>1, <2>1, JobForMatches DEF Matches
    <2>3. \A q \in Request : pc'[q] # "read"
      BY <1>1 DEF IInv, WellFormed, OneAtATime
    <2> QED
      BY <2>2, <2>3
  <1>5. FreshView'
    BY <1>1 DEF IInv, WellFormed, FreshView
  <1> QED
    BY <1>2, <1>3, <1>4, <1>5 DEF IInv

\* The scheduler's thread and the clock change when the job is due, and not
\* its time.
LEMMA TimePassesKeeps ==
  ASSUME IInv, Fire \/ Tick
  PROVE  IInv'
  <1>1. /\ UNCHANGED <<rows, up, pc, form, view, raced, overlapped>> /\ Config' = Config
        /\ \/ job' = job /\ job = None
           \/ job # None /\ \E b \in BOOLEAN : job' = [job EXCEPT !.due = b]
    BY DEF Fire, Tick, Config
  <1>2. /\ job' \in Job \union {None}
        /\ job = None <=> job' = None
        /\ job # None => job'.time = job.time
    <2>1. CASE job' = job /\ job = None
      BY <2>1
    <2>2. CASE job # None /\ \E b \in BOOLEAN : job' = [job EXCEPT !.due = b]
      <3>1. job \in Job
        BY <2>2 DEF IInv, WellFormed
      <3>2. job' \in Job /\ job'.time = job.time
        BY <2>2, <3>1 DEF Job
      <3>3. None \notin Job
        BY ScheduleAssumption DEF Job
      <3> QED
        BY <2>2, <3>2, <3>3
    <2> QED
      BY <1>1, <2>1, <2>2
  <1>3. Matches => Matches'
    BY <1>1, <1>2 DEF Matches
  <1>4. hour' \in Hour /\ planned' \in BOOLEAN /\ swept' \in BOOLEAN
    <2>1. hour \in Hour /\ planned \in BOOLEAN
      BY DEF IInv, WellFormed
    <2>2. (hour + 1) % Hours \in Hour
      BY <2>1, ScheduleAssumption DEF Hour
    <2> QED
      BY <2>1, <2>2 DEF Fire, Tick
  <1> QED
    BY <1>1, <1>2, <1>3, <1>4 DEF IInv, WellFormed, OneAtATime, JobFollows, FreshView, Idle

\* A crash takes the job and the requests with it ...
LEMMA StopKeeps ==
  ASSUME IInv, Stop
  PROVE  IInv'
  BY DEF IInv, WellFormed, OneAtATime, JobFollows, FreshView, Stop, Idle

\* ... and the process makes the job from the settings when it starts.
LEMMA StartKeeps ==
  ASSUME IInv, Start
  PROVE  IInv'
  <1>1. /\ pc = Idle /\ job' = JobFor(Config) /\ Config' = Config
        /\ UNCHANGED <<rows, pc, form, view, planned, swept, hour, raced>>
        /\ up' = TRUE /\ overlapped' = FALSE
    BY DEF IInv, OneAtATime, Start, Config
  <1>2. Config \in Form
    BY ConfigIsForm DEF IInv, WellFormed
  <1>3. Matches' /\ job' \in Job \union {None}
    BY <1>1, <1>2, JobForMatches DEF Matches
  <1> QED
    BY <1>1, <1>3 DEF IInv, WellFormed, OneAtATime, JobFollows, FreshView, Idle

LEMMA StutterKeeps ==
  ASSUME IInv, UNCHANGED vars
  PROVE  IInv'
  BY DEF IInv, WellFormed, OneAtATime, JobFollows, FreshView, Idle, Matches, Config, vars

\* The inductive invariant holds in every behaviour.
THEOREM Invariance == Spec => []IInv
  <1>1. Init => IInv
    BY InitIInv
  <1>2. IInv /\ [Next]_vars => IInv'
    <2> SUFFICES ASSUME IInv, [Next]_vars
                 PROVE  IInv'
      OBVIOUS
    <2>1. CASE \E r \in Request : Proceed(r)
      BY <2>1, CommitSaveKeeps, FailSaveKeeps, ReadBackKeeps, ChangeJobKeeps DEF Proceed
    <2>2. CASE \E r \in Request, f \in Form : BeginSave(r, f)
      BY <2>2, BeginSaveKeeps
    <2>3. CASE Fire \/ Tick
      BY <2>3, TimePassesKeeps
    <2>4. CASE Stop \/ Start
      BY <2>4, StopKeeps, StartKeeps
    <2>5. CASE UNCHANGED vars
      BY <2>5, StutterKeeps
    <2> QED
      BY <2>1, <2>2, <2>3, <2>4, <2>5 DEF Next
  <1> QED
    BY <1>1, <1>2, PTL DEF Spec

\* The settings, the job, the clock and the requests stay well-formed
\* (settings_service.py, scheduler.py).
THEOREM TypeCorrect == Spec => []TypeOK
  <1>1. IInv => TypeOK
    BY DEF IInv, WellFormed, TypeOK, Job
  <1> QED
    BY <1>1, Invariance, PTL

\* Whatever crashes come between a commit and the change of the job, and
\* however many hours and requests there are: at rest the job is the one that
\* the saved settings ask for (_sync_auto_submit_job), unless two changes
\* overlapped since the process started.
THEOREM JobFollowsSettings == Spec => []JobMatchesSettings
  <1>1. IInv => JobMatchesSettings
    BY DEF IInv, JobFollows, JobMatchesSettings, Matches, Idle
  <1> QED
    BY <1>1, Invariance, PTL

\* Only the commit of r's request goes from saving to saved; what it has loaded
\* is what is stored.
LEMMA NextSavesForm == IInv /\ [Next]_vars => \A r \in Request : SavesForm(r)
  <1> SUFFICES ASSUME IInv, [Next]_vars, NEW r \in Request,
                      pc[r] = "saving", pc'[r] = "saved", ~ raced[r]
               PROVE  Config' = form[r]
    BY DEF SavesForm
  <1>1. CommitSave(r)
    BY DEF Next, Proceed, BeginSave, CommitSave, FailSave, ReadBack, ChangeJob, Fire, Tick, Stop,
           Start, Idle, vars, IInv, WellFormed
  <1>2. view[r] = rows /\ form[r] \in Form /\ rows \in Rows
    BY DEF IInv, FreshView, WellFormed
  <1>3. rows' = [enabled |-> form[r].enabled, time |-> form[r].time]
    BY <1>1, <1>2 DEF CommitSave, Written
  <1>4. form[r].enabled \in BOOLEAN /\ form[r].time \in Hour
    BY <1>2 DEF Form
  <1>5. form[r].time # None
    BY <1>4, ScheduleAssumption
  <1>6. form[r] = [enabled |-> form[r].enabled, time |-> form[r].time]
    BY <1>2 DEF Form
  <1> QED
    BY <1>3, <1>4, <1>5, <1>6 DEF Config

\* A save that is not raced saves the whole form, whatever rows there were
\* (set_setting).
THEOREM SavedForm == Spec => SavedAsAsked
  BY Invariance, NextSavesForm, PTL DEF Spec, SavedAsAsked
=============================================================================
