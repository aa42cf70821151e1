--------------------------- MODULE WorkSchedules ---------------------------
(***************************************************************************)
(* Scheduled work: the tables of schedules and of their runs               *)
(* (cc_remote/workspaces.py) and the wrapper's loop and tasks that claim a *)
(* due run, execute it as one turn and record its result                   *)
(* (wrapper/machine.py).  Each transaction of the store is one step.       *)
(*                                                                         *)
(* Times are relative and count down on Tick: until a schedule is due,     *)
(* until a lease runs out, until a retry may begin.  A lease outlives      *)
(* three of its renewals, so a task that renews keeps it full.             *)
(***************************************************************************)
EXTENDS Integers, FiniteSets

CONSTANTS Schedules,
          Period,      (* repeat_seconds of a schedule that repeats        *)
          Lease,       (* lease_seconds                                    *)
          MaxAttempts, (* _WORK_SCHEDULE_MAX_ATTEMPTS                      *)
          MaxLate,     (* bound: how long a schedule is overdue            *)
          MaxRuns,     (* bound: occurrences of a repeating schedule       *)
          MaxTroubles  (* bound: crashes, cancelled turns, failed attempts *)
                       (* and transactions that raise, together            *)

ASSUME ScheduleAssumption ==
  /\ {Period, Lease, MaxAttempts, MaxRuns} \subseteq Nat \ {0}
  /\ MaxLate \in Nat /\ MaxTroubles \in Nat

VARIABLES
  schedule, (* work_schedules: on, off (it ran once), tombstone, or no row *)
  repeats,  (* the schedules with repeat_seconds; the others run once      *)
  due,      (* schedule: the time until next_run_at                        *)
  nth,      (* schedule: its occurrences so far                            *)
  run,      (* work_schedule_runs, by schedule and occurrence              *)
  task,     (* _run_work_schedule, by run and attempt: where it is         *)
  renews,   (* the tasks whose _renew_work_schedule_lease still runs       *)
  up,       (* the wrapper runs                                            *)
  cut,      (* history: runs whose task ended without reporting            *)
  lapsed,   (* history: runs that lost their lease under a live task       *)
  strayed,  (* history: runs a task that never began reported into after   *)
            (* another attempt had begun                                   *)
  troubles  (* how much went wrong so far                                  *)

store   == <<schedule, repeats, due, nth, run>>
wrapper == <<task, renews, up>>
history == <<cut, lapsed, strayed, troubles>>
vars    == <<store, wrapper, history>>

Runs == Schedules \X (1..MaxRuns)
Tasks == Runs \X (1..MaxAttempts)
Of(r) == r[1]
RunOf(t) == t[1]

NoRun == [status |-> "none", attempt |-> 0, lease |-> 0, wait |-> 0]
Unclaimed == [NoRun EXCEPT !.status = "queued"]

Init ==
  /\ schedule = [s \in Schedules |-> "new"]
  /\ repeats = {}
  /\ due = [s \in Schedules |-> 0] /\ nth = [s \in Schedules |-> 0]
  /\ run = [r \in Runs |-> NoRun]
  /\ task = [t \in Tasks |-> "none"] /\ renews = {} /\ up = TRUE
  /\ cut = {} /\ lapsed = {} /\ strayed = {}
  /\ troubles = 0

-----------------------------------------------------------------------------
(* Helpers.                                                                *)

Trouble == troubles < MaxTroubles /\ troubles' = troubles + 1

(* A claimed run that was marked and whose result is not recorded yet.     *)
Executing(t) == task[t] \in {"work", "done", "retry", "fail"}
Busy(t) == Executing(t) \/ task[t] \in {"claimed", "unmarked"}

Leased == {"claimed", "running"}
Active == {"queued", "claimed", "running"}
Terminal == {"succeeded", "failed"}

(* The row of schedule s is deleted, and with it those of its runs.        *)
WithoutRuns(table, s) ==
  [r \in Runs |-> IF Of(r) = s THEN NoRun ELSE table[r]]

-----------------------------------------------------------------------------
(* The commands.                                                           *)

Create(s) ==
  /\ up /\ schedule[s] = "new"
  /\ schedule' = [schedule EXCEPT ![s] = "on"]
  /\ \E R \in SUBSET {s} : repeats' = repeats \cup R
  /\ due' = [due EXCEPT ![s] = 1]
  /\ UNCHANGED <<nth, run, wrapper, history>>

(* Work that has not begun is cancelled; a schedule with a running run is  *)
(* kept as a tombstone until the run's result is recorded.  The mutant     *)
(* counts the runs it has just cancelled as running.                       *)
KeptEarly(s) == \E r \in Runs : Of(r) = s /\ run[r].status \in Leased
Kept(s) == \E r \in Runs : Of(r) = s /\ run[r].status = "running"

Delete(s) ==
  /\ up /\ schedule[s] \in {"on", "off", "tombstone"}
  /\ IF Kept(s)
       THEN /\ schedule' = [schedule EXCEPT ![s] = "tombstone"]
            /\ run' = [r \in Runs |->
                         IF Of(r) = s /\ run[r].status \in {"queued", "claimed"}
                           THEN NoRun ELSE run[r]]
       ELSE /\ schedule' = [schedule EXCEPT ![s] = "gone"]
            /\ run' = WithoutRuns(run, s)
  /\ UNCHANGED <<repeats, due, nth, wrapper, history>>

-----------------------------------------------------------------------------
(* The loop: claim_due_schedules, one transaction, and a task for each run *)
(* it claimed.                                                             *)

(* A lease that ran out: the run is tried again, or has failed.  The       *)
(* mutant forgets the runs that were claimed and not marked.               *)
ExpireRunning(row) ==
  IF row.status # "running" \/ row.lease > 0 THEN row
  ELSE IF row.attempt >= MaxAttempts
    THEN [row EXCEPT !.status = "failed", !.lease = 0]
    ELSE [row EXCEPT !.status = "queued", !.lease = 0, !.wait = 0]
Expire(row) ==
  IF row.status \notin Leased \/ row.lease > 0 THEN row
  ELSE IF row.attempt >= MaxAttempts
    THEN [row EXCEPT !.status = "failed", !.lease = 0]
    ELSE [row EXCEPT !.status = "queued", !.lease = 0, !.wait = 0]

(* The schedules that get a run: due, and without one that is active.      *)
DueNow(s) == schedule[s] = "on" /\ due[s] <= 0 /\ nth[s] < MaxRuns
Due(table) ==
  {s \in Schedules :
     /\ DueNow(s)
     /\ \A r \in Runs : Of(r) = s => table[r].status \notin Active}

(* The time of the next run: the first one that is still to come.          *)
Advance(late) == late + ((-late) \div Period + 1) * Period

Claimed(row) == [row EXCEPT !.status = "claimed", !.lease = Lease,
                            !.attempt = @ + 1]

Scan ==
  /\ up
  /\ LET expired == [r \in Runs |-> Expire(run[r])]
         new == Due(expired)
         queued == [r \in Runs |->
                      IF Of(r) \in new /\ r[2] = nth[Of(r)] + 1
                        THEN Unclaimed ELSE expired[r]]
         ready == {r \in Runs : /\ queued[r].status = "queued"
                                /\ queued[r].wait = 0
                                /\ schedule[Of(r)] # "tombstone"}
     IN /\ \/ ready # {} \/ expired # run
        /\ nth' = [s \in Schedules |->
                     IF s \in new THEN nth[s] + 1 ELSE nth[s]]
        /\ due' = [s \in Schedules |->
                     IF s \in new \cap repeats THEN Advance(due[s])
                     ELSE due[s]]
        /\ schedule' = [s \in Schedules |->
                          IF s \in new \ repeats THEN "off" ELSE schedule[s]]
        /\ run' = [r \in Runs |->
                     IF r \in ready THEN Claimed(queued[r]) ELSE queued[r]]
        /\ task' = [t \in Tasks |->
                      IF RunOf(t) \in ready /\ t[2] = run'[RunOf(t)].attempt
                        THEN "claimed" ELSE task[t]]
  /\ UNCHANGED <<repeats, renews, up, history>>

-----------------------------------------------------------------------------
(* A task: _run_work_schedule.                                             *)

(* mark_schedule_running: only a run that is claimed begins.  The mutant   *)
(* does not look.                                                          *)
MarkableAlways(r) == run[r].status # "none"
Markable(r) == run[r].status = "claimed"

Mark(t) ==
  /\ task[t] = "claimed"
  /\ IF Markable(RunOf(t))
       THEN /\ run' = [run EXCEPT ![RunOf(t)] =
                         [@ EXCEPT !.status = "running", !.lease = Lease]]
            /\ task' = [task EXCEPT ![t] = "work"]
            /\ renews' = renews \cup {t}
       ELSE task' = [task EXCEPT ![t] = "over"] /\ UNCHANGED <<run, renews>>
  /\ UNCHANGED <<schedule, repeats, due, nth, up, history>>

(* The transaction raises (the database is locked): the task reports a     *)
(* failure of a run it never marked.                                       *)
MarkRaises(t) ==
  /\ task[t] = "claimed" /\ Trouble
  /\ task' = [task EXCEPT ![t] = "unmarked"]
  /\ UNCHANGED <<store, renews, up, cut, lapsed, strayed>>

(* The run is executed as one turn of a new session.  Its account may be   *)
(* gone, which no retry mends, the session may not come up or may refuse   *)
(* the prompt, and the turn may leave no session id behind.                *)
Execute(t) ==
  /\ task[t] = "work"
  /\ \/ task' = [task EXCEPT ![t] = "done"] /\ UNCHANGED troubles
     \/ \E failure \in {"retry", "fail"} :
          task' = [task EXCEPT ![t] = failure] /\ Trouble
  /\ UNCHANGED <<store, renews, up, cut, lapsed, strayed>>

(* The turn is cancelled, and this task with it: the run is left to its    *)
(* lease.                                                                  *)
TurnCancelled(t) ==
  /\ task[t] = "work" /\ Trouble
  /\ task' = [task EXCEPT ![t] = "over"] /\ renews' = renews \ {t}
  /\ cut' = cut \cup {RunOf(t)}
  /\ UNCHANGED <<store, up, lapsed, strayed>>

(* complete_schedule: the result goes into the run's row, if there is one, *)
(* whichever attempt the row is at, and a tombstone goes with it.  After   *)
(* the third attempt, and for a schedule that is being deleted, there is   *)
(* no retry.                                                               *)
Reports(t) == task[t] \in {"done", "retry", "fail", "unmarked"}
Retried(t) == /\ task[t] \in {"retry", "unmarked"}
              /\ schedule[Of(RunOf(t))] # "tombstone"
              /\ run[RunOf(t)].attempt < MaxAttempts

Result(t) == IF task[t] = "done" THEN "succeeded"
             ELSE IF Retried(t) THEN "queued" ELSE "failed"

Complete(t) ==
  /\ Reports(t)
  /\ LET r == RunOf(t)
         s == Of(r)
     IN /\ IF run[r].status = "none"
             THEN UNCHANGED <<schedule, run>>
             ELSE IF schedule[s] = "tombstone"
               THEN /\ schedule' = [schedule EXCEPT ![s] = "gone"]
                    /\ run' = WithoutRuns(run, s)
               ELSE /\ run' = [run EXCEPT ![r] =
                        [@ EXCEPT !.status = Result(t), !.lease = 0,
                                  !.wait = IF Retried(t) THEN 1 ELSE 0]]
                    /\ UNCHANGED schedule
        /\ strayed' = IF /\ task[t] = "unmarked"
                         /\ run[r].status \in {"running"} \cup Terminal
                        THEN strayed \cup {r} ELSE strayed
  /\ task' = [task EXCEPT ![t] = "over"] /\ renews' = renews \ {t}
  /\ UNCHANGED <<repeats, due, nth, up, cut, lapsed, troubles>>

(* The transaction raises: a success is reported as a failure then, and    *)
(* after a failure the task just ends.                                     *)
CompleteRaises(t) ==
  /\ Reports(t) /\ Trouble
  /\ IF task[t] = "done"
       THEN task' = [task EXCEPT ![t] = "retry"] /\ UNCHANGED <<renews, cut>>
       ELSE /\ task' = [task EXCEPT ![t] = "over"] /\ renews' = renews \ {t}
            /\ cut' = cut \cup {RunOf(t)}
  /\ UNCHANGED <<store, up, lapsed, strayed>>

-----------------------------------------------------------------------------
(* Time, and what can go wrong.                                            *)

Down(n) == IF n > 0 THEN n - 1 ELSE 0

(* A renewal that finds its run no longer leased ends its loop.            *)
Renewed(r) == \E t \in renews : RunOf(t) = r

Tick ==
  /\ due' = [s \in Schedules |->
               IF schedule[s] = "on" /\ due[s] > -MaxLate THEN due[s] - 1
                                                          ELSE due[s]]
  /\ run' = [r \in Runs |->
               [run[r] EXCEPT
                  !.lease = IF Renewed(r) /\ run[r].status \in Leased
                              THEN Lease ELSE Down(@),
                  !.wait = Down(@)]]
  /\ renews' = {t \in renews : run[RunOf(t)].status \in Leased}
  /\ <<due', run', renews'>> # <<due, run, renews>>
  /\ UNCHANGED <<schedule, repeats, nth, task, up, history>>

(* The lease runs out under a live task: the machine was suspended.        *)
Suspend(r) ==
  /\ up /\ run[r].status \in Leased /\ run[r].lease > 0 /\ Trouble
  /\ run' = [run EXCEPT ![r].lease = 0]
  /\ lapsed' = lapsed \cup {r}
  /\ UNCHANGED <<schedule, repeats, due, nth, wrapper, cut, strayed>>

(* A renewal raises (the database is locked), and none follows.            *)
RenewalFails(t) ==
  /\ t \in renews /\ Trouble
  /\ renews' = renews \ {t} /\ lapsed' = lapsed \cup {RunOf(t)}
  /\ UNCHANGED <<store, task, up, cut, strayed>>

(* The wrapper stops or is killed, its tasks with it.                      *)
Crash ==
  /\ up /\ up' = FALSE /\ Trouble
  /\ task' = [t \in Tasks |-> IF Busy(t) THEN "over" ELSE task[t]]
  /\ cut' = cut \cup {RunOf(t) : t \in {u \in Tasks : Busy(u)}}
  /\ renews' = {}
  /\ UNCHANGED <<store, lapsed, strayed>>

Restart == ~up /\ up' = TRUE /\ UNCHANGED <<store, task, renews, history>>

-----------------------------------------------------------------------------
TaskSteps(t) == Mark(t) \/ Execute(t) \/ Complete(t)

Next ==
  \/ \E s \in Schedules : Create(s) \/ Delete(s)
  \/ Scan \/ Tick \/ Crash \/ Restart
  \/ \E t \in Tasks : \/ TaskSteps(t) \/ TurnCancelled(t) \/ RenewalFails(t)
                       \/ MarkRaises(t) \/ CompleteRaises(t)
  \/ \E r \in Runs : Suspend(r)

(* The loop scans every 15 seconds, a task runs on, a turn ends, time      *)
(* passes, and a wrapper that stopped is started again.                    *)
Fairness == /\ WF_vars(Scan) /\ WF_vars(Tick) /\ WF_vars(Restart)
            /\ \A t \in Tasks : WF_vars(TaskSteps(t))

Spec == Init /\ [][Next]_vars /\ Fairness

-----------------------------------------------------------------------------
(* Properties.                                                             *)

TypeOK ==
  /\ schedule \in [Schedules -> {"new", "on", "off", "tombstone", "gone"}]
  /\ repeats \subseteq Schedules
  /\ due \in [Schedules -> (-MaxLate)..(Period + 1)]
  /\ nth \in [Schedules -> 0..MaxRuns]
  /\ run \in [Runs -> [status: Active \cup Terminal \cup {"none"},
                       attempt: 0..MaxAttempts, lease: 0..Lease,
                       wait: 0..1]]
  /\ task \in [Tasks -> {"none", "claimed", "unmarked", "work", "done",
                         "retry", "fail", "over"}]
  /\ renews \subseteq Tasks /\ up \in BOOLEAN
  /\ troubles \in 0..MaxTroubles

(* Every lease of schedule s was renewed in time, and no task that never   *)
(* began a run of it reported into the row of an attempt that had.         *)
InTime(s) == \A r \in lapsed : Of(r) # s
Regular(s) == InTime(s) /\ \A r \in strayed : Of(r) # s

(* A schedule is executed by one task at a time, and a run that succeeded  *)
(* is not executed any more, whatever claims, marks and deletions meet and *)
(* whichever transaction raises: as long as the schedule is regular.  And  *)
(* no run is ever claimed, and so executed, more than three times, also    *)
(* when it is not (workspaces.py:34; the bound on attempt in TypeOK).      *)
ExecutedOnce ==
  /\ TypeOK
  /\ \A t \in Tasks : Executing(t) /\ Regular(Of(RunOf(t))) =>
       /\ run[RunOf(t)].status \notin Terminal
       /\ \A u \in Tasks \ {t} :
            Executing(u) => Of(RunOf(u)) # Of(RunOf(t))

(* A task that executes a run finds its row again to record the result,    *)
(* and the tombstone of a deleted schedule has such a task, which removes  *)
(* it (the docstring at workspaces.py:781-788): as long as the schedule is *)
(* regular, and no task of it is cut off.                                  *)
DeletedLater ==
  /\ \A t \in Tasks : Executing(t) /\ Regular(Of(RunOf(t)))
                      => run[RunOf(t)].status = "running"
  /\ \A s \in Schedules :
       schedule[s] = "tombstone" /\ Regular(s) /\ (\A r \in cut : Of(r) # s)
       => \E t \in Tasks : Executing(t) /\ Of(RunOf(t)) = s

(* An occurrence that is due is not lost (the docstring at workspaces.py:  *)
(* 821-826): its run ends, with a result or after its last attempt, unless *)
(* the schedule is deleted; whatever crashes, and wherever.                *)
NotLost ==
  \A r \in Runs :
    (schedule[Of(r)] = "on" /\ due[Of(r)] <= 0 /\ nth[Of(r)] = r[2] - 1)
      ~> (run[r].status \in Terminal \/ schedule[Of(r)] \in {"tombstone", "gone"})
=============================================================================
