------------------------ MODULE WorkSchedules_proofs ------------------------
(***************************************************************************)
(* Proofs about WorkSchedules, for every set of schedules, period, lease,  *)
(* number of attempts and of occurrences, and whatever crashes, is         *)
(* cancelled, suspended or not renewed.                                    *)
(***************************************************************************)
EXTENDS WorkSchedules, TLAPS

-----------------------------------------------------------------------------
(* The inductive invariant: what is the case of a regular schedule.        *)

(* A run that is queued may be claimed once more.                          *)
Room == \A r \in Runs : run[r].status = "queued" => run[r].attempt < MaxAttempts

OneActive(s) ==
  \A r, q \in Runs :
    Of(r) = s /\ Of(q) = s /\ run[r].status \in Active /\ run[q].status \in Active
      => r = q

(* A task at work has its run's row, and renews a lease that holds.        *)
Renewing(s) ==
  \A t \in Tasks :
    Executing(t) /\ Of(RunOf(t)) = s =>
      /\ run[RunOf(t)].status = "running" /\ run[RunOf(t)].lease > 0
      /\ t \in renews

OneTask(s) ==
  \A t, u \in Tasks :
    Executing(t) /\ Executing(u) /\ Of(RunOf(t)) = s /\ Of(RunOf(u)) = s => t = u

Uncut(s) == \A r \in cut : Of(r) # s

(* A running run has its task, and so has a tombstone.                     *)
Held(s) ==
  /\ \A r \in Runs : Of(r) = s /\ run[r].status = "running" =>
       \E t \in Tasks : Executing(t) /\ RunOf(t) = r
  /\ schedule[s] = "tombstone" => \E t \in Tasks : Executing(t) /\ Of(RunOf(t)) = s

Orderly(s) ==
  /\ OneActive(s) /\ Renewing(s) /\ OneTask(s)
  /\ Uncut(s) => Held(s)

IInv ==
  /\ TypeOK /\ Room
  /\ \A s \in Schedules : Regular(s) => Orderly(s)

-----------------------------------------------------------------------------
(* Facts about runs, tasks and time.                                       *)

Statuses == Active \cup Terminal \cup {"none"}

Rows == [status : Statuses, attempt : 0..MaxAttempts, lease : 0..Lease, wait : 0..1]

Places == {"none", "claimed", "unmarked", "work", "done", "retry", "fail", "over"}

LEMMA Constants ==
  /\ Period \in Nat /\ Period > 0 /\ Lease \in Nat /\ Lease > 0
  /\ MaxAttempts \in Nat /\ MaxAttempts > 0 /\ MaxRuns \in Nat /\ MaxRuns > 0
  /\ MaxLate \in Nat /\ MaxTroubles \in Nat
  BY ScheduleAssumption

LEMMA Pairs ==
  /\ \A r \in Runs : Of(r) \in Schedules
  /\ \A t \in Tasks : RunOf(t) \in Runs /\ Of(RunOf(t)) \in Schedules
                      /\ t[2] \in 1..MaxAttempts
  BY DEF Runs, Tasks, Of, RunOf

LEMMA RowsTyped ==
  /\ NoRun \in Rows /\ Unclaimed \in Rows
  /\ Unclaimed.status = "queued" /\ Unclaimed.attempt = 0 /\ Unclaimed.wait = 0
  /\ NoRun.status = "none"
  BY Constants DEF NoRun, Unclaimed, Rows, Statuses, Active, Terminal

(* The next run of a schedule that is due lies ahead, by one period at     *)
(* most.                                                                   *)
LEMMA AdvanceAhead ==
  ASSUME NEW d \in (-MaxLate)..(Period + 1), d <= 0
  PROVE  Advance(d) \in 1..Period
<1> DEFINE n == -d
           k == n \div Period
<1>1. n \in Nat /\ Period \in Nat \ {0}
  BY Constants
<1>2. k \in Nat /\ k * Period <= n /\ n < k * Period + Period
  BY <1>1
<1>3. (k + 1) * Period = k * Period + Period
  BY <1>1, <1>2
<1>4. k * Period \in Nat
  BY <1>1, <1>2
<1>5. Advance(d) = d + (k + 1) * Period
  BY DEF Advance
<1> HIDE DEF k
<1>6. n = -d /\ d \in Int
  BY Constants
<1> HIDE DEF n
<1> QED
  BY <1>1, <1>2, <1>3, <1>4, <1>5, <1>6

(* What became of a lease that ran out.                                    *)
LEMMA ExpireRow ==
  ASSUME NEW row \in Rows
  PROVE  /\ Expire(row) \in Rows
         /\ (row.status = "queued" => row.attempt < MaxAttempts)
              => (Expire(row).status = "queued" => Expire(row).attempt < MaxAttempts)
         /\ row.status # "queued" /\ Expire(row).status = "queued"
              => Expire(row).attempt < MaxAttempts
         /\ Expire(row).status \in Active => row.status \in Active
         /\ Expire(row).status = "running" => Expire(row) = row
         /\ row.status = "running" /\ row.lease > 0 => Expire(row) = row
         /\ row.status \notin Leased => Expire(row) = row
<1>s. /\ {"queued", "failed"} \subseteq Statuses /\ 0 \in 0..Lease /\ 0 \in 0..1
      /\ row.attempt \in 0..MaxAttempts /\ row.lease \in 0..Lease
  BY Constants DEF Statuses, Active, Terminal, Rows
<1>1. CASE row.status \notin Leased \/ row.lease > 0
  <2>1. Expire(row) = row
    BY <1>1 DEF Expire
  <2> QED
    BY <2>1
<1>2. CASE ~(row.status \notin Leased \/ row.lease > 0) /\ row.attempt >= MaxAttempts
  <2>1. Expire(row) = [row EXCEPT !.status = "failed", !.lease = 0]
    BY <1>2 DEF Expire
  <2> QED
    <3>1. Expire(row) \in Rows
      BY <1>s, <2>1 DEF Rows
    <3>2. Expire(row).status = "failed"
      BY <2>1 DEF Rows
    <3> QED
      BY <1>2, <3>1, <3>2 DEF Leased, Active
<1>3. CASE ~(row.status \notin Leased \/ row.lease > 0) /\ ~(row.attempt >= MaxAttempts)
  <2>1. Expire(row) = [row EXCEPT !.status = "queued", !.lease = 0, !.wait = 0]
    BY <1>3 DEF Expire
  <2> QED
    <3>1. Expire(row) \in Rows
      BY <1>s, <2>1 DEF Rows
    <3>2. Expire(row).status = "queued" /\ Expire(row).attempt = row.attempt
      BY <2>1 DEF Rows
    <3> QED
      BY <1>s, <1>3, <3>1, <3>2, Constants DEF Leased, Active
<1> QED
  BY <1>1, <1>2, <1>3

LEMMA ClaimedRow ==
  ASSUME NEW row \in Rows, row.attempt < MaxAttempts
  PROVE  /\ Claimed(row) \in Rows /\ Claimed(row).status = "claimed"
         /\ Claimed(row).attempt \in 1..MaxAttempts
<1>1. /\ "claimed" \in Statuses /\ Lease \in 0..Lease /\ row.attempt + 1 \in 1..MaxAttempts
  BY Constants DEF Statuses, Active, Rows
<1>2. Claimed(row) = [row EXCEPT !.status = "claimed", !.lease = Lease,
                                 !.attempt = row.attempt + 1]
  BY DEF Claimed
<1> QED
  <2>1. Claimed(row) \in Rows
    <3> DEFINE a == row.attempt + 1
    <3>1. a \in 0..MaxAttempts
      BY <1>1
    <3> HIDE DEF a
    <3> QED
      BY <1>1, <1>2, <3>1 DEF Rows, a
  <2>2. Claimed(row).status = "claimed" /\ Claimed(row).attempt = row.attempt + 1
    BY <1>2 DEF Rows
  <2> QED
    BY <1>1, <2>1, <2>2

LEMMA InitHolds == Init => IInv
<1> SUFFICES ASSUME Init
             PROVE  IInv
  OBVIOUS
<1>1. TypeOK
  BY Constants, RowsTyped DEF Init, TypeOK, Rows, Statuses, Places
<1>2. Room
  BY RowsTyped DEF Init, Room
<1>3. \A s \in Schedules : Orderly(s)
  BY RowsTyped DEF Init, Orderly, OneActive, Renewing, OneTask, Held, Executing, Active
<1> QED
  BY <1>1, <1>2, <1>3 DEF IInv

-----------------------------------------------------------------------------
(* Types, and that a queued run may be claimed.                            *)

LEMMA TypeStep ==
  ASSUME TypeOK, Room, [Next]_vars
  PROVE  TypeOK' /\ Room'
<1> USE DEF store, wrapper, history, Places
<1>t. /\ schedule \in [Schedules -> {"new", "on", "off", "tombstone", "gone"}]
      /\ repeats \subseteq Schedules
      /\ due \in [Schedules -> (-MaxLate)..(Period + 1)]
      /\ nth \in [Schedules -> 0..MaxRuns]
      /\ run \in [Runs -> Rows]
      /\ task \in [Tasks -> Places]
      /\ renews \subseteq Tasks /\ up \in BOOLEAN /\ troubles \in 0..MaxTroubles
  BY DEF TypeOK, Rows, Statuses, Places
<1>q. ASSUME /\ schedule' \in [Schedules -> {"new", "on", "off", "tombstone", "gone"}]
             /\ repeats' \subseteq Schedules
             /\ due' \in [Schedules -> (-MaxLate)..(Period + 1)]
             /\ nth' \in [Schedules -> 0..MaxRuns]
             /\ run' \in [Runs -> Rows]
             /\ task' \in [Tasks -> Places]
             /\ renews' \subseteq Tasks /\ up' \in BOOLEAN /\ troubles' \in 0..MaxTroubles
      PROVE  TypeOK'
  BY <1>q DEF TypeOK, Rows, Statuses, Places
<1>f. Trouble => troubles' \in 0..MaxTroubles
  BY <1>t, Constants DEF Trouble
<1>1. CASE \E s \in Schedules : Create(s)
  <2> PICK s \in Schedules : Create(s)
    BY <1>1
  <2>1. due' \in [Schedules -> (-MaxLate)..(Period + 1)]
    BY <1>t, Constants DEF Create
  <2> QED
    BY <1>t, <1>q, <2>1 DEF Create, Room
<1>2. CASE \E s \in Schedules : Delete(s)
  <2> PICK s \in Schedules : Delete(s)
    BY <1>2
  <2>1. run' \in [Runs -> Rows] /\ \A r \in Runs : run'[r] \in {run[r], NoRun}
    BY <1>t, RowsTyped DEF Delete, WithoutRuns
  <2>2. schedule' \in [Schedules -> {"new", "on", "off", "tombstone", "gone"}]
    BY <1>t DEF Delete
  <2>3. Room'
    BY <2>1, RowsTyped DEF Room
  <2> QED
    BY <1>t, <1>q, <2>1, <2>2, <2>3 DEF Delete
<1>3. CASE Scan
  <2> DEFINE expired == [r \in Runs |-> Expire(run[r])]
             new == Due(expired)
             queued == [r \in Runs |->
                          IF Of(r) \in new /\ r[2] = nth[Of(r)] + 1
                            THEN Unclaimed ELSE expired[r]]
             ready == {r \in Runs : /\ queued[r].status = "queued"
                                    /\ queued[r].wait = 0
                                    /\ schedule[Of(r)] # "tombstone"}
  <2>1. expired \in [Runs -> Rows]
    BY <1>t, ExpireRow
  <2>2. \A s \in new : s \in Schedules /\ due[s] <= 0 /\ nth[s] < MaxRuns
    BY DEF Due, DueNow
  <2>3. \A r \in Runs : queued[r] \in Rows
                        /\ (queued[r].status = "queued" => queued[r].attempt < MaxAttempts)
    BY <1>t, <2>1, RowsTyped, ExpireRow, Constants DEF Room
  <2>4. /\ nth' = [s \in Schedules |-> IF s \in new THEN nth[s] + 1 ELSE nth[s]]
        /\ due' = [s \in Schedules |->
                     IF s \in new \cap repeats THEN Advance(due[s]) ELSE due[s]]
        /\ schedule' = [s \in Schedules |->
                          IF s \in new \ repeats THEN "off" ELSE schedule[s]]
        /\ run' = [r \in Runs |-> IF r \in ready THEN Claimed(queued[r]) ELSE queued[r]]
        /\ task' = [t \in Tasks |->
                      IF RunOf(t) \in ready /\ t[2] = run'[RunOf(t)].attempt
                        THEN "claimed" ELSE task[t]]
        /\ UNCHANGED <<repeats, renews, up, history>>
    BY <1>3 DEF Scan
  <2>5. \A r \in ready : r \in Runs /\ queued[r].attempt < MaxAttempts
    BY <2>3
  <2> HIDE DEF expired, queued, ready, new
  <2>6. run' \in [Runs -> Rows]
    BY <2>3, <2>4, <2>5, ClaimedRow
  <2>7. Room'
    BY <2>3, <2>4, <2>5, ClaimedRow DEF Room
  <2>8. due' \in [Schedules -> (-MaxLate)..(Period + 1)]
    <3>1. \A s \in new : Advance(due[s]) \in 1..Period
      BY <1>t, <2>2, AdvanceAhead
    <3>2. \A x \in 1..Period : x \in (-MaxLate)..(Period + 1)
      BY Constants
    <3> QED
      BY <1>t, <2>4, <3>1, <3>2
  <2>9. nth' \in [Schedules -> 0..MaxRuns]
    BY <1>t, <2>2, <2>4, Constants
  <2>10. task' \in [Tasks -> Places]
    BY <1>t, <2>4
  <2>11. schedule' \in [Schedules -> {"new", "on", "off", "tombstone", "gone"}]
    BY <1>t, <2>4
  <2> QED
    BY <1>t, <1>q, <2>4, <2>6, <2>7, <2>8, <2>9, <2>10, <2>11
<1>4. CASE Tick
  <2>1. due' \in [Schedules -> (-MaxLate)..(Period + 1)]
    <3>1. \A s \in Schedules : due[s] \in Int /\ due'[s] \in {due[s], due[s] - 1}
            /\ (due'[s] = due[s] - 1 => due[s] > -MaxLate \/ due'[s] = due[s])
      <4>1. \A s \in Schedules :
              due'[s] = IF schedule[s] = "on" /\ due[s] > -MaxLate THEN due[s] - 1 ELSE due[s]
        BY <1>4 DEF Tick
      <4> QED
        BY <1>t, <4>1, Constants
    <3>2. \A s \in Schedules : due'[s] \in (-MaxLate)..(Period + 1)
      BY <1>t, <3>1, Constants
    <3> QED
      BY <1>4, <3>2 DEF Tick
  <2>2. \A r \in Runs : /\ run'[r] \in Rows
                        /\ run'[r].status = run[r].status /\ run'[r].attempt = run[r].attempt
    <3> SUFFICES ASSUME NEW r \in Runs
                 PROVE  /\ run'[r] \in Rows /\ run'[r].status = run[r].status
                        /\ run'[r].attempt = run[r].attempt
      OBVIOUS
    <3> DEFINE le == IF Renewed(r) /\ run[r].status \in Leased THEN Lease
                                                              ELSE Down(run[r].lease)
               wa == Down(run[r].wait)
    <3>1. run[r] \in Rows /\ le \in 0..Lease /\ wa \in 0..1
      BY <1>t, Constants DEF Rows, Down
    <3>2. run'[r] = [run[r] EXCEPT !.lease = le, !.wait = wa]
      BY <1>4 DEF Tick
    <3> HIDE DEF le, wa
    <3> QED
      BY <3>1, <3>2 DEF Rows
  <2>3. run' \in [Runs -> Rows]
    BY <1>4, <2>2 DEF Tick
  <2> QED
    BY <1>4, <1>t, <1>q, <2>1, <2>2, <2>3 DEF Tick, Room
<1>5. CASE Crash \/ Restart
  BY <1>5, <1>t, <1>f, <1>q DEF Crash, Restart, Room
<1>6. CASE \E t \in Tasks : Mark(t)
  <2> PICK t \in Tasks : Mark(t)
    BY <1>6
  <2>1. \A r \in Runs : run'[r] \in Rows
          /\ \/ run'[r].status = run[r].status /\ run'[r].attempt = run[r].attempt
             \/ run'[r].status = "running"
    <3>1. run[RunOf(t)] \in Rows /\ RunOf(t) \in Runs
      BY <1>t, Pairs
    <3>2. \/ run' = run
          \/ run' = [run EXCEPT ![RunOf(t)] =
                       [run[RunOf(t)] EXCEPT !.status = "running", !.lease = Lease]]
      BY DEF Mark
    <3>3. "running" \in Statuses /\ Lease \in 0..Lease
      BY Constants DEF Statuses, Active
    <3> QED
      <4>1. CASE run' = run
        BY <1>t, <4>1
      <4>2. CASE run' = [run EXCEPT ![RunOf(t)] =
                       [run[RunOf(t)] EXCEPT !.status = "running", !.lease = Lease]]
        <5>1. /\ [run[RunOf(t)] EXCEPT !.status = "running", !.lease = Lease] \in Rows
              /\ [run[RunOf(t)] EXCEPT !.status = "running", !.lease = Lease].status = "running"
          BY <3>1, <3>3 DEF Rows
        <5> QED
          BY <1>t, <3>1, <4>2, <5>1
      <4> QED
        BY <3>2, <4>1, <4>2
  <2>2. run' \in [Runs -> Rows]
    BY <1>t, <2>1 DEF Mark
  <2> QED
    BY <1>t, <1>q, <2>1, <2>2 DEF Mark, Room
<1>7. CASE \E t \in Tasks : Execute(t) \/ TurnCancelled(t) \/ RenewalFails(t)
  BY <1>7, <1>t, <1>f, <1>q DEF Execute, TurnCancelled, RenewalFails, Room
<1>11. CASE \E t \in Tasks : MarkRaises(t) \/ CompleteRaises(t)
  BY <1>11, <1>t, <1>f, <1>q DEF MarkRaises, CompleteRaises, Room
<1>8. CASE \E t \in Tasks : Complete(t)
  <2> PICK t \in Tasks : Complete(t)
    BY <1>8
  <2> DEFINE r == RunOf(t)
  <2>1. r \in Runs /\ Of(r) \in Schedules
    BY Pairs
  <2>2. \/ UNCHANGED <<schedule, run>>
        \/ /\ schedule' = [schedule EXCEPT ![Of(r)] = "gone"]
           /\ run' = WithoutRuns(run, Of(r))
        \/ /\ run' = [run EXCEPT ![r] = [@ EXCEPT !.status = Result(t), !.lease = 0,
                                                 !.wait = IF Retried(t) THEN 1 ELSE 0]]
           /\ UNCHANGED schedule
    BY DEF Complete
  <2>3. schedule' \in [Schedules -> {"new", "on", "off", "tombstone", "gone"}]
    BY <1>t, <2>1, <2>2
  <2>4. /\ Result(t) \in {"succeeded", "queued", "failed"}
        /\ Result(t) = "queued" => run[r].attempt < MaxAttempts
    BY DEF Result, Retried
  <2>5. run' \in [Runs -> Rows] /\ Room'
    <3>1. CASE UNCHANGED <<schedule, run>>
      BY <1>t, <3>1 DEF Room
    <3>2. CASE run' = WithoutRuns(run, Of(r))
      BY <1>t, <3>2, RowsTyped DEF WithoutRuns, Room
    <3>3. CASE run' = [run EXCEPT ![r] = [@ EXCEPT !.status = Result(t), !.lease = 0,
                                                  !.wait = IF Retried(t) THEN 1 ELSE 0]]
      <4> DEFINE row == [run[r] EXCEPT !.status = Result(t), !.lease = 0,
                                       !.wait = IF Retried(t) THEN 1 ELSE 0]
      <4>1. /\ row \in Rows /\ row.status = Result(t) /\ row.attempt = run[r].attempt
        <5>1. run[r] \in Rows /\ Result(t) \in Statuses /\ 0 \in 0..Lease
          BY <1>t, <2>1, <2>4, Constants DEF Statuses, Active, Terminal
        <5>2. (IF Retried(t) THEN 1 ELSE 0) \in 0..1
          OBVIOUS
        <5> QED
          <6> DEFINE st == Result(t)
                     wa == IF Retried(t) THEN 1 ELSE 0
          <6>1. st \in Statuses /\ wa \in 0..1 /\ row = [run[r] EXCEPT !.status = st, !.lease = 0, !.wait = wa]
            BY <5>1, <5>2
          <6>2. st = Result(t)
            OBVIOUS
          <6> HIDE DEF row, st, wa
          <6> QED
            BY <5>1, <6>1, <6>2 DEF Rows
      <4>2. run' = [run EXCEPT ![r] = row]
        BY <3>3
      <4> HIDE DEF row
      <4> QED
        BY <1>t, <2>1, <2>4, <4>1, <4>2 DEF Room
    <3> QED
      BY <2>2, <3>1, <3>2, <3>3
  <2> QED
    BY <1>t, <1>q, <2>3, <2>5 DEF Complete
<1>9. CASE \E r \in Runs : Suspend(r)
  <2> PICK r \in Runs : Suspend(r)
    BY <1>9
  <2>1. \A q \in Runs : run'[q] \in Rows /\ run'[q].status = run[q].status
                        /\ run'[q].attempt = run[q].attempt
    BY <1>t, Constants DEF Suspend, Rows
  <2>2. run' \in [Runs -> Rows]
    BY <1>t, <2>1 DEF Suspend
  <2> QED
    BY <1>t, <1>f, <1>q, <2>1, <2>2 DEF Suspend, Room
<1>10. CASE UNCHANGED vars
  BY <1>10, <1>t, <1>q DEF vars, Room
<1> QED
  BY <1>1, <1>2, <1>3, <1>4, <1>5, <1>6, <1>7, <1>8, <1>9, <1>10, <1>11
     DEF Next, TaskSteps

-----------------------------------------------------------------------------
(* Every schedule stays orderly.                                           *)

(* A step that starts no task of schedule s, and lets none of them go      *)
(* before its result is recorded unless it is cut off.                     *)
LEMMA Undisturbed ==
  ASSUME NEW s \in Schedules, Orderly(s), OneActive(s)',
         \A t \in Tasks : Of(RunOf(t)) = s /\ Executing(t)' =>
           /\ Executing(t)
           /\ run'[RunOf(t)].status = "running" /\ run'[RunOf(t)].lease > 0
           /\ t \in renews',
         Uncut(s)' =>
           /\ Uncut(s)
           /\ \A t \in Tasks : Of(RunOf(t)) = s /\ Executing(t) =>
                \/ Executing(t)'
                \/ run'[RunOf(t)].status # "running" /\ schedule'[s] # "tombstone",
         \A r \in Runs : Of(r) = s /\ run'[r].status = "running" => run[r].status = "running",
         schedule'[s] = "tombstone" =>
           \/ schedule[s] = "tombstone"
           \/ \E r \in Runs : Of(r) = s /\ run[r].status = "running"
  PROVE  Orderly(s)'
<1>1. Renewing(s)'
  BY DEF Renewing
<1>2. OneTask(s)'
  BY DEF Orderly, OneTask
<1>3. ASSUME Uncut(s)'
      PROVE  Held(s)'
  <2>1. Held(s)
    BY <1>3 DEF Orderly
  <2>2. ASSUME NEW r \in Runs, Of(r) = s, run'[r].status = "running"
        PROVE  \E t \in Tasks : Executing(t)' /\ RunOf(t) = r
    <3>1. PICK t \in Tasks : Executing(t) /\ RunOf(t) = r
      BY <2>1, <2>2 DEF Held
    <3> QED
      BY <1>3, <2>2, <3>1
  <2>3. ASSUME schedule'[s] = "tombstone"
        PROVE  \E t \in Tasks : Executing(t)' /\ Of(RunOf(t)) = s
    <3>1. PICK t \in Tasks : Executing(t) /\ Of(RunOf(t)) = s
      BY <2>1, <2>3 DEF Held
    <3> QED
      BY <1>3, <2>3, <3>1
  <2> QED
    BY <2>2, <2>3 DEF Held
<1> QED
  BY <1>1, <1>2, <1>3 DEF Orderly

(* A scan leaves every task at work alone: its run is running, under a     *)
(* lease, so its schedule gets no new run.                                 *)
LEMMA ScanStep ==
  ASSUME TypeOK, Scan, NEW s \in Schedules, Orderly(s)
  PROVE  Orderly(s)'
<1> USE DEF store, wrapper, history, Places
<1>t. /\ run \in [Runs -> Rows] /\ nth \in [Schedules -> 0..MaxRuns]
      /\ schedule \in [Schedules -> {"new", "on", "off", "tombstone", "gone"}]
      /\ task \in [Tasks -> Places]
  BY DEF TypeOK, Rows, Statuses, Places
<1> DEFINE expired == [r \in Runs |-> Expire(run[r])]
           new == Due(expired)
           queued == [r \in Runs |->
                        IF Of(r) \in new /\ r[2] = nth[Of(r)] + 1
                          THEN Unclaimed ELSE expired[r]]
           ready == {r \in Runs : /\ queued[r].status = "queued"
                                  /\ queued[r].wait = 0
                                  /\ schedule[Of(r)] # "tombstone"}
<1>1. /\ schedule' = [x \in Schedules |->
                        IF x \in new \ repeats THEN "off" ELSE schedule[x]]
      /\ run' = [r \in Runs |-> IF r \in ready THEN Claimed(queued[r]) ELSE queued[r]]
      /\ task' = [t \in Tasks |->
                    IF RunOf(t) \in ready /\ t[2] = run'[RunOf(t)].attempt
                      THEN "claimed" ELSE task[t]]
      /\ renews' = renews /\ cut' = cut
  BY DEF Scan
<1>2. \A r \in Runs :
        \/ queued[r].status = "queued" /\ Of(r) \in new /\ r[2] = nth[Of(r)] + 1
        \/ queued[r] = Expire(run[r])
  BY RowsTyped
<1>3. \A r \in Runs : r \notin ready => run'[r] = queued[r]
  BY <1>1
<1>4. \A r \in ready : r \in Runs /\ queued[r].status = "queued"
  OBVIOUS
<1>5. \A r \in ready : run'[r].status = "claimed"
  <2> SUFFICES ASSUME NEW r \in ready
               PROVE  run'[r].status = "claimed"
    OBVIOUS
  <2>1. r \in Runs /\ run'[r] = Claimed(queued[r])
    BY <1>1
  <2>2. queued[r] \in Rows
    BY <1>t, <2>1, RowsTyped, ExpireRow
  <2> QED
    BY <2>1, <2>2 DEF Claimed, Rows
<1>6. \A q \in Runs : Of(q) \in new => Expire(run[q]).status \notin Active
  BY DEF Due
<1> HIDE DEF expired, queued, ready, new
<1>7. \A r \in Runs : run'[r].status \in Active =>
         \/ Of(r) \in new /\ r[2] = nth[Of(r)] + 1
         \/ Of(r) \notin new /\ run[r].status \in Active
  <2> SUFFICES ASSUME NEW r \in Runs, run'[r].status \in Active,
                      ~(Of(r) \in new /\ r[2] = nth[Of(r)] + 1)
               PROVE  Of(r) \notin new /\ run[r].status \in Active
    OBVIOUS
  <2>1. queued[r] = Expire(run[r])
    BY <1>2
  <2>2. queued[r].status \in Active
    BY <1>3, <1>4 DEF Active
  <2> QED
    BY <1>t, <1>6, <2>1, <2>2, ExpireRow
<1>8. \A r \in Runs : run'[r].status = "running" => run[r].status = "running"
  <2> SUFFICES ASSUME NEW r \in Runs, run'[r].status = "running"
               PROVE  run[r].status = "running"
    OBVIOUS
  <2>1. run'[r] = queued[r] /\ queued[r] = Expire(run[r])
    BY <1>2, <1>3, <1>5
  <2> QED
    BY <1>t, <2>1, ExpireRow
<1>9. ASSUME NEW r \in Runs, Of(r) = s, run[r].status = "running", run[r].lease > 0
      PROVE  r \notin ready /\ run'[r] = run[r]
  <2>1. Expire(run[r]) = run[r]
    BY <1>t, <1>9, ExpireRow
  <2>2. Of(r) \notin new
    BY <1>6, <1>9, <2>1 DEF Active
  <2> QED
    BY <1>2, <1>3, <1>4, <1>9, <2>1, <2>2
<1>10. OneActive(s)'
  <2> SUFFICES ASSUME NEW r \in Runs, NEW q \in Runs, Of(r) = s, Of(q) = s,
                      run'[r].status \in Active, run'[q].status \in Active
               PROVE  r = q
    BY DEF OneActive
  <2>1. CASE s \in new
    <3>1. r[2] = nth[s] + 1 /\ q[2] = nth[s] + 1
      BY <1>7, <2>1
    <3> QED
      BY <3>1 DEF Runs, Of
  <2>2. CASE s \notin new
    BY <1>7, <2>2 DEF Orderly, OneActive
  <2> QED
    BY <2>1, <2>2
<1>11. \A t \in Tasks : Of(RunOf(t)) = s /\ Executing(t)' =>
         /\ Executing(t)
         /\ run'[RunOf(t)].status = "running" /\ run'[RunOf(t)].lease > 0
         /\ t \in renews'
  <2> SUFFICES ASSUME NEW t \in Tasks, Of(RunOf(t)) = s, Executing(t)'
               PROVE  /\ Executing(t)
                      /\ run'[RunOf(t)].status = "running" /\ run'[RunOf(t)].lease > 0
                      /\ t \in renews'
    OBVIOUS
  <2>1. Executing(t)
    BY <1>1 DEF Executing
  <2>2. /\ run[RunOf(t)].status = "running" /\ run[RunOf(t)].lease > 0 /\ t \in renews
    BY <2>1 DEF Orderly, Renewing
  <2> QED
    BY <1>1, <1>9, <2>1, <2>2, Pairs
<1>12. \A t \in Tasks : Of(RunOf(t)) = s /\ Executing(t) => Executing(t)'
  <2> SUFFICES ASSUME NEW t \in Tasks, Of(RunOf(t)) = s, Executing(t)
               PROVE  Executing(t)'
    OBVIOUS
  <2>1. RunOf(t) \notin ready
    BY <1>9, Pairs DEF Orderly, Renewing
  <2> QED
    BY <1>1, <2>1 DEF Executing
<1>13. schedule'[s] = "tombstone" => schedule[s] = "tombstone"
  BY <1>1
<1>14. Uncut(s)' => Uncut(s)
  BY <1>1 DEF Uncut
<1> QED
  BY <1>8, <1>10, <1>11, <1>12, <1>13, <1>14, Undisturbed

(* A claimed run begins: it is the only active one of its schedule, so no  *)
(* task of the schedule is at work yet.                                    *)
LEMMA MarkStep ==
  ASSUME TypeOK, NEW t \in Tasks, Mark(t), NEW s \in Schedules, Orderly(s)
  PROVE  Orderly(s)'
<1>t. /\ run \in [Runs -> Rows] /\ RunOf(t) \in Runs /\ Lease > 0
      /\ task \in [Tasks -> Places]
  BY Pairs, Constants DEF TypeOK, Rows, Statuses, Places
<1>1. schedule' = schedule /\ cut' = cut /\ task[t] = "claimed"
  BY DEF Mark, history
<1>2. CASE ~Markable(RunOf(t))
  <2>1. run' = run /\ renews' = renews /\ task' = [task EXCEPT ![t] = "over"]
    BY <1>2 DEF Mark
  <2>2. \A u \in Tasks : Executing(u)' <=> Executing(u)
    BY <1>t, <1>1, <2>1 DEF Executing
  <2>3. OneActive(s)'
    BY <2>1 DEF Orderly, OneActive
  <2>4. \A u \in Tasks : Of(RunOf(u)) = s /\ Executing(u)' =>
          /\ Executing(u) /\ run'[RunOf(u)].status = "running"
          /\ run'[RunOf(u)].lease > 0 /\ u \in renews'
    BY <2>1, <2>2 DEF Orderly, Renewing
  <2>5. Uncut(s)' => Uncut(s)
    BY <1>1 DEF Uncut
  <2> QED
    BY <1>1, <2>1, <2>2, <2>3, <2>4, <2>5, Undisturbed
<1>3. CASE Markable(RunOf(t))
  <2> DEFINE row == [run[RunOf(t)] EXCEPT !.status = "running", !.lease = Lease]
  <2>1. /\ run' = [run EXCEPT ![RunOf(t)] = row] /\ renews' = renews \cup {t}
        /\ task' = [task EXCEPT ![t] = "work"]
    BY <1>3 DEF Mark
  <2>2. row.status = "running" /\ row.lease = Lease
    BY <1>t DEF Rows
  <2>3. run[RunOf(t)].status = "claimed"
    BY <1>3 DEF Markable
  <2> HIDE DEF row
  <2>4. \A u \in Tasks : Executing(u)' <=> Executing(u) \/ u = t
    BY <1>t, <1>1, <2>1 DEF Executing
  <2>5. \A r \in Runs : r # RunOf(t) => run'[r] = run[r]
    BY <1>t, <2>1
  <2>6. run'[RunOf(t)] = row
    BY <1>t, <2>1
  <2>7. OneActive(s)'
    BY <2>2, <2>3, <2>5, <2>6 DEF Orderly, OneActive, Active
  <2>8. ASSUME NEW u \in Tasks, Of(RunOf(u)) = s, Executing(u), Of(RunOf(t)) = s
        PROVE  FALSE
    <3>1. run[RunOf(u)].status = "running"
      BY <2>8 DEF Orderly, Renewing
    <3> QED
      BY <1>t, <2>3, <2>8, <3>1, Pairs DEF Orderly, OneActive, Active
  <2>9. Renewing(s)'
    <3> SUFFICES ASSUME NEW u \in Tasks, Executing(u)', Of(RunOf(u)) = s
                 PROVE  /\ run'[RunOf(u)].status = "running" /\ run'[RunOf(u)].lease > 0
                        /\ u \in renews'
      BY DEF Renewing
    <3>1. CASE u = t
      BY <1>t, <2>1, <2>2, <2>6, <3>1
    <3>2. CASE u # t
      <4>1. Executing(u)
        BY <2>4, <3>2
      <4>2. /\ run[RunOf(u)].status = "running" /\ run[RunOf(u)].lease > 0
            /\ u \in renews
        BY <4>1 DEF Orderly, Renewing
      <4>3. RunOf(u) # RunOf(t)
        BY <2>3, <4>2
      <4> QED
        BY <2>1, <2>5, <4>2, <4>3, Pairs
    <3> QED
      BY <3>1, <3>2
  <2>10. OneTask(s)'
    BY <2>4, <2>8 DEF Orderly, OneTask
  <2>11. ASSUME Uncut(s)'
         PROVE  Held(s)'
    <3>1. Held(s)
      BY <1>1, <2>11 DEF Uncut, Orderly
    <3> QED
      BY <1>1, <2>4, <2>5, <3>1 DEF Held
  <2> QED
    BY <2>7, <2>9, <2>10, <2>11 DEF Orderly
<1> QED
  BY <1>2, <1>3

LEMMA OrderlyStep ==
  ASSUME TypeOK, Room, [Next]_vars, NEW s \in Schedules,
         Regular(s) => Orderly(s), Regular(s)'
  PROVE  Orderly(s)'
<1> USE DEF store, wrapper, history, Places
<1>t. /\ schedule \in [Schedules -> {"new", "on", "off", "tombstone", "gone"}]
      /\ run \in [Runs -> Rows]
      /\ task \in [Tasks -> Places]
      /\ renews \subseteq Tasks
  BY DEF TypeOK, Rows, Statuses, Places
<1>l. lapsed \subseteq lapsed' /\ strayed \subseteq strayed' /\ cut \subseteq cut'
  BY DEF Next, vars, Create, Delete, Scan, Tick, Crash, Restart, TaskSteps, Mark, Execute,
         Complete, TurnCancelled, RenewalFails, Suspend, MarkRaises, CompleteRaises
<1>i. Regular(s)
  BY <1>l DEF Regular, InTime
<1>o. /\ Orderly(s) /\ OneActive(s) /\ Renewing(s) /\ OneTask(s)
      /\ Uncut(s) => Held(s)
  BY <1>i DEF Orderly
<1>u. Uncut(s)' => Uncut(s)
  BY <1>l DEF Uncut
(* Steps that leave the rows of the runs as they are.                      *)
<1>q. ASSUME run' = run, schedule'[s] = "tombstone" => schedule[s] = "tombstone",
             \A t \in Tasks : Of(RunOf(t)) = s /\ Executing(t)' => Executing(t) /\ t \in renews',
             \A t \in Tasks : Uncut(s)' /\ Of(RunOf(t)) = s /\ Executing(t) => Executing(t)'
      PROVE  Orderly(s)'
  <2>1. OneActive(s)'
    BY <1>o, <1>q DEF OneActive
  <2>2. \A t \in Tasks : Of(RunOf(t)) = s /\ Executing(t)' =>
          /\ Executing(t) /\ run'[RunOf(t)].status = "running"
          /\ run'[RunOf(t)].lease > 0 /\ t \in renews'
    BY <1>o, <1>q DEF Renewing
  <2> QED
    BY <1>o, <1>q, <1>u, <2>1, <2>2, Undisturbed
<1>1. CASE \E x \in Schedules : Create(x)
  <2> PICK x \in Schedules : Create(x)
    BY <1>1
  <2>1. run' = run /\ task' = task /\ renews' = renews
        /\ (schedule'[s] = "tombstone" => schedule[s] = "tombstone")
    BY <1>t DEF Create
  <2> QED
    BY <1>o, <1>q, <2>1 DEF Executing, Renewing
<1>2. CASE \E x \in Schedules : Delete(x)
  <2> PICK x \in Schedules : Delete(x)
    BY <1>2
  <2>1. task' = task /\ renews' = renews
    BY DEF Delete
  <2>2. \A r \in Runs : run'[r] \in {run[r], NoRun}
    BY <1>t DEF Delete, WithoutRuns
  <2>3. \A r \in Runs : run[r].status = "running" /\ Of(r) = s =>
          run'[r] = run[r]
    BY <1>t DEF Delete, WithoutRuns, Kept
  <2>4. OneActive(s)'
    BY <1>o, <2>2, RowsTyped DEF OneActive, Active
  <2>5. \A t \in Tasks : Of(RunOf(t)) = s /\ Executing(t)' =>
          /\ Executing(t) /\ run'[RunOf(t)].status = "running"
          /\ run'[RunOf(t)].lease > 0 /\ t \in renews'
    BY <1>o, <2>1, <2>3, Pairs DEF Renewing, Executing
  <2>6. \A r \in Runs : Of(r) = s /\ run'[r].status = "running" => run[r].status = "running"
    BY <2>2, RowsTyped
  <2>7. schedule'[s] = "tombstone" =>
          schedule[s] = "tombstone" \/ \E r \in Runs : Of(r) = s /\ run[r].status = "running"
    BY <1>t DEF Delete, Kept
  <2>8. \A t \in Tasks : Executing(t)' <=> Executing(t)
    BY <2>1 DEF Executing
  <2> QED
    BY <1>o, <1>u, <2>4, <2>5, <2>6, <2>7, <2>8, Undisturbed
<1>3. CASE Scan
  BY <1>3, <1>o, ScanStep
<1>4. CASE Tick
  <2>1. task' = task /\ schedule' = schedule
    BY <1>4 DEF Tick
  <2>2. \A r \in Runs : /\ run'[r].status = run[r].status
                        /\ Renewed(r) /\ run[r].status = "running" => run'[r].lease = Lease
    BY <1>4, <1>t DEF Tick, Rows, Leased
  <2>3. OneActive(s)'
    BY <1>o, <2>2 DEF OneActive
  <2>4. \A t \in Tasks : Of(RunOf(t)) = s /\ Executing(t)' =>
          /\ Executing(t) /\ run'[RunOf(t)].status = "running"
          /\ run'[RunOf(t)].lease > 0 /\ t \in renews'
    <3> SUFFICES ASSUME NEW t \in Tasks, Of(RunOf(t)) = s, Executing(t)'
                 PROVE  /\ Executing(t) /\ run'[RunOf(t)].status = "running"
                        /\ run'[RunOf(t)].lease > 0 /\ t \in renews'
      OBVIOUS
    <3>1. Executing(t)
      BY <2>1 DEF Executing
    <3>2. run[RunOf(t)].status = "running" /\ t \in renews /\ RunOf(t) \in Runs
      BY <1>o, <3>1, Pairs DEF Renewing
    <3>3. Renewed(RunOf(t)) /\ t \in renews'
      BY <1>4, <3>2 DEF Renewed, Tick, Leased
    <3> QED
      BY <2>2, <3>1, <3>2, <3>3, Constants
  <2>5. \A t \in Tasks : Executing(t)' <=> Executing(t)
    BY <2>1 DEF Executing
  <2> QED
    BY <1>o, <1>u, <2>1, <2>2, <2>3, <2>4, <2>5, Undisturbed
<1>5. CASE Crash
  <2>1. run' = run /\ schedule' = schedule
    BY <1>5 DEF Crash
  <2>2. \A t \in Tasks : ~Executing(t)'
    BY <1>5, <1>t DEF Crash, Executing, Busy
  <2>3. \A t \in Tasks : Executing(t) /\ Of(RunOf(t)) = s => ~Uncut(s)'
    BY <1>5 DEF Crash, Uncut, Busy
  <2> QED
    BY <1>q, <2>1, <2>2, <2>3
<1>6. CASE Restart
  BY <1>6, <1>o, <1>q DEF Restart, Executing, Renewing
<1>7. CASE \E t \in Tasks : Mark(t)
  BY <1>7, <1>o, MarkStep
<1>8. CASE \E t \in Tasks : Execute(t)
  <2> PICK t \in Tasks : Execute(t)
    BY <1>8
  <2>1. run' = run /\ schedule' = schedule /\ renews' = renews
    BY DEF Execute
  <2>2. \A u \in Tasks : Executing(u)' <=> Executing(u)
    BY <1>t DEF Execute, Executing
  <2> QED
    BY <1>o, <1>q, <2>1, <2>2 DEF Renewing
<1>9. CASE \E t \in Tasks : TurnCancelled(t)
  <2> PICK t \in Tasks : TurnCancelled(t)
    BY <1>9
  <2>1. run' = run /\ schedule' = schedule /\ renews' = renews \ {t}
    BY DEF TurnCancelled
  <2>2. \A u \in Tasks : Executing(u)' <=> Executing(u) /\ u # t
    BY <1>t DEF TurnCancelled, Executing
  <2>3. Of(RunOf(t)) = s => ~Uncut(s)'
    BY Pairs DEF TurnCancelled, Uncut
  <2> QED
    BY <1>o, <1>q, <2>1, <2>2, <2>3 DEF Renewing
<1>10. CASE \E t \in Tasks : RenewalFails(t)
  <2> PICK t \in Tasks : RenewalFails(t)
    BY <1>10
  <2>1. run' = run /\ schedule' = schedule /\ task' = task /\ renews' = renews \ {t}
    BY DEF RenewalFails
  <2>2. Of(RunOf(t)) # s
    BY DEF RenewalFails, Regular, InTime
  <2> QED
    BY <1>o, <1>q, <2>1, <2>2 DEF Renewing, Executing
<1>11. CASE \E t \in Tasks : Complete(t)
  <2> PICK t \in Tasks : Complete(t)
    BY <1>11
  <2> DEFINE r == RunOf(t)
             row == [run[r] EXCEPT !.status = Result(t), !.lease = 0,
                                   !.wait = IF Retried(t) THEN 1 ELSE 0]
  <2>1. r \in Runs /\ Of(r) \in Schedules /\ (Executing(t) \/ task[t] = "unmarked")
    BY Pairs DEF Complete, Reports, Executing
  <2>2. \A u \in Tasks : Executing(u)' <=> Executing(u) /\ u # t
    BY <1>t DEF Complete, Executing
  <2>3. renews' = renews \ {t}
    BY DEF Complete
  <2>4. \/ run[r].status = "none" /\ UNCHANGED <<schedule, run>>
        \/ /\ schedule' = [schedule EXCEPT ![Of(r)] = "gone"]
           /\ run' = WithoutRuns(run, Of(r))
        \/ /\ run' = [run EXCEPT ![r] = row]
           /\ schedule[Of(r)] # "tombstone"
           /\ UNCHANGED schedule
    BY DEF Complete
  <2>5. row.status \in {"succeeded", "queued", "failed"}
    <3> DEFINE st == Result(t)
               wa == IF Retried(t) THEN 1 ELSE 0
    <3>1. st \in {"succeeded", "queued", "failed"} /\ run[r] \in Rows
          /\ row = [run[r] EXCEPT !.status = st, !.lease = 0, !.wait = wa]
      BY <1>t, <2>1 DEF Result
    <3> HIDE DEF row, st, wa
    <3> QED
      BY <3>1 DEF Rows
  <2> HIDE DEF row
  <2>6. \A q \in Runs :
          \/ run'[q] = run[q]
          \/ Of(q) = Of(r) /\ run'[q] = NoRun
          \/ q = r /\ run'[q] = row
    BY <1>t, <2>1, <2>4 DEF WithoutRuns
  <2>7. \A q \in Runs : Of(q) = s /\ run'[q].status = "running" => run[q].status = "running"
    BY <2>5, <2>6, RowsTyped
  <2>8. schedule'[s] = "tombstone" => schedule[s] = "tombstone"
    BY <1>t, <2>1, <2>4
  <2>9. CASE Of(r) # s
    <3>1. \A q \in Runs : Of(q) = s => run'[q] = run[q]
      BY <2>6, <2>9
    <3>2. OneActive(s)'
      BY <1>o, <3>1 DEF OneActive
    <3>3. \A u \in Tasks : Of(RunOf(u)) = s /\ Executing(u)' =>
            /\ Executing(u) /\ run'[RunOf(u)].status = "running"
            /\ run'[RunOf(u)].lease > 0 /\ u \in renews'
      BY <1>o, <2>2, <2>3, <2>9, <3>1, Pairs DEF Renewing
    <3> QED
      BY <1>o, <1>u, <2>2, <2>7, <2>8, <2>9, <3>2, <3>3, Undisturbed
  <2>10. CASE Of(r) = s /\ Executing(t)
    <3>1. run[r].status = "running"
      BY <1>o, <2>1, <2>10 DEF Renewing
    <3>2. \A u \in Tasks : Executing(u) /\ Of(RunOf(u)) = s => u = t
      BY <1>o, <2>1, <2>10 DEF OneTask
    <3>3. OneActive(s)'
      BY <1>o, <2>1, <2>6, <2>10, <3>1, RowsTyped DEF OneActive, Active
    <3>4. \A u \in Tasks : ~(Of(RunOf(u)) = s /\ Executing(u)')
      BY <2>2, <3>2
    <3>5. run'[r].status # "running" /\ schedule'[s] # "tombstone"
      BY <1>t, <2>1, <2>4, <2>5, <2>10, <3>1, RowsTyped DEF WithoutRuns
    <3> QED
      BY <1>o, <1>u, <2>7, <2>8, <3>2, <3>3, <3>4, <3>5, Undisturbed
  (* A task that never began: the row is not that of an attempt that did.  *)
  <2>11. CASE Of(r) = s /\ task[t] = "unmarked" /\ run[r].status # "none"
    <3>1. run[r].status \in {"queued", "claimed"}
      <4>1. r \notin strayed'
        BY <2>1, <2>11 DEF Regular
      <4>2. run[r].status \in Statuses
        BY <1>t, <2>1 DEF Rows
      <4> QED
        BY <2>11, <4>1, <4>2 DEF Complete, Statuses, Active, Terminal
    <3>2. \A u \in Tasks : Executing(u) => u # t
      BY <2>11 DEF Executing
    <3>3. \A u \in Tasks : ~(Of(RunOf(u)) = s /\ Executing(u))
      <4> SUFFICES ASSUME NEW u \in Tasks, Of(RunOf(u)) = s, Executing(u)
                   PROVE  FALSE
        OBVIOUS
      <4>1. run[RunOf(u)].status = "running"
        BY <1>o DEF Renewing
      <4> QED
        BY <1>o, <2>1, <2>11, <3>1, <4>1, Pairs DEF OneActive, Active
    <3>4. OneActive(s)'
      BY <1>o, <2>1, <2>6, <2>11, <3>1, RowsTyped DEF OneActive, Active
    <3> QED
      BY <1>o, <1>u, <2>2, <2>7, <2>8, <3>3, <3>4, Undisturbed
  <2>12. CASE run[r].status = "none" /\ task[t] = "unmarked"
    <3>1. run' = run /\ schedule' = schedule
      BY <2>4, <2>12 DEF Complete
    <3>2. \A u \in Tasks : Executing(u)' <=> Executing(u)
      BY <2>2, <2>12 DEF Executing
    <3> QED
      BY <1>o, <1>q, <2>3, <2>12, <3>1, <3>2 DEF Renewing, Executing
  <2> QED
    BY <2>1, <2>9, <2>10, <2>11, <2>12
<1>14. CASE \E t \in Tasks : MarkRaises(t) \/ CompleteRaises(t)
  <2> PICK t \in Tasks : MarkRaises(t) \/ CompleteRaises(t)
    BY <1>14
  <2>1. run' = run /\ schedule' = schedule
    BY DEF MarkRaises, CompleteRaises
  <2>2. \A u \in Tasks : u # t => (Executing(u)' <=> Executing(u))
                         /\ (u \in renews' <=> u \in renews)
    BY <1>t DEF MarkRaises, CompleteRaises, Executing
  <2>3. /\ Executing(t)' => Executing(t) /\ renews' = renews
        /\ Executing(t) => Executing(t)' \/ RunOf(t) \in cut'
    BY <1>t DEF MarkRaises, CompleteRaises, Reports, Executing
  <2> QED
    BY <1>o, <1>q, <2>1, <2>2, <2>3 DEF Renewing, Uncut
<1>12. CASE \E r \in Runs : Suspend(r)
  <2> PICK r \in Runs : Suspend(r)
    BY <1>12
  <2>1. task' = task /\ schedule' = schedule /\ renews' = renews
    BY DEF Suspend
  <2>2. Of(r) # s
    BY DEF Suspend, Regular, InTime
  <2>3. \A q \in Runs : Of(q) = s => run'[q] = run[q]
    BY <1>t, <2>2 DEF Suspend
  <2>4. OneActive(s)'
    BY <1>o, <2>3 DEF OneActive
  <2>5. \A t \in Tasks : Of(RunOf(t)) = s /\ Executing(t)' =>
          /\ Executing(t) /\ run'[RunOf(t)].status = "running"
          /\ run'[RunOf(t)].lease > 0 /\ t \in renews'
    BY <1>o, <2>1, <2>3, Pairs DEF Renewing, Executing
  <2>6. \A t \in Tasks : Executing(t)' <=> Executing(t)
    BY <2>1 DEF Executing
  <2> QED
    BY <1>o, <1>u, <2>1, <2>3, <2>4, <2>5, <2>6, Undisturbed
<1>13. CASE UNCHANGED vars
  BY <1>13, <1>o, <1>q DEF vars, Executing, Renewing
<1> QED
  BY <1>1, <1>2, <1>3, <1>4, <1>5, <1>6, <1>7, <1>8, <1>9, <1>10, <1>11, <1>12, <1>13, <1>14
     DEF Next, TaskSteps

-----------------------------------------------------------------------------
(* The theorems.                                                           *)

(* The types, and what is the case of every regular schedule, hold in      *)
(* every reachable state of the scheduler.                                 *)
THEOREM Invariance == Spec => []IInv
<1>1. IInv /\ [Next]_vars => IInv'
  <2> SUFFICES ASSUME IInv, [Next]_vars
               PROVE  IInv'
    OBVIOUS
  <2>1. TypeOK' /\ Room'
    BY TypeStep DEF IInv
  <2>2. ASSUME NEW s \in Schedules, Regular(s)'
        PROVE  Orderly(s)'
    BY <2>2, OrderlyStep DEF IInv
  <2> QED
    BY <2>1, <2>2 DEF IInv
<1> QED
  BY InitHolds, <1>1, PTL DEF Spec

(* A schedule whose leases are renewed in time, and into whose runs no     *)
(* task reports that never began one another attempt has begun, is         *)
(* executed by one task at a time, and never once its run has succeeded;   *)
(* no run is claimed more than MaxAttempts times, regular or not.          *)
THEOREM OneExecution == Spec => []ExecutedOnce
<1>1. IInv => ExecutedOnce
  <2> SUFFICES ASSUME IInv
               PROVE  ExecutedOnce
    OBVIOUS
  <2>1. ASSUME NEW t \in Tasks, Executing(t), Regular(Of(RunOf(t)))
        PROVE  /\ run[RunOf(t)].status \notin Terminal
               /\ \A u \in Tasks \ {t} : Executing(u) => Of(RunOf(u)) # Of(RunOf(t))
    <3>1. Orderly(Of(RunOf(t)))
      BY <2>1, Pairs DEF IInv
    <3> QED
      BY <2>1, <3>1 DEF Orderly, Renewing, OneTask, Terminal
  <2> QED
    BY <2>1 DEF IInv, ExecutedOnce
<1> QED
  BY Invariance, <1>1, PTL

(* The task that executes a run finds its row to record the result in, and *)
(* the tombstone of a deleted schedule has a task that will remove it.     *)
THEOREM TombstonesGo == Spec => []DeletedLater
<1>1. IInv => DeletedLater
  <2> SUFFICES ASSUME IInv
               PROVE  DeletedLater
    OBVIOUS
  <2>1. ASSUME NEW t \in Tasks, Executing(t), Regular(Of(RunOf(t)))
        PROVE  run[RunOf(t)].status = "running"
    BY <2>1, Pairs DEF IInv, Orderly, Renewing
  <2>2. ASSUME NEW s \in Schedules, schedule[s] = "tombstone", Regular(s), Uncut(s)
        PROVE  \E t \in Tasks : Executing(t) /\ Of(RunOf(t)) = s
    BY <2>2 DEF IInv, Orderly, Held
  <2> QED
    BY <2>1, <2>2 DEF DeletedLater, Uncut
<1> QED
  BY Invariance, <1>1, PTL
=============================================================================
