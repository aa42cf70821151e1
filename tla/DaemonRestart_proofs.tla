------------------------ MODULE DaemonRestart_proofs ------------------------
(***************************************************************************)
(* Proofs about DaemonRestart, for every number of hooks, detached or not, *)
(* of sessions, crashes, deadlines and turns.                              *)
(***************************************************************************)
EXTENDS DaemonRestart, TLAPS

-----------------------------------------------------------------------------
(* The inductive invariant.                                                *)

CountOK ==
  /\ DOMAIN count = {"crashes", "late", "turns"}
  /\ count.crashes \in Nat /\ count.late \in Nat /\ count.turns \in Nat

(* A marker names a hook, unless nothing was published.                    *)
WellFormed(m) == m = NoMarker \/ (m.epoch \in Hooks /\ m.phase # "none")

(* The hooks that published are those that began.                          *)
Begun ==
  \A h \in Hooks :
    at[h] # "new" <=> \E i \in 1..Len(published) : published[i] = h

(* Who may have written a ready marker of epoch h: a worker that is done,  *)
(* after a restart that succeeded.                                         *)
Restored(h) == at[h] = "done" /\ h \in succeeded

(* The marker: its hook is still at work while it says restarting, unless  *)
(* somebody was killed, and no deadline passes then unless one came early. *)
MarkerInv ==
  /\ WellFormed(marker)
  /\ published = <<>> => marker = NoMarker
  /\ \A h \in Hooks :
       marker.epoch = h =>
         /\ at[h] \notin {"new", "done"} => marker.phase = "restarting"
         /\ at[h] = "done" /\ marker.phase = "restarting" => count.crashes > 0
         /\ at[h] # "done" /\ marker.late => count.late > 0
         /\ marker.phase = "ready" => Restored(h)

(* A restart that succeeded replaced the daemon after its hook published.  *)
RestartInv ==
  \A h \in succeeded : at[h] # "new" /\ gen > before[h]

(* What sessions remember of markers was written by hooks that are done.   *)
SeenInv ==
  \A s \in Sessions :
    /\ WellFormed(seen[s])
    /\ seen[s].phase = "ready" => Restored(seen[s].epoch)
    /\ label[s] # NoEpoch => Restored(label[s])

(* No barrier was abandoned and no synchronous restart was overtaken.      *)
Clean == count.crashes + count.late = 0 /\ ~Overtaken

(* The official restart runs behind a barrier: that of its own hook, or of *)
(* a newer one that waits for the worker lock.                             *)
Barrier ==
  \A h \in Hooks :
    at[h] = "run" => marker.epoch = h \/
                     \E k \in Hooks : marker.epoch = k /\ at[k] \in {"spawn", "queued"}

(* A running turn whose daemon was replaced has a switch to follow.        *)
Followed ==
  \A s \in Sessions : turn[s] = "running" /\ conn[s] # gen => Switched(s)

IInv ==
  /\ TypeOK /\ CountOK
  /\ NewestMarker /\ Begun /\ MarkerInv /\ RestartInv /\ SeenInv /\ LabelTrue
  /\ HandedOver
  /\ Clean => Barrier /\ Followed

-----------------------------------------------------------------------------
(* Facts about the invariant that several steps need.                      *)

(* A hook that published is not new, the newest of them is in the marker.  *)
LEMMA MarkerFacts ==
  ASSUME IInv
  PROVE  /\ \A h \in Hooks : marker.epoch = h => at[h] # "new"
         /\ \A h \in Hooks : marker.phase = "restarting" => marker.epoch \in Hooks
         /\ \A s \in Sessions : label[s] # NoEpoch => label[s] \in Hooks
         /\ NoEpoch \notin Hooks
<1>1. NoEpoch \notin Hooks
  BY RestartAssumption DEF NoEpoch
<1>2. ASSUME NEW h \in Hooks, marker.epoch = h
      PROVE  at[h] # "new"
  <2>1. published # <<>>
    BY <1>1, <1>2 DEF IInv, MarkerInv, NoMarker
  <2>2. published[Len(published)] = h /\ Len(published) \in 1..Len(published)
    BY <1>2, <2>1 DEF IInv, NewestMarker, TypeOK
  <2> QED
    BY <2>2 DEF IInv, Begun
<1>3. marker.phase = "restarting" => marker.epoch \in Hooks
  BY DEF IInv, MarkerInv, WellFormed, NoMarker
<1>4. \A s \in Sessions : label[s] # NoEpoch => label[s] \in Hooks
  BY DEF IInv, TypeOK
<1> QED
  BY <1>1, <1>2, <1>3, <1>4

(* A synchronous hook that was not overtaken is the newest one.            *)
LEMMA NotOvertaken ==
  ASSUME IInv, ~Overtaken, NEW h \in Hooks \ Detached, at[h] # "new"
  PROVE  marker.epoch = h
<1>1. PICK i \in 1..Len(published) : published[i] = h
  BY DEF IInv, Begun
<1>2. i = Len(published)
  BY <1>1 DEF Overtaken, IInv, TypeOK
<1> QED
  BY <1>1, <1>2 DEF IInv, NewestMarker

LEMMA InitHolds == Init => IInv
  BY RestartAssumption
     DEF Init, IInv, TypeOK, CountOK, NewestMarker, Begun, MarkerInv, WellFormed,
         RestartInv, SeenInv, LabelTrue, HandedOver, Clean, Barrier, Followed,
         NoMarker, NoEpoch, Markers

-----------------------------------------------------------------------------
(* The hooks' steps.                                                       *)

(* A step of a hook that publishes nothing and replaces no daemon.         *)
LEMMA MovesOn ==
  ASSUME IInv, NEW h \in Hooks, NEW place, Goto(h, place),
         at[h] \notin {"new", "done"},
         place \in {"queued", "check", "grace", "run", "stale", "done"},
         UNCHANGED <<marker, succeeded, gen, sessions, history>>,
         place = "done" => ~Current(h),
         place = "run" => Current(h) \/ (h \notin Detached /\ at[h] = "queued"),
         place = "queued" <=> at[h] = "spawn",
         at[h] = "queued" => \A k \in Hooks : at[k] # "run"
  PROVE  IInv'
<1> USE DEF IInv, history, sessions, Goto
<1>t. at \in [Hooks -> {"new", "spawn", "queued", "check", "grace", "run", "ran",
                        "stale", "outcome", "done"}]
  BY DEF TypeOK
<1>1. TypeOK' /\ CountOK' /\ NewestMarker' /\ RestartInv' /\ LabelTrue'
      /\ HandedOver'
  BY <1>t DEF TypeOK, CountOK, NewestMarker, RestartInv, LabelTrue, HandedOver,
              Overtaken
<1>2. Begun'
  BY <1>t DEF Begun
<1>3. MarkerInv'
  BY <1>t DEF MarkerInv, WellFormed, Restored, Current
<1>4. SeenInv'
  BY <1>t DEF SeenInv, WellFormed, Restored, TypeOK, NoMarker, NoEpoch
<1>5. Clean' => Clean
  BY DEF Clean, Overtaken
<1>6. ASSUME Clean'
      PROVE  Barrier'
  <2>1. SUFFICES ASSUME NEW g \in Hooks, at'[g] = "run"
                 PROVE  marker.epoch = g \/
                        \E k \in Hooks :
                          marker.epoch = k /\ at'[k] \in {"spawn", "queued"}
    BY DEF Barrier
  <2>2. CASE g # h
    <3>1. at[g] = "run" /\ at[h] # "queued"
      BY <1>t, <2>1, <2>2
    <3>2. CASE marker.epoch = g
      BY <3>2
    <3>3. CASE \E k \in Hooks : marker.epoch = k /\ at[k] \in {"spawn", "queued"}
      BY <1>t, <3>1, <3>3
    <3> QED
      BY <3>1, <3>2, <3>3, <1>5, <1>6 DEF Barrier
  <2>3. CASE g = h
    <3>1. CASE Current(h)
      BY <2>3, <3>1 DEF Current
    <3>2. CASE h \notin Detached
      BY <1>5, <1>6, <2>3, <3>2, NotOvertaken DEF Clean
    <3> QED
      BY <1>t, <2>1, <2>3, <3>1, <3>2
  <2> QED
    BY <2>2, <2>3
<1>7. Clean' => Followed'
  BY <1>5 DEF Followed, Switched, Marker
<1> QED
  BY <1>1, <1>2, <1>3, <1>4, <1>6, <1>7

LEMMA PublishStep ==
  ASSUME IInv, NEW h \in Hooks, Publish(h)
  PROVE  IInv'
<1> USE DEF IInv, Publish, Write, Goto, sessions
<1>n. NoEpoch \notin Hooks
  BY RestartAssumption DEF NoEpoch
<1>t. /\ at \in [Hooks -> {"new", "spawn", "queued", "check", "grace", "run",
                           "ran", "stale", "outcome", "done"}]
      /\ before \in [Hooks -> 0..gen] /\ gen \in Nat
      /\ published \in Seq(Hooks) /\ succeeded \subseteq Hooks
  BY DEF TypeOK
<1>1. TypeOK' /\ CountOK'
  BY <1>t DEF TypeOK, CountOK, Markers
<1>2. NewestMarker'
  BY <1>t DEF NewestMarker
<1>3. Begun'
  <2>1. \A k \in Hooks : at'[k] # "new" <=> at[k] # "new" \/ k = h
    BY <1>t
  <2>2. /\ Len(published') = Len(published) + 1 /\ Len(published) \in Nat
        /\ \A i \in 1..Len(published) : published'[i] = published[i]
        /\ published'[Len(published) + 1] = h
    BY <1>t
  <2> QED
    BY <2>1, <2>2 DEF Begun
<1>4. MarkerInv'
  <2>1. published' # <<>>
    BY <1>t
  <2>2. at'[h] \notin {"new", "done"}
    BY <1>t
  <2> QED
    BY <2>1, <2>2 DEF MarkerInv, WellFormed
<1>5. RestartInv'
  BY <1>t DEF RestartInv
<1>6. SeenInv'
  BY <1>t, <1>n, MarkerFacts DEF SeenInv, WellFormed, Restored, TypeOK, NoMarker
<1>7. LabelTrue'
  BY <1>t, MarkerFacts DEF LabelTrue, SeenInv, Restored
<1>8. Overtaken => Overtaken'
  <2>1. /\ Len(published') = Len(published) + 1 /\ Len(published) \in Nat
        /\ \A i \in 1..Len(published) : published'[i] = published[i]
    BY <1>t
  <2> QED
    BY <2>1 DEF Overtaken
<1>9. HandedOver' /\ (Clean' => Clean)
  BY <1>8 DEF HandedOver, Clean
<1>10. Clean' => Barrier'
  BY <1>t DEF Barrier
<1>11. Clean' => Followed'
  <2>1. marker'.epoch = h /\ marker' # NoMarker /\ Marker' = marker'
    BY <1>n DEF Marker, NoMarker
  <2>2. \A s \in Sessions : label[s] # h
    BY <1>n DEF SeenInv, Restored
  <2> QED
    BY <2>1, <2>2 DEF Followed, Switched
<1> QED
  BY <1>1, <1>2, <1>3, <1>4, <1>5, <1>6, <1>7, <1>9, <1>10, <1>11

LEMMA RunStep ==
  ASSUME IInv, NEW h \in Hooks, Run(h)
  PROVE  IInv'
<1> USE DEF IInv, Run, Restarted, Goto, sessions, history
<1>t. /\ at \in [Hooks -> {"new", "spawn", "queued", "check", "grace", "run",
                           "ran", "stale", "outcome", "done"}]
      /\ before \in [Hooks -> 0..gen] /\ gen \in Nat /\ gen' \in {gen, gen + 1}
      /\ succeeded' \in {succeeded, succeeded \cup {h}} /\ succeeded \subseteq Hooks
      /\ conn \in [Sessions -> 0..gen]
      /\ succeeded' # succeeded => gen' = gen + 1
  BY DEF TypeOK
<1>1. TypeOK'
  BY <1>t DEF TypeOK
<1>2. CountOK' /\ NewestMarker' /\ LabelTrue' /\ HandedOver'
  BY <1>t DEF CountOK, NewestMarker, LabelTrue, HandedOver, Overtaken
<1>3. Begun'
  BY <1>t DEF Begun
<1>4. MarkerInv'
  BY <1>t DEF MarkerInv, Restored, WellFormed
<1>5. RestartInv'
  BY <1>t DEF RestartInv
<1>6. SeenInv'
  BY <1>t DEF SeenInv, WellFormed, Restored, TypeOK, NoMarker, NoEpoch
<1>7. Clean' => Clean
  BY DEF Clean, Overtaken
<1>8. Clean' => Barrier'
  BY <1>7, <1>t DEF Barrier
<1>9. ASSUME Clean'
      PROVE  Followed'
  <2>1. PICK k \in Hooks : marker.epoch = k /\ at[k] \in {"run", "spawn", "queued"}
    BY <1>7, <1>9 DEF Barrier
  <2>2. ~marker.late
    BY <1>7, <1>9, <2>1 DEF MarkerInv, Clean, CountOK
  <2>3. \A s \in Sessions : label[s] # k
    BY <2>1, RestartAssumption DEF SeenInv, Restored, NoEpoch
  <2>4. marker # NoMarker
    BY <2>1, RestartAssumption DEF NoMarker, NoEpoch
  <2> QED
    BY <2>1, <2>2, <2>3, <2>4 DEF Followed, Switched, Marker
<1> QED
  BY <1>1, <1>2, <1>3, <1>4, <1>5, <1>6, <1>8, <1>9

LEMMA OutcomeStep ==
  ASSUME IInv, NEW h \in Hooks, Outcome(h)
  PROVE  IInv'
<1> USE DEF IInv, Outcome, Goto, Write, Ours, sessions, history
<1>n. NoEpoch \notin Hooks
  BY RestartAssumption DEF NoEpoch
<1>t. at \in [Hooks -> {"new", "spawn", "queued", "check", "grace", "run",
                        "ran", "stale", "outcome", "done"}]
  BY DEF TypeOK
<1>m. \/ /\ marker.epoch = h
         /\ marker' = [epoch |-> h,
                       phase |-> IF h \in succeeded THEN "ready" ELSE "failed",
                       late |-> FALSE]
      \/ marker.epoch # h /\ marker' = marker
  OBVIOUS
<1>k. marker' \in Markers /\ (marker'.phase = "ready" => ~marker'.late)
  <2> DEFINE phase == IF h \in succeeded THEN "ready" ELSE "failed"
  <2>1. phase \in {"none", "restarting", "ready", "failed"}
    OBVIOUS
  <2>2. \A q \in {"none", "restarting", "ready", "failed"} :
          [epoch |-> h, phase |-> q, late |-> FALSE] \in Markers
    BY DEF Markers
  <2>3. marker \in Markers /\ (marker.phase = "ready" => ~marker.late)
    BY DEF TypeOK
  <2> HIDE DEF phase
  <2>4. \/ marker' = [epoch |-> h, phase |-> phase, late |-> FALSE]
        \/ marker' = marker
    BY <1>m DEF phase
  <2>5. CASE marker' = [epoch |-> h, phase |-> phase, late |-> FALSE]
    BY <2>1, <2>2, <2>5
  <2>6. CASE marker' = marker
    BY <2>3, <2>6
  <2> QED
    BY <2>4, <2>5, <2>6
<1>a. at' \in [Hooks -> {"new", "spawn", "queued", "check", "grace", "run", "ran",
                         "stale", "outcome", "done"}]
  BY <1>t
<1>0. TypeOK'
  BY <1>k, <1>a DEF TypeOK
<1>1. CountOK' /\ RestartInv' /\ LabelTrue' /\ HandedOver'
  BY <1>t DEF CountOK, RestartInv, LabelTrue, HandedOver, Overtaken
<1>2. NewestMarker'
  BY <1>m DEF NewestMarker
<1>3. Begun'
  BY <1>t DEF Begun
<1>4. MarkerInv'
  <2>1. CASE marker.epoch = h
    BY <1>t, <1>m, <1>n, <2>1 DEF MarkerInv, Restored, WellFormed, NoMarker
  <2>2. CASE marker.epoch # h
    BY <1>t, <1>m, <2>2 DEF MarkerInv, Restored, WellFormed
  <2> QED
    BY <2>1, <2>2
<1>5. SeenInv'
  BY <1>t DEF SeenInv, WellFormed, Restored, TypeOK, NoMarker, NoEpoch
<1>6. Clean' => Clean
  BY DEF Clean, Overtaken
<1>7. ASSUME Clean'
      PROVE  Barrier'
  <2>1. \A g \in Hooks : at'[g] = "run" => at[g] = "run"
    BY <1>t
  <2>2. \A k \in Hooks : at[k] \in {"run", "spawn", "queued"} => at'[k] = at[k]
    BY <1>t
  <2>3. marker'.epoch = marker.epoch
    BY <1>m
  <2> QED
    BY <1>6, <1>7, <2>1, <2>2, <2>3 DEF Barrier
<1>8. ASSUME Clean'
      PROVE  Followed'
  <2>1. CASE marker.epoch = h
    <3>1. /\ marker' # NoMarker /\ marker'.epoch = h /\ ~marker'.late
      BY <1>m, <1>n, <2>1 DEF NoMarker
    <3> QED
      BY <1>6, <1>8, <2>1, <3>1, <1>n DEF Followed, Switched, Marker, NoMarker
  <2>2. CASE marker.epoch # h
    BY <1>6, <1>8, <1>m, <2>2 DEF Followed, Switched, Marker
  <2> QED
    BY <2>1, <2>2
<1> QED
  BY <1>0, <1>1, <1>2, <1>3, <1>4, <1>5, <1>7, <1>8

LEMMA CrashStep ==
  ASSUME IInv, NEW h \in Hooks, Crash(h)
  PROVE  IInv'
<1> USE DEF IInv, Crash, Goto, sessions
<1>t. /\ at \in [Hooks -> {"new", "spawn", "queued", "check", "grace", "run",
                           "ran", "stale", "outcome", "done"}]
      /\ gen \in Nat /\ gen' \in {gen, gen + 1}
      /\ before \in [Hooks -> 0..gen] /\ conn \in [Sessions -> 0..gen]
  BY DEF TypeOK
<1>c. /\ count.crashes \in Nat /\ count'.crashes = count.crashes + 1
      /\ count.late \in Nat /\ count'.late = count.late
      /\ count'.turns = count.turns
  BY DEF CountOK
<1>1. TypeOK'
  BY <1>t DEF TypeOK
<1>2. CountOK'
  BY <1>c DEF CountOK
<1>3. NewestMarker' /\ LabelTrue'
  BY <1>t DEF NewestMarker, LabelTrue
<1>4. Begun'
  BY <1>t DEF Begun
<1>5. MarkerInv'
  BY <1>t, <1>c DEF MarkerInv, Restored, WellFormed
<1>6. RestartInv'
  BY <1>t DEF RestartInv, TypeOK
<1>7. SeenInv'
  BY <1>t DEF SeenInv, WellFormed, Restored, TypeOK, NoMarker, NoEpoch
<1>8. HandedOver' /\ ~Clean'
  BY <1>c DEF HandedOver, Clean
<1> QED
  BY <1>1, <1>2, <1>3, <1>4, <1>5, <1>6, <1>7, <1>8

(* subprocess.Popen raises.                                                *)
LEMMA SpawnRaisesStep ==
  ASSUME IInv, NEW h \in Hooks, at[h] = "spawn", Goto(h, "outcome"),
         count' = [count EXCEPT !.crashes = @ + 1],
         UNCHANGED <<marker, succeeded, gen, sessions, published, before, ended>>
  PROVE  IInv'
<1> USE DEF IInv, Goto, sessions
<1>t. at \in [Hooks -> {"new", "spawn", "queued", "check", "grace", "run",
                        "ran", "stale", "outcome", "done"}]
  BY DEF TypeOK
<1>c. /\ count.crashes \in Nat /\ count'.crashes = count.crashes + 1
      /\ count.late \in Nat /\ count'.late = count.late
      /\ count'.turns = count.turns
  BY DEF CountOK
<1>1. TypeOK' /\ NewestMarker' /\ LabelTrue' /\ RestartInv'
  BY <1>t DEF TypeOK, NewestMarker, LabelTrue, Resting, RestartInv
<1>2. CountOK'
  BY <1>c DEF CountOK
<1>3. Begun'
  BY <1>t DEF Begun
<1>4. MarkerInv'
  BY <1>t, <1>c DEF MarkerInv, Restored, WellFormed
<1>5. SeenInv'
  BY <1>t DEF SeenInv, WellFormed, Restored, TypeOK, NoMarker, NoEpoch
<1>6. HandedOver' /\ ~Clean'
  BY <1>c DEF HandedOver, Clean
<1> QED
  BY <1>1, <1>2, <1>3, <1>4, <1>5, <1>6

LEMMA HookStepHolds ==
  ASSUME IInv, NEW h \in Hooks, HookStep(h)
  PROVE  IInv'
<1>1. CASE Spawn(h)
  <2>1. CASE Goto(h, "queued") /\ UNCHANGED count
    BY <1>1, <2>1, MovesOn DEF Spawn, history
  <2>2. CASE Goto(h, "outcome") /\ count' = [count EXCEPT !.crashes = @ + 1]
    BY <1>1, <2>2, SpawnRaisesStep DEF Spawn
  <2> QED
    BY <1>1, <2>1, <2>2 DEF Spawn
<1>2. CASE TakeLock(h)
  <2>1. \A k \in Hooks : at[k] # "run"
    BY <1>2 DEF TakeLock, Holding
  <2> QED
    BY <1>2, <2>1, MovesOn DEF TakeLock
<1>3. CASE Validate(h)
  BY <1>3, MovesOn DEF Validate
<1> QED
  BY <1>1, <1>2, <1>3, RunStep, OutcomeStep DEF HookStep

-----------------------------------------------------------------------------
(* The sessions' steps, and time.                                          *)

(* What a step of one session must show: the hooks' variables and their    *)
(* history stay, so only what concerns sessions is at stake.               *)
LEMMA SessionMoves ==
  ASSUME IInv, UNCHANGED <<hooks, published, before>>,
         TypeOK', CountOK', SeenInv', LabelTrue', HandedOver', Clean => Followed',
         count'.crashes = count.crashes, count'.late = count.late
  PROVE  IInv'
<1> USE DEF IInv, hooks
<1>1. NewestMarker' /\ Begun' /\ RestartInv'
  BY DEF NewestMarker, Begun, RestartInv
<1>2. MarkerInv'
  BY DEF MarkerInv, WellFormed, Restored
<1>3. Clean' => Clean
  BY DEF Clean, Overtaken
<1>4. Barrier => Barrier'
  BY DEF Barrier
<1> QED
  BY <1>1, <1>2, <1>3, <1>4

LEMMA ReadMarkerStep ==
  ASSUME IInv, NEW s \in Sessions, ReadMarker(s)
  PROVE  IInv'
<1> USE DEF IInv, ReadMarker, Do, history, hooks
<1>t. turn'[s] \in {"starting", "continuing"} /\ Marker \in Markers
  BY DEF TypeOK, Marker, Markers, NoMarker
<1>1. TypeOK' /\ CountOK' /\ LabelTrue' /\ HandedOver'
  BY <1>t DEF TypeOK, CountOK, LabelTrue, Resting, HandedOver, Overtaken
<1>2. SeenInv'
  <2>1. Marker = marker \/ Marker = NoMarker
    BY DEF Marker
  <2>2. WellFormed(Marker) /\ (Marker.phase = "ready" => Restored(Marker.epoch))
    BY <2>1 DEF MarkerInv, WellFormed, NoMarker
  <2> QED
    BY <2>2 DEF SeenInv, TypeOK, WellFormed, Restored
<1>3. Clean => Followed'
  BY <1>t DEF Followed, Switched, Marker, TypeOK
<1> QED
  BY <1>1, <1>2, <1>3, SessionMoves

(* A session that connects rests, on the present daemon or on its own.     *)
LEMMA ConnectStep ==
  ASSUME IInv, NEW s \in Sessions, Connect(s)
  PROVE  IInv'
<1> USE DEF IInv, Connect, Do, history, hooks
<1>t. /\ conn \in [Sessions -> 0..gen] /\ gen \in Nat
      /\ conn' = [conn EXCEPT ![s] = gen] \/ (turn[s] = "idle" /\ conn' = conn)
  BY DEF TypeOK
<1>1. TypeOK' /\ CountOK' /\ HandedOver'
  <2>1. conn' \in [Sessions -> 0..gen]
    BY <1>t
  <2>2. turn' \in [Sessions -> {"none", "stamping", "idle", "starting", "running",
                               "switching", "continuing"}]
    BY DEF TypeOK
  <2> QED
    BY <2>1, <2>2 DEF TypeOK, CountOK, HandedOver, Overtaken
<1>2. SeenInv'
  BY DEF SeenInv, WellFormed, Restored
<1>3. LabelTrue'
  <2>1. \A r \in Sessions : label[r] # NoEpoch => gen > before[label[r]]
    BY MarkerFacts DEF SeenInv, RestartInv, Restored
  <2> QED
    BY <1>t, <2>1 DEF LabelTrue, Resting, TypeOK
<1>4. Clean => Followed'
  BY <1>t DEF Followed, Switched, Marker, TypeOK
<1> QED
  BY <1>1, <1>2, <1>3, <1>4, SessionMoves

(* The epoch a session is stamped with is that of a restart that took      *)
(* place: the session is on its daemon, or on one that is gone.            *)
LEMMA StampStep ==
  ASSUME IInv, NEW s \in Sessions, StampEpoch(s)
  PROVE  IInv'
<1> USE DEF IInv, StampEpoch, Do, history, hooks
<1>t. /\ conn \in [Sessions -> 0..gen] /\ gen \in Nat
      /\ label \in [Sessions -> Hooks \cup {NoEpoch}]
      /\ turn' = [turn EXCEPT ![s] = "idle"] /\ turn'[s] = "idle"
  BY DEF TypeOK
<1>m. Marker.phase = "ready" =>
        /\ Marker.epoch \in Hooks /\ Restored(Marker.epoch)
        /\ gen > before[Marker.epoch] /\ before[Marker.epoch] \in Nat
  BY DEF Marker, NoMarker, MarkerInv, WellFormed, Restored, RestartInv, TypeOK
<1>e. PICK e \in Hooks \cup {NoEpoch} :
        /\ label' = [label EXCEPT ![s] = e]
        /\ e # NoEpoch => Restored(e) /\ gen > before[e] /\ before[e] \in Nat
  BY <1>m
<1>1. TypeOK' /\ CountOK' /\ HandedOver'
  BY <1>t, <1>e DEF TypeOK, CountOK, HandedOver, Overtaken
<1>2. SeenInv'
  BY <1>t, <1>e DEF SeenInv, WellFormed, Restored
<1>3. LabelTrue'
  BY <1>t, <1>e DEF LabelTrue, Resting
<1>4. Clean => Followed'
  BY <1>t, <1>e DEF Followed, Switched, Marker
<1> QED
  BY <1>1, <1>2, <1>3, <1>4, SessionMoves

LEMMA StartStep ==
  ASSUME IInv, NEW s \in Sessions, Start(s)
  PROVE  IInv'
<1> USE DEF IInv, Start, Do, hooks
<1>t. /\ conn \in [Sessions -> 0..gen] /\ gen \in Nat
      /\ label \in [Sessions -> Hooks \cup {NoEpoch}]
      /\ seen \in [Sessions -> Markers]
      /\ turn \in [Sessions -> {"none", "stamping", "idle", "starting", "running",
                                "switching", "continuing"}]
  BY DEF TypeOK
<1>c. /\ CountOK' /\ count'.crashes = count.crashes /\ count'.late = count.late
  BY DEF CountOK
<1>w. /\ WellFormed(seen[s])
      /\ seen[s] # NoMarker => /\ seen[s].epoch \in Hooks
                               /\ Restored(seen[s].epoch)
                               /\ gen > before[seen[s].epoch]
  BY DEF SeenInv, WellFormed, Connected, RestartInv, Restored
<1>1. /\ conn' = [conn EXCEPT ![s] = gen]
      /\ label' = label \/ (seen[s] # NoMarker
                            /\ label' = [label EXCEPT ![s] = seen[s].epoch])
  BY <1>t DEF Connected, Stamp
<1>2. TypeOK'
  <2>1. NoMarker \in Markers
    BY DEF Markers, NoMarker
  <2>2. conn' \in [Sessions -> 0..gen] /\ label' \in [Sessions -> Hooks \cup {NoEpoch}]
    BY <1>t, <1>w, <1>1
  <2>3. seen' \in [Sessions -> Markers]
    BY <1>t, <2>1
  <2>4. turn' \in [Sessions -> {"none", "stamping", "idle", "starting", "running",
                               "switching", "continuing"}]
    BY <1>t
  <2> QED
    BY <2>2, <2>3, <2>4 DEF TypeOK
<1>3. SeenInv'
  BY <1>t, <1>w, <1>1 DEF SeenInv, WellFormed, Restored, NoMarker
<1>4. LabelTrue'
  <2>1. ASSUME label' = label
        PROVE  LabelTrue'
    BY <1>t, <1>1, <2>1, MarkerFacts DEF LabelTrue, SeenInv, RestartInv, Restored
  <2>2. ASSUME seen[s] # NoMarker, label' = [label EXCEPT ![s] = seen[s].epoch]
        PROVE  LabelTrue'
    BY <1>t, <1>w, <1>1, <2>2 DEF LabelTrue
  <2> QED
    BY <1>1, <2>1, <2>2
<1>5. HandedOver'
  BY <1>c DEF HandedOver, Overtaken
<1>6. ASSUME Clean
      PROVE  Followed'
  <2>1. SUFFICES ASSUME NEW r \in Sessions, turn'[r] = "running", conn'[r] # gen
                 PROVE  marker' # NoMarker /\ ~marker'.late /\ marker'.epoch # label'[r]
    BY DEF Followed, Switched, Marker, NoMarker
  <2>2. r # s
    BY <1>t, <1>1, <2>1
  <2>3. turn[r] = "running" /\ conn[r] # gen /\ label'[r] = label[r]
    BY <1>t, <1>1, <2>1, <2>2
  <2> QED
    BY <1>6, <2>3 DEF Followed, Switched, Marker, NoMarker
<1> QED
  BY <1>c, <1>2, <1>3, <1>4, <1>5, <1>6, SessionMoves

(* A session whose turn is not running after its step, and that did not    *)
(* reconnect.                                                              *)
LEMMA Leaves ==
  ASSUME IInv, NEW s \in Sessions, NEW what \in {"idle", "switching"}, Do(s, what),
         what = "switching" => turn[s] = "running",
         UNCHANGED <<hooks, conn, label, published, before, count>>,
         seen' = seen \/ seen' = [seen EXCEPT ![s] = NoMarker],
         \/ ended' = ended
         \/ \E how \in {"done", "failed", "interrupted"} : ended' = ended \cup {how}
         \/ ended' = ended \cup {"stopped"} /\ ~Clean
  PROVE  IInv'
<1> USE DEF IInv, Do, hooks
<1>1. TypeOK' /\ CountOK' /\ LabelTrue'
  <2>1. NoMarker \in Markers
    BY DEF Markers, NoMarker
  <2>2. seen' \in [Sessions -> Markers]
    BY <2>1 DEF TypeOK
  <2>3. turn' \in [Sessions -> {"none", "stamping", "idle", "starting", "running",
                               "switching", "continuing"}]
    BY DEF TypeOK
  <2>4. ended' \subseteq {"done", "stopped", "failed", "interrupted"}
    BY DEF TypeOK
  <2> QED
    BY <2>2, <2>3, <2>4 DEF TypeOK, CountOK, LabelTrue, Resting
<1>2. SeenInv'
  <2>1. WellFormed(NoMarker) /\ NoMarker.phase # "ready"
    BY DEF WellFormed, NoMarker
  <2>2. \A r \in Sessions : seen'[r] = seen[r] \/ seen'[r] = NoMarker
    BY DEF TypeOK
  <2> QED
    BY <2>1, <2>2 DEF SeenInv, WellFormed, Restored
<1>3. HandedOver'
  BY DEF HandedOver, Overtaken, Clean, CountOK
<1>4. Clean => Followed'
  BY DEF Followed, Switched, Marker, TypeOK
<1> QED
  BY <1>1, <1>2, <1>3, <1>4, SessionMoves

LEMMA SessionStepHolds ==
  ASSUME IInv, NEW s \in Sessions,
         Connect(s) \/ TurnStep(s) \/ Result(s) \/ Interrupt(s)
  PROVE  IInv'
<1>1. CASE NotStarted(s)
  BY <1>1, Leaves DEF NotStarted, End
<1>2. CASE Observe(s)
  BY <1>2, Leaves DEF Observe, history
<1>3. CASE ProxyClosed(s)
  <2>1. ~Clean
    BY <1>3 DEF ProxyClosed, IInv, Followed
  <2> QED
    BY <1>3, <2>1, Leaves DEF ProxyClosed, End
<1>4. CASE Result(s)
  BY <1>4, Leaves DEF Result, End
<1>5. CASE Interrupt(s)
  BY <1>5, Leaves DEF Interrupt, End
<1> QED
  BY <1>1, <1>2, <1>3, <1>4, <1>5, ConnectStep, StampStep, ReadMarkerStep,
     StartStep DEF TurnStep

LEMMA ExpireStep ==
  ASSUME IInv, Expire
  PROVE  IInv'
<1> USE DEF IInv, Expire, sessions
<1>t. /\ marker.epoch \in Hooks /\ marker \in Markers
      /\ marker'.epoch = marker.epoch /\ marker'.phase = marker.phase
      /\ marker'.late /\ marker' \in Markers /\ marker' # NoMarker
  <2>1. marker \in Markers
    BY DEF TypeOK
  <2>2. marker.epoch \in Hooks
    BY DEF MarkerInv, WellFormed, NoMarker
  <2>3. /\ marker'.epoch = marker.epoch /\ marker'.phase = marker.phase
        /\ marker'.late /\ marker' \in Markers
    BY <2>1 DEF Markers
  <2>4. marker' # NoMarker
    BY <2>3 DEF NoMarker
  <2> QED
    BY <2>1, <2>2, <2>3, <2>4
<1>c. /\ CountOK' /\ count'.crashes = count.crashes
      /\ count'.late = count.late + (IF Early THEN 1 ELSE 0)
  BY DEF CountOK
<1>1. TypeOK' /\ RestartInv' /\ LabelTrue'
  BY <1>t DEF TypeOK, RestartInv, LabelTrue, Resting
<1>2. NewestMarker' /\ Begun' /\ SeenInv'
  BY <1>t DEF NewestMarker, Begun, SeenInv, WellFormed, Restored
<1>3. MarkerInv'
  <2>1. at[marker.epoch] # "new" /\ published # <<>>
    BY <1>t, MarkerFacts DEF MarkerInv, WellFormed, NoMarker
  <2>2. at[marker.epoch] # "done" => Early
    BY <1>t, <2>1 DEF Early, MarkerInv
  <2>3. count.late \in Nat /\ (count.late > 0 => count'.late > 0)
    BY <1>c DEF CountOK
  <2> QED
    BY <1>t, <1>c, <2>1, <2>2, <2>3 DEF MarkerInv, WellFormed, Restored
<1>4. HandedOver'
  BY <1>c DEF HandedOver, Overtaken, CountOK
<1>5. Clean' => Clean /\ ~Early
  BY <1>c DEF Clean, Overtaken, CountOK
<1>6. Clean' => Barrier'
  BY <1>5, <1>t DEF Barrier
<1>7. ASSUME Clean'
      PROVE  Followed'
  <2>1. marker.phase = "failed"
    BY <1>5, <1>7, <1>t DEF Early, MarkerInv, Clean, CountOK
  <2> QED
    BY <1>5, <1>7, <2>1 DEF Followed
<1> QED
  BY <1>c, <1>1, <1>2, <1>3, <1>4, <1>6, <1>7

LEMMA StutterStep ==
  ASSUME IInv, UNCHANGED vars
  PROVE  IInv'
  BY DEF vars, hooks, sessions, history, IInv, TypeOK, CountOK, NewestMarker, Begun,
         MarkerInv, WellFormed, RestartInv, SeenInv, Restored, LabelTrue, HandedOver,
         Overtaken, Clean, Barrier, Followed, Switched, Marker

-----------------------------------------------------------------------------
LEMMA StepHolds == IInv /\ [Next]_vars => IInv'
<1> SUFFICES ASSUME IInv, [Next]_vars
             PROVE  IInv'
  OBVIOUS
<1>1. CASE \E h \in Hooks : Publish(h) \/ HookStep(h) \/ Crash(h)
  BY <1>1, PublishStep, HookStepHolds, CrashStep
<1>2. CASE \E s \in Sessions : Connect(s) \/ TurnStep(s) \/ Result(s) \/ Interrupt(s)
  BY <1>2, SessionStepHolds
<1> QED
  BY <1>1, <1>2, ExpireStep, StutterStep DEF Next

(* Marker, hooks, workers and sessions keep the inductive invariant in     *)
(* every reachable state, for all hooks and sessions.                      *)
THEOREM Invariance == Spec => []IInv
<1>1. IInv /\ [Next]_vars => IInv'
  BY StepHolds
<1> QED
  BY InitHolds, <1>1, PTL DEF Spec

(* The marker is that of the hook that published last, a ready marker and  *)
(* the epoch of a session tell the truth about the daemon: for all hooks,  *)
(* workers and sessions, wherever they are killed or overtaken.            *)
THEOREM MarkerIsTrue == Spec => []MarkerTrue
<1>1. IInv => MarkerTrue
  <2>1. ASSUME IInv, marker.phase = "ready"
        PROVE  gen > before[marker.epoch]
    BY <2>1 DEF IInv, MarkerInv, WellFormed, NoMarker, Restored, RestartInv
  <2> QED
    BY <2>1 DEF IInv, MarkerTrue, ReadyRestarted
<1> QED
  BY <1>1, Invariance, PTL

(* No running turn finds its daemon replaced without a switch to follow,   *)
(* unless a barrier was abandoned or a synchronous restart overtaken.      *)
THEOREM TurnsAreHandedOver == Spec => []HandedOver
<1>1. IInv => HandedOver
  BY DEF IInv
<1> QED
  BY <1>1, Invariance, PTL
=============================================================================
