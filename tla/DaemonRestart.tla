--------------------------- MODULE DaemonRestart ---------------------------
(***************************************************************************)
(* An account switch restarts the shared Codex daemon.  A hook process     *)
(* (cc_remote/codex_daemon_restart.py) publishes a marker file with a new  *)
(* epoch, runs the official restart itself ("sync") or through a detached  *)
(* worker, and publishes the outcome.  The wrapper's sessions watch the    *)
(* marker: a running turn is interrupted on the old daemon and continued   *)
(* on its replacement (wrapper/machine.py).  The daemon is external; its   *)
(* generation is the number of restarts it went through.                   *)
(***************************************************************************)
EXTENDS Naturals, Sequences

CONSTANTS Hooks,      (* hook processes of one profile, one epoch each     *)
          Detached,   (* those that run --detach                           *)
          Sessions,   (* Codex sessions on the shared daemon               *)
          MaxCrashes, (* bound: hooks and workers that are killed or not begun *)
          MaxLate,    (* bound: deadlines that pass while the hook works   *)
          MaxTurns    (* bound: turns started                              *)

ASSUME RestartAssumption ==
  /\ Detached \subseteq Hooks /\ "unmarked" \notin Hooks
  /\ MaxCrashes \in Nat /\ MaxLate \in Nat /\ MaxTurns \in Nat

VARIABLES
  marker,    (* file: its epoch, phase and whether its deadline passed     *)
  at,        (* where each hook, and then its worker, is                   *)
  succeeded, (* hooks whose official restart returned 0                    *)
  gen,       (* external: the daemon's generation                          *)
  conn,      (* session: the generation its proxy is connected to          *)
  label,     (* session: codex_daemon_epoch                                *)
  turn,      (* session: what it is doing                                  *)
  seen,      (* session: the marker it read last                           *)
  published, (* history: the hooks in the order they published             *)
  before,    (* history: the generation when each hook published           *)
  ended,     (* history: how turns ended                                   *)
  count      (* history: crashes, deadlines, turns                         *)

hooks    == <<marker, at, succeeded, gen>>
sessions == <<conn, label, turn, seen>>
history  == <<published, before, ended, count>>
vars     == <<hooks, sessions, history>>

NoEpoch == "unmarked"
NoMarker == [epoch |-> NoEpoch, phase |-> "none", late |-> FALSE]

Init ==
  /\ marker = NoMarker
  /\ at = [h \in Hooks |-> "new"]
  /\ succeeded = {}
  /\ gen = 0
  /\ conn = [s \in Sessions |-> 0]
  /\ label = [s \in Sessions |-> NoEpoch]
  /\ turn = [s \in Sessions |-> "none"]
  /\ seen = [s \in Sessions |-> NoMarker]
  /\ published = <<>>
  /\ before = [h \in Hooks |-> 0]
  /\ ended = {}
  /\ count = [crashes |-> 0, late |-> 0, turns |-> 0]

-----------------------------------------------------------------------------
(* The hooks and the workers.                                              *)
Goto(h, place) == at' = [at EXCEPT ![h] = place]

Write(h, phase) == marker' = [epoch |-> h, phase |-> phase, late |-> FALSE]

(* The barrier: restarting, whatever the marker says.                      *)
Publish(h) ==
  /\ at[h] = "new"
  /\ Write(h, "restarting")
  /\ Goto(h, IF h \in Detached THEN "spawn" ELSE "queued")
  /\ published' = Append(published, h)
  /\ before' = [before EXCEPT ![h] = gen]
  /\ UNCHANGED <<succeeded, gen, sessions, ended, count>>

(* subprocess.Popen of the worker, which may raise.                        *)
Spawn(h) ==
  /\ at[h] = "spawn"
  /\ \/ Goto(h, "queued") /\ UNCHANGED count
     \/ /\ count.crashes < MaxCrashes
        /\ count' = [count EXCEPT !.crashes = @ + 1]
        /\ Goto(h, "outcome")
  /\ UNCHANGED <<marker, succeeded, gen, sessions, published, before, ended>>

(* A detached worker holds the worker lock until it has published.         *)
Holding(h) ==
  at[h] \in {"check", "grace", "run"} \cup
            (IF h \in Detached THEN {"ran", "stale"} ELSE {})

TakeLock(h) ==
  /\ at[h] = "queued"
  /\ \A k \in Hooks : ~Holding(k)
  /\ Goto(h, IF h \in Detached THEN "check" ELSE "run")
  /\ UNCHANGED <<marker, succeeded, gen, sessions, history>>

Current(h) == marker.epoch = h /\ marker.phase = "restarting"

(* The worker validates its epoch, before and after the drain grace.       *)
Validate(h) ==
  /\ at[h] \in {"check", "grace"}
  /\ Goto(h, CASE ~Current(h)        -> "done"
               [] marker.late        -> "stale"
               [] at[h] = "check"    -> "grace"
               [] OTHER              -> "run")
  /\ UNCHANGED <<marker, succeeded, gen, sessions, history>>

(* codex app-server daemon restart: it returns 0 on a new daemon, or fails *)
(* or times out with the old one or a new one.                             *)
Restarted(h) ==
  \/ gen' = gen + 1 /\ succeeded' = succeeded \cup {h}
  \/ gen' \in {gen, gen + 1} /\ UNCHANGED succeeded

Run(h) ==
  /\ at[h] = "run"
  /\ Goto(h, "ran")
  /\ Restarted(h)
  /\ UNCHANGED <<marker, sessions, history>>

(* Mutant of Ours: the outcome is written whoever published last.          *)
OursAlways(h) == marker.epoch # NoEpoch

Ours(h) == marker.epoch = h

(* _publish_if_current.                                                    *)
Outcome(h) ==
  /\ at[h] \in {"ran", "stale", "outcome"}
  /\ Goto(h, "done")
  /\ IF Ours(h) THEN Write(h, IF h \in succeeded THEN "ready" ELSE "failed")
                ELSE UNCHANGED marker
  /\ UNCHANGED <<succeeded, gen, sessions, history>>

(* A killed hook publishes nothing more; the official restart it started   *)
(* may still take effect.                                                  *)
Crash(h) ==
  /\ at[h] \notin {"new", "done"} /\ count.crashes < MaxCrashes
  /\ count' = [count EXCEPT !.crashes = @ + 1]
  /\ Goto(h, "done")
  /\ gen' \in IF at[h] = "run" THEN {gen, gen + 1} ELSE {gen}
  /\ UNCHANGED <<marker, succeeded, sessions, published, before, ended>>

-----------------------------------------------------------------------------
(* The sessions.                                                           *)

(* Mutant of Marker: a barrier nobody lifts has no deadline.               *)
MarkerForever == marker

(* _read_codex_restart_paths: a stale marker reads as none.                *)
Marker == IF marker.late THEN NoMarker ELSE marker

(* Mutant of Switched: only a finished restart is looked at.               *)
SwitchedReady(s) == Marker.phase = "ready" /\ Marker.epoch # label[s]

Switched(s) == Marker # NoMarker /\ Marker.epoch # label[s]

Do(s, what) == turn' = [turn EXCEPT ![s] = what]

End(s, how) == Do(s, "idle") /\ ended' = ended \cup {how}

(* A session is spawned on the daemon, or connects to it again to change   *)
(* its web search; with the mode it has, it stays connected.               *)
Connect(s) ==
  /\ turn[s] \in {"none", "idle"}
  /\ Do(s, "stamping")
  /\ \/ conn' = [conn EXCEPT ![s] = gen]
     \/ turn[s] = "idle" /\ UNCHANGED conn
  /\ UNCHANGED <<hooks, label, seen, history>>

(* _stamp_codex_daemon_epoch: the marker is read after the connection was  *)
(* made, and behind further awaits; a ready one names the session.         *)
StampEpoch(s) ==
  /\ turn[s] = "stamping"
  /\ Do(s, "idle")
  /\ label' = [label EXCEPT ![s] =
                 IF Marker.phase = "ready" THEN Marker.epoch ELSE NoEpoch]
  /\ UNCHANGED <<hooks, conn, seen, history>>

(* A prompt, and a handoff, wait for the barrier and keep what they read.  *)
ReadMarker(s) ==
  /\ \/ turn[s] = "idle" /\ count.turns < MaxTurns /\ Do(s, "starting")
     \/ turn[s] = "switching" /\ Do(s, "continuing")
  /\ Marker.phase # "restarting"
  /\ seen' = [seen EXCEPT ![s] = Marker]
  /\ UNCHANGED <<hooks, conn, label, history>>

(* The epoch of the marker that was read before the connection was made.   *)
Stamp(s) == seen[s].epoch

(* _ensure_codex_daemon_generation: reconnect when the marker's epoch or   *)
(* the daemon's process changed, and stamp the epoch.                      *)
Connected(s) ==
  /\ seen[s].phase \in {"none", "ready"}
  /\ IF (seen[s] # NoMarker /\ seen[s].epoch # label[s]) \/ conn[s] # gen
       THEN /\ conn' = [conn EXCEPT ![s] = gen]
            /\ label' = [label EXCEPT ![s] =
                           IF seen[s] = NoMarker THEN @ ELSE Stamp(s)]
       ELSE UNCHANGED <<conn, label>>

(* The turn starts, or continues, on the connected daemon.                 *)
Start(s) ==
  /\ turn[s] \in {"starting", "continuing"}
  /\ Connected(s)
  /\ turn[s] = "continuing" => seen[s] # NoMarker
  /\ Do(s, "running")
  /\ seen' = [seen EXCEPT ![s] = NoMarker]
  /\ count' = [count EXCEPT !.turns = IF turn[s] = "starting" THEN @ + 1 ELSE @]
  /\ UNCHANGED <<hooks, published, before, ended>>

(* The barrier is not ready, or the reconnect fails: a prompt is refused,  *)
(* a handoff ends its turn with an error.                                  *)
NotStarted(s) ==
  /\ turn[s] \in {"starting", "continuing"}
  /\ IF turn[s] = "starting" THEN Do(s, "idle") /\ UNCHANGED ended
                             ELSE End(s, "failed")
  /\ seen' = [seen EXCEPT ![s] = NoMarker]
  /\ UNCHANGED <<hooks, conn, label, published, before, count>>

(* _wait_for_codex_account_switch, and the read of the marker that follows *)
(* the end of the stream: the old turn is interrupted and drained.         *)
Observe(s) ==
  /\ turn[s] = "running" /\ Switched(s)
  /\ Do(s, "switching")
  /\ UNCHANGED <<hooks, conn, label, seen, history>>

(* The proxy's end of file without a marker of another epoch: a safe stop. *)
ProxyClosed(s) ==
  /\ turn[s] = "running" /\ conn[s] # gen /\ ~Switched(s)
  /\ End(s, "stopped")
  /\ UNCHANGED <<hooks, conn, label, seen, published, before, count>>

Result(s) ==
  /\ turn[s] = "running" /\ conn[s] = gen /\ ~Switched(s)
  /\ End(s, "done")
  /\ UNCHANGED <<hooks, conn, label, seen, published, before, count>>

(* The user interrupts a turn that is being handed over.                   *)
Interrupt(s) ==
  /\ turn[s] = "switching"
  /\ End(s, "interrupted")
  /\ UNCHANGED <<hooks, conn, label, seen, published, before, count>>

Early == marker.phase = "restarting" /\ at[marker.epoch] # "done"

(* The deadline of an outcome that is not ready passes; that of a failure  *)
(* is far longer than the watchers' period of 50 ms.                       *)
Expire ==
  /\ marker.phase \in {"restarting", "failed"} /\ ~marker.late
  /\ IF marker.phase = "restarting"
       THEN Early => count.late < MaxLate
       ELSE \A s \in Sessions : turn[s] = "running" => ~Switched(s)
  /\ marker' = [marker EXCEPT !.late = TRUE]
  /\ count' = [count EXCEPT !.late = IF Early THEN @ + 1 ELSE @]
  /\ UNCHANGED <<at, succeeded, gen, sessions, published, before, ended>>

-----------------------------------------------------------------------------
HookStep(h) ==
  Spawn(h) \/ TakeLock(h) \/ Validate(h) \/ Run(h) \/ Outcome(h)

TurnStep(s) ==
  \/ StampEpoch(s)
  \/ ReadMarker(s) \/ Start(s) \/ NotStarted(s) \/ Observe(s) \/ ProxyClosed(s)

Next ==
  \/ \E h \in Hooks : Publish(h) \/ HookStep(h) \/ Crash(h)
  \/ Expire
  \/ \E s \in Sessions : Connect(s) \/ TurnStep(s) \/ Result(s) \/ Interrupt(s)

(* Workers and the wrapper's loop run on, and time passes.                 *)
Fairness ==
  /\ \A h \in Hooks : WF_vars(HookStep(h))
  /\ \A s \in Sessions : WF_vars(TurnStep(s))
  /\ WF_vars(Expire)

Spec == Init /\ [][Next]_vars
FairSpec == Spec /\ Fairness

-----------------------------------------------------------------------------
Markers ==
  [epoch : Hooks \cup {NoEpoch}, phase : {"none", "restarting", "ready", "failed"},
   late : BOOLEAN]

(* Every variable has its type, and a ready marker has no deadline.        *)
TypeOK ==
  /\ marker \in Markers /\ (marker.phase = "ready" => ~marker.late)
  /\ at \in [Hooks -> {"new", "spawn", "queued", "check", "grace", "run", "ran",
                       "stale", "outcome", "done"}]
  /\ succeeded \subseteq Hooks /\ gen \in Nat
  /\ conn \in [Sessions -> 0..gen]
  /\ label \in [Sessions -> Hooks \cup {NoEpoch}]
  /\ turn \in [Sessions -> {"none", "stamping", "idle", "starting", "running",
                           "switching", "continuing"}]
  /\ seen \in [Sessions -> Markers]
  /\ published \in Seq(Hooks) /\ before \in [Hooks -> 0..gen]
  /\ ended \subseteq {"done", "stopped", "failed", "interrupted"}

(* "Publish a worker outcome without overwriting a newer switch request"   *)
(* (codex_daemon_restart.py:225): the marker is that of the last hook that *)
(* published, whatever older workers finish after it.                      *)
NewestMarker ==
  published # <<>> => marker.epoch = published[Len(published)]

(* A ready marker tells the truth: the daemon was replaced after its hook  *)
(* published, not by an older restart that was still on its way.           *)
ReadyRestarted == marker.phase = "ready" => gen > before[marker.epoch]

(* A session that bears an epoch is connected to a daemon that epoch's     *)
(* restart brought up, not to the one it replaced: the next comparison of  *)
(* epochs would otherwise miss the switch.  A restart that completes       *)
(* between the connection of a session and its stamp does leave such a     *)
(* session behind, but only while it rests: the daemon it is connected to  *)
(* is gone, so its next turn connects it again before it runs.             *)
Resting == {"stamping", "idle", "starting"}

LabelTrue ==
  \A s \in Sessions : label[s] # NoEpoch =>
    \/ conn[s] > before[label[s]]
    \/ conn[s] # gen /\ turn[s] \in Resting

(* What the marker and the labels of the sessions say of the daemon is so, *)
(* however hooks, workers and reconnects overlap.                          *)
MarkerTrue == TypeOK /\ NewestMarker /\ ReadyRestarted /\ LabelTrue

(* The daemon is only replaced behind a barrier that the sessions can see: *)
(* no running turn finds its proxy closed without a switch to follow,      *)
(* unless a barrier was abandoned or a synchronous restart was overtaken   *)
(* by a newer hook, after which nothing validates its epoch again.         *)
Overtaken ==
  \E i \in 1..Len(published) : i < Len(published) /\ published[i] \notin Detached

HandedOver ==
  "stopped" \in ended => count.crashes + count.late > 0 \/ Overtaken

(* A turn that is being handed over goes on or ends, even when the worker  *)
(* was killed: nobody waits beyond the deadline.                           *)
HandoffEnds ==
  \A s \in Sessions : turn[s] \in {"switching", "continuing"}
                        ~> turn[s] \in {"running", "idle"}
=============================================================================
