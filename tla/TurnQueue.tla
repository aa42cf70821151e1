----------------------------- MODULE TurnQueue ------------------------------
(***************************************************************************)
(* Who may start a turn of one session, and when (wrapper/machine.py).     *)
(* Four kinds of coroutines share the session context: the command lane,   *)
(* which handles one command at a time; the queue worker                   *)
(* (_drain_query_queue), which starts deferred prompts; one task per turn  *)
(* (_run_turn); and, for Claude, the callback of an autonomous follow-up   *)
(* turn (_on_claude_background_message).  A step runs from one await that  *)
(* can suspend to the next.  query_lock and emit_lock are asyncio.Locks:   *)
(* the head of the sequence holds it, the rest wait in order.              *)
(***************************************************************************)
EXTENDS Naturals, Sequences, FiniteSets, SequencesExt

CONSTANTS Engines,      (* engines a session may run                       *)
          Immediate,    (* prompts sent with delivery "immediate"          *)
          Queued,       (* ... "queue"                                     *)
          Replacing,    (* ... "replace"                                   *)
          MaxQueue,     (* MAX_QUERY_QUEUE_ITEMS                           *)
          MaxEdits,     (* bound: edits of one queued prompt               *)
          MaxFollowups, (* bound: autonomous follow-ups                    *)
          MaxStops,     (* bound: interrupts                               *)
          MaxOthers,    (* bound: slow emits of other coroutines           *)
          MaxEvents     (* bound: all of these and the prompts together    *)

Msgs == Immediate \cup Queued \cup Replacing

ASSUME QueueAssumption ==
  /\ Engines \subseteq {"claude", "codex"}
  /\ MaxQueue \in Nat \ {0}
  /\ MaxEdits \in Nat /\ MaxFollowups \in Nat
  /\ MaxStops \in Nat /\ MaxOthers \in Nat /\ MaxEvents \in Nat
  /\ {"none", "cmd", "drain", "bg", "other"} \cap Msgs = {}

VARIABLES
  engine,    (* ctx.engine                                                 *)
  state,     (* ctx.state                                                  *)
  active,    (* ctx.active_msg_id                                          *)
  stop,      (* ctx.interrupt_event                                        *)
  turnTask,  (* ctx.turn_task                                              *)
  followup,  (* ctx.claude_background_followups is not empty               *)
  qlock,     (* ctx.query_lock: holder, then waiters                       *)
  elock,     (* ctx.emit_lock: holder, then waiters                        *)
  at,        (* where the command lane, the worker and the callback are    *)
  arg,       (* the prompt the command lane or the worker is launching     *)
  pc,        (* where the turn task of each prompt is                      *)
  receipt,   (* launch_receipt of a queued prompt's turn                   *)
  queue,     (* ctx.queued_queries                                         *)
  starting,  (* ctx.queued_query_starting_msg_id                           *)
  text,      (* the text of each queued prompt                             *)
  prompt,    (* the copy its turn was started with                         *)
  wakeup,    (* ctx.queued_query_wakeup                                    *)
  watched,   (* turn tasks whose completion sets wakeup                    *)
  asked,     (* history: prompts sent so far                               *)
  withdrawn, (* history: prompts cancelled or replaced in the queue        *)
  sent,      (* history: the texts each prompt was submitted with          *)
  echo,      (* history: the id its UserMsg carried, "none" before         *)
  count      (* history: edits, follow-ups, interrupts, slow emits so far *)

locks   == <<qlock, elock>>
session == <<state, active, stop, turnTask>>
worker  == <<queue, starting, text, wakeup, watched>>
turns   == <<pc, receipt, prompt>>
history == <<asked, withdrawn, sent, echo, count>>
vars    == <<engine, session, followup, locks, at, arg, turns, worker, history>>

Init ==
  /\ engine \in Engines
  /\ state = "idle" /\ active = "none" /\ stop = FALSE /\ turnTask = "none"
  /\ followup = FALSE
  /\ qlock = <<>> /\ elock = <<>>
  /\ at = [cmd |-> "free", drain |-> "none", bg |-> "none"]
  /\ arg = [cmd |-> "none", drain |-> "none"]
  /\ pc = [m \in Msgs |-> "none"]
  /\ receipt = [m \in Msgs |-> "none"]
  /\ prompt = [m \in Msgs |-> 0]
  /\ queue = <<>> /\ starting = "none"
  /\ text = [m \in Msgs |-> 0]
  /\ wakeup = FALSE /\ watched = {}
  /\ asked = {} /\ withdrawn = {}
  /\ sent = [m \in Msgs |-> <<>>]
  /\ echo = [m \in Msgs |-> "none"]
  /\ count = [edits |-> 0, followups |-> 0, stops |-> 0, others |-> 0]

(* What may still happen within the bounds.                                *)
MoreEvents ==
  Cardinality(asked) + count.edits + count.followups + count.stops
    + count.others < MaxEvents

Holds(lock, a) == lock # <<>> /\ Head(lock) = a

Waits(q, m) == m \in ToSet(q)

(* The item of m is looked for and popped.                                 *)
Without(q, m) ==
  IF Waits(q, m) THEN RemoveAt(q, CHOOSE i \in DOMAIN q : q[i] = m) ELSE q

At(a, place) == at' = [at EXCEPT ![a] = place]

(* An emit that no other coroutine's slow emit holds up.                   *)
EmitNow == elock = <<>> /\ UNCHANGED elock

-----------------------------------------------------------------------------
(* Starting a turn: _handle_immediate_query, run by the command lane or    *)
(* the worker with query_lock held.                                        *)
Busy == state # "idle" \/ followup

(* The locked check.  An uncontended lock is taken without suspending.     *)
CmdAdmitted(waiters) ==
  /\ qlock' = IF Busy THEN waiters ELSE <<"cmd">> \o waiters
  /\ At("cmd", IF Busy THEN "free" ELSE "preflight")

(* _handle_query, delivery "immediate".                                    *)
Query(m) ==
  /\ at.cmd = "free"
  /\ m \in Immediate \ asked /\ MoreEvents
  /\ asked' = asked \cup {m}
  /\ arg' = [arg EXCEPT !.cmd = m]
  /\ IF qlock = <<>>
     THEN CmdAdmitted(<<>>)
     ELSE qlock' = Append(qlock, "cmd") /\ At("cmd", "lock")
  /\ UNCHANGED <<engine, session, followup, elock, turns, worker,
                 withdrawn, sent, echo, count>>

CmdLock ==
  /\ at.cmd = "lock"
  /\ Holds(qlock, "cmd")
  /\ CmdAdmitted(Tail(qlock))
  /\ UNCHANGED <<engine, session, followup, elock, arg, turns, worker, history>>

(* An ownership, daemon or Work preflight fails, or a follow-up began.     *)
Reject(a) ==
  /\ at[a] = "preflight"
  /\ EmitNow
  /\ At(a, IF a = "cmd" THEN "free" ELSE "rejected")
  /\ qlock' = Tail(qlock)
  /\ UNCHANGED <<engine, session, followup, arg, turns, worker, history>>

(* Every rejection path has passed: claim the session.                     *)
Claim(a) ==
  /\ at[a] = "preflight"
  /\ ~followup
  /\ At(a, "emit")
  /\ stop' = FALSE
  /\ active' = arg[a]
  /\ state' = "running"
  /\ elock' = Append(elock, a)
  /\ UNCHANGED <<engine, turnTask, followup, qlock, arg, turns, worker, history>>

(* The running state is out: create the turn task and leave the lock.      *)
Create(a) ==
  /\ at[a] = "emit"
  /\ Holds(elock, a)
  /\ elock' = Tail(elock)
  /\ qlock' = Tail(qlock)
  /\ pc' = [pc EXCEPT ![arg[a]] = "launch"]
  /\ receipt' = [receipt EXCEPT ![arg[a]] = "none"]
  /\ turnTask' = arg[a]
  /\ At(a, IF a = "cmd" THEN "free" ELSE "receipt")
  /\ UNCHANGED <<engine, state, active, stop, followup, arg, prompt, worker,
                 history>>

-----------------------------------------------------------------------------
(* The turn task of m: _run_turn.                                          *)
Goto(m, place) == pc' = [pc EXCEPT ![m] = place]

Settle(m, value) ==
  receipt' = [receipt EXCEPT ![m] = IF @ = "none" THEN value ELSE @]

(* The id a UserMsg carries; a fresh uuid when active_msg_id is gone.      *)
EchoId == IF active = "none" THEN "uuid" ELSE active

(* An interrupt before the launch: the turn is closed unsubmitted.         *)
LaunchStopped(m) ==
  /\ pc[m] = "launch"
  /\ stop \/ state = "interrupting"
  /\ EmitNow
  /\ echo' = [echo EXCEPT ![m] = EchoId]
  /\ Goto(m, "failed")
  /\ UNCHANGED <<engine, session, followup, qlock, at, arg, receipt, prompt,
                 worker, asked, withdrawn, sent, count>>

(* Final preflight failed: an Error, and the prompt was not submitted.     *)
LaunchFailed(m) ==
  /\ pc[m] = "launch"
  /\ Goto(m, "failed")
  /\ UNCHANGED <<engine, session, followup, locks, at, arg, receipt, prompt,
                 worker, history>>

(* ClaudeAutonomousFollowupPending: the guard refused the SDK write.       *)
LaunchLost(m) ==
  /\ pc[m] = "launch"
  /\ followup
  /\ Settle(m, "lost")
  /\ Goto(m, "failed")
  /\ UNCHANGED <<engine, session, followup, locks, at, arg, prompt, worker,
                 history>>

(* sdk.query: the prompt reaches the engine.                               *)
Submit(m) ==
  /\ pc[m] = "launch"
  /\ ~stop /\ state # "interrupting"
  /\ ~followup
  /\ sent' = [sent EXCEPT ![m] = Append(@, prompt[m])]
  /\ Goto(m, "submitted")
  /\ UNCHANGED <<engine, session, followup, locks, at, arg, receipt, prompt,
                 worker, asked, withdrawn, echo, count>>

(* UserMsg, then the launch receipt.                                       *)
Accepted(m) ==
  /\ pc[m] = "submitted"
  /\ EmitNow
  /\ echo' = [echo EXCEPT ![m] = EchoId]
  /\ Settle(m, "settled")
  /\ Goto(m, "running")
  /\ UNCHANGED <<engine, session, followup, qlock, at, arg, prompt, worker,
                 asked, withdrawn, sent, count>>

(* The engine's terminal Result, or a failure of the stream, of the submit *)
(* or of an interrupt's drain.                                             *)
Result(m) ==
  /\ pc[m] = "running"
  /\ EmitNow
  /\ Goto(m, "result")
  /\ UNCHANGED <<engine, session, followup, qlock, at, arg, receipt, prompt,
                 worker, history>>

Crash(m) ==
  /\ pc[m] \in {"submitted", "running"}
  /\ EmitNow
  /\ Goto(m, "failed")
  /\ UNCHANGED <<engine, session, followup, qlock, at, arg, receipt, prompt,
                 worker, history>>

(* _schedule_query_queue_drain: wake the worker, or create it.             *)
Scheduled(q, woken) ==
  /\ at' = [at EXCEPT !.drain = IF @ = "none" /\ q # <<>> THEN "loop" ELSE @]
  /\ wakeup' = (wakeup \/ woken \/ (at.drain # "none" /\ q # <<>>))

(* Mutant of Quiet: only the callback of the follow-up settles.            *)
QuietInCallback(owner) == owner = "none" /\ ~followup /\ at.bg = "settle"

(* _settle_claude_lifecycle_if_quiescent, with query_lock held: the last   *)
(* of a turn's task and its follow-up unlocks the session.                 *)
Quiet(owner) == owner = "none" /\ ~followup

(* The rest of the finally block: m's task is done, whoever owns the       *)
(* session by now.  st is the state, owner the turn_task it finds.         *)
TaskDone(m, st, owner) ==
  LET quiet == engine = "claude" /\ Quiet(owner)
  IN /\ state' = IF quiet THEN "idle" ELSE st
     /\ active' = "none"
     /\ stop' = (stop /\ followup /\ st = "interrupting")
     /\ IF engine = "claude"
        THEN Scheduled(queue, quiet \/ m \in watched)
        ELSE wakeup' = (wakeup \/ m \in watched) /\ UNCHANGED at
     /\ watched' = watched \ {m}
     /\ Goto(m, "done")

(* The finally block up to its first suspension; q is query_lock without   *)
(* m.  A Claude turn takes query_lock once more to settle the session.     *)
Finally(m, st, q) ==
  /\ turnTask' = "none"
  /\ Settle(m, "settled")
  /\ IF engine = "codex" \/ q = <<>>
     THEN qlock' = q /\ TaskDone(m, st, "none")
     ELSE /\ qlock' = Append(q, m)
          /\ state' = st
          /\ Goto(m, "settle")
          /\ UNCHANGED <<active, stop, at, wakeup, watched>>

(* _set_state("idle"): the state first, its event when emit_lock is free.  *)
SetIdle(m) ==
  /\ state' = "idle"
  /\ wakeup' = TRUE
  /\ elock' = Append(elock, m)
  /\ Goto(m, "idleEmit")
  /\ UNCHANGED <<active, stop, turnTask, at, receipt, watched>>

(* A follow-up owns the session now: it stays running.                     *)
StayRunning(m, q) ==
  /\ Finally(m, IF state = "idle" THEN "running" ELSE state, q)
  /\ UNCHANGED elock

(* _set_idle_after_managed_turn.  After Claude's own Result the session is *)
(* unlocked under query_lock.                                              *)
EndTurn(m) ==
  /\ \/ /\ pc[m] \in {"result", "failed"}
        /\ engine = "claude" /\ followup
        /\ StayRunning(m, qlock)
     \/ /\ pc[m] = "result"
        /\ engine = "claude" /\ ~followup
        /\ IF qlock = <<>>
           THEN SetIdle(m)
           ELSE /\ Goto(m, "idleLock")
                /\ UNCHANGED <<session, elock, at, receipt, wakeup, watched>>
        /\ qlock' = Append(qlock, m)
     \/ /\ pc[m] = "failed" \/ (pc[m] = "result" /\ engine = "codex")
        /\ ~followup
        /\ SetIdle(m)
        /\ UNCHANGED qlock
  /\ UNCHANGED <<engine, followup, arg, prompt, queue, starting, text, history>>

IdleLock(m) ==
  /\ pc[m] = "idleLock"
  /\ Holds(qlock, m)
  /\ IF followup
     THEN StayRunning(m, Tail(qlock))
     ELSE SetIdle(m) /\ UNCHANGED qlock
  /\ UNCHANGED <<engine, followup, arg, prompt, queue, starting, text, history>>

(* The idle event is out.  A Codex turn that overflowed repairs the        *)
(* browsers' projection before its finally block.                          *)
IdleEmitted(m) ==
  /\ pc[m] = "idleEmit"
  /\ Holds(elock, m)
  /\ elock' = Tail(elock)
  /\ \/ Finally(m, state, IF Holds(qlock, m) THEN Tail(qlock) ELSE qlock)
     \/ /\ engine = "codex"
        /\ Goto(m, "repair")
        /\ UNCHANGED <<session, qlock, at, receipt, wakeup, watched>>
  /\ UNCHANGED <<engine, followup, arg, prompt, queue, starting, text, history>>

Repaired(m) ==
  /\ pc[m] = "repair"
  /\ Finally(m, state, qlock)
  /\ UNCHANGED <<engine, followup, elock, arg, prompt, queue, starting, text,
                 history>>

SettleTurn(m) ==
  /\ pc[m] = "settle"
  /\ Holds(qlock, m)
  /\ qlock' = Tail(qlock)
  /\ TaskDone(m, state, turnTask)
  /\ UNCHANGED <<engine, turnTask, followup, elock, arg, receipt, prompt, queue,
                 starting, text, history>>

-----------------------------------------------------------------------------
(* Autonomous follow-ups of Claude: _on_claude_background_message.         *)

(* A task notification of an earlier turn starts a turn of its own.        *)
FollowupBegin ==
  /\ engine = "claude"
  /\ ~followup /\ at.bg = "none"
  /\ count.followups < MaxFollowups /\ MoreEvents
  /\ \E m \in Msgs : sent[m] # <<>>
  /\ followup' = TRUE
  /\ count' = [count EXCEPT !.followups = @ + 1]
  /\ state' = IF state = "idle" THEN "running" ELSE state
  /\ wakeup' = (wakeup \/ state = "idle")
  /\ UNCHANGED <<engine, active, stop, turnTask, locks, at, arg, turns, queue,
                 starting, text, watched, asked, withdrawn, sent, echo>>

(* The callback settles the session unless a turn task will do it.         *)
Unlock(owner) ==
  IF Quiet(owner)
  THEN state' = "idle" /\ active' = "none" /\ stop' = FALSE
  ELSE UNCHANGED <<state, active, stop>>

(* Its Result, or its watchdog, retires it.                                *)
FollowupEnd ==
  /\ followup
  /\ followup' = FALSE
  /\ IF turnTask = "none"
     THEN IF qlock = <<>>
          THEN /\ state' = "idle" /\ active' = "none" /\ stop' = FALSE
               /\ Scheduled(queue, TRUE)
               /\ UNCHANGED qlock
          ELSE /\ qlock' = Append(qlock, "bg")
               /\ At("bg", "settle")
               /\ UNCHANGED <<state, active, stop, wakeup>>
     ELSE Scheduled(queue, FALSE) /\ UNCHANGED <<state, active, stop, qlock>>
  /\ UNCHANGED <<engine, turnTask, elock, arg, turns, queue, starting, text,
                 watched, history>>

SettleFollowup ==
  /\ at.bg = "settle"
  /\ Holds(qlock, "bg")
  /\ qlock' = Tail(qlock)
  /\ Unlock(turnTask)
  /\ at' = [at EXCEPT !.bg = "none",
                      !.drain = IF @ = "none" /\ queue # <<>> THEN "loop" ELSE @]
  /\ wakeup' = TRUE
  /\ UNCHANGED <<engine, turnTask, followup, elock, arg, turns, queue, starting,
                 text, watched, history>>

-----------------------------------------------------------------------------
(* The queue worker: _drain_query_queue.                                   *)
Blocked == turnTask # "none" \/ Busy

(* The locked check: the head of the queue is copied and marked starting,  *)
(* and stays in the queue until its launch is settled.                     *)
WorkerAdmitted(waiters) ==
  IF Blocked \/ queue = <<>>
  THEN /\ qlock' = waiters
       /\ At("drain", "loop")
       /\ UNCHANGED <<arg, prompt, queue, starting>>
  ELSE LET m == Head(queue)
       IN /\ qlock' = <<"drain">> \o waiters
          /\ At("drain", "preflight")
          /\ starting' = m
          /\ arg' = [arg EXCEPT !.drain = m]
          /\ prompt' = [prompt EXCEPT ![m] = text[m]]
          /\ UNCHANGED queue

(* Mutant of Watching: the worker forgets the done callback.               *)
WatchingNobody == {}

(* The turn task whose done callback the worker registers.                 *)
Watching == {turnTask} \cap Msgs

WorkerLoop ==
  /\ at.drain = "loop"
  /\ \/ /\ queue = <<>>
        /\ At("drain", "none")
        /\ UNCHANGED <<qlock, arg, prompt, starting, queue, wakeup, watched>>
     \/ /\ queue # <<>> /\ Blocked
        /\ At("drain", "wait")
        /\ wakeup' = FALSE
        /\ watched' = watched \cup Watching
        /\ UNCHANGED <<qlock, arg, prompt, starting, queue>>
     \/ /\ queue # <<>> /\ ~Blocked
        /\ wakeup' = FALSE
        /\ IF qlock = <<>>
           THEN WorkerAdmitted(<<>>)
           ELSE /\ qlock' = Append(qlock, "drain")
                /\ At("drain", "lock")
                /\ UNCHANGED <<arg, prompt, starting, queue>>
        /\ UNCHANGED watched
  /\ UNCHANGED <<engine, session, followup, elock, pc, receipt, text, history>>

WorkerLock ==
  /\ at.drain = "lock"
  /\ Holds(qlock, "drain")
  /\ WorkerAdmitted(Tail(qlock))
  /\ UNCHANGED <<engine, session, followup, elock, pc, receipt, text, wakeup,
                 watched, history>>

WorkerWake ==
  /\ at.drain = "wait"
  /\ wakeup
  /\ At("drain", "loop")
  /\ UNCHANGED <<engine, session, followup, locks, arg, turns, worker, history>>

(* The receipt: a prompt that is proved unsent stays, any other leaves.    *)
WorkerReceipt ==
  /\ at.drain = "receipt"
  /\ receipt[arg.drain] # "none"
  /\ EmitNow
  /\ queue' = IF receipt[arg.drain] = "lost" THEN queue
              ELSE Without(queue, arg.drain)
  /\ starting' = "none"
  /\ At("drain", "loop")
  /\ UNCHANGED <<engine, session, followup, qlock, arg, turns, text, wakeup,
                 watched, history>>

(* A rejected launch leaves its error on the item and waits for a change   *)
(* or for the retry delay.                                                 *)
WorkerRejected ==
  /\ at.drain = "rejected"
  /\ EmitNow
  /\ starting' = "none"
  /\ At("drain", "retry")
  /\ UNCHANGED <<engine, session, followup, qlock, arg, turns, queue, text,
                 wakeup, watched, history>>

WorkerRetry ==
  /\ at.drain = "retry"
  /\ At("drain", "loop")
  /\ UNCHANGED <<engine, session, followup, locks, arg, turns, worker, history>>

-----------------------------------------------------------------------------
(* Other commands of the command lane.                                     *)
Replaceable == {m \in Replacing : Waits(queue, m)}

(* Mutant: a retried command is queued again.                              *)
RepeatedNever(m) == m # m

Repeated(m) == Waits(queue, m)

(* _enqueue_deferred_query.  A repeated msg_id changes nothing; a replace  *)
(* prompt goes first and takes the place of the last one unless that one   *)
(* is starting.                                                            *)
Enqueue(m) ==
  /\ at.cmd = "free"
  /\ EmitNow
  /\ m \in Queued \cup Replacing
  /\ (m \notin asked /\ MoreEvents) \/ Waits(queue, m)
  /\ asked' = asked \cup {m}
  /\ LET old  == IF m \in Replacing THEN Replaceable ELSE {}
         kept == IF old = {} THEN queue
                 ELSE Without(queue, CHOOSE item \in old : TRUE)
         ok   == starting \notin old /\ Len(kept) < MaxQueue
     IN IF Repeated(m)
        THEN Scheduled(queue, FALSE) /\ UNCHANGED <<queue, withdrawn>>
        ELSE IF ok
        THEN /\ queue' = IF m \in Replacing THEN <<m>> \o kept
                         ELSE Append(kept, m)
             /\ withdrawn' = withdrawn \cup old
             /\ Scheduled(queue', FALSE)
        ELSE UNCHANGED <<queue, withdrawn, at, wakeup>>
  /\ UNCHANGED <<engine, session, followup, qlock, arg, turns, starting, text,
                 watched, sent, echo, count>>

(* Mutant of Cancel: an item that is starting can be cancelled.            *)
CancelStarting(m) ==
  /\ at.cmd = "free"
  /\ EmitNow
  /\ Waits(queue, m)
  /\ queue' = Without(queue, m)
  /\ withdrawn' = withdrawn \cup {m}
  /\ wakeup' = TRUE
  /\ UNCHANGED <<engine, session, followup, qlock, at, arg, turns, starting,
                 text, watched, asked, sent, echo, count>>

(* _handle_cancel_queued_query.                                            *)
Cancel(m) ==
  /\ at.cmd = "free"
  /\ EmitNow
  /\ Waits(queue, m) /\ m # starting
  /\ queue' = Without(queue, m)
  /\ withdrawn' = withdrawn \cup {m}
  /\ wakeup' = TRUE
  /\ UNCHANGED <<engine, session, followup, qlock, at, arg, turns, starting,
                 text, watched, asked, sent, echo, count>>

(* _handle_update_queued_query.                                            *)
Update(m) ==
  /\ at.cmd = "free"
  /\ EmitNow
  /\ Waits(queue, m) /\ m # starting
  /\ text[m] < MaxEdits /\ MoreEvents
  /\ count' = [count EXCEPT !.edits = @ + 1]
  /\ text' = [text EXCEPT ![m] = @ + 1]
  /\ Scheduled(queue, FALSE)
  /\ UNCHANGED <<engine, session, followup, qlock, arg, turns, queue, starting,
                 watched, asked, withdrawn, sent, echo>>

(* _handle_interrupt: accepted only while running.                         *)
Interrupt ==
  /\ at.cmd = "free"
  /\ EmitNow
  /\ state = "running"
  /\ count.stops < MaxStops /\ MoreEvents
  /\ count' = [count EXCEPT !.stops = @ + 1]
  /\ state' = "interrupting"
  /\ stop' = TRUE
  /\ UNCHANGED <<engine, active, turnTask, followup, qlock, at, arg, turns,
                 worker, asked, withdrawn, sent, echo>>

(* Another coroutine's emit holds emit_lock while it awaits a store or a   *)
(* full send queue.                                                        *)
OtherEmit ==
  /\ ~Waits(elock, "other")
  /\ count.others < MaxOthers /\ MoreEvents
  /\ count' = [count EXCEPT !.others = @ + 1]
  /\ elock' = Append(elock, "other")
  /\ UNCHANGED <<engine, session, followup, qlock, at, arg, turns, worker,
                 asked, withdrawn, sent, echo>>

OtherEmitted ==
  /\ Holds(elock, "other")
  /\ elock' = Tail(elock)
  /\ UNCHANGED <<engine, session, followup, qlock, at, arg, turns, worker,
                 history>>

-----------------------------------------------------------------------------
Turn(m) ==
  \/ LaunchStopped(m) \/ LaunchFailed(m) \/ LaunchLost(m) \/ Submit(m)
  \/ Accepted(m) \/ Result(m) \/ Crash(m)
  \/ EndTurn(m) \/ IdleLock(m) \/ IdleEmitted(m) \/ Repaired(m)
  \/ SettleTurn(m)

Followup == FollowupEnd \/ SettleFollowup

Launcher(a) == Reject(a) \/ Claim(a) \/ Create(a)

Worker ==
  \/ WorkerLoop \/ WorkerLock \/ WorkerWake \/ WorkerReceipt
  \/ WorkerRejected \/ WorkerRetry
  \/ Launcher("drain")

Command == CmdLock \/ Launcher("cmd")

User ==
  \/ \E m \in Msgs : Query(m) \/ Enqueue(m) \/ Cancel(m) \/ Update(m)
  \/ Interrupt

Next ==
  \/ \E m \in Msgs : Turn(m)
  \/ FollowupBegin \/ Followup
  \/ Worker \/ Command \/ User
  \/ OtherEmit \/ OtherEmitted

(* Every started coroutine goes on, the engine answers every submitted     *)
(* prompt in the end (or its stream fails), and a prompt is not rejected   *)
(* in preflight for ever.  Users and follow-ups owe nothing.               *)
Fairness ==
  /\ \A m \in Msgs : WF_vars(Turn(m))
  /\ WF_vars(Followup)
  /\ WF_vars(Worker) /\ WF_vars(Command) /\ WF_vars(OtherEmitted)
  /\ SF_vars(Claim("drain"))

Spec == Init /\ [][Next]_vars /\ Fairness

-----------------------------------------------------------------------------
Places == [cmd : {"free", "lock", "preflight", "emit"},
           drain : {"none", "loop", "wait", "lock", "preflight", "emit",
                    "receipt", "rejected", "retry"},
           bg : {"none", "settle"}]

Stages == {"none", "launch", "submitted", "running", "result", "failed",
           "idleLock", "idleEmit", "repair", "settle", "done"}

Optional == Msgs \cup {"none"}

(* Every variable has its type, and no task of a prompt is created while   *)
(* an earlier one is still running.                                        *)
TypeOK ==
  /\ engine \in Engines /\ state \in {"idle", "running", "interrupting"}
  /\ active \in Optional /\ stop \in BOOLEAN /\ turnTask \in Optional
  /\ followup \in BOOLEAN
  /\ qlock \in Seq(Msgs \cup {"cmd", "drain", "bg"})
  /\ elock \in Seq(Msgs \cup {"cmd", "drain", "other"})
  /\ at \in Places /\ arg \in [cmd : Optional, drain : Optional]
  /\ pc \in [Msgs -> Stages]
  /\ receipt \in [Msgs -> {"none", "lost", "settled"}]
  /\ prompt \in [Msgs -> 0..MaxEdits] /\ text \in [Msgs -> 0..MaxEdits]
  /\ queue \in Seq(Msgs) /\ Len(queue) <= MaxQueue /\ IsInjective(queue)
  /\ starting \in Optional
  /\ wakeup \in BOOLEAN /\ watched \subseteq Msgs
  /\ asked \subseteq Msgs /\ withdrawn \subseteq Msgs
  /\ sent \in [Msgs -> Seq(0..MaxEdits)]
  /\ echo \in [Msgs -> Optional \cup {"uuid"}]
  /\ \A a \in {"cmd", "drain"} :
       at[a] = "emit" => pc[arg[a]] \in {"none", "done"}

(* The ledger's view: what became of a prompt, and who is writing.         *)
StatusOf(m) ==
  IF m \in withdrawn THEN "withdrawn"
  ELSE IF sent[m] # <<>> THEN "submitted"
  ELSE IF pc[m] = "launch" \/ (starting = m /\ at.drain = "receipt") THEN "launched"
  ELSE IF starting = m THEN "held"
  ELSE IF arg.cmd = m /\ at.cmd # "free" THEN "offered"
  ELSE IF Waits(queue, m) THEN "waiting"
  ELSE IF m \in asked THEN "refused" ELSE "new"

Ledger == INSTANCE PromptLedger WITH
  status    <- [m \in Msgs |-> StatusOf(m)],
  delivered <- [m \in Msgs |-> IF sent[m] = <<>> THEN MaxEdits + 1
                               ELSE Last(sent[m])],
  writers   <- {m \in Msgs : pc[m] \in {"submitted", "running"}}

(* Whatever runs concurrently, prompts are handled as the ledger says:     *)
(* submitted at most once, one at a time, with the last saved text, never  *)
(* after they were withdrawn; and none leaves the queue unnoticed.         *)
KeepsLedger == Ledger!Spec

(* Nobody is left behind: when no coroutine has anything left to do, the   *)
(* session is idle and the queue is empty.                                 *)
Finished ==
  /\ at.cmd = "free" /\ at.bg = "none" /\ ~followup
  /\ \A m \in Msgs : pc[m] \in {"none", "done"}
  /\ at.drain = "none" \/ (at.drain = "wait" /\ ~wakeup)

NobodyStranded == Finished => state = "idle" /\ queue = <<>>

(* Every UserMsg names the prompt it echoes ("the originating client       *)
(* dedups by msg_id", protocol.py).                                        *)
EchoNamesPrompt == \A m \in Msgs : echo[m] \in {"none", m}

(* A queued prompt does not wait for ever, and a session does not stay     *)
(* busy for ever.                                                          *)
QueueMoves == \A m \in Msgs : Waits(queue, m) ~> ~Waits(queue, m)

Unlocks == state # "idle" ~> state = "idle"
=============================================================================
