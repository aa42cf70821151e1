# Formal models of cc-remote

cc-remote lets browsers drive Claude Code and Codex sessions that run on a
developer's machine. A *wrapper* (Python, asyncio) owns the sessions, a *relay*
(FastAPI) connects wrappers and browsers, and a *web client* (TypeScript)
keeps a cache per session. This directory holds TLA+ models of the parts whose
interleavings and failures decide whether a user sees every event once, whether
a prompt or a scheduled task runs exactly as asked, whether a question is asked
and answered once, and whether a crash can repeat what cannot be undone. TLC
checks them on small instances; TLAPS proves the safety of eight of these parts
(the replay ring, the prompt queue, command delivery, the relay hub, asks, the
rollback journal, the daemon restart and Work schedules) for every value of the
constants.

```
tlasany M.tla                     parse
tlc -config MC_X.cfg MC_X         model-check one run
tlapm X_proofs.tla                check the proofs about X
```

## Inventory

Paths are below `src/`. "Status" is what these models cover.

| component | state it keeps | operations | what is hard | what makes it correct | status |
|---|---|---|---|---|---|
| replay ring (`cc_remote/wrapper/ringbuffer.py`) | retained events, bytes, logical tail, last dropped seq | append, replay_from, replay_from_bounded, current_turn_replay | two budgets, events larger than the whole budget, holes, a marker evicted before its turn's events | every reply is exact or says truncated | modelled, proved |
| emit path (`machine.py` 10083-10288, `session_ctx.py`) | seq, ring, active turn binding | emit, claim, binding, steer, idle, follow-up | several coroutines emit; the binding must end with its turn; the prompt's name may be gone before its turn is | the ring and the numbering agree, the binding is the running turn's, a client that arrives sees that turn | modelled, proved, one turn at a time |
| replay protocol (`machine.py` 11673-11975, `transport.py`, `relay/pairing.py`, `relay/forward.py`, `web/src/ws.ts`) | queues of each hop, route per client, browser cursor and generation | emit, hello, answer, broadcast, drop, reconnect, restart, evict, spawn | frames lost on a link, slow clients, live frames overlapping a replay, numbering that restarts | no event twice or out of order; whoever lost frames notices | modelled |
| turn start and prompt queue (`machine.py` 10329-11023, 17274-17504, 17942-18030, 20956-21051, 22114-22169, 36217-37874) | state, active prompt, turn task, queue, query_lock, emit_lock, wakeup | query, enqueue, edit, cancel, interrupt, drain, run, follow-up | four kinds of coroutines, locks released between check and use, failed launches | a prompt reaches the engine at most once, alone, with its last text; nobody waits for ever | modelled, proved |
| command delivery (`web/src/outbox.ts`, `ws.ts`, `machine.py` 11036-11453) | browser outbox, wrapper's memory of command ids | send, resend, execute, acknowledge | lost acknowledgements, bounded memory, restarts | at most one execution per wrapper life, no acknowledgement without one | modelled, proved |
| relay hub (`relay/pairing.py`, `relay/forward.py`) | clients by machine and client id, connection slots, wrapper slot per machine, send lock, a queue per client | connect, hello, replace, forward, broadcast, answer, stop, expire, revoke | every step is cut at an await: a replaced connection's late frames, slow clients stopped in the middle of a broadcast, a device revoked while its wrapper is being admitted | the tables agree, an old connection is fenced off, a served client misses nothing | modelled, proved, except the notification hook |
| asks (`machine.py` 18650-18790, 23586-24165, `ask.py`, `claude_questions.py`) | pending asks, futures, ask_lock, emit_lock, current model confirmation | ask, answer, time out, cancel, supersede, interrupt, reseed on hello | all of them close the same question | one open question, one verdict, true screens, every caller returns | modelled, proved, without the texts |
| rollback journal and turn checkpoints (`rollback_commands.py`, `machine.py` 22264-22620, 30740-31203) | durable entries, lock marker, Codex checkpoint records | construct, begin, claim, mutate, record, answer; begin, accept and finish a turn's record | crashes and failing writes around an external effect, two processes, lost files, a turn that is not recorded | at most one mutation per command and surface, honest answers, aligned records | modelled, proved; the journal's store of checkpoints in part |
| daemon restart (`codex_daemon_restart.py`, `machine.py`) | marker file, worker lock, daemon epoch per session | publish, validate, restart, publish the outcome; connect, stamp, wait, hand over, reconnect | detached workers that overlap, die or are overtaken; turns that run meanwhile | the marker names the newest switch, a label names the right daemon, a handoff ends | modelled, proved |
| Work schedules (`workspaces.py` 780-1013, `machine.py` 9074-9375) | schedule and run records, leases | create, delete, scan, mark, renew, complete | crashes, late renewals and transactions that raise, deletion of a running one | a due run executes once at a time and is not lost | modelled, proved, without profiles and artifacts |
| Codex leases and spontaneous turns (`codex_turn_leases.py`, `machine.py`) | durable lease per session | claim, rebind, bind stream, release, restore | crash between the native start and the claim | a running native turn is found again | planned |
| session pool (`machine.py` 34100-34400, 26194-26388, 28732-28925) | resident contexts | spawn, evict, switch, delete | awaits between removal and insertion | one context per session | planned |
| Claude broker (`claude_broker/`) | PTY, subscribers, writer flags | attach, input, control, exit | terminal and wrapper type at the same time | input is not mixed | later |
| ownership watchers, forks, Git side of the checkpoints | external files and processes | polls, journals | external processes | fail closed | not modelled |
| SDK/RPC handles and stream translation | translator state | feed | long case analyses, sequential | faithful rendering | not modelled |
| history, presentation, pins, plans | files | page, save | I/O | | not modelled |
| relay accounts, devices, push, viewer, terminal client, deployment | local stores | HTTP handlers | I/O | | not modelled |
| web reducer, cache, rendering | projection per session | events | presentation | | replay start/end and the question's card only |

How they interact: a browser sends commands over its WebSocket; the relay
forwards them to the machine's wrapper, which handles them in one command lane
(some are coalesced into tasks). A handler changes a session context and emits
events; `_emit_locked` numbers them, appends them to the ring and hands a copy
to the transport. The relay broadcasts the copy to every connection's own
queue. When a browser connects, or hears `wrapper_reconnected`, it sends a
hello with its cursors and the wrapper answers with a replay from the rings.

`PROJECT.json` lists the hazards of this code at their lines, with the
properties aimed at them. Three have none, at `machine.py:17330` (a spontaneous
Codex turn begins between a check and the claim), `codex_turn_leases.py:460` (a
crash between a native start and its lease) and `machine.py:34198` (the pool
while an eviction awaits): they belong to the modules that are left to do.

## Modules

| module | models | refers to |
|---|---|---|
| `Ring` | the ring's operators, as functions of a ring record | |
| `RingLog` | one session's emit path over a ring: numbering, user markers, active binding | extends `Ring` |
| `SessionReplay` | one session from emit to reducer, over wrapper link, relay and browser | extends `Ring` |
| `Replay_proofs` | theorems about `RingLog` and `SessionReplay` | extends both and `TLAPS` |
| `PromptLedger` | abstract: what a session promises about prompts | |
| `TurnQueue` | turn start, prompt queue, interrupts and follow-ups of one session | implements `PromptLedger` |
| `TurnQueue_proofs` | theorems about `TurnQueue` | extends `TurnQueue`, `TLAPS` |
| `CommandDelivery` | a browser's commands through relay and wrapper, and their acknowledgements | |
| `CommandDelivery_proofs` | theorems about `CommandDelivery` | extends `CommandDelivery`, `TLAPS` |
| `RelayHub` | the relay's tables, its send lock and one coroutine per socket | |
| `RelayHub_proofs` | theorems about `RelayHub` | extends `RelayHub`, `TLAPS` |
| `PendingAsk` | questions to the user of one session, and the card of each client | |
| `PendingAsk_proofs` | theorems about `PendingAsk` | extends `PendingAsk`, `TLAPS` |
| `RollbackJournal` | a rollback command, its durable journal and its external effects | |
| `RollbackJournal_proofs` | theorems about `RollbackJournal` | extends `RollbackJournal`, `TLAPS` |
| `DaemonRestart` | hooks, workers and sessions around the restart of the Codex daemon | |
| `DaemonRestart_proofs` | theorems about `DaemonRestart` | extends `DaemonRestart`, `TLAPS` |
| `WorkSchedules` | scheduled work: store transactions, the loop and its tasks | |
| `WorkSchedules_proofs` | theorems about `WorkSchedules` | extends `WorkSchedules`, `TLAPS` |
| `MC_*` | instances for TLC | |

### Ring, RingLog

`ring.buf` is the set of retained events (`_buf`), `bytes` the incremental
counter, `tail` `_logical_tail_seq` and `dropped` `_dropped_through_seq`. An
event is its seq, size, kind and the prompt it belongs to. `Appended(r, e)` is
the set of rings `append` can end in (one, chosen by the loop's stopping
point); `ReplayFrom`, `ReplayBounded` and `CurrentTurn` are the three replies
with their `truncated` and `rebuild` flags. The compaction inside
`replay_from_bounded` concerns the text of deltas and is left out: every event
keeps its size. `CurrentTurn` returns a set because there may be no reply. It
asks for a prompt by name, or for none (`Unnamed`, the code's `None`), when any
user marker will do and the newest retained one is taken.

`RingLog` adds who emits what: claiming a turn, the user marker, `TurnBinding`,
`TurnSteered`, other events, `TurnEnd` and the idle state that clear the
binding, and what the hello handler reads. `running` is the last state event
(`latest_state`), so a claim or an idle state counts from its event on;
`AskedFor` is the binding's prompt or else `active`, the `active_msg_id`. That
may be gone while a turn runs: `Finish`, the finally block of an earlier turn
(`endings` counts them), resets it, and a follow-up of Claude (`GiveWay`,
`FollowUp`, `SettleFollowUp`) has none. `CurrentTurnOnly` says that a client
which arrives is shown the turn of the last marker and nothing older, by name or
not, and names the two cases in which an unnamed question finds another turn:
the claimed prompt has no marker yet (`Preflight`), or the last marker was
larger than the ring and an older one is retained (`Hidden`). Both are listed
under *Findings*. There is one turn at a time here: that a Claude turn's finally
block may also set the session idle under the next turn, which `TurnQueue` has,
is left out.

Every emit is one action because `_emit_locked` numbers and appends
without awaiting; it is serialized by `emit_lock`. Its names (`buffer`,
`LogInit`, `LogNext`, `EmitUserMsg`) differ from those of `SessionReplay`, so
that one module can prove about both with the same lemmas about `Appended`.

### SessionReplay

The answer to a hello without a cursor names the running turn (`turnFrom`); the
unnamed question is left to `RingLog`. State per hop: the wrapper's `gen`
(instance id), ring, residency; the frames on the link (`wq`, `inbox`); the
relay's `route` per client id and its bounded queue `cq`; the browser's
`cursor`, `cgen`, `rebuilding`. A *life* is one numbering of the session, which
the code cannot see: both a wrapper restart and an eviction followed by a spawn
start a new one. `seen`, `last`, `disorder`, `owed`, `overlap`, `orphan` are
history variables.

A loss of the link drops everything in flight in both directions, as a closed
TCP connection does; a slow client is dropped with its queue (code 4008). The
wrapper's inbox survives a reconnect, so an answer to an old connection's hello
may reach the client id's new connection: the relay filters these by route id
where the frame carries one (`routed`).

`orphan` marks a browser whose cursor was moved by a frame of a generation it
had not heard of, or by the rest of an answer to an earlier connection:
sequenced events carry no generation, so the browser cannot tell. What it then
shows is corrected only by the next rebuild, and the invariants say what still
holds. A rebuild is not the end of it when the orphan had said hello twice: the
second answer starts from the cursor that the first one's rebuild took back,
and if what was sent between the two was lost with the link, the browser's
cursor jumps over it for good (`replay_start` is not compared with the cursor).
So the answer to a hello that an orphan sent, `stray`, makes an orphan again
unless it is a rebuild.

### TurnQueue, PromptLedger

A step of `TurnQueue` runs from one `await` that can suspend to the next one.
`query_lock` and `emit_lock` are FIFO `asyncio.Lock`s: a sequence whose head
holds it. An uncontended `acquire` does not suspend, and the model keeps that
(it decides which races exist). The coroutines:

* the command lane, `at.cmd`: `Query` (immediate), `Enqueue`, `Cancel`,
  `Update`, `Interrupt`, one at a time;
* the worker, `at.drain`: `_drain_query_queue`, created on demand;
* one task per started prompt, `pc[m]`: `_run_turn`;
* the callback of Claude's autonomous follow-up, `at.bg`.

`Claim` is the synchronous claim of the session in `_handle_immediate_query`,
`Create` the creation of the task once the running state has been emitted.
Everything between admission and claim (ownership probes, daemon checks, Work
preflights) is one stage `preflight` that ends in `Reject` or `Claim`.
`Finally`, `TaskDone` are the finally block, cut at its one suspension (a
contended `query_lock` in `_settle_claude_lifecycle_if_quiescent`). An emit of
the command lane or the worker that would wait for a slow emit is a guard
(`EmitNow`): the coroutine has nothing to do meanwhile and holds no other lock
that matters. The emits under whose lock something can happen, the running
state and the idle state, wait in `elock`.

The refinement mapping: a prompt's `status` in the ledger is computed from
where it is (`StatusOf`); `delivered` is the last text submitted and `writers`
the prompts between submission and result. That `TurnQueue` implements
`PromptLedger` says in one formula: at most one submission of each prompt, one
turn at a time, with the last saved text, none after a withdrawal, no edit or
withdrawal of a prompt that is being started, and no prompt disappears from the
queue without being withdrawn, submitted or visibly refused.

### CommandDelivery

The browser keeps each command in its `outbox` until it is acknowledged, and
sends all of them again when its socket opens and when the relay announces a
wrapper (`Preamble`). `toRelay`, `toWrapper`, `fromWrapper` and `toClient` are
the four hops; `toWrapper` stands for the socket and the wrapper's inbox, so a
lost link keeps any prefix of it. `routed` is the socket the relay has
registered for a client id, `attached` the wrapper's slot, `up` the wrapper's
own view of its link. `Take` is the receive loop of `run`: a command is handled
in the `lane`, or in a task that is counted in `running` and coalesced while it
runs. `Finish` and `Fail` end `_process_command`; only the first remembers the
id (`known`, with its cap) and acknowledges.

`issued`, `started`, `ran`, `done`, `raised` and `count` are history.
`AtMostOnce` rests on the caps. Every round without an acknowledgement lets at
most `OutboxCap - 1` newer ids pass a waiting command in the memory, so the
instance satisfies (losses + reconnects) * (`OutboxCap` - 1) < `IdsPerClient`.
With one id less TLC finds a command that is forgotten and runs twice: in the
code, 512 ids against an outbox of 256 tolerate two interruptions in a row that
each lose a full outbox of acknowledgements. `README_en.md` says that these
tables are bounded and promises no more.

`InOrder` says what the resending does to the order: without a loss of the
wrapper's link a browser's serial commands first run in the order they were
sent and without a gap, whatever happens to its own socket and whichever
handlers raise. After a lost link it is not so: a
command sent on the browser's open socket once the wrapper is back, but before
the browser has processed the announcement, overtakes the unacknowledged ones.

### RelayHub

One coroutine per client socket (`at[c]`, `serve_client`) and per wrapper
socket (`wat[w]`, `serve_wrapper`); an action runs from one await that may
suspend to the next. The hub's `_lock` is never held across one and needs no
variable; `_wrapper_send_lock` is the FIFO `line`. `slots` is `_client_slots`,
`clients` the table by machine and client id, `wrapper` the slot of each
machine. A socket goes `open`, `closing`, `shut`: `ClientConn.stop` waits for
the closing handshake and cancels the `sender`. Whether a client's queue is
full is a choice at each send and counts as an event. A broadcast that finds
slow clients takes them out of the table at once and stops them one after
another (`victim`, `dead`), while everything else goes on. `device` is the
enrolment that `authorize_machine` reads and a revocation deletes.

`told`, `missed`, `superseded` and `sent` are history. `Fenced` is the reason
for the send lock: an old connection's command that waited, or was being sent,
when the new connection took its id over never reaches the wrapper.

### PendingAsk

`ask_lock` and `emit_lock` are FIFO queues of coroutines: the askers (`at[p]`,
`page[p]`) and the command lane. `emit_lock` has emitters that are not
modelled, so taking it always waits; `ask_lock` is taken at once when free.
Closing a question is two steps with an emit between them, `BeginClose` and
`EndClose`, because `_close_pending_ask_locked` sets the future only after its
emit and does so even when the emit is cancelled. `Batches` keep `ask_lock` for
all their questions; `Models` are confirmations of a model switch, which retire
the previous one and are addressed to one client. `shown[c]` is the reducer's
`pendingQuestion`; `lost` remembers what a client took away itself, by
answering or on the idle state, or never got because an emit was cut short.

### RollbackJournal

The disk is `lock` (the lock file and its marker), `stored` and `entries` (the
state file, replaced atomically) and Codex's `checkpoint` records, counted by
turns. Each process goes through its constructor (`OpenLock`, `Construct`,
`WriteMarker`) and then through `_handle_rollback_session`: `Begin`, `Claim`
(`mark_submitted`), the external effects in the order of the engine, `Record`
(`complete`), `MarkUncertain`, `Publish`. Every write may raise before or after
its replace. `Mutate` submits a native mutation whose effect may be there
whatever its answer says. Two processes stand for a dying wrapper and its
replacement. `calls`, `changed` and `told` are history.

The records are `"aligned"` with the thread's turns, `"retired"` (moved away),
`"behind"` a thread that was cut without them, or with a `"gap"`: a turn has no
record, so restoring by count takes the wrong one. `"open"` is a record that was
begun for a turn that the app server accepted and whose acceptance marker is
missing; the next turn's recovery discards it. A turn of Codex goes through
`BeginTurn` (`_begin_codex_checkpoint`), `Accepted` or `NotAccepted`,
`AcceptTurn`, `FinishTurn` and, when a record or its end fails,
`RecordUnavailable` with its second attempt. `GiveUp` is
`_retire_codex_checkpoint` and every other way in which a context gives its
checkpoints up (`off`), with the records moved away or left where they are;
`Respawn` is the next context of the session, which opens them again. A crash
in between leaves what `Torn` says. Rollbacks and turns share a lane and exclude
each other (`Busy`, `AnswerBusy`), also across the two processes: a native
thread is in the hands of one of them at a time. Opening a journal may fail at
every turn here, though the code opens it once per context; moving it away may
fail wherever it is tried.

### DaemonRestart

`marker` is the state file that the hooks write and the sessions poll; a
deadline that passed makes it `late`, which readers take for absent. A hook
goes through `at[h]`: detached ones spawn a worker that validates its epoch
before and after the drain grace, synchronous ones restart under the worker
lock at once. The daemon is external: `gen` counts its restarts, and a failed
or killed restart may still have replaced it. A session is connected to
generation `conn`, bears the epoch `label`, and its `turn` is none, stamping,
idle, starting, running, switching or continuing. `Connect` spawns a session, or
connects it again for another web search mode, and `StampEpoch` then reads the
marker and labels it: in between the daemon may be replaced, and the session
bears an epoch newer than its daemon. `before` remembers the generation at each
publication, which gives `ReadyRestarted` and `LabelTrue` their meaning.
`LabelTrue` excepts exactly that session while it rests: its connection is dead,
and `Start` compares the process generation and connects again before a turn
runs on it. A running turn's label is always true. The side chat's fork and
recovery of a lease (`machine.py` 35496, 5453) connect and stamp in the same
order; a prompt that is started while the web search mode changes is not
modelled.

### WorkSchedules

Each transaction of the store is one step, as SQLite's `BEGIN IMMEDIATE` makes
it: `Create`, `Delete`, `Scan` (`claim_due_schedules`: expired leases, new
runs, claims), `Mark`, `Complete`. A run's row has a status, an attempt, a
lease and a retry delay; times are relative and count down on `Tick`. A task
whose renewal loop runs keeps its lease full, since a lease outlives three of
its renewals; `Suspend` (the machine slept) and `RenewalFails` (the renewal
raised) are the ways to lose one under a live task. A task is named by run and
attempt, although the store compares only the run: that is how two tasks of one
run can be told apart in the properties. A transaction may raise (the database
is locked): `MarkRaises` leaves a task `"unmarked"`, whose handler completes a
run that it never began, and `CompleteRaises` ends a task without its result.
`strayed` remembers the runs whose row, of another attempt or finished, such a
task wrote over. `ExecutedOnce` and `DeletedLater` speak of `Regular` schedules,
without such a run and without a lapsed lease; what the code does to the others
is listed under *Findings*.

## Runs

| run | checks | instance | why it is enough |
|---|---|---|---|
| `ring_log` | `LogInv`, `ReplayExact`, `RebuildExact`, `BoundedExact`, `CurrentTurnOnly`, `RingBounded` | either engine, 3 events, 4 bytes, sizes 1, 2, 5, six events, three turns | both budgets bind, an event larger than the ring occurs, a hole can be inside, at the edge of and outside the retained range; six events refill the ring twice; late resets, follow-ups and unnamed questions with a marker, without one and with a hidden one occur |
| `session_replay` | `TypeOK`, `InOrderOnce`, `CaughtUp`, `CompleteUnlessOverlap` | one browser, ring of one event, queue of 2, two generations, two lives, two connections (the last one only the relay drops), two link losses | browsers do not interact except through their own queues; one restart, one eviction, two losses and one replacement combine, and two losses are what it takes for an orphan's second hello to be answered after its first one's rebuild. Instances with queues of 3 (11.2 million states), with a ring of 2 and three events (8.9 million), with three generations and lives (20.4 million) and with three losses also pass |
| `session_replay_gap` | `NothingLost`, violated | | finding 1 |
| `session_replay_respawn` | `RespawnRebuilds`, violated | | finding 2 |
| `turn_queue` | `TypeOK`, `NobodyStranded`, `KeepsLedger`, `QueueMoves`, `Unlocks` | a prompt of each delivery, either engine, one edit, follow-up, interrupt and slow emit; three of these in one behaviour | every pair of coroutines meets, and a third actor interferes. All five also hold with four of these (573 000 states), the first three with all seven (6.3 million) |
| `turn_queue_echo` | `EchoNamesPrompt`, violated | two immediate prompts | finding 3 |
| `command_delivery` | `TypeOK`, `AtMostOnce`, `InOrder`, `AckedRan`, `Acknowledged` | two serial commands (one safe) and one task, outbox of 2, memory of 3, three sockets; two of: lost link, replaced socket, restart, handler that raises | the outbox overflows, and every way to lose an acknowledgement meets every other one. The invariants also hold with a fourth command, when the memory overflows (4.4 million states), and with two browsers, which meet only in the lane and the link |
| `relay_hub` | `Bookkeeping`, `NoHole`, `WrapperKnown`, `Fenced`, `SlotsFreed` | three client sockets, two of one client id, two accounts, two wrapper sockets of one machine, one client and one machine allowed; two of: live frame, full queue, lost socket, bad frame, expiry, revocation | a replacement, a refusal, a slot beyond the limit and a wrapper that comes back all occur; sockets connect in order, which names them |
| `pending_ask` | `OneQuestion`, `StopsAsking`, `SameVerdict`, `ScreenTrue`, `CallersReturn` | a batch of two questions, a tool's question, two model switches, two clients; three of: an asker, a cancelled caller, an interrupt, a lost connection, a new turn | every pair of ways to close a question meets on the same question, before, during and after its emits |
| `rollback_journal` | `MutatesInOrder`, `Truthful`, `Aligned`, `Answered` | one command of either engine and any surfaces, cutting two turns, two processes of which one runs the thread's turns, a cap of one; any two of a crash, a failing write, a lost file and a context that gives its checkpoints up; any number of turns | commands meet only in the cap; each pair of failures meets at every step, and the safety properties are proved for any number of each (but one lost file, for the first two) |
| `daemon_restart` | `MarkerTrue`, `HandedOver`, `HandoffEnds` | two detached hooks and a synchronous one, one session, one turn; one kill, one early deadline | three hooks give a newest, an overtaken and a waiting one; a session may be spawned, or connected again, at any point of their work; sessions do not interact |
| `work_schedules` | `ExecutedOnce`, `DeletedLater`, `NotLost` | one schedule, repeating or not, two occurrences, three attempts, periods and leases of one unit; two of: crash, cancelled turn, failed attempt, suspension, a renewal, mark or completion that raises | the second occurrence can be due while the first is late, the third attempt is the last, and two troubles reach two live tasks of one run |

Several of these properties are conjunctions of named parts: `Bookkeeping`,
`OneQuestion`, `MutatesInOrder`, `MarkerTrue` and `ExecutedOnce` contain their
module's type invariant.

`PendingAsk!ScreenTrue` speaks of the moments when no emit is under way: during
one some clients have the frame and others have not. `DaemonRestart!HandedOver`
excepts barriers that were abandoned and synchronous restarts that a newer hook
overtook (see below), and `WorkSchedules` excepts lapsed leases and the reports
of tasks that never began: with one of them, two tasks do execute one run.
`RollbackJournal!Aligned` excepts contexts that gave their checkpoints up and
crashes between the acceptance of a turn and its record.

All runs set `CHECK_DEADLOCK FALSE`: users may stop sending, and the bounds on
events, edits, losses and troubles end every behaviour. In `TurnQueue` the
deadlocks that matter, a coroutine that waits for ever, are caught by
`NobodyStranded` (nobody has anything to do, yet the session is busy or a
prompt waits); there and elsewhere by the liveness properties.

Fairness (`TurnQueue!Fairness`): asyncio runs every ready task, so each turn
task, the follow-up callback, the worker, the command in progress and a slow
emit are weakly fair. That includes the engine's answer: an engine that never
answers is bounded in the code by the activity watchdog and by the user's
interrupt with its drain deadline. Strong fairness of `Claim("drain")` says
that a queued prompt's preflight is not rejected for ever; the code retries it
with a bounded delay. Users, interrupts and new follow-ups owe nothing.

In `CommandDelivery` both ends of a broken link try to connect again with a
bounded backoff, queues are read and handlers return or raise: `Open`, the
reads, `Attach`, `LinkUp`, `Take` and each command's `Handler` are weakly fair.
Sending, closing, losing and restarting are not. A command whose handler raised
is sent again only at the next reconnection, which nobody has to cause:
`Acknowledged` therefore ends in "or its handler raised".

In `RelayHub` one condition, `WF_vars(Progress)`, says that the event loop goes
on while a coroutine can run, and that a send and a closing handshake end, by
completion or by the socket library's timeout. Clients, wrappers and the
network owe nothing: they need not say hello, send or disconnect.

In `PendingAsk` coroutines go on and deadlines pass; nobody has to answer,
interrupt or come back. In `RollbackJournal` a process that died is started
again, its handler runs on, and a browser repeats its command until it is
answered, as the outbox does. In `DaemonRestart` workers and the wrapper's loop
run on (official restarts have a timeout) and the marker's deadline passes;
hooks, users and turns owe nothing. In `WorkSchedules` the loop scans, time
passes, tasks run on (a turn ends, see above) and a stopped wrapper is started
again; nothing says that a lease is renewed in time or that a turn succeeds.

Each property has a mutant in `PROJECT.json`: a plausible slip in one mapped
definition that TLC finds violates it.

## Findings

1. **A live event hides the ones before it** (`session_replay_gap`). The relay
   registers a connection before its hello reaches the wrapper. A live event
   that arrives first raises the browser's cursor; the answer replays from the
   cursor the hello named, not truncated, and `ws.ts` drops every replayed
   event at or below the raised cursor. The events missed while disconnected
   are not shown until a reload. `transport.py` says "nothing is lost".
2. **A session spawned again keeps the old cursor** (`session_replay_respawn`).
   Eviction forgets the ring and its numbering; the next spawn in the same
   generation starts at seq 1 and the browser drops its events up to the old
   cursor. `tests/e2e_multisession.py` expects a rebuild.
3. **A prompt echoed under a foreign id** (`turn_queue_echo`). The finally block
   of `_run_turn` clears `active_msg_id` (and the interrupt event) without
   checking that the session is still its own. The state is `idle` earlier, so
   another prompt may have been admitted while the block waited for
   `query_lock` (Claude) or `emit_lock` and the overflow repair (Codex). The new
   prompt's `UserMsg` then carries a fresh uuid and the originating browser
   cannot match it with the turn it created.

Seen while modelling. These have no run of their own; the properties except
them explicitly or the model contains them:

* `codex_daemon_restart.py:314`: a synchronous hook that waited for the worker
  lock restarts without validating its epoch again, so a superseded switch does
  restart the daemon; lines 346-347 say it never does. `HandedOver` excepts it.
* `machine.py:22342`: the quarantine clears the tracking before it can fail, so
  the next rollback finds the checkpoint disabled and submits its mutation,
  which lines 22336-22337 exclude. `Aligned` excepts records that could not be
  moved.
* `machine.py:31161`: a Claude rewind that stops half way reports "failed" with
  restored turns, which `rollback_commands.py:160-163` refuses; the entry ends
  uncertain instead of complete.
* `machine.py:18715`: a confirmation that is superseded after its check, while
  it waits for `emit_lock`, is still shown ("Never show the stale one"). Its
  answer is ignored by the newer one.
* `reducer.ts:5220`: the idle state removes a client's card although the
  wrapper may still wait for a model confirmation, which is seeded again only
  by the next hello. `ScreenTrue` counts it as taken away by the client.
* `workspaces.py:785-787`: after a crash the run of a tombstone is queued
  again, but the claim leaves deleted schedules out, so nobody removes the
  tombstone until it is deleted once more.
* `workspaces.py`: renewing, marking and completing compare the run and not the
  attempt. When a renewal raises (`machine.py:9305-9312`), the lease lapses
  under a live task, two tasks execute the run, and the older one's result may
  overwrite the newer attempt's.
* `machine.py:9267`: when `mark_schedule_running` raises, the handler completes
  the run nevertheless. If another attempt runs by then, its row goes back to
  `queued`: a further attempt runs beside it, or a deletion removes the row of a
  run that executes, although `workspaces.py:782` says that "running workers must
  retain their parent row". `Regular` excepts such schedules.
* `machine.py:22445`: a context that cannot open its checkpoint journal switches
  checkpoints off for itself, runs its turns unrecorded and leaves the records
  where they are. The session's next context opens them and restores by count,
  one turn too early, which `codex_checkpoints.py:993` gives as the reason for its
  tombstones. `Aligned` excepts it (`count.stuck`).
* `codex_checkpoints.py`: a crash between the app server's acceptance of a turn
  and its marker makes the next recovery discard the turn's record, which leaves
  a gap. `Aligned` excepts it (`count.unslotted`).
* `machine.py:34998`: `_spawn` stamps the epoch it reads after the connection; a
  restart that completes in between is not noticed by comparing epochs.
  `LabelTrue` excepts the session until its next turn connects again.
* `machine.py:11760-11775`: after the reset of finding 3, and before the new
  prompt's `UserMsg`, the hello handler has no name to ask for, and
  `current_turn_replay` takes the newest user marker: the client that arrives
  sees the previous turn again as the running one. For a named turn the function
  excludes just this (`ringbuffer.py:313`). `CurrentTurnOnly` excepts it
  (`Preflight`).
* `ringbuffer.py:315`: an unnamed question whose newest marker was larger than
  the whole ring is answered from an older marker (`Hidden`).
* `forward.py:63-66`: `ClientConn.stop` swallows a cancellation that arrives
  while it awaits its cancelled sender, so an expiry at that tick is lost. The
  model lets `Expire` through.
* `machine.py:5728-5733`: recovery releases the lease when the recovery call
  raises, although lines 5540-5543 keep it for transport uncertainty.

## Proofs

`Replay_proofs` has two halves, one on `RingLog` and one on `SessionReplay`,
which share `AppendedFacts`: what one append does to a well-formed ring.

*The ring*, for every `MaxEvents`, `MaxBytes`, set of sizes, length of the log
and number of turns that satisfy the two modules' assumptions:

* `Invariance`: `LogSpec => []LogInv`. `LogInv` is inductive as TLC checks it.
  Its parts: `RingInv` (the tail is the session's seq; every seq above
  `dropped` is retained and `dropped` itself is not) and `TurnInv` (no user
  event is newer than the last marker, which is retained unless `dropped` passed
  it and is the only one that may name the last prompt; a binding runs with that
  prompt and does not precede its marker). The second half of `RingInv` is
  what makes exactness provable: without "`dropped` is not retained" a reply
  could say truncated with nothing missing.
* `ReplayExactness`, `RebuildExactness`, `CurrentTurnExactness` from it:
  `MissingAfter` turns `RingInv` into "an event after the cursor is missing if
  and only if `dropped` is beyond the cursor". For the current turn,
  `FromFirst` is about a reply that starts at the last marker; by name it does
  because no other marker has the name, without a name because that marker is the
  newest retained one unless it is `Hidden`.
* `RoomInvariance`, and from it `StaysBounded` (`RingBounded`): both budgets
  hold and the incremental byte counter is the sum of the retained sizes.
* `BoundedExactness` (`BoundedExact`): the bounded reply, with any cursor and
  budget, is truncated exactly when it leaves out an event, keeps its budgets
  and sends a suffix. With `Room` it needs that dropping events one by one from
  the front reaches the largest suffix that fits.

The last two are about sums over sets, an induction over data for which the
library's induction theorems cannot be used here. The lemmas about `SizeOf`
(`SizeOfUnion` and the others) are proved by a smallest counterexample instead:
`Smallest` takes a minimal element of a set of finite sets with `WFMin` over
strict inclusion, and `SumExists` shows that a smallest set without a sum has
none.

*The replay protocol*, for every number of browsers, events, generations,
lives, connections, queue caps and link losses: `ReplayInvariance`,
`ReplayTypeCorrect` (`TypeOK`, with the cap of each connection's queue) and
`ReplayInOrder` (`InOrderOnce`). What is on its way to a browser c is one
sequence, its queue at the relay and behind it the wrapper's link, and the
invariant is about that sequence:

* `Sorted` (`Before`): incarnations never go backwards along it, and a live
  event is later than every event ahead of it;
* `Chained` (`Precedes`): an event of an answer to c's present connection comes
  right behind its replay_start or an earlier event of the same answer. A
  connection that drops what it cannot take closes (`SlowClientError`), so the
  relay never leaves a hole in an envelope;
* `Known`: a frame names an incarnation that exists or existed, and one of the
  present incarnation is not beyond the ring's tail;
* `Coming`, `Present`: what c has against what comes. No frame is of an older
  incarnation than the last event given, a live event is later than it, and,
  unless an orphan was taken, a frame that can make c forget its cursor, or
  meets a cursor below the last event, is of a later incarnation. `Present`
  says the same of the event that the session will emit next;
* `Expected`: while a rebuild runs, when the cursor is not consulted, the next
  event of the answer is later than the last one given.

`GivenInOrder` is the point of all this: an event that is neither stale nor an
orphan is later than the last one given, because it is live (`Coming`), belongs
to a running rebuild (`Expected`), or is above a cursor that either covers the
last event or belongs to a later incarnation. `WrapperSends` does the wrapper's
steps, whatever it sends; `Delivered` the relay's; `Taken` the browser's, given
what a frame does to its cursor and flags (`GenerationNoted`, `ResetNoted`,
`GivenNoted`).

*Nothing stays open* (`CatchUpInvariance`, `ReplayCaughtUp` for `CaughtUp`), for
the same parameters. The second invariant, `CatchingUp(c)`, says for each thing
c lacks which frame or hello on its way will make up for it:

* `Reached`: an event of the ring's numbering is seen, or at or below the
  cursor, or in what is on its way (the event, a History that covers it, an
  answer that makes c an orphan, or the announcement that makes c say hello
  again), unless a hello of c waits at the wrapper; then `Asked` says the same of
  the events at or below the cursor that the hello names. The wrapper's answer
  gives the others (`HelloReplyContents`, `OwnReply`);
* `Followed`: a frame that may move c's cursor back without covering an event
  is followed by that event, live, or by the announcement of a link that lost
  it;
* `Informed`, `RebuildEnds`: c knows the present generation, and has no rebuild
  open, or a frame on its way changes that;
* `Continued`, `Resumed`: an answer that continues c's cursor names the
  generation that c has when it takes the answer, so the cursor is not
  forgotten.

The steps are done by what they do to the one sequence: something is added
behind it (`GrownFacts`, `Onwards`), one frame leaves it (`RemovedFacts`,
`CatchingTaken` with `SafeTaken`), or its front is cut off with the connection
(`CutFacts`, `CatchingLeave`).

*Nothing is passed over* (`CompleteInvariance`, `ReplayComplete` for
`CompleteUnlessOverlap`), for the same parameters. `CaughtUp` leaves open
whether a cursor is above an event that never came; the third invariant,
`Completing(c)`, says that it is not, while the session is resident and was not
evicted in this generation:

* `Filled`: c saw every event at or below its cursor, unless it took an orphan
  event, has an overlap, or does not know the generation; `Recalled` says the
  same of the cursor that a waiting hello names, which is what the answer will
  continue from;
* `Counted`: a frame that will move the cursor past an event (a later event, or
  a `replay_end`) meets a c that by then has that event or one of those three
  excuses (`Explained`), or, if the frame is live, owes itself an answer
  (`Pending`), so that taking it makes an overlap; `Accounted` says it of what
  the wrapper sends next. Both are statements about the frames in front of the
  frame in question (`Since`: a flag is set now or by one of them, and none
  behind that clears it), so a step that adds or removes a frame changes them
  only there (`SinceTaken`, `SincePassed`, `SinceLonger`);
* `Rising`, `Native`, `Undated`, `Bounded`: frames that name the ring's tail do
  not fall behind those ahead of them; a frame or a browser of the present
  generation is of the present incarnation; without a generation there is no
  cursor; and no cursor of the present generation is ahead of the ring or of a
  `replay_start` on its way, so a truncated answer covers all it resets.

Two steps carry the argument. The wrapper's answer to a hello
(`CompletingHello` with `AnswerExplains`) continues from a cursor below which
everything is recalled, and gives the rest in order. An event that c drops as
stale (`StaleExplained`) is below the cursor, hence seen or excused; and what
could end the excuse, a reset behind it, covers the event (`Recover`).
`Consistent` and `Completing` need `ReplayInv` and `CatchingUp` of the same
state: the order of the frames says which incarnation a later frame has, and
`Continued` and `Resumed` that a cursor is not forgotten in between.
TLC checked `CatchingUp` and `Completing` on the instance of `session_replay`
with one link loss, and on one with three generations and lives, before they
were proved.

`DaemonRestart_proofs`: `Invariance`, and from it `MarkerIsTrue` (`MarkerTrue`)
and `TurnsAreHandedOver` (`HandedOver`), for every set of hooks, detached or
not, every number of sessions, crashes, missed deadlines and turns. Besides
`RestartAssumption` nothing is assumed; that `"unmarked"`, the absence of an
epoch, is no hook was added to it for the proof. The invariant says who may have
written the marker as it is (`MarkerInv`: while it says restarting its hook is
at work, unless somebody was killed), that a restart that succeeded came after
its hook's publication (`RestartInv`, what makes a label true), and what
sessions remember (`SeenInv`: a label is the epoch of a restart that succeeded).
With `LabelTrue` itself it is inductive: a stamp behind a connection that was
replaced meanwhile meets a session at rest, whose connection is not the present
daemon, and stays so until it connects. `HandedOver` needs two more parts, which
hold only while no barrier was abandoned: the official restart runs behind a
marker that says restarting (`Barrier`), and a turn whose daemon was replaced
has a switch to follow (`Followed`).

`RollbackJournal_proofs`: `Invariance`, `RecordsStayAligned` (`Aligned`), and,
as long as at most one of the journal's two files was lost,
`MutatesOnceInOrder` (`MutatesInOrder`) and `AnswersAreTruthful` (`Truthful`),
for every number of processes, commands, turns, crashes and failing writes.
The condition `OneLoss` cannot be dropped: the journal recognises the loss of
its state by the marker in the lock file, so with both files lost it starts
afresh and claims a command again (TLC finds that run when two losses are
allowed). The heart of the invariant is `Spent(c)`: once the command
was claimed, the journal holds its claim, or the marker is there without the
state, which keeps the journal off for good, or a loss was counted.
`OneInitializer` says that only one constructor at a time is about to write the
marker; without it a second one could erase a claim. `Progress` says, for each
step of the handler, which surfaces were mutated already. For `Aligned`,
`AlignedInv` adds that a context has no checkpoints, or a turn no record, only
after one was given up, that a thread is cut only with its records moved away,
and that no turn runs beside another turn or a rollback.

`WorkSchedules_proofs`: `Invariance`, `OneExecution` (`ExecutedOnce`) and
`TombstonesGo` (`DeletedLater`), for every set of schedules, period, lease,
number of attempts and occurrences. The invariant is one statement per schedule,
under the condition of the properties (`Regular`): its leases were renewed in
time and no task that never began reported into a row that runs or is finished.
Under it the schedule has one active run at most (`OneActive`), a task at work
has the row that says running, with a lease that it renews (`Renewing`), it is
alone (`OneTask`), and a running row or a tombstone has its task unless one was
cut off (`Held`). `Room`, that a queued run has an attempt left, is what bounds
the attempts when leases lapse.

`RelayHub_proofs`: `Invariance`, `TablesAgree` (`Bookkeeping`),
`OldConnectionsAreFenced` (the action property `Fenced`),
`ServedWithoutHole` (`NoHole`) and `ToldTheTruth` (`WrapperKnown`), for every
number of sockets, client ids, accounts, machines and wrappers: none of these
sets is assumed finite; only the registered connections are, because
`max_clients` bounds them. `Lock` says that the send lock's queue holds
exactly the coroutines that are at it, the sender first; `Table` that a
superseded connection never owns its id again and is not sending, which with
`Lock` gives `Fenced`; `Wired` that a disconnected device has no wrapper that is
connected, nor one that was looked up before and will be; `Heard` what each
client was told of its wrapper, the disconnection under way included.

`PendingAsk_proofs`: `Invariance`, `OneAtATime` (`OneQuestion`),
`StoppingClosesAll` (`StopsAsking`), `OneVerdict` (`SameVerdict`) and
`ScreensAreTrue` (`ScreenTrue`), for every number of askers, questions of a
batch, model switches and clients. `AskLock` and `EmitLock` say who is in the
queues of the two locks and that whoever emits, closes or has a question is the
first; `Questions` relates the pending ids, the ids being closed, the futures
and the place of each asker; `Screens` is `ScreenTrue` extended to the time of
an emit. A question that is being closed is in `closing.ids` and no longer
pending, and that window is where all the closers meet: most steps of the proof
are about it.

`TurnQueue_proofs`: `Invariance`, `TypeCorrect` (`TypeOK`), `NobodyIsStranded`
(`NobodyStranded`) and `ImplementsLedger`: `Spec => KeepsLedger`, so that every
behaviour of the coroutines is one of `PromptLedger`. They hold for every set of
prompts of each delivery, either engine, every length of the queue and all
bounds; the set of prompts need not be finite. The invariant says

* `Locks`: who is in the queue of `query_lock` or `emit_lock` is at a place
  where it waits or holds it, and whoever works inside is the first;
* `Alone`: one turn task owns the session, which is not idle then, and no
  launcher has passed the check under `query_lock`. A turn's idle event comes
  before the next turn's running event in `emit_lock`'s queue, which is why the
  next task is created only after the last one is forgotten;
* `Prompts`, `Offering`, `Working`: where a prompt may be given what was sent,
  withdrawn or lost of it, for the prompt the command lane has and the one the
  worker has in particular;
* `Alive`: somebody is there who will unlock a busy session, and a worker that
  sleeps on a non-empty queue will be woken. `NobodyStranded` follows.

A predicate names what a step of a turn task does (`Advances`, `Idles`,
`AwaitsIdle`, `AwaitsSettling`, `Ends`, `Repairs`) and another what the locked
check of a launcher does (`Gate`); the parts of the invariant are proved from
these. For the refinement, `Classes` says which of the ledger's statuses each
prompt has; one lemma per action then shows that it is one step of the
ledger for one prompt, or is not seen by the ledger (`Unseen` for every other
prompt). An action moves two prompts at once only when a replacing prompt takes
the place of an older one, which the ledger has as one step too.

`CommandDelivery_proofs`: `Invariance`, `TypeCorrect` (`TypeOK`),
`LeavesWhenDone` (`AckedRan`), `StartsInOrder` (`InOrder`) and `RunsOnce`
(`AtMostOnce`, under a condition), for every set of browsers and commands,
whatever they are divided into, and every cap and bound. The parts of the
invariant:

* `Sockets`, `Origin`: frames belong to numbered sockets, and wherever a command
  is (outbox, hop, lane, task, memory), its owner issued it before;
* `Answered`: what is remembered, or acknowledged on any hop, was completed,
  which gives `AckedRan`;
* `Ordered`, `Begun`, `Turns`: the outbox is in the order of sending; what was
  taken or remembered began; and, while the wrapper and its link live, for a
  serial command m sent before n, every n on the way has an m before it unless
  m began (`Ahead`, `InTurn`), and with an open socket whatever did not begin is
  on its way (`OnItsWay`). The last part is why a new command may be sent behind
  the others; a preamble preserves the first because a command that left the
  outbox was completed and so began.

`RunsOnce` is `Spec /\ []Settled => []AtMostOnce`. The memory of ids is bounded,
so at-most-once needs a condition, and TLC finds the run that shows it (see
above). `Settled` says that nothing is left of a command, in the outbox, in
flight or in a handler, once its browser issued `Window` newer ones, which is
half of the memory: 256 commands for `COMMAND_IDS_PER_CLIENT` = 512. (An outbox
that is acknowledged in the order of sending keeps no command longer, since it
holds 256 at most; three quarters of the states of the run are settled.) Half of
the memory is what can be relied on because a repeated id becomes the most
recent one again: an id was never touched after one that is `Window` newer
(`Recent`), so among twice as many distinct ids the least recent has one that is
`Window` newer (`FarBack`, by counting the places within reach). `Once` is the
invariant that then excludes a second run: a completed command that is still
somewhere is remembered, and one that is in a handler is not.

Each of these proofs has the same shape. The initial states and one step per
action show that `IInv` is inductive, the parts of `IInv` in groups; where many
actions disturb a part in the same way a predicate names the effect
(`AskerEffect`, `Moves`), each action is shown to have it once, and each group
cites it. Lemmas about the queues of locks (`Joins`, `FirstLeaves`, `OneLeaves`)
say what `Append`, `Tail` and `RemoveAt` do to members and to the head. TLC
checked every `IInv` on the instances of the runs before it was proved.
`CONSTANTS` that only bound the state space for TLC (`MaxCrashes` and the like)
are arbitrary naturals in the theorems.

Every invariant and action property that a passing run checks is stated by a
theorem. Only model-checked: liveness, which is outside the prover, and the
three `violation` runs. No module uses a `RECURSIVE` operator, so any of them
can be proved about.

## Abstractions and what they leave out

* `RingLog`: one turn at a time (see above); broker-owned and spontaneous turns,
  which claim, mark and end like the others; the compaction of a suffix.
* `SessionReplay`: one session, whose running turn always has its name; so no
  interference by other sessions' frames; no side chats and no rekeying of a
  draft session's id; History is one atomic fetch that covers the session.
* `TurnQueue`: Codex spontaneous turns, broker-owned turns, deletion of a
  session, `launch_lock` (it orders a launch with the native interrupt call,
  which the model does not have), attachments, the queue's budget shared by all
  sessions (here per session), and retried immediate commands, which the
  command layer deduplicates.
* `CommandDelivery`: byte caps, the cap on remembered clients (64; the relay
  admits 8 connections at a time), cached responses, which decide what is
  shown but not what runs, and a relay slot that a half-open old wrapper link
  still holds. Safe reads go through the lane here; several of them have tasks
  in the code.
* `RelayHub`: the notification hook, HTTP authentication, byte budgets (a full
  queue is a choice), the cancellation that `ClientConn.stop` swallows, and
  other machines, though `_wrapper_send_lock` is shared by all of them: a
  wrapper whose link is slow delays the commands to the others.
* `PendingAsk`: the validation of an answer's text, the mapping of an answer to
  a permission decision, attachments, and the close of a session.
* `RollbackJournal`: identity, size and text checks; a torn or foreign state
  file (replacement is atomic); Claude's target and Codex's turn counts beyond
  "how many turns". Of the checkpoints: the Git side, turns and rollbacks that
  other programs make in the thread, and spontaneous and goal turns, which are
  recorded as unavailable. A crash behind a finished record's durable write is
  taken for one before it.
* `DaemonRestart`: a prompt claimed while the web search mode changes, the file
  schema, the alias of the legacy marker, profiles (one here), and the
  resumption of a Goal.
* `WorkSchedules`: at most eight runs per scan, the profiles frozen into a run,
  artifacts, the broadcast of a result. Spawning the session and its turn are
  one step, `Execute`; a run without a row is completed by nobody.

## Not modelled

Handles and stream translation (`codex_handle.py`, `codex_stream.py`,
`stream.py`) are long sequential case analyses of foreign formats: their
interleavings with turns appear in `TurnQueue` as results, failures and
follow-ups, and what they translate is data. History pages, presentation, pins
and plans are single-writer files. Accounts, devices and the login limit are
HTTP handlers over a local store, without an interleaving beyond one request
(the revocation of a device, which has one, is in `RelayHub`). Ownership
watchers poll processes and files of other programs; their verdict is a
preflight failure in `TurnQueue`. Forks have a journal of the same shape as the
rollback's. The Claude broker's PTY, the viewer, the terminal client and
deployment are I/O.

## Plan

Done: `Ring`, `RingLog`, `SessionReplay`, `TurnQueue` with `PromptLedger`,
`CommandDelivery`, `PendingAsk`, `RelayHub`, `RollbackJournal`,
`DaemonRestart`, `WorkSchedules`; the proofs about `RingLog`, `SessionReplay`,
`DaemonRestart`, `RollbackJournal`, `WorkSchedules`, `RelayHub`, `PendingAsk`,
`CommandDelivery` and `TurnQueue`, with its refinement of `PromptLedger`.

Left:

1. Proofs: what `RunsOnce` needs of the interruptions instead of `Settled`,
   which bounds their effect.
2. `TurnLease`: the durable claim of a native turn, with a crash between any
   two steps, and the spontaneous turns it protects.
3. `SessionPool`: spawn, evict, switch, delete with their awaits; then its
   composition with `SessionReplay`'s life counter.
4. An abstract specification of `CommandDelivery`, "each command runs at most
   once per wrapper life and is acknowledged only after it ran", and the cap on
   remembered clients.
