----------------------------- MODULE PendingAsk -----------------------------
(***************************************************************************)
(* Questions to the user of one session (wrapper/machine.py, ask.py,       *)
(* claude_questions.py).  The engine's tools, approvals and batches of     *)
(* questions, and the confirmation of a model switch, ask one at a time    *)
(* behind ask_lock.  Clients answer; deadlines pass, the user interrupts,  *)
(* callers cancel, newer model switches supersede, clients reconnect: all  *)
(* close or show a question under emit_lock.                               *)
(*                                                                         *)
(* A coroutine that asks for emit_lock queues up behind emitters that are  *)
(* not modelled, so it always waits.                                       *)
(***************************************************************************)
EXTENDS Naturals, Sequences, FiniteSets, SequencesExt

CONSTANTS Askers,     (* coroutines that ask                               *)
          Models,     (* those that confirm a model switch                 *)
          Batches,    (* those that keep ask_lock for all their questions  *)
          Pages,      (* how many questions each asks                      *)
          Clients,
          Target,     (* the client each model switch came from            *)
          MaxCancels, (* bound: callers that cancel                        *)
          MaxStops,   (* bound: interrupts                                 *)
          MaxAways,   (* bound: clients that lose their connection         *)
          MaxTurns,   (* bound: turns                                      *)
          MaxEvents   (* bound: these and the askers that ask, together    *)

ASSUME AskAssumption ==
  /\ Models \subseteq Askers /\ Batches \subseteq Askers
  /\ Pages \in [Askers -> Nat \ {0}] /\ \A m \in Models : Pages[m] = 1
  /\ Target \in [Models -> Clients]
  /\ MaxCancels \in Nat /\ MaxStops \in Nat /\ MaxAways \in Nat
  /\ MaxTurns \in Nat /\ MaxEvents \in Nat

VARIABLES
  at,         (* where each asker is                                       *)
  page,       (* the question it is at                                     *)
  old,        (* model switch: the confirmation it retires                 *)
  aborted,    (* askers whose caller cancelled them                        *)
  outcome,    (* what an asker's caller was given                          *)
  pending,    (* ctx.pending_asks                                          *)
  result,     (* the future of each question                               *)
  late,       (* questions whose deadline passed                           *)
  confirming, (* ctx.pending_model_ask_id                                  *)
  asklock,    (* ask_lock: its holder and then the waiters                 *)
  emitlock,   (* emit_lock, likewise                                       *)
  closing,    (* what the holder of emit_lock is closing, and why          *)
  lane,       (* the command lane's answer, interrupt or hello             *)
  state,      (* ctx.state                                                 *)
  synced,     (* clients that are connected and said hello                 *)
  shown,      (* client: pendingQuestion                                   *)
  reply,      (* client: the question whose answer is on its way           *)
  lost,       (* history: what a client stopped showing by itself          *)
  count       (* history: cancels, interrupts, disconnections, turns       *)

asker   == <<at, page, old, aborted, outcome>>
asks    == <<pending, result, late, confirming>>
locks   == <<asklock, emitlock, closing>>
client  == <<synced, shown, reply, lost>>
vars    == <<asker, asks, locks, lane, state, client, count>>

None == <<>>
Asked == UNION {{p} \X (1..Pages[p]) : p \in Askers}

Ask(p) == <<"ask", p>>
Lane   == <<"lane">>

Nothing == [ids |-> {}, why |-> "open"]
Idle    == [cmd |-> "free", q |-> None, by |-> {}]

Init ==
  /\ at = [p \in Askers |-> "new"]
  /\ page = [p \in Askers |-> 1]
  /\ old = [p \in Askers |-> None]
  /\ aborted = {}
  /\ outcome = [p \in Askers |-> "none"]
  /\ pending = {} /\ late = {}
  /\ result = [q \in Asked |-> "open"]
  /\ confirming = None
  /\ asklock = <<>> /\ emitlock = <<>> /\ closing = Nothing
  /\ lane = Idle
  /\ state = "running"
  /\ synced = Clients
  /\ shown = [c \in Clients |-> None]
  /\ reply = [c \in Clients |-> None]
  /\ lost = {}
  /\ count = [cancels |-> 0, stops |-> 0, aways |-> 0, turns |-> 1]

MoreEvents ==
  Cardinality({p \in Askers : at[p] # "new"}) + count.cancels + count.stops
    + count.aways + (count.turns - 1) < MaxEvents

-----------------------------------------------------------------------------
Q(p) == <<p, page[p]>>

Goto(p, place) == at' = [at EXCEPT ![p] = place]

(* A coroutine that gives up its place, or the lock it holds.              *)
Without(s, x) ==
  IF x \in ToSet(s) THEN RemoveAt(s, CHOOSE i \in DOMAIN s : s[i] = x) ELSE s

Holds(lock, x) == lock # <<>> /\ Head(lock) = x

(* The holder of emit_lock has begun and awaits its emit.                  *)
Emitting ==
  \/ closing # Nothing
  \/ \E p \in Askers : at[p] = "emit"

(* x is the next to go on under emit_lock.                                 *)
Proceeds(x) == Holds(emitlock, x) /\ ~Emitting

(* _close_pending_ask_locked, up to its emit.                              *)
BeginClose(ids, why) ==
  /\ pending' = pending \ ids
  /\ closing' = [ids |-> ids, why |-> why]

(* AskUserClosed reaches the clients, unless the emit is cut short.        *)
Told ==
  [c \in Clients |-> IF c \in synced /\ shown[c] \in closing.ids THEN None
                     ELSE shown[c]]

(* ... and, whatever became of the emit, the future is set.                *)
Released ==
  [q \in Asked |-> IF q \in closing.ids /\ result[q] = "open" THEN closing.why
                   ELSE result[q]]

(* What concerns a closed question is forgotten.                           *)
Forget ==
  /\ result' = Released
  /\ late' = late \ closing.ids
  /\ closing' = Nothing

EndClose ==
  /\ Forget
  /\ shown' = Told
  /\ lost' = {x \in lost : x[2] \notin closing.ids}

Eligible(c, q) == q[1] \in Models => Target[q[1]] = c

-----------------------------------------------------------------------------
(* The askers.                                                             *)

(* Mutant of Finish: ask_lock is not given back.                           *)
FinishHolding(p, what) ==
  /\ Goto(p, "done")
  /\ outcome' = [outcome EXCEPT ![p] = what]
  /\ asklock' = asklock
  /\ confirming' = IF confirming = <<p, 1>> THEN None ELSE confirming

(* The asker is done: it leaves ask_lock; a confirmation that is still the *)
(* current one is no more.                                                 *)
Finish(p, what) ==
  /\ Goto(p, "done")
  /\ outcome' = [outcome EXCEPT ![p] = what]
  /\ asklock' = Without(asklock, p)
  /\ confirming' = IF confirming = <<p, 1>> THEN None ELSE confirming

(* async with ask_lock: a free lock is taken without waiting, and the      *)
(* question goes on to be registered.                                      *)
TakeAskLock(p, waiters, emitters) ==
  /\ asklock' = Append(waiters, p)
  /\ IF waiters = <<>>
     THEN Goto(p, "register") /\ emitlock' = Append(emitters, Ask(p))
     ELSE Goto(p, "lock") /\ emitlock' = emitters

(* The next question: of a batch at once, else with ask_lock taken anew.   *)
More(p, emitters) ==
  /\ page' = [page EXCEPT ![p] = @ + 1]
  /\ IF p \in Batches
     THEN /\ asklock' = asklock
          /\ emitlock' = Append(emitters, Ask(p))
          /\ Goto(p, "register")
     ELSE TakeAskLock(p, Tail(asklock), emitters)

(* What the question's future says is what the caller gets.                *)
Resume(p, emitters, what) ==
  IF what = "answered" /\ page[p] < Pages[p]
  THEN More(p, emitters) /\ UNCHANGED <<outcome, confirming>>
  ELSE Finish(p, what) /\ emitlock' = emitters /\ UNCHANGED page

(* _confirm_claude_broker_model_switch makes its id the current one.       *)
Confirm(p, emitters) ==
  /\ confirming' = <<p, 1>>
  /\ TakeAskLock(p, asklock, emitters)

(* A tool or an approval asks, or a client switches the model.             *)
Start(p) ==
  /\ at[p] = "new" /\ MoreEvents
  /\ IF p \in Models
     THEN IF confirming = None
          THEN Confirm(p, emitlock) /\ UNCHANGED old
          ELSE /\ old' = [old EXCEPT ![p] = confirming]
               /\ emitlock' = Append(emitlock, Ask(p))
               /\ Goto(p, "retire")
               /\ UNCHANGED <<confirming, asklock>>
     ELSE /\ state = "running"
          /\ TakeAskLock(p, asklock, emitlock)
          /\ UNCHANGED <<old, confirming>>
  /\ UNCHANGED <<page, aborted, outcome, pending, result, late, closing, lane,
                 state, client, count>>

(* The earlier confirmation is closed before the new one becomes current.  *)
Retire(p) ==
  /\ at[p] = "retire"
  /\ Proceeds(Ask(p))
  /\ IF old[p] \in pending
     THEN /\ BeginClose({old[p]}, "superseded")
          /\ Goto(p, "retiring")
          /\ UNCHANGED <<confirming, asklock, emitlock>>
     ELSE /\ Confirm(p, Tail(emitlock))
          /\ UNCHANGED <<pending, closing>>
  /\ UNCHANGED <<page, old, aborted, outcome, result, late, lane, state,
                 client, count>>

Retired(p) ==
  /\ at[p] = "retiring"
  /\ EndClose
  /\ Confirm(p, Tail(emitlock))
  /\ UNCHANGED <<page, old, aborted, outcome, pending, lane, state, synced,
                 reply, count>>

Admitted(p) == Holds(asklock, p)

(* ask_lock is taken; a confirmation that was superseded is not shown.     *)
Locked(p) ==
  /\ at[p] = "lock"
  /\ Admitted(p)
  /\ IF p \in Models /\ confirming # <<p, 1>>
     THEN Finish(p, "superseded") /\ UNCHANGED emitlock
     ELSE /\ Goto(p, "register")
          /\ emitlock' = Append(emitlock, Ask(p))
          /\ UNCHANGED <<outcome, asklock, confirming>>
  /\ UNCHANGED <<page, old, aborted, pending, result, late, closing, lane,
                 state, client, count>>

(* Mutant of Gated: a question may be asked while the turn is stopped.     *)
GatedNever == state = "none"

(* The interrupt gate of _on_ask_locked.                                   *)
Gated == state = "interrupting"

(* _on_ask_locked registers the question ...                               *)
Register(p) ==
  /\ at[p] = "register"
  /\ Proceeds(Ask(p))
  /\ IF Gated
     THEN /\ Finish(p, "cancelled")
          /\ emitlock' = Tail(emitlock)
          /\ UNCHANGED pending
     ELSE /\ pending' = pending \cup {Q(p)}
          /\ Goto(p, "emit")
          /\ UNCHANGED <<outcome, asklock, confirming, emitlock>>
  /\ UNCHANGED <<page, old, aborted, result, late, closing, lane, state,
                 client, count>>

Shows(q) ==
  [c \in Clients |-> IF c \in synced /\ Eligible(c, q) THEN q ELSE shown[c]]

(* ... and emits it.                                                       *)
Emitted(p) ==
  /\ at[p] = "emit"
  /\ shown' = Shows(Q(p))
  /\ emitlock' = Tail(emitlock)
  /\ Goto(p, "wait")
  /\ UNCHANGED <<page, old, aborted, outcome, asks, asklock, closing, lane,
                 state, synced, reply, lost, count>>

Resolved(p) ==
  /\ at[p] = "wait" /\ result[Q(p)] # "open"
  /\ Resume(p, emitlock, result[Q(p)])
  /\ UNCHANGED <<old, aborted, pending, result, late, closing, lane, state,
                 client, count>>

(* wait_for runs out: the asker goes to close its question.                *)
TimeUp(p) ==
  /\ at[p] = "wait" /\ result[Q(p)] = "open" /\ Q(p) \in late
  /\ Goto(p, "close")
  /\ emitlock' = Append(emitlock, Ask(p))
  /\ UNCHANGED <<page, old, aborted, outcome, asks, asklock, closing, lane,
                 state, client, count>>

(* Mutant of Verdict: a timeout is a timeout, whatever the future says.    *)
VerdictTimeout(p, future) == IF p \in aborted THEN "aborted" ELSE "timeout"

(* An answer that won the race for emit_lock counts.                       *)
Verdict(p, future) == IF p \in aborted THEN "aborted" ELSE future[Q(p)]

CloseOwn(p) ==
  /\ at[p] = "close"
  /\ Proceeds(Ask(p))
  /\ IF Q(p) \in pending
     THEN /\ BeginClose({Q(p)}, IF p \in aborted THEN "cancelled" ELSE "timeout")
          /\ Goto(p, "closing")
          /\ UNCHANGED <<page, outcome, asklock, confirming, emitlock>>
     ELSE /\ Resume(p, Tail(emitlock), Verdict(p, result))
          /\ UNCHANGED <<pending, closing>>
  /\ UNCHANGED <<old, aborted, result, late, lane, state, client, count>>

ClosedOwn(p) ==
  /\ at[p] = "closing"
  /\ EndClose
  /\ Resume(p, Tail(emitlock), Verdict(p, result'))
  /\ UNCHANGED <<old, aborted, pending, lane, state, synced, reply, count>>

(* Mutant of Abandoned: a cancelled asker leaves its question open.        *)
AbandonedOpen(p) ==
  /\ Finish(p, "aborted")
  /\ emitlock' = Without(emitlock, Ask(p))
  /\ UNCHANGED <<shown, lost, result, late, closing>>

(* The CancelledError is raised where the asker awaits: a registered       *)
(* question is closed first, an emit may have been sent or not.            *)
Abandoned(p) ==
  IF at[p] \in {"lock", "register"}
  THEN /\ Finish(p, "aborted")
       /\ emitlock' = Without(emitlock, Ask(p))
       /\ UNCHANGED <<shown, lost, result, late, closing>>
  ELSE /\ emitlock' = Append(Without(emitlock, Ask(p)), Ask(p))
       /\ Goto(p, "close")
       /\ UNCHANGED <<outcome, asklock, confirming>>
       /\ CASE at[p] = "emit" ->
                 /\ \/ shown' = Shows(Q(p)) /\ UNCHANGED lost
                    \/ UNCHANGED shown /\ lost' = lost \cup (Clients \X {Q(p)})
                 /\ UNCHANGED <<result, late, closing>>
            [] at[p] = "closing" ->
                 /\ \/ shown' = Told /\ UNCHANGED lost
                    \/ UNCHANGED shown /\ lost' = lost \cup (Clients \X {Q(p)})
                 /\ Forget
            [] OTHER -> UNCHANGED <<shown, lost, result, late, closing>>

Cancel(p) ==
  /\ p \notin Models \cup aborted
  /\ at[p] \in {"lock", "register", "emit", "wait", "close", "closing"}
  /\ count.cancels < MaxCancels /\ MoreEvents
  /\ count' = [count EXCEPT !.cancels = @ + 1]
  /\ aborted' = aborted \cup {p}
  /\ Abandoned(p)
  /\ UNCHANGED <<page, old, pending, lane, state, synced, reply>>

-----------------------------------------------------------------------------
(* The clients and the command lane.                                       *)

(* onAnswer: the answer is sent and the card is gone.                      *)
Answer(c) ==
  /\ shown[c] # None /\ reply[c] = None
  /\ reply' = [reply EXCEPT ![c] = shown[c]]
  /\ shown' = [shown EXCEPT ![c] = None]
  /\ lost' = lost \cup {<<c, shown[c]>>}
  /\ UNCHANGED <<asker, asks, locks, lane, state, synced, count>>

Disconnect(c) ==
  /\ c \in synced
  /\ count.aways < MaxAways /\ MoreEvents
  /\ count' = [count EXCEPT !.aways = @ + 1]
  /\ synced' = synced \ {c}
  /\ UNCHANGED <<asker, asks, locks, lane, state, shown, reply, lost>>

(* The lane takes the next command and asks for emit_lock.                 *)
Take(cmd, q, by) ==
  /\ lane = Idle
  /\ lane' = [cmd |-> cmd, q |-> q, by |-> by]
  /\ emitlock' = Append(emitlock, Lane)
  /\ UNCHANGED <<asker, asks, asklock, closing, state>>

TakeAnswer(c) ==
  /\ reply[c] # None
  /\ Take("answer", reply[c], {c})
  /\ reply' = [reply EXCEPT ![c] = None]
  /\ UNCHANGED <<synced, shown, lost, count>>

TakeHello(c) ==
  /\ c \notin synced
  /\ Take("hello", None, {c})
  /\ UNCHANGED <<client, count>>

TakeInterrupt ==
  /\ count.stops < MaxStops /\ MoreEvents
  /\ count' = [count EXCEPT !.stops = @ + 1]
  /\ Take("interrupt", None, {})
  /\ UNCHANGED client

LaneFree == lane' = Idle /\ emitlock' = Tail(emitlock)

(* _handle_answer_question: an answer in time closes the question, a late  *)
(* one times it out; one for a question that is closed is rejected.        *)
HandleAnswer ==
  /\ lane.cmd = "answer"
  /\ Proceeds(Lane)
  /\ IF lane.q \in pending
     THEN /\ BeginClose({lane.q}, IF lane.q \in late THEN "timeout" ELSE "answered")
          /\ UNCHANGED <<lane, emitlock>>
     ELSE LaneFree /\ UNCHANGED <<pending, closing>>
  /\ UNCHANGED <<asker, result, late, confirming, asklock, state, client, count>>

(* _handle_interrupt: accepted while a turn runs, it closes what is open.  *)
HandleInterrupt ==
  /\ lane.cmd = "interrupt"
  /\ Proceeds(Lane)
  /\ state' = IF state = "running" THEN "interrupting" ELSE state
  /\ IF state = "running" /\ pending # {}
     THEN BeginClose(pending, "cancelled") /\ UNCHANGED <<lane, emitlock>>
     ELSE LaneFree /\ UNCHANGED <<pending, closing>>
  /\ UNCHANGED <<asker, result, late, confirming, asklock, client, count>>

(* Mutant of Seeds: a client without a question to show keeps its card.    *)
SeedsOver(c, view) ==
  LET open == {q \in pending : Eligible(c, q)}
  IN IF open = {} THEN view[c] ELSE CHOOSE q \in open : TRUE

(* AskUserSync, and then what is open and addressed to this client.        *)
Seeds(c, view) ==
  LET open == {q \in pending : Eligible(c, q)}
  IN IF open = {} THEN None ELSE CHOOSE q \in open : TRUE

Seeded(view) ==
  /\ \A c \in lane.by :
       /\ shown' = [view EXCEPT ![c] = Seeds(c, view)]
       /\ synced' = synced \cup {c}
       /\ lost' = {x \in lost : x[1] # c /\ x[2] \notin closing.ids}
  /\ LaneFree

(* _handle_client_hello closes what is late before it seeds the client.    *)
HandleHello ==
  /\ lane.cmd = "hello"
  /\ Proceeds(Lane)
  /\ IF pending \cap late # {}
     THEN BeginClose(pending \cap late, "timeout")
          /\ UNCHANGED <<lane, emitlock, synced, shown, lost>>
     ELSE Seeded(shown) /\ UNCHANGED <<pending, closing>>
  /\ UNCHANGED <<asker, result, late, confirming, asklock, state, reply, count>>

LaneClosed ==
  /\ lane # Idle /\ Holds(emitlock, Lane) /\ closing # Nothing
  /\ IF lane.cmd = "hello" THEN Forget /\ Seeded(Told)
     ELSE EndClose /\ LaneFree /\ UNCHANGED synced
  /\ UNCHANGED <<asker, pending, confirming, asklock, state, reply, count>>

-----------------------------------------------------------------------------
(* Time and the turn.                                                      *)
Expire(q) ==
  /\ q \in pending \ late
  /\ late' = late \cup {q}
  /\ UNCHANGED <<asker, pending, result, confirming, locks, lane, state, client,
                 count>>

(* The turn ends; on the idle state a client takes its card away.          *)
EndTurn ==
  /\ state # "idle" /\ ~Emitting
  /\ state' = "idle"
  /\ shown' = [c \in Clients |-> IF c \in synced THEN None ELSE shown[c]]
  /\ lost' = lost \cup {<<c, shown[c]>> : c \in {d \in synced : shown[d] # None}}
  /\ UNCHANGED <<asker, asks, locks, lane, synced, reply, count>>

StartTurn ==
  /\ state = "idle"
  /\ count.turns < MaxTurns /\ MoreEvents
  /\ count' = [count EXCEPT !.turns = @ + 1]
  /\ state' = "running"
  /\ UNCHANGED <<asker, asks, locks, lane, client>>

-----------------------------------------------------------------------------
AskStep(p) ==
  \/ Retire(p) \/ Retired(p) \/ Locked(p) \/ Register(p) \/ Emitted(p)
  \/ Resolved(p) \/ TimeUp(p) \/ CloseOwn(p) \/ ClosedOwn(p)

LaneStep == HandleAnswer \/ HandleInterrupt \/ HandleHello \/ LaneClosed

Next ==
  \/ \E p \in Askers : Start(p) \/ AskStep(p) \/ Cancel(p)
  \/ \E c \in Clients : Answer(c) \/ Disconnect(c) \/ TakeAnswer(c) \/ TakeHello(c)
  \/ TakeInterrupt \/ LaneStep
  \/ \E q \in Asked : Expire(q)
  \/ EndTurn \/ StartTurn

(* Coroutines go on and deadlines pass; nobody has to answer.              *)
Fairness ==
  /\ \A p \in Askers : WF_vars(AskStep(p))
  /\ WF_vars(LaneStep)
  /\ \A q \in Asked : WF_vars(Expire(q))

Spec == Init /\ [][Next]_vars /\ Fairness

-----------------------------------------------------------------------------
Reasons == {"answered", "timeout", "superseded", "cancelled"}

Actors == {Ask(p) : p \in Askers} \cup {Lane}

(* Every variable has its type, and no lock is queued for twice.           *)
TypeOK ==
  /\ at \in [Askers -> {"new", "retire", "retiring", "lock", "register", "emit",
                        "wait", "close", "closing", "done"}]
  /\ \A p \in Askers : page[p] \in 1..Pages[p]
  /\ old \in [Askers -> Asked \cup {None}] /\ aborted \subseteq Askers
  /\ outcome \in [Askers -> Reasons \cup {"none", "aborted"}]
  /\ pending \subseteq Asked /\ late \subseteq Asked
  /\ result \in [Asked -> Reasons \cup {"open"}]
  /\ confirming \in Asked \cup {None}
  /\ asklock \in Seq(Askers) /\ emitlock \in Seq(Actors)
  /\ \A i, j \in DOMAIN emitlock : emitlock[i] = emitlock[j] => i = j
  /\ closing.ids \subseteq Asked /\ closing.why \in Reasons \cup {"open"}
  /\ lane.cmd \in {"free", "answer", "hello", "interrupt"}
  /\ state \in {"idle", "running", "interrupting"}
  /\ synced \subseteq Clients
  /\ shown \in [Clients -> Asked \cup {None}]
  /\ reply \in [Clients -> Asked \cup {None}]
  /\ lost \subseteq Clients \X Asked

(* Only one question of a session is open: a client has a single place for *)
(* it (pendingQuestion, web/src/reducer.ts).                               *)
OneOpen == Cardinality(pending) <= 1

(* An open question has somebody waiting for it, who will close it at the  *)
(* deadline: nothing registers it for the life of the session.             *)
NoOrphan ==
  \A q \in pending :
    /\ at[q[1]] \in {"emit", "wait", "close"}
    /\ page[q[1]] = q[2] /\ result[q] = "open"

(* While a batch is at it nobody else's question comes in between.         *)
BatchWhole ==
  \A p \in Batches :
    page[p] > 1 /\ at[p] # "done" => \A q \in pending : q[1] = p

(* One question at a time, and every one ends: the slot of the session is  *)
(* never shared, orphaned or broken into, whoever asks, answers, stops,    *)
(* leaves or is cancelled meanwhile.                                       *)
OneQuestion == TypeOK /\ OneOpen /\ NoOrphan /\ BatchWhole

(* While a turn is being stopped nothing is open, so that the interrupted  *)
(* turn never waits for the user (_handle_interrupt).                      *)
StopsAsking == state = "interrupting" => pending = {}

(* What the clients were told is what the caller got: an answer that was   *)
(* accepted is returned, and no caller believes it was answered when its   *)
(* question timed out, unless the caller itself gave up.                   *)
SameVerdict ==
  \A p \in Askers :
    at[p] = "done" /\ p \notin aborted /\ result[Q(p)] # "open" =>
      outcome[p] = result[Q(p)]

(* When no emit is under way, a client that is in contact shows no closed  *)
(* question, and shows the open one that is addressed to it, unless it     *)
(* took the card away itself.                                              *)
ScreenTrue ==
  ~Emitting =>
    \A c \in synced :
      /\ shown[c] # None => shown[c] \in pending \/ <<c, shown[c]>> \in lost
      /\ \A q \in pending :
           Eligible(c, q) /\ <<c, q>> \notin lost => shown[c] = q

(* Every caller gets an outcome, even when nobody answers.                 *)
CallersReturn ==
  \A p \in Askers : at[p] # "new" ~> at[p] = "done"
=============================================================================
