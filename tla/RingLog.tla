------------------------------ MODULE RingLog -------------------------------
(***************************************************************************)
(* One session's emit path: SessionContext.next_seq and                    *)
(* WrapperMachine._emit_locked stamp every narrative event with the next   *)
(* seq and append it to the session's ring.  The state also carries what   *)
(* the hello handler reads to choose a reply: whether the last state event *)
(* says idle, active_msg_id, and the last turn binding.  active_msg_id may *)
(* be None while a turn runs: the finally block of the turn before resets  *)
(* it late, and a follow-up that Claude starts by itself has no prompt.    *)
(* (That block may also unlock a session whose next turn runs: TurnQueue.) *)
(***************************************************************************)
EXTENDS Ring

CONSTANTS Sizes,      (* serialized sizes an event may have                *)
          MaxEmitted, (* bound: events emitted                             *)
          MaxTurn     (* bound: prompts accepted                           *)

ASSUME LogAssumption ==
  /\ Sizes \subseteq Nat \ {0}
  /\ MaxEmitted \in Nat
  /\ MaxTurn \in Nat

VARIABLES engine,   (* ctx.engine                                          *)
          seq,      (* ctx.seq                                             *)
          buffer,   (* ctx.buffer                                          *)
          turn,     (* prompts accepted so far, the name of the last one   *)
          running,  (* the last state event is not "idle"                  *)
          followup, (* what runs is a follow-up, not a managed turn        *)
          active,   (* ctx.active_msg_id, Unnamed for None                 *)
          endings,  (* turns whose finally block has not reset it yet      *)
          binding,  (* ctx.active_turn_binding.seq, 0 when there is none   *)
          owner,    (* ctx.active_turn_binding.msg_id                      *)
          marked,   (* has the last prompt's user marker been emitted      *)
          first     (* history: seq of the last user marker emitted        *)

turnBinding == <<binding, owner>>
task == <<engine, turn, running, followup, active, endings>>
logVars == <<task, seq, buffer, turnBinding, marked, first>>

LogInit ==
  /\ engine \in {"claude", "codex"}
  /\ seq = 0
  /\ buffer = EmptyRing
  /\ turn = 0
  /\ running = FALSE
  /\ followup = FALSE
  /\ active = Unnamed
  /\ endings = 0
  /\ binding = 0 /\ owner = Unnamed
  /\ marked = FALSE
  /\ first = 0

Emit(kind, msg) ==
  /\ seq < MaxEmitted
  /\ seq' = seq + 1
  /\ \E size \in Sizes :
       buffer' \in Appended(buffer, [seq  |-> seq + 1, size |-> size,
                                     kind |-> kind,    msg  |-> msg])

(* A user marker opens what is shown as the current turn.                  *)
EmitMarker(msg) ==
  /\ marked' = TRUE
  /\ first' = seq + 1
  /\ Emit("user", msg)

Bind(msg) == binding' = seq + 1 /\ owner' = msg

(* _observe_active_turn_binding, for a TurnEnd and for the idle state.     *)
Unbind == binding' = 0 /\ owner' = Unnamed

(* _handle_immediate_query claims the turn and emits the running state.    *)
ClaimTurn ==
  /\ ~running
  /\ turn < MaxTurn
  /\ turn' = turn + 1
  /\ active' = turn + 1
  /\ running' = TRUE
  /\ marked' = FALSE
  /\ Emit("other", Unnamed)
  /\ UNCHANGED <<engine, followup, endings, turnBinding, first>>

(* The turn task publishes the prompt: UserMsg, with a fresh uuid when     *)
(* active_msg_id is gone by then.                                          *)
EmitUserMsg ==
  /\ running /\ ~followup
  /\ ~marked
  /\ EmitMarker(active)
  /\ UNCHANGED <<task, turnBinding>>

(* A Codex turn publishes the native turn it is bound to: TurnBinding.     *)
EmitBinding ==
  /\ engine = "codex"
  /\ running
  /\ marked
  /\ active # Unnamed
  /\ Bind(active)
  /\ Emit("binding", active)
  /\ UNCHANGED <<task, marked, first>>

(* A steer is a new prompt inside the running turn: TurnSteered is at once *)
(* its user marker and its binding.                                        *)
EmitSteered ==
  /\ engine = "codex"
  /\ running
  /\ marked
  /\ turn < MaxTurn
  /\ turn' = turn + 1
  /\ active' = turn + 1
  /\ Bind(turn + 1)
  /\ EmitMarker(turn + 1)
  /\ UNCHANGED <<engine, running, followup, endings>>

EmitOther ==
  /\ Emit("other", Unnamed)
  /\ UNCHANGED <<task, turnBinding, marked, first>>

(* TurnEnd clears the binding; the state is still running.                 *)
EmitTurnEndMsg ==
  /\ running
  /\ Unbind
  /\ Emit("other", Unnamed)
  /\ UNCHANGED <<task, marked, first>>

(* Mutant of EmitIdle: the binding outlives its turn.                      *)
EmitIdleKeepsBinding ==
  /\ running /\ ~followup
  /\ running' = FALSE
  /\ endings' = endings + 1
  /\ Emit("other", Unnamed)
  /\ UNCHANGED <<engine, turn, followup, active, turnBinding, marked, first>>

(* _set_idle_after_managed_turn: the idle state clears the binding too.    *)
(* The turn's finally block is still to come, and the session may be       *)
(* claimed before it.                                                      *)
EmitIdle ==
  /\ running /\ ~followup
  /\ running' = FALSE
  /\ endings' = endings + 1
  /\ Unbind
  /\ Emit("other", Unnamed)
  /\ UNCHANGED <<engine, turn, followup, active, marked, first>>

(* The finally block of _run_turn, whoever owns the session by now.        *)
Finish ==
  /\ endings > 0
  /\ endings' = endings - 1
  /\ active' = Unnamed
  /\ UNCHANGED <<engine, seq, buffer, turn, running, followup, turnBinding,
                 marked, first>>

(* A Claude turn ends, or loses the launch, while a follow-up of earlier   *)
(* work is pending: the state stays running for the follow-up.             *)
GiveWay ==
  /\ engine = "claude"
  /\ running /\ ~followup
  /\ first > 0
  /\ followup' = TRUE
  /\ endings' = endings + 1
  /\ UNCHANGED <<engine, seq, buffer, turn, running, active, turnBinding,
                 marked, first>>

(* _on_claude_background_message: a follow-up begins in an idle session.   *)
FollowUp ==
  /\ engine = "claude"
  /\ ~running
  /\ first > 0
  /\ running' = TRUE
  /\ followup' = TRUE
  /\ Emit("other", Unnamed)
  /\ UNCHANGED <<engine, turn, active, endings, turnBinding, marked, first>>

(* _settle_claude_lifecycle_if_quiescent after the follow-up's Result.     *)
SettleFollowUp ==
  /\ running /\ followup
  /\ running' = FALSE
  /\ followup' = FALSE
  /\ active' = Unnamed
  /\ Unbind
  /\ Emit("other", Unnamed)
  /\ UNCHANGED <<engine, turn, endings, marked, first>>

LogNext ==
  \/ ClaimTurn
  \/ EmitUserMsg
  \/ EmitBinding
  \/ EmitSteered
  \/ EmitOther
  \/ EmitTurnEndMsg
  \/ EmitIdle
  \/ Finish
  \/ GiveWay
  \/ FollowUp
  \/ SettleFollowUp

LogSpec == LogInit /\ [][LogNext]_logVars

(* What the hello handler asks the ring for, for a client without cursor.  *)
AskedFor == IF binding # 0 THEN owner ELSE active

Replies == IF running THEN CurrentTurn(buffer, AskedFor, binding) ELSE {}

-----------------------------------------------------------------------------
Events == [seq : 1..MaxEmitted, size : Sizes, kind : {"user", "binding", "other"},
           msg : 0..MaxTurn]

(* Every variable has its type (RingBounded is about buffer.bytes).        *)
LogTypeOK ==
  /\ engine \in {"claude", "codex"}
  /\ seq \in 0..MaxEmitted
  /\ DOMAIN buffer = {"buf", "bytes", "tail", "dropped"}
  /\ buffer.buf \subseteq Events
  /\ buffer.tail \in Nat
  /\ buffer.dropped \in Nat
  /\ turn \in 0..MaxTurn
  /\ running \in BOOLEAN
  /\ followup \in BOOLEAN
  /\ active \in {Unnamed, turn}
  /\ endings \in Nat
  /\ binding \in 0..MaxEmitted
  /\ owner \in 0..MaxTurn
  /\ marked \in BOOLEAN
  /\ first \in 0..MaxEmitted

(***************************************************************************)
(* The inductive invariant.  RingInv: a seq above dropped is retained, and *)
(* dropped itself, the last hole, is not.  TurnInv: no user marker is      *)
(* newer than first; the one that names the last prompt is at first, and   *)
(* the one at first is retained unless dropped has passed it; a binding    *)
(* belongs to the last prompt, runs with it and never precedes its marker. *)
(***************************************************************************)
RingInv ==
  /\ buffer.tail = seq
  /\ Seqs(buffer) \subseteq 1..seq
  /\ buffer.dropped \in 0..seq
  /\ (buffer.dropped + 1)..seq \subseteq Seqs(buffer)
  /\ buffer.dropped > 0 => buffer.dropped \notin Seqs(buffer)

TurnInv ==
  /\ first \in 0..seq
  /\ marked => first > 0
  /\ binding # 0 =>
       /\ running /\ marked /\ engine = "codex"
       /\ owner = turn
       /\ binding \in first..seq
  /\ \A e \in buffer.buf : e.kind = "user" =>
       /\ e.msg <= turn /\ e.seq <= first
       /\ e.msg = turn /\ turn > 0 => marked /\ e.seq = first
  /\ buffer.dropped < first =>
       \E e \in Markers(buffer, Unnamed) : e.seq = first

(* The conjunction TLC checks and the proofs use: every part of it holds   *)
(* after every emit.                                                       *)
LogInv == LogTypeOK /\ RingInv /\ TurnInv

(* replay_from is exact for every cursor this ring ever handed out: an     *)
(* untruncated reply holds every event after the cursor, and truncated is  *)
(* claimed only when an event after the cursor is really missing, however  *)
(* oversized events and evictions of both kinds were mixed.                *)
ReplayExact ==
  \A last \in 0..seq :
    LET reply == ReplayFrom(buffer, last, FALSE)
    IN /\ reply.to = seq
       /\ ~reply.rebuild
       /\ reply.truncated <=> reply.body # (last + 1)..seq

(* A rebuild (another wrapper generation, or a cursor past the tail)       *)
(* replays the whole ring and says truncated exactly when the ring no      *)
(* longer starts at the session's first event or has a hole.               *)
RebuildExact ==
  \A last \in 0..seq + 1 :
    LET reply == ReplayFrom(buffer, last, last <= seq)
    IN /\ reply.rebuild
       /\ reply.truncated <=> reply.body # 1..seq

(* The bounded reply of a side chat never drops an event of the suffix in  *)
(* silence, keeps both budgets, and what it sends is a suffix of what      *)
(* replay_from would have sent.                                            *)
BoundedExact ==
  \A last \in 0..seq + 1, events \in 1..MaxEvents, bytes \in 1..MaxBytes :
    LET reply == ReplayBounded(buffer, last, FALSE, events, bytes)
        full  == ReplayFrom(buffer, last, FALSE)
        after == IF reply.rebuild THEN 1..seq ELSE (last + 1)..seq
    IN /\ reply.truncated <=> reply.body # after
       /\ \A s \in reply.body, t \in full.body : t > s => t \in reply.body
       /\ Cardinality(reply.body) <= events
       /\ SizeOf({e \in buffer.buf : e.seq \in reply.body}) <= bytes

(* The two cases in which asking for no prompt finds another turn: what    *)
(* runs is a prompt that has no marker yet, or the last marker was never   *)
(* retained (oversized) while an older one is.  There the code does what   *)
(* ringbuffer.py:313 forbids: "replay the previous turn as if it were      *)
(* current".                                                               *)
Preflight == ~marked /\ ~followup

Hidden ==
  /\ Markers(buffer, Unnamed) # {}
  /\ \A e \in Markers(buffer, Unnamed) : e.seq # first

(* A client that arrives during a turn is never shown an event of an       *)
(* earlier turn (or of the segment before a steer) as part of the current  *)
(* one, and what it is shown of the current one is complete unless the     *)
(* envelope says truncated, whichever of marker and binding was evicted.   *)
(* A follow-up belongs to the turn of the last marker.  When the wrapper   *)
(* has no prompt to ask for, this holds but for the two cases above.       *)
CurrentTurnOnly ==
  AskedFor # Unnamed \/ ~(Preflight \/ Hidden) =>
    \A reply \in Replies :
      /\ ~Preflight
      /\ reply.body \subseteq first..seq
      /\ reply.truncated \/ reply.body = first..seq
      /\ reply.to = seq

(* Both bounds of the ring hold after every append, and the incremental    *)
(* byte counter is the size of what is retained.                           *)
RingBounded ==
  /\ Cardinality(buffer.buf) <= MaxEvents
  /\ buffer.bytes = SizeOf(buffer.buf)
  /\ buffer.bytes <= MaxBytes
=============================================================================
