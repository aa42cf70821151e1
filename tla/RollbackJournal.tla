-------------------------- MODULE RollbackJournal ---------------------------
(***************************************************************************)
(* A rollback cuts the end off a conversation, restores files, or both.    *)
(* Repeating one would cut again, so the wrapper keeps a durable journal   *)
(* (wrapper/rollback_commands.py) and claims each command in it before it  *)
(* touches anything (_handle_rollback_session in wrapper/machine.py).      *)
(* Several wrapper processes may share the journal: a dying one and its    *)
(* replacement.  An entry's file is one atomic replace; a lock file beside *)
(* it carries a marker that says the journal was once initialized.         *)
(***************************************************************************)
EXTENDS Naturals, FiniteSets

CONSTANTS Procs,      (* wrapper processes                                 *)
          Hosts,      (* those that run turns of the thread                *)
          Cmds,       (* rollback commands, by client and command id       *)
          Turns,      (* num_turns                                         *)
          Cap,        (* _MAX_ENTRIES                                      *)
          MaxCrashes, (* bound: crashes                                    *)
          MaxFaults,  (* bound: writes that raise                          *)
          MaxLost,    (* bound: journal files that disappear               *)
          MaxStuck,   (* bound: processes that give their checkpoints up   *)
          MaxFailures (* bound: all of these together                      *)

ASSUME JournalAssumption ==
  /\ Hosts \subseteq Procs /\ Turns \in Nat \ {0}
  /\ Cap \in Nat /\ MaxCrashes \in Nat /\ MaxFaults \in Nat /\ MaxLost \in Nat
  /\ MaxStuck \in Nat /\ MaxFailures \in Nat

Surfaces == {"conversation", "files"}

Identities ==
  [engine : {"claude", "codex"}, restore : {"conversation", "files", "both"}]

VARIABLES
  identity,   (* client: what each command asks for                        *)
  lock,       (* disk: the lock file and its marker                        *)
  stored,     (* disk: the state file is there                             *)
  entries,    (* disk: its content                                         *)
  checkpoint, (* disk: the records of Codex's turns, restored by counting  *)
              (* them: "aligned" to the thread's end, "retired", "behind"  *)
              (* a thread that was cut, with a "gap" of unrecorded turns,  *)
              (* or "open": the newest turn's record lacks its marker      *)
  at,         (* process: where its constructor, handler or turn is        *)
  on,         (* process: it has a journal (_rollback_commands is not None) *)
  off,        (* process: codex_checkpoint is False: checkpoints disabled  *)
  cmd,        (* process: the command in its lane                          *)
  outcome,    (* process: the handler's conversation, files and turns      *)
  remembered, (* process: commands its command memory answers              *)
  heard,      (* client: the commands whose answer arrived                 *)
  told,       (* history: results sent, by command                         *)
  calls,      (* history: native mutations submitted, per surface          *)
  changed,    (* history: surfaces that were changed                       *)
  count       (* history: crashes, faults, lost files, checkpoints given   *)
              (* up, and turns a crash left without their slot             *)

disk    == <<lock, stored, entries, checkpoint>>
process == <<at, on, off, cmd, outcome, remembered>>
history == <<told, calls, changed, count>>
client  == <<identity, heard>>
vars    == <<disk, process, client, history>>

Wants(c, s) == identity[c].restore \in {s, "both"}


NoCmd   == "none"
Nothing == [conversation |-> "skipped", files |-> "skipped", turns |-> 0]
NoEntry == [status |-> "none", result |-> Nothing]

Init ==
  /\ identity \in [Cmds -> Identities]
  /\ lock = "absent" /\ stored = FALSE
  /\ entries = [c \in Cmds |-> NoEntry]
  /\ checkpoint = "aligned"
  /\ at = [p \in Procs |-> "down"]
  /\ on = [p \in Procs |-> FALSE]
  /\ off = [p \in Procs |-> FALSE]
  /\ cmd = [p \in Procs |-> NoCmd]
  /\ outcome = [p \in Procs |-> Nothing]
  /\ remembered = [p \in Procs |-> {}]
  /\ heard = {}
  /\ told = {}
  /\ calls = [c \in Cmds |-> [s \in Surfaces |-> 0]]
  /\ changed = [c \in Cmds |-> {}]
  /\ count = [crashes |-> 0, faults |-> 0, lost |-> 0, stuck |-> 0,
              unslotted |-> 0]

-----------------------------------------------------------------------------
(* The journal.                                                            *)

(* Nobody holds the flock: only a constructor keeps it between two steps.  *)
Free == \A p \in Procs : at[p] # "unmarked"

(* _file_lock of an operation: opening a missing lock file creates it, and *)
(* a marker that is not there makes the operation raise.                   *)
Opened(l) == IF l = "absent" THEN "empty" ELSE l

Usable == lock = "marked" /\ stored

(* One more failure of any kind is within the bound.                       *)
MayFail == count.crashes + count.faults + count.lost + count.stuck < MaxFailures

(* _persist_payload: it raises before the replace, or after it when the    *)
(* directory cannot be synced.                                             *)
Fault ==
  /\ count.faults < MaxFaults /\ MayFail
  /\ count' = [count EXCEPT !.faults = @ + 1]

Persist(f) == entries' = f /\ UNCHANGED count

PersistRaises(f) == entries' \in {f, entries} /\ Fault

Used == {c \in Cmds : entries[c].status # "none"}

(* Mutant of Claimable: an interrupted submission may be claimed again.    *)
ClaimableAgain(c) == entries[c].status \in {"intent", "submitted"}

(* mark_submitted claims an intent and nothing else.                       *)
Claimable(c) == entries[c].status = "intent"

(* _normalize_result.                                                      *)
Fits(c, r) ==
  /\ r.turns \in 0..Turns
  /\ \A s \in Surfaces : ~Wants(c, s) => r[s] = "skipped"
  /\ r.turns > 0 => \E s \in Surfaces : r[s] = "succeeded"

To(c, status, r) == [entries EXCEPT ![c] = [status |-> status, result |-> r]]

-----------------------------------------------------------------------------
(* The constructor.                                                        *)

(* The lock file is opened, or created, before its flock is taken.         *)
OpenLock(p) ==
  /\ at[p] = "down"
  /\ lock' = Opened(lock)
  /\ at' = [at EXCEPT ![p] = IF lock = "absent" THEN "created" ELSE "opened"]
  /\ UNCHANGED <<stored, entries, checkpoint, on, off, cmd, outcome, remembered,
                 client, history>>

Ready(p, journal) ==
  /\ at' = [at EXCEPT ![p] = "ready"]
  /\ on' = [on EXCEPT ![p] = journal]

(* Evidence may have been removed: the journal stays off.                  *)
Refused(p) ==
  \/ lock = "torn"
  \/ lock = "marked" /\ ~stored
  \/ lock = "empty" /\ at[p] = "created" /\ stored
  \/ lock = "empty" /\ at[p] = "opened" /\ (~stored \/ Used # {})

Construct(p) ==
  /\ at[p] \in {"opened", "created"} /\ Free
  /\ \/ /\ Refused(p) \/ lock = "marked"
        /\ Ready(p, ~Refused(p))
        /\ UNCHANGED <<stored, entries, count>>
     \/ /\ ~Refused(p) /\ lock = "empty"
        /\ at' = [at EXCEPT ![p] = "unmarked"]
        /\ stored' = TRUE
        /\ entries' = [c \in Cmds |-> NoEntry]
        /\ UNCHANGED <<on, count>>
     \/ /\ ~Refused(p) /\ lock = "empty" /\ ~stored
        /\ Fault
        /\ Ready(p, FALSE)
        /\ stored' \in BOOLEAN
        /\ UNCHANGED entries
  /\ UNCHANGED <<lock, checkpoint, off, cmd, outcome, remembered, client, told,
                 calls, changed>>

(* _initialize_lock.                                                       *)
WriteMarker(p) ==
  /\ at[p] = "unmarked"
  /\ \/ lock' = "marked" /\ Ready(p, TRUE) /\ UNCHANGED count
     \/ lock' \in {"empty", "torn"} /\ Ready(p, FALSE) /\ Fault
  /\ UNCHANGED <<stored, entries, checkpoint, off, cmd, outcome, remembered,
                 client, told, calls, changed>>

-----------------------------------------------------------------------------
(* The handler: _handle_rollback_session.                                  *)
Goto(p, place) == at' = [at EXCEPT ![p] = place]

(* A handler that returns is remembered and acknowledged; the frames with  *)
(* its answer may be lost.                                                 *)
Remember(p, c) ==
  /\ remembered' = [remembered EXCEPT ![p] = @ \cup {c}]
  /\ heard' \in {heard, heard \cup {c}}
  /\ UNCHANGED identity

Return(p, c) ==
  /\ Goto(p, "ready")
  /\ cmd' = [cmd EXCEPT ![p] = NoCmd]
  /\ outcome' = [outcome EXCEPT ![p] = Nothing]
  /\ Remember(p, c)

(* A turn of the thread, from its checkpoint to its end: no rollback runs. *)
TurnPlaces == {"captured", "uncaptured", "unrecorded", "accepted", "running",
               "slot", "slot_again"}

Busy == \E p \in Procs : at[p] \in TurnPlaces

(* The lane that answers commands is not the one that runs the turn.       *)
Listening(p) == at[p] \in {"ready"} \cup TurnPlaces

Says(c, r) == told' = told \cup {[cmd |-> c, result |-> r]}

(* Mutant of AnswerAgain: the frames of the answer are not sent again.     *)
AnswerAgainEmpty(p, c) ==
  /\ Listening(p) /\ c \in remembered[p] \ heard
  /\ UNCHANGED vars

(* A retried command this process remembers is answered from its memory.   *)
AnswerAgain(p, c) ==
  /\ Listening(p) /\ c \in remembered[p] \ heard
  /\ heard' = heard \cup {c}
  /\ UNCHANGED <<disk, process, identity, history>>

(* The thread is running a turn, here or elsewhere: an error is the answer.*)
AnswerBusy(p, c) ==
  /\ Listening(p) /\ c \notin remembered[p] \cup heard
  /\ Busy
  /\ Remember(p, c)
  /\ UNCHANGED <<disk, at, on, off, cmd, outcome, history>>

(* No journal, or begin raises: the answer is an error.                    *)
Reject(p, c) ==
  /\ at[p] = "ready" /\ ~Busy /\ c \notin remembered[p] \cup heard
  /\ Return(p, c)
  /\ \/ ~on[p] /\ UNCHANGED <<lock, entries, count>>
     \/ /\ on[p] /\ Free
        /\ ~Usable \/ (c \notin Used /\ Cardinality(Used) >= Cap)
        /\ lock' = Opened(lock)
        /\ UNCHANGED <<entries, count>>
     \/ /\ on[p] /\ Free /\ Usable
        /\ c \notin Used /\ Cardinality(Used) < Cap
        /\ PersistRaises(To(c, "intent", Nothing))
        /\ UNCHANGED lock
  /\ UNCHANGED <<stored, checkpoint, on, off, told, calls, changed>>

(* Mutant of Doubtful: nothing is known, so nothing is reported.           *)
DoubtfulSkipped(c) == Nothing

(* The answer to a command whose outcome nobody knows.                     *)
Doubtful(c) ==
  [conversation |-> IF Wants(c, "conversation") THEN "failed" ELSE "skipped",
   files |-> IF Wants(c, "files") THEN "failed" ELSE "skipped", turns |-> 0]

(* begin, and where its answer leads.                                      *)
Begin(p, c) ==
  /\ at[p] = "ready" /\ ~Busy /\ c \notin remembered[p] \cup heard
  /\ on[p] /\ Free /\ Usable
  /\ c \in Used \/ Cardinality(Used) < Cap
  /\ cmd' = [cmd EXCEPT ![p] = c]
  /\ entries' = IF c \in Used THEN entries ELSE To(c, "intent", Nothing)
  /\ CASE entries[c].status \in {"none", "intent"} ->
            Goto(p, "claim") /\ UNCHANGED outcome
       [] entries[c].status \in {"submitted", "uncertain"} ->
            /\ Goto(p, "doubt")
            /\ outcome' = [outcome EXCEPT ![p] =
                 Doubtful(c)]
       [] OTHER -> /\ Goto(p, "publish")
                   /\ outcome' = [outcome EXCEPT ![p] = entries[c].result]
  /\ UNCHANGED <<lock, stored, checkpoint, on, off, remembered, client, history>>

(* Where a claimed command starts.                                         *)
First(c) ==
  CASE identity[c].engine = "claude" /\ Wants(c, "conversation") -> "prepare"
    [] identity[c].engine = "codex" /\ ~Wants(c, "files")        -> "retire"
    [] OTHER                                            -> "files"

(* mark_submitted: the claim.                                              *)
Claim(p) ==
  LET c == cmd[p] IN
  /\ at[p] = "claim" /\ Free /\ Usable
  /\ \/ /\ Claimable(c)
        /\ Persist(To(c, "submitted", Nothing))
        /\ Goto(p, First(c))
     \/ ~Claimable(c) /\ c \in Used /\ Goto(p, "taken") /\ UNCHANGED <<entries, count>>
  /\ UNCHANGED <<lock, stored, checkpoint, on, off, cmd, outcome, remembered,
                 client, told, calls, changed>>

(* mark_submitted raises: an error is the answer, and nothing was changed. *)
ClaimRaises(p) ==
  LET c == cmd[p] IN
  /\ at[p] = "claim" /\ Free
  /\ Return(p, c)
  /\ \/ /\ ~Usable \/ c \notin Used
        /\ lock' = Opened(lock)
        /\ UNCHANGED <<entries, count>>
     \/ /\ Usable /\ Claimable(c)
        /\ PersistRaises(To(c, "submitted", Nothing))
        /\ UNCHANGED lock
  /\ UNCHANGED <<stored, checkpoint, on, off, told, calls, changed>>

(* Another process won the claim: get, and an answer that nothing is known *)
(* here. When get raises so does the handler, and nothing is remembered.   *)
Taken(p) ==
  LET c == cmd[p] IN
  /\ at[p] = "taken" /\ Free
  /\ \/ /\ Usable /\ c \in Used
        /\ Goto(p, "publish")
        /\ outcome' = [outcome EXCEPT ![p] = Doubtful(c)]
        /\ UNCHANGED <<lock, cmd>>
     \/ /\ ~(Usable /\ c \in Used)
        /\ Goto(p, "ready")
        /\ cmd' = [cmd EXCEPT ![p] = NoCmd]
        /\ lock' = Opened(lock)
        /\ UNCHANGED outcome
  /\ UNCHANGED <<stored, entries, checkpoint, on, off, remembered, client, history>>

-----------------------------------------------------------------------------
(* The external effects.                                                   *)

(* Mutant of Quarantine: the records of a disabled checkpoint are kept.    *)
QuarantineSkipped(p) == checkpoint' = checkpoint /\ UNCHANGED <<off, count>>

(* _prepare_codex_conversation_rollback returns: the records were moved    *)
(* away, or this process has its checkpoints disabled.                     *)
Quarantine(p) ==
  /\ checkpoint' = IF off[p] THEN checkpoint ELSE "retired"
  /\ UNCHANGED <<off, count>>

(* _retire_codex_checkpoint: no checkpoints in this context any more.  The *)
(* records are moved away, or cannot be.                                   *)
GiveUp(p, left) ==
  /\ ~off[p] /\ count.stuck < MaxStuck /\ MayFail
  /\ count' = [count EXCEPT !.stuck = @ + 1]
  /\ off' = [off EXCEPT ![p] = TRUE]
  /\ checkpoint' \in {left, "retired"}

(* It raises: the journal cannot be opened, moved, or deleted once moved.  *)
QuarantineRaises(p) == GiveUp(p, checkpoint)

(* An answer in doubt retires the checkpoints as well, if it can.          *)
Doubt(p) ==
  LET c == cmd[p] IN
  /\ at[p] = "doubt"
  /\ Goto(p, "mark")
  /\ IF identity[c].engine = "codex" /\ Wants(c, "conversation")
       THEN Quarantine(p) \/ QuarantineRaises(p)
       ELSE UNCHANGED <<off, checkpoint, count>>
  /\ UNCHANGED <<lock, stored, entries, on, cmd, outcome, remembered, client, told,
                 calls, changed>>

Outcome(p, s, value) == outcome' = [outcome EXCEPT ![p][s] = value]

(* One native mutation of a surface is submitted; its effect may be there  *)
(* whatever the answer says.                                               *)
Mutate(c, s, value) ==
  /\ calls' = [calls EXCEPT ![c][s] = @ + 1]
  /\ \/ changed' = [changed EXCEPT ![c] = @ \cup {s}]
     \/ value = "failed" /\ UNCHANGED changed

(* prepare_conversation_rewind.                                            *)
Prepare(p) ==
  /\ at[p] = "prepare"
  /\ \/ Goto(p, "rewind") /\ UNCHANGED outcome
     \/ Goto(p, "record") /\ Outcome(p, "conversation", "failed")
  /\ UNCHANGED <<disk, on, off, cmd, remembered, client, history>>

(* Codex restores files first; when that fails its conversation stays.     *)
AfterFiles(c, value) ==
  IF identity[c].engine = "codex" /\ Wants(c, "conversation") /\ value = "succeeded"
    THEN "retire" ELSE "record"

(* restore_files_now: Codex needs the records of the turns.                *)
RestoreFiles(p) ==
  LET c == cmd[p]
      able == \/ identity[c].engine = "claude"
              \/ ~off[p] /\ checkpoint \notin {"retired", "open"} IN
  /\ at[p] = "files"
  /\ \E value \in {"succeeded", "failed"} :
       /\ Outcome(p, "files", value)
       /\ Goto(p, AfterFiles(c, value))
       /\ \/ able /\ Mutate(c, "files", value)
          \/ value = "failed" /\ UNCHANGED <<calls, changed>>
  /\ UNCHANGED <<disk, on, off, cmd, remembered, client, told, count>>

(* Codex: the records go before the native call is submitted.              *)
Retire(p) ==
  /\ at[p] = "retire"
  /\ \/ Quarantine(p) /\ Goto(p, "cut") /\ UNCHANGED outcome
     \/ /\ QuarantineRaises(p)
        /\ Goto(p, "record")
        /\ Outcome(p, "conversation", "failed")
  /\ UNCHANGED <<lock, stored, entries, on, cmd, remembered, client, told, calls,
                 changed>>

(* rollback_thread.                                                        *)
Cut(p) ==
  LET c == cmd[p] IN
  /\ at[p] = "cut"
  /\ Goto(p, "record")
  /\ \E value \in {"succeeded", "failed"} :
       /\ Outcome(p, "conversation", value)
       /\ Mutate(c, "conversation", value)
  /\ checkpoint' = IF changed' # changed /\ checkpoint = "aligned" THEN "behind"
                                                                ELSE checkpoint
  /\ UNCHANGED <<lock, stored, entries, on, off, cmd, remembered, client, told, count>>

(* Claude restores files last, and only at a target that was accepted.     *)
AfterRewind(c, value) ==
  IF Wants(c, "files") /\ value = "succeeded" THEN "files" ELSE "record"

(* rewind_conversation takes the newest turn only.  An older target is     *)
(* stale, and then the turns are rewound one by one down to it.            *)
Rewind(p) ==
  LET c == cmd[p] IN
  /\ at[p] = "rewind"
  /\ \E k \in 0..Turns, value \in {"succeeded", "failed"} :
       /\ value = "succeeded" => k = Turns
       /\ outcome' = [outcome EXCEPT ![p].conversation = value, ![p].turns = k]
       /\ Goto(p, AfterRewind(c, value))
       /\ calls' = [calls EXCEPT ![c].conversation = @ + 1]
       /\ changed' \in {[changed EXCEPT ![c] = @ \cup {"conversation"}]} \cup
                       IF k = 0 THEN {changed} ELSE {}
  /\ UNCHANGED <<disk, on, off, cmd, remembered, client, told, count>>

-----------------------------------------------------------------------------
(* The record and the answer.                                              *)

(* restored_turns, then complete.                                          *)
Restored(c, r) ==
  [r EXCEPT !.turns = IF @ > 0 THEN @
                      ELSE IF \E s \in Surfaces : r[s] = "succeeded" THEN Turns
                      ELSE 0]

(* complete accepts the result, and what the journal holds then.           *)
Completes(c, r) ==
  /\ Usable /\ Fits(c, r)
  /\ \/ entries[c].status \in {"submitted", "uncertain"}
     \/ entries[c].status = "complete" /\ entries[c].result = r

(* complete, by the handler that ran the rollback and by one in doubt.     *)
Record(p) ==
  LET c == cmd[p]  r == Restored(c, outcome[p]) IN
  /\ at[p] \in {"record", "finish"} /\ Free
  /\ outcome' = [outcome EXCEPT ![p] = r]
  /\ \/ /\ Completes(c, r)
        /\ Goto(p, "publish")
        /\ Persist(To(c, "complete", r))
        /\ UNCHANGED lock
     \/ /\ Goto(p, IF at[p] = "record" THEN "mark_failed" ELSE "publish")
        /\ \/ /\ ~Completes(c, r)
              /\ lock' = Opened(lock)
              /\ UNCHANGED <<entries, count>>
           \/ /\ Completes(c, r) /\ entries[c].status # "complete"
              /\ PersistRaises(To(c, "complete", r))
              /\ UNCHANGED lock
  /\ UNCHANGED <<stored, checkpoint, on, off, cmd, remembered, client, told, calls,
                 changed>>

(* mark_uncertain, before complete by a handler in doubt and after it by   *)
(* one whose result was refused.                                           *)
MarkUncertain(p) ==
  LET c == cmd[p]  doubt == To(c, "uncertain", Nothing) IN
  /\ at[p] \in {"mark", "mark_failed"} /\ Free
  /\ \/ /\ Usable /\ entries[c].status \in {"submitted", "uncertain", "complete"}
        /\ Goto(p, IF at[p] = "mark" THEN "finish" ELSE "publish")
        /\ Persist(IF entries[c].status = "submitted" THEN doubt ELSE entries)
        /\ UNCHANGED lock
     \/ /\ Goto(p, "publish")
        /\ \/ /\ ~Usable \/ entries[c].status \in {"none", "intent"}
              /\ lock' = Opened(lock)
              /\ UNCHANGED <<entries, count>>
           \/ /\ Usable /\ entries[c].status = "submitted"
              /\ PersistRaises(doubt)
              /\ UNCHANGED lock
  /\ UNCHANGED <<stored, checkpoint, on, off, cmd, outcome, remembered, client, told,
                 calls, changed>>

(* _publish_rollback_outcome, and the handler returns.                     *)
Publish(p) ==
  /\ at[p] = "publish"
  /\ Says(cmd[p], outcome[p])
  /\ Return(p, cmd[p])
  /\ UNCHANGED <<disk, on, off, calls, changed, count>>

-----------------------------------------------------------------------------
(* A turn of the Codex thread and its slot in the records.                 *)

(* The places where a rollback reads or changes what a turn changes.       *)
Rolling == {"claim", "doubt", "prepare", "rewind", "files", "retire", "cut"}

(* The newest turn's begun record is discarded for want of its marker, and *)
(* later ones follow.                                                      *)
Recovered == IF checkpoint = "open" THEN "gap" ELSE checkpoint

(* A record or a tombstone of the turn stands: old records, if there were  *)
(* any, and this one.                                                      *)
Slotted == IF checkpoint = "retired" THEN "aligned" ELSE checkpoint

(* What the records are once this turn stays without its slot.             *)
Missing(value) == IF checkpoint = "aligned" THEN value ELSE checkpoint

(* _begin_codex_checkpoint: the pre-image of the next turn, in a thread of *)
(* Codex.                                                                  *)
BeginTurn(p) ==
  /\ \E c \in Cmds : identity[c].engine = "codex"
  /\ p \in Hosts
  /\ at[p] = "ready" /\ \A q \in Procs : at[q] \notin Rolling \cup TurnPlaces
  /\ \/ /\ off[p]
        /\ Goto(p, "unrecorded")
        /\ UNCHANGED <<checkpoint, off, count>>
     \/ (* The journal cannot be opened: its records stay where they are.   *)
        /\ GiveUp(p, checkpoint) /\ checkpoint' = checkpoint
        /\ Goto(p, "unrecorded")
     \/ (* begin_turn, after what a crash left active was recovered.        *)
        /\ ~off[p]
        /\ checkpoint' = Recovered
        /\ Goto(p, "captured")
        /\ UNCHANGED <<off, count>>
     \/ (* Nothing captured: a tombstone is due once the turn is accepted.  *)
        /\ ~off[p]
        /\ checkpoint' \in {checkpoint, Recovered}
        /\ Goto(p, "uncaptured")
        /\ UNCHANGED <<off, count>>

(* sdk.query: the app server accepts the turn ...                          *)
Accepted(p) ==
  /\ \/ at[p] = "captured" /\ Goto(p, "accepted") /\ UNCHANGED checkpoint
     \/ at[p] = "uncaptured" /\ Goto(p, "slot") /\ UNCHANGED checkpoint
     \/ /\ at[p] = "unrecorded" /\ Goto(p, "ready")
        /\ checkpoint' = Missing("gap")
  /\ UNCHANGED <<off, count>>

(* ... or refuses it: abort_turn, which may raise.                         *)
NotAccepted(p) ==
  /\ Goto(p, "ready")
  /\ \/ /\ at[p] \in {"captured", "uncaptured", "unrecorded"}
        /\ UNCHANGED <<checkpoint, off, count>>
     \/ at[p] = "captured" /\ GiveUp(p, checkpoint)

(* accept_turn writes the marker; when it raises the records go.           *)
AcceptTurn(p) ==
  /\ at[p] = "accepted"
  /\ \/ Goto(p, "running") /\ checkpoint' = Slotted /\ UNCHANGED <<off, count>>
     \/ Goto(p, "ready") /\ GiveUp(p, Missing("open"))

(* finish_turn; when it raises the record is aborted for a tombstone.      *)
FinishTurn(p) ==
  /\ at[p] = "running"
  /\ Goto(p, "ready") \/ Goto(p, "slot_again")
  /\ UNCHANGED <<checkpoint, off, count>>

(* record_unavailable, tried again when the turn finishes, or for the last *)
(* time.                                                                   *)
RecordUnavailable(p) ==
  /\ at[p] \in {"slot", "slot_again"}
  /\ \/ /\ checkpoint # "open"
        /\ Goto(p, "ready") /\ checkpoint' = Slotted
        /\ UNCHANGED <<off, count>>
     \/ /\ at[p] = "slot" /\ Goto(p, "slot_again")
        /\ UNCHANGED <<checkpoint, off, count>>
     \/ /\ at[p] = "slot_again" /\ Goto(p, "ready")
        /\ GiveUp(p, Missing("gap"))

(* The session is evicted and spawned again: a new context may open them.  *)
Respawn(p) ==
  /\ at[p] = "ready" /\ off[p]
  /\ off' = [off EXCEPT ![p] = FALSE]
  /\ UNCHANGED <<at, checkpoint, count>>

Turn(p) ==
  /\ \/ BeginTurn(p) \/ Accepted(p) \/ NotAccepted(p) \/ AcceptTurn(p)
     \/ FinishTurn(p) \/ RecordUnavailable(p) \/ Respawn(p)
  /\ UNCHANGED <<lock, stored, entries, on, cmd, outcome, remembered, client, told,
                 calls, changed>>

-----------------------------------------------------------------------------
(* Around the handler.                                                     *)

(* What a crash leaves of the records: a turn accepted a moment ago has no *)
(* slot in them.                                                           *)
Torn(p) ==
  CASE at[p] = "accepted"              -> Missing("open")
    [] at[p] \in {"slot", "slot_again"} -> Missing("gap")
    [] OTHER                           -> checkpoint

(* The process dies, in the middle of the marker's write for instance.     *)
Crash(p) ==
  /\ at[p] # "down" /\ count.crashes < MaxCrashes /\ MayFail
  /\ checkpoint' = Torn(p)
  /\ count' = [count EXCEPT !.crashes = @ + 1,
                            !.unslotted = IF checkpoint' = checkpoint THEN @ ELSE @ + 1]
  /\ lock' \in IF at[p] = "unmarked" THEN {"empty", "torn", "marked"} ELSE {lock}
  /\ at' = [at EXCEPT ![p] = "down"]
  /\ on' = [on EXCEPT ![p] = FALSE]
  /\ off' = [off EXCEPT ![p] = FALSE]
  /\ cmd' = [cmd EXCEPT ![p] = NoCmd]
  /\ outcome' = [outcome EXCEPT ![p] = Nothing]
  /\ remembered' = [remembered EXCEPT ![p] = {}]
  /\ UNCHANGED <<stored, entries, client, told, calls, changed>>

(* A file of the journal disappears.                                       *)
LoseFile ==
  /\ \A p \in Procs : at[p] \notin {"opened", "created", "unmarked"}
  /\ count.lost < MaxLost /\ MayFail
  /\ count' = [count EXCEPT !.lost = @ + 1]
  /\ \/ lock # "absent" /\ lock' = "absent" /\ UNCHANGED <<stored, entries>>
     \/ /\ stored /\ stored' = FALSE
        /\ entries' = [c \in Cmds |-> NoEntry]
        /\ UNCHANGED lock
  /\ UNCHANGED <<checkpoint, process, client, told, calls, changed>>

Step(p) ==
  \/ OpenLock(p) \/ Construct(p) \/ WriteMarker(p)
  \/ Claim(p) \/ ClaimRaises(p) \/ Taken(p) \/ Doubt(p)
  \/ Prepare(p) \/ RestoreFiles(p) \/ Retire(p) \/ Cut(p) \/ Rewind(p)
  \/ Record(p) \/ MarkUncertain(p) \/ Publish(p)

Ask(p, c) == Begin(p, c) \/ Reject(p, c) \/ AnswerBusy(p, c) \/ AnswerAgain(p, c)

Next ==
  \/ \E p \in Procs : Step(p) \/ Turn(p) \/ Crash(p)
  \/ \E p \in Procs, c \in Cmds : Ask(p, c)
  \/ LoseFile

(* A process is restarted and its handlers run on; a browser repeats a     *)
(* command until it is answered.                                           *)
Fairness ==
  /\ \A p \in Procs : WF_vars(Step(p))
  /\ \A p \in Procs, c \in Cmds : WF_vars(Ask(p, c))

Spec == Init /\ [][Next]_vars
FairSpec == Spec /\ Fairness

-----------------------------------------------------------------------------
Places == {"down", "opened", "created", "unmarked", "ready", "claim", "taken",
           "doubt", "mark", "mark_failed", "finish", "prepare", "files",
           "retire", "cut", "rewind", "record", "publish"} \cup TurnPlaces

Results == [conversation : {"skipped", "succeeded", "failed"},
            files : {"skipped", "succeeded", "failed"}, turns : Nat]

(* Every variable has its type, and only complete entries have a result,   *)
(* one that _normalize_result accepts.                                     *)
TypeOK ==
  /\ lock \in {"absent", "empty", "torn", "marked"} /\ stored \in BOOLEAN
  /\ \A c \in Cmds :
       /\ entries[c].status \in {"none", "intent", "submitted", "uncertain", "complete"}
       /\ entries[c].result \in Results /\ Fits(c, entries[c].result)
       /\ entries[c].status # "complete" => entries[c].result = Nothing
  /\ identity \in [Cmds -> Identities]
  /\ checkpoint \in {"aligned", "retired", "behind", "gap", "open"}
  /\ at \in [Procs -> Places]
  /\ on \in [Procs -> BOOLEAN] /\ off \in [Procs -> BOOLEAN]
  /\ cmd \in [Procs -> Cmds \cup {NoCmd}]
  /\ outcome \in [Procs -> Results]
  /\ remembered \in [Procs -> SUBSET Cmds] /\ heard \subseteq Cmds
  /\ changed \in [Cmds -> SUBSET Surfaces]

(* A command mutates each surface at most once, whatever crashes, whatever *)
(* is retried, whichever process gets it and whichever one file is lost:   *)
(* "Claim the native mutation boundary, durably and at most once"          *)
(* (rollback_commands.py:459).                                             *)
MutatesOnce == \A c \in Cmds, s \in Surfaces : calls[c][s] <= 1

(* No answer, of the handler that ran or of a replay of the journal, says  *)
(* that a surface was restored that was not, or was left alone that was    *)
(* changed.                                                                *)
Truthful ==
  \A t \in told, s \in Surfaces :
    /\ t.result[s] = "succeeded" => s \in changed[t.cmd]
    /\ t.result[s] = "skipped" => s \notin changed[t.cmd]

(* Of a restore of both, the surface that can be refused goes first and    *)
(* the other is not touched when it was: Codex files before conversation,  *)
(* Claude conversation before files.                                       *)
Ordered ==
  \A c \in Cmds :
    identity[c].restore = "both" =>
      /\ identity[c].engine = "codex" /\ calls[c].conversation > 0 => "files" \in changed[c]
      /\ identity[c].engine = "claude" /\ calls[c].files > 0 => "conversation" \in changed[c]

(* What a command may do to the two surfaces, whatever happens to it: each *)
(* at most once, and the second only when the first went well.             *)
MutatesInOrder == TypeOK /\ MutatesOnce /\ Ordered

(* Codex's file records never name turns that a rollback removed, nor miss *)
(* turns, so that a count-based restore takes the right one; wherever the  *)
(* process stops between the two ("keep conversation/checkpoint counts     *)
(* aligned", codex_checkpoints.py:993).  Two things break that: a context  *)
(* that gave its checkpoints up and could not, or did not, move the        *)
(* records away (machine.py:22445), and a process that died between the    *)
(* app server's acceptance of a turn and the turn's durable slot.          *)
Aligned ==
  checkpoint \in {"behind", "gap", "open"} => count.stuck > 0 \/ count.unslotted > 0

(* Every rollback a browser asks for is answered in the end, with a result *)
(* or an error, and no crash, retry or second process leaves it waiting.   *)
Answered == \A c \in Cmds : <>(c \in heard)
=============================================================================
