------------------------ MODULE RollbackJournal_proofs ------------------------
(***************************************************************************)
(* Proofs about RollbackJournal, for every number of wrapper processes,    *)
(* commands, turns, entries, crashes, failing writes and lost files; what  *)
(* rests on the journal's evidence, as long as one file at most was lost.  *)
(***************************************************************************)
EXTENDS RollbackJournal, TLAPS

-----------------------------------------------------------------------------
(* The types of what the model counts, and a handler has a command.        *)
Statuses == {"none", "intent", "submitted", "uncertain", "complete"}

Executing == {"prepare", "rewind", "retire", "cut", "files"}

Answering == {"doubt", "mark", "finish", "record", "mark_failed", "publish"}

Handling == {"claim", "taken"} \cup Executing \cup Answering

Alignments == {"aligned", "retired", "behind", "gap", "open"}

Counts == [crashes : Nat, faults : Nat, lost : Nat, stuck : Nat, unslotted : Nat]

DataOK ==
  /\ TypeOK
  /\ entries \in [Cmds -> [status : Statuses, result : Results]]
  /\ calls \in [Cmds -> [Surfaces -> Nat]]
  /\ told \subseteq [cmd : Cmds, result : Results]
  /\ count \in Counts
  /\ \A p \in Procs : at[p] \in Handling => cmd[p] \in Cmds

-----------------------------------------------------------------------------
(* The checkpoints: records are moved away before a thread is cut, unless  *)
(* a context gave them up or a crash took a turn's slot; and no turn runs  *)
(* beside another or beside a rollback.                                    *)
Excused == count.stuck > 0 \/ count.unslotted > 0

AlignedInv ==
  /\ Aligned
  /\ \A p \in Procs : off[p] \/ at[p] = "unrecorded" => count.stuck > 0
  /\ \A p \in Procs : at[p] = "cut" => checkpoint = "retired" \/ Excused
  /\ \A p, q \in Procs :
       at[p] \in TurnPlaces /\ at[q] \in TurnPlaces \cup Rolling => p = q

-----------------------------------------------------------------------------
(* The claim.  One constructor at most is about to write the marker.       *)
OneInitializer ==
  \A p \in Procs :
    at[p] = "unmarked" =>
      lock = "empty" /\ stored /\ \A q \in Procs : at[q] = "unmarked" => q = p

Claimed(c) == entries[c].status \in {"submitted", "uncertain", "complete"}

(* No process can claim the command any more: the journal has its claim,   *)
(* or is known to have lost it and stays off.                              *)
Spent(c) ==
  /\ stored => Claimed(c)
  /\ lock # "marked" => stored
  /\ (lock = "marked" /\ stored) \/ count.lost > 0

ClaimInv ==
  /\ \A c \in Cmds, s \in Surfaces : calls[c][s] > 0 => Spent(c)
  /\ \A p \in Procs : at[p] \in Executing => Spent(cmd[p])
  /\ \A p, q \in Procs :
       at[p] \in Executing /\ at[q] \in Executing /\ cmd[p] = cmd[q] => p = q

(* What the process that claimed a command has done and is going to do.    *)
Progress(p) ==
  LET c == cmd[p]
      both == identity[c].engine = "claude" /\ Wants(c, "conversation") IN
  /\ at[p] \in {"prepare", "rewind"} =>
       /\ both /\ calls[c].conversation = 0 /\ calls[c].files = 0
       /\ outcome[p] = Nothing
  /\ at[p] \in {"retire", "cut"} =>
       /\ identity[c].engine = "codex" /\ Wants(c, "conversation")
       /\ calls[c].conversation = 0 /\ outcome[p].conversation = "skipped"
       /\ IF Wants(c, "files")
            THEN outcome[p].files = "succeeded" /\ "files" \in changed[c]
            ELSE outcome[p].files = "skipped"
  /\ at[p] = "files" =>
       /\ Wants(c, "files") /\ calls[c].files = 0 /\ outcome[p].files = "skipped"
       /\ IF both
            THEN outcome[p].conversation = "succeeded" /\ "conversation" \in changed[c]
            ELSE calls[c].conversation = 0 /\ outcome[p].conversation = "skipped"

(* A surface was changed by a call, and one that the command asks for.     *)
Caused ==
  \A c \in Cmds : \A s \in changed[c] : calls[c][s] > 0 /\ Wants(c, s)

(* A result that may be told of a command, now and for ever after.         *)
Settles(c, r) ==
  \A s \in Surfaces :
    /\ r[s] = "succeeded" => s \in changed[c]
    /\ r[s] = "skipped" /\ Wants(c, s) =>
         /\ s \notin changed[c] /\ Spent(c)
         /\ \A p \in Procs : at[p] \in Executing => cmd[p] # c

Settled ==
  /\ \A t \in told : Settles(t.cmd, t.result)
  /\ \A c \in Cmds : entries[c].status = "complete" => Settles(c, entries[c].result)
  /\ \A p \in Procs : at[p] \in Answering => Settles(cmd[p], outcome[p])
  /\ \A p \in Procs : at[p] \notin Answering \cup Executing => outcome[p] = Nothing

Evidence ==
  /\ ClaimInv
  /\ \A p \in Procs : Progress(p)
  /\ MutatesOnce /\ Ordered /\ Caused /\ Settled

OneLoss == count.lost <= 1

IInv == DataOK /\ AlignedInv /\ OneInitializer /\ (OneLoss => Evidence)

-----------------------------------------------------------------------------
(* Types.                                                                  *)

EntriesOK(e) ==
  /\ e \in [Cmds -> [status : Statuses, result : Results]]
  /\ \A c \in Cmds : /\ Fits(c, e[c].result)
                     /\ e[c].status # "complete" => e[c].result = Nothing

LEMMA NothingTyped ==
  /\ Nothing \in Results
  /\ \A c \in Cmds : Fits(c, Nothing) /\ Fits(c, Doubtful(c)) /\ Doubtful(c) \in Results
<1>1. 0 \in 0..Turns
  BY JournalAssumption
<1> QED
  BY <1>1 DEF Nothing, Results, Fits, Doubtful, Surfaces

LEMMA EntriesTyped ==
  ASSUME DataOK
  PROVE  EntriesOK(entries)
  BY DEF DataOK, TypeOK, EntriesOK

LEMMA ToTyped ==
  ASSUME DataOK, NEW c \in Cmds, NEW status \in Statuses, NEW r \in Results, Fits(c, r),
         status # "complete" => r = Nothing
  PROVE  EntriesOK(To(c, status, r))
<1>1. [status |-> status, result |-> r] \in [status : Statuses, result : Results]
  OBVIOUS
<1> QED
  BY <1>1, EntriesTyped DEF EntriesOK, To

LEMMA EmptyTyped == EntriesOK([c \in Cmds |-> NoEntry])
  BY NothingTyped DEF EntriesOK, NoEntry, Statuses

LEMMA InitData == Init => DataOK
<1> SUFFICES ASSUME Init
             PROVE  DataOK
  OBVIOUS
<1>1. EntriesOK(entries)
  BY EmptyTyped DEF Init
<1> QED
  BY <1>1, NothingTyped DEF Init, DataOK, TypeOK, EntriesOK, Alignments, Counts, Places, Handling, Executing,
                           Answering, Statuses, Surfaces

(* The types of a step's outcome, one variable at a time.                  *)
LEMMA Typed ==
  ASSUME DataOK,
         lock' \in {"absent", "empty", "torn", "marked"}, stored' \in BOOLEAN,
         EntriesOK(entries'), identity' = identity,
         checkpoint' \in Alignments,
         at' \in [Procs -> Places],
         on' \in [Procs -> BOOLEAN], off' \in [Procs -> BOOLEAN],
         cmd' \in [Procs -> Cmds \cup {NoCmd}], outcome' \in [Procs -> Results],
         remembered' \in [Procs -> SUBSET Cmds], heard' \subseteq Cmds,
         changed' \in [Cmds -> SUBSET Surfaces],
         calls' \in [Cmds -> [Surfaces -> Nat]],
         told' \subseteq [cmd : Cmds, result : Results],
         count' \in Counts,
         \A p \in Procs : at'[p] \in Handling => cmd'[p] \in Cmds
  PROVE  DataOK'
  BY DEF DataOK, TypeOK, EntriesOK, Statuses, Fits, Wants, Alignments, Counts


LEMMA OutcomeTyped ==
  ASSUME DataOK, NEW p \in Procs, NEW s \in Surfaces,
         NEW value \in {"succeeded", "failed"}, Outcome(p, s, value)
  PROVE  outcome' \in [Procs -> Results]
<1>1. outcome \in [Procs -> Results]
  BY DEF DataOK, TypeOK
<1>2. \A r \in Results : [r EXCEPT ![s] = value] \in Results
  BY DEF Results, Surfaces
<1> QED
  BY <1>1, <1>2 DEF Outcome

LEMMA MutateTyped ==
  ASSUME DataOK, NEW c \in Cmds, NEW s \in Surfaces, NEW value, Mutate(c, s, value)
  PROVE  calls' \in [Cmds -> [Surfaces -> Nat]] /\ changed' \in [Cmds -> SUBSET Surfaces]
<1>1. calls \in [Cmds -> [Surfaces -> Nat]] /\ changed \in [Cmds -> SUBSET Surfaces]
  BY DEF DataOK, TypeOK
<1>2. calls[c] \in [Surfaces -> Nat] /\ calls[c][s] + 1 \in Nat
  BY <1>1
<1>3. [calls[c] EXCEPT ![s] = @ + 1] \in [Surfaces -> Nat]
  BY <1>2
<1> QED
  BY <1>1, <1>3 DEF Mutate

LEMMA QuarantineTyped ==
  ASSUME DataOK, NEW p \in Procs, Quarantine(p) \/ QuarantineRaises(p)
  PROVE  /\ count' \in Counts
         /\ off' \in [Procs -> BOOLEAN]
         /\ checkpoint' \in Alignments
<1>1. /\ count \in Counts
      /\ off \in [Procs -> BOOLEAN]
      /\ checkpoint \in Alignments
  BY DEF DataOK, TypeOK, Alignments
<1>2. CASE Quarantine(p)
  BY <1>1, <1>2 DEF Quarantine, Alignments
<1>3. CASE QuarantineRaises(p)
  BY <1>1, <1>3 DEF QuarantineRaises, GiveUp, Alignments, Counts
<1> QED
  BY <1>2, <1>3

(* What every step of a turn leaves alone, and where it leads.             *)
Beside == {"ready"} \cup TurnPlaces

LEMMA TurnFrame ==
  ASSUME DataOK, NEW p \in Procs, Turn(p)
  PROVE  /\ UNCHANGED <<lock, stored, entries, on, cmd, outcome, remembered, identity,
                        heard, told, calls, changed>>
         /\ at[p] \in Beside
         /\ \E place \in Beside : at' = [at EXCEPT ![p] = place]
         /\ off' \in [Procs -> BOOLEAN] /\ checkpoint' \in Alignments
         /\ count' \in Counts /\ count'.lost = count.lost
<1>t. /\ at \in [Procs -> Places] /\ off \in [Procs -> BOOLEAN]
      /\ checkpoint \in Alignments /\ count \in Counts
  BY DEF DataOK, TypeOK, Alignments
<1>1. UNCHANGED <<lock, stored, entries, on, cmd, outcome, remembered, identity,
                  heard, told, calls, changed>>
  BY DEF Turn, client
<1>g. ASSUME NEW left \in Alignments, GiveUp(p, left)
      PROVE  /\ off' \in [Procs -> BOOLEAN] /\ checkpoint' \in Alignments
             /\ count' \in Counts /\ count'.lost = count.lost
  BY <1>t, <1>g DEF GiveUp, Alignments, Counts
<1>v. /\ Recovered \in Alignments /\ Slotted \in Alignments
      /\ Missing("gap") \in Alignments /\ Missing("open") \in Alignments
  BY <1>t DEF Recovered, Slotted, Missing, Alignments
<1>2. /\ at[p] \in Beside
      /\ \E place \in Beside : at' = [at EXCEPT ![p] = place]
  <2>1. CASE BeginTurn(p)
    BY <2>1 DEF BeginTurn, Goto, Beside, TurnPlaces
  <2>2. CASE Accepted(p) \/ NotAccepted(p)
    BY <2>2 DEF Accepted, NotAccepted, Goto, Beside, TurnPlaces
  <2>3. CASE AcceptTurn(p) \/ FinishTurn(p)
    BY <2>3 DEF AcceptTurn, FinishTurn, Goto, Beside, TurnPlaces
  <2>4. CASE RecordUnavailable(p)
    BY <2>4 DEF RecordUnavailable, Goto, Beside, TurnPlaces
  <2>5. CASE Respawn(p)
    <3>1. at[p] = "ready" /\ at' = [at EXCEPT ![p] = "ready"]
      BY <1>t, <2>5 DEF Respawn
    <3> QED
      BY <3>1 DEF Beside
  <2> QED
    BY <2>1, <2>2, <2>3, <2>4, <2>5 DEF Turn
<1>3. /\ off' \in [Procs -> BOOLEAN] /\ checkpoint' \in Alignments
      /\ count' \in Counts /\ count'.lost = count.lost
  <2>1. CASE BeginTurn(p)
    BY <1>t, <1>g, <1>v, <2>1 DEF BeginTurn
  <2>2. CASE Accepted(p) \/ NotAccepted(p)
    BY <1>t, <1>g, <1>v, <2>2 DEF Accepted, NotAccepted
  <2>3. CASE AcceptTurn(p) \/ FinishTurn(p)
    BY <1>t, <1>g, <1>v, <2>3 DEF AcceptTurn, FinishTurn
  <2>4. CASE RecordUnavailable(p)
    BY <1>t, <1>g, <1>v, <2>4 DEF RecordUnavailable
  <2>5. CASE Respawn(p)
    BY <1>t, <2>5 DEF Respawn
  <2> QED
    BY <2>1, <2>2, <2>3, <2>4, <2>5 DEF Turn
<1> QED
  BY <1>1, <1>2, <1>3

LEMMA DataStep ==
  ASSUME DataOK, NEW p \in Procs, Step(p) \/ Turn(p) \/ Crash(p)
  PROVE  DataOK'
<1> USE DEF disk, process, history, client
<1>t. /\ lock \in {"absent", "empty", "torn", "marked"} /\ stored \in BOOLEAN
      /\ EntriesOK(entries)
      /\ checkpoint \in Alignments
      /\ at \in [Procs -> Places]
      /\ on \in [Procs -> BOOLEAN] /\ off \in [Procs -> BOOLEAN]
      /\ cmd \in [Procs -> Cmds \cup {NoCmd}] /\ outcome \in [Procs -> Results]
      /\ remembered \in [Procs -> SUBSET Cmds] /\ heard \subseteq Cmds
      /\ changed \in [Cmds -> SUBSET Surfaces]
      /\ calls \in [Cmds -> [Surfaces -> Nat]]
      /\ told \subseteq [cmd : Cmds, result : Results]
      /\ count \in Counts
      /\ \A q \in Procs : at[q] \in Handling => cmd[q] \in Cmds
  BY EntriesTyped DEF DataOK, TypeOK, Alignments
<1>f. Fault => count' \in Counts
  BY <1>t DEF Fault, Counts
<1> USE DEF Places, TurnPlaces, Handling, Executing, Answering
<1>1. CASE OpenLock(p)
  BY <1>t, <1>1, Typed DEF OpenLock, Opened
<1>2. CASE Construct(p)
  <2>1. EntriesOK(entries') /\ stored' \in BOOLEAN
    BY <1>t, <1>2, EmptyTyped DEF Construct
  <2>2. /\ at' \in [Procs -> Places] /\ on' \in [Procs -> BOOLEAN]
        /\ \A q \in Procs : at'[q] \in Handling => at[q] \in Handling
    BY <1>t, <1>2, ZenonT(60) DEF Construct, Ready
  <2>3. count' \in Counts
    BY <1>t, <1>f, <1>2 DEF Construct
  <2> QED
    BY <1>t, <1>2, <2>1, <2>2, <2>3, Typed DEF Construct
<1>3. CASE WriteMarker(p)
  <2>1. /\ at' \in [Procs -> Places] /\ on' \in [Procs -> BOOLEAN]
        /\ \A q \in Procs : at'[q] \in Handling => at[q] \in Handling
    BY <1>t, <1>3 DEF WriteMarker, Ready
  <2>2. count' \in Counts /\ lock' \in {"absent", "empty", "torn", "marked"}
    BY <1>t, <1>f, <1>3 DEF WriteMarker
  <2> QED
    BY <1>t, <1>3, <2>1, <2>2, Typed DEF WriteMarker
<1>4. CASE Claim(p)
  <2>1. cmd[p] \in Cmds
    BY <1>t, <1>4 DEF Claim
  <2>2. EntriesOK(entries') /\ count' = count
    BY <1>t, <1>4, <2>1, ToTyped, NothingTyped DEF Claim, Persist, Statuses
  <2>3. at' \in [Procs -> Places]
    BY <1>t, <1>4 DEF Claim, Goto, First
  <2>4. \A q \in Procs : at'[q] \in Handling => at[q] \in Handling
    BY <1>t, <1>4 DEF Claim, Goto
  <2> QED
    BY <1>t, <1>4, <2>1, <2>2, <2>3, <2>4, Typed DEF Claim
<1>5. CASE ClaimRaises(p)
  <2>1. cmd[p] \in Cmds
    BY <1>t, <1>5 DEF ClaimRaises
  <2>2. EntriesOK(entries') /\ count' \in Counts
    BY <1>t, <1>f, <1>5, <2>1, ToTyped, NothingTyped DEF ClaimRaises, PersistRaises, Statuses
  <2>3. lock' \in {"absent", "empty", "torn", "marked"}
    BY <1>t, <1>5 DEF ClaimRaises, Opened
  <2>4. /\ at' = [at EXCEPT ![p] = "ready"] /\ cmd' = [cmd EXCEPT ![p] = NoCmd]
        /\ outcome' \in [Procs -> Results] /\ heard' \subseteq Cmds
        /\ remembered' \in [Procs -> SUBSET Cmds] /\ identity' = identity
    BY <1>t, <1>5, <2>1, NothingTyped DEF ClaimRaises, Return, Remember, Goto
  <2> QED
    BY <1>t, <1>5, <2>1, <2>2, <2>3, <2>4, Typed DEF ClaimRaises
<1>6. CASE Taken(p)
  <2>1. cmd[p] \in Cmds
    BY <1>t, <1>6 DEF Taken
  <2>2. /\ at' \in [Procs -> Places] /\ cmd' \in [Procs -> Cmds \cup {NoCmd}]
        /\ \A q \in Procs : at'[q] \in Handling => cmd'[q] \in Cmds
    BY <1>t, <1>6, <2>1, ZenonT(60) DEF Taken, Goto
  <2>3. outcome' \in [Procs -> Results] /\ lock' \in {"absent", "empty", "torn", "marked"}
    BY <1>t, <1>6, <2>1, NothingTyped DEF Taken, Opened
  <2> QED
    BY <1>t, <1>6, <2>1, <2>2, <2>3, Typed DEF Taken
<1>7. CASE Doubt(p)
  <2>1. cmd[p] \in Cmds /\ at' \in [Procs -> Places]
    BY <1>t, <1>7 DEF Doubt, Goto
  <2>2. /\ count' \in Counts
        /\ off' \in [Procs -> BOOLEAN]
        /\ checkpoint' \in Alignments
    BY <1>t, <1>7, QuarantineTyped DEF Doubt
  <2>3. \A q \in Procs : at'[q] \in Handling => at[q] \in Handling
    BY <1>t, <1>7 DEF Doubt, Goto
  <2> QED
    BY <1>t, <1>7, <2>1, <2>2, <2>3, Typed DEF Doubt
<1>8. CASE Prepare(p)
  <2>1. cmd[p] \in Cmds /\ at' \in [Procs -> Places] /\ \A q \in Procs : at'[q] \in Handling => at[q] \in Handling
    BY <1>t, <1>8 DEF Prepare, Goto
  <2>2. outcome' \in [Procs -> Results]
    BY <1>t, <1>8, OutcomeTyped DEF Prepare, Surfaces
  <2> QED
    BY <1>t, <1>8, <2>1, <2>2, Typed DEF Prepare
<1>9. CASE RestoreFiles(p)
  <2>1. /\ cmd[p] \in Cmds /\ at' \in [Procs -> Places]
        /\ \A q \in Procs : at'[q] \in Handling => at[q] \in Handling
    BY <1>t, <1>9 DEF RestoreFiles, Goto, AfterFiles
  <2>2. outcome' \in [Procs -> Results]
    BY <1>t, <1>9, OutcomeTyped DEF RestoreFiles, Surfaces
  <2>3. calls' \in [Cmds -> [Surfaces -> Nat]] /\ changed' \in [Cmds -> SUBSET Surfaces]
    BY <1>t, <1>9, <2>1, MutateTyped DEF RestoreFiles, Surfaces
  <2> QED
    BY <1>t, <1>9, <2>1, <2>2, <2>3, Typed DEF RestoreFiles
<1>10. CASE Retire(p)
  <2>1. /\ cmd[p] \in Cmds /\ at' \in [Procs -> Places]
        /\ \A q \in Procs : at'[q] \in Handling => at[q] \in Handling
    BY <1>t, <1>10 DEF Retire, Goto
  <2>2. outcome' \in [Procs -> Results]
    BY <1>t, <1>10, OutcomeTyped DEF Retire, Surfaces
  <2>3. /\ count' \in Counts
        /\ off' \in [Procs -> BOOLEAN]
        /\ checkpoint' \in Alignments
    BY <1>t, <1>10, QuarantineTyped DEF Retire
  <2> QED
    BY <1>t, <1>10, <2>1, <2>2, <2>3, Typed DEF Retire
<1>11. CASE Cut(p)
  <2>1. /\ cmd[p] \in Cmds /\ at' \in [Procs -> Places]
        /\ \A q \in Procs : at'[q] \in Handling => at[q] \in Handling
    BY <1>t, <1>11 DEF Cut, Goto
  <2>2. outcome' \in [Procs -> Results]
    BY <1>t, <1>11, OutcomeTyped DEF Cut, Surfaces
  <2>3. calls' \in [Cmds -> [Surfaces -> Nat]] /\ changed' \in [Cmds -> SUBSET Surfaces]
    BY <1>t, <1>11, <2>1, MutateTyped DEF Cut, Surfaces
  <2> QED
    BY <1>t, <1>11, <2>1, <2>2, <2>3, Typed DEF Cut, Alignments
<1>12. CASE Rewind(p)
  <2>1. /\ cmd[p] \in Cmds /\ at' \in [Procs -> Places]
        /\ \A q \in Procs : at'[q] \in Handling => at[q] \in Handling
    BY <1>t, <1>12 DEF Rewind, Goto, AfterRewind
  <2>2. outcome' \in [Procs -> Results]
    <3>1. PICK k \in 0..Turns, value \in {"succeeded", "failed"} :
            outcome' = [outcome EXCEPT ![p].conversation = value, ![p].turns = k]
      BY <1>12 DEF Rewind
    <3>2. k \in Nat
      BY JournalAssumption
    <3>3. \A r \in Results : [r EXCEPT !.conversation = value, !.turns = k] \in Results
      BY <3>2 DEF Results
    <3> QED
      BY <1>t, <3>1, <3>2, ZenonT(60) DEF Results
  <2>3. calls' \in [Cmds -> [Surfaces -> Nat]] /\ changed' \in [Cmds -> SUBSET Surfaces]
    <3>1. /\ calls' = [calls EXCEPT ![cmd[p]]["conversation"] = @ + 1]
          /\ \/ changed' = changed
             \/ changed' = [changed EXCEPT ![cmd[p]] = @ \cup {"conversation"}]
      BY <1>12 DEF Rewind
    <3> QED
      BY <1>t, <2>1, <3>1, MutateTyped DEF Mutate, Surfaces
  <2> QED
    BY <1>t, <1>12, <2>1, <2>2, <2>3, Typed DEF Rewind
<1>13. CASE Record(p)
  <2>1. /\ cmd[p] \in Cmds /\ at' \in [Procs -> Places]
        /\ \A q \in Procs : at'[q] \in Handling => at[q] \in Handling
    BY <1>t, <1>13 DEF Record, Goto
  <2>2. Restored(cmd[p], outcome[p]) \in Results
    BY <1>t, <2>1, JournalAssumption DEF Restored, Results, Surfaces
  <2>3. outcome' \in [Procs -> Results]
    BY <1>t, <1>13, <2>2 DEF Record
  <2>4. EntriesOK(entries') /\ count' \in Counts
    BY <1>t, <1>f, <1>13, <2>1, <2>2, ToTyped DEF Record, Completes, Persist, PersistRaises, Statuses
  <2>5. lock' \in {"absent", "empty", "torn", "marked"}
    BY <1>t, <1>13 DEF Record, Opened
  <2> QED
    BY <1>t, <1>13, <2>1, <2>2, <2>3, <2>4, <2>5, Typed DEF Record
<1>14. CASE MarkUncertain(p)
  <2>1. /\ cmd[p] \in Cmds /\ at' \in [Procs -> Places]
        /\ \A q \in Procs : at'[q] \in Handling => at[q] \in Handling
    BY <1>t, <1>14 DEF MarkUncertain, Goto
  <2>2. EntriesOK(entries') /\ count' \in Counts
    BY <1>t, <1>f, <1>14, <2>1, NothingTyped, ToTyped DEF MarkUncertain, Persist, PersistRaises, Statuses
  <2>3. lock' \in {"absent", "empty", "torn", "marked"}
    BY <1>t, <1>14 DEF MarkUncertain, Opened
  <2> QED
    BY <1>t, <1>14, <2>1, <2>2, <2>3, Typed DEF MarkUncertain
<1>15. CASE Publish(p)
  <2>1. cmd[p] \in Cmds
    BY <1>t, <1>15 DEF Publish
  <2>2. told' \subseteq [cmd : Cmds, result : Results]
    BY <1>t, <1>15, <2>1 DEF Publish, Says
  <2>3. /\ at' = [at EXCEPT ![p] = "ready"] /\ cmd' = [cmd EXCEPT ![p] = NoCmd]
        /\ outcome' \in [Procs -> Results] /\ heard' \subseteq Cmds
        /\ remembered' \in [Procs -> SUBSET Cmds] /\ identity' = identity
    BY <1>t, <1>15, <2>1, NothingTyped DEF Publish, Return, Remember, Goto
  <2> QED
    BY <1>t, <1>15, <2>1, <2>2, <2>3, Typed DEF Publish
<1>16. CASE Turn(p)
  <2>1. at' \in [Procs -> Places] /\ \A q \in Procs : at'[q] \in Handling => at[q] \in Handling
    BY <1>t, <1>16, TurnFrame DEF Beside
  <2> QED
    BY <1>t, <1>16, <2>1, TurnFrame, Typed
<1>17. CASE Crash(p)
  <2>1. checkpoint' \in Alignments
    BY <1>t, <1>17 DEF Crash, Torn, Missing, Alignments
  <2>2. count' \in Counts
    <3>1. CASE checkpoint' = checkpoint
      <4>1. count' = [count EXCEPT !.crashes = @ + 1]
        BY <1>t, <1>17, <3>1 DEF Crash, Counts
      <4> QED
        BY <1>t, <4>1 DEF Counts
    <3>2. CASE checkpoint' # checkpoint
      <4> DEFINE died == [count EXCEPT !.crashes = @ + 1]
      <4>1. count' = [died EXCEPT !.unslotted = @ + 1]
        BY <1>t, <1>17, <3>2 DEF Crash, Counts
      <4>2. died \in Counts
        BY <1>t DEF Counts
      <4>3. \A n \in Counts : [n EXCEPT !.unslotted = @ + 1] \in Counts
        BY DEF Counts
      <4> QED
        BY <4>1, <4>2, <4>3
    <3> QED
      BY <3>1, <3>2
  <2>3. at' \in [Procs -> Places] /\ \A q \in Procs : at'[q] \in Handling => at[q] \in Handling
    BY <1>t, <1>17 DEF Crash
  <2> QED
    BY <1>t, <1>17, <2>1, <2>2, <2>3, Typed, NothingTyped DEF Crash
<1> QED
  BY <1>1, <1>2, <1>3, <1>4, <1>5, <1>6, <1>7, <1>8, <1>9, <1>10, <1>11, <1>12, <1>13, <1>14, <1>15, <1>16, <1>17 DEF Step

LEMMA AskData ==
  ASSUME DataOK, NEW p \in Procs, NEW c \in Cmds, Ask(p, c)
  PROVE  DataOK'
<1> USE DEF disk, process, history, client
<1>t. /\ lock \in {"absent", "empty", "torn", "marked"} /\ stored \in BOOLEAN
      /\ EntriesOK(entries)
      /\ checkpoint \in Alignments
      /\ at \in [Procs -> Places]
      /\ on \in [Procs -> BOOLEAN] /\ off \in [Procs -> BOOLEAN]
      /\ cmd \in [Procs -> Cmds \cup {NoCmd}] /\ outcome \in [Procs -> Results]
      /\ remembered \in [Procs -> SUBSET Cmds] /\ heard \subseteq Cmds
      /\ changed \in [Cmds -> SUBSET Surfaces]
      /\ calls \in [Cmds -> [Surfaces -> Nat]]
      /\ told \subseteq [cmd : Cmds, result : Results]
      /\ count \in Counts
      /\ \A q \in Procs : at[q] \in Handling => cmd[q] \in Cmds
  BY EntriesTyped DEF DataOK, TypeOK, Alignments
<1>f. Fault => count' \in Counts
  BY <1>t DEF Fault, Counts
<1>g. EntriesOK(To(c, "intent", Nothing)) /\ entries[c].result \in Results
  BY <1>t, ToTyped, NothingTyped DEF Statuses, EntriesOK
<1> USE DEF Places, TurnPlaces, Handling, Executing, Answering
<1>1. CASE Begin(p, c)
  <2>1. EntriesOK(entries')
    BY <1>t, <1>g, <1>1 DEF Begin
  <2>2. at' \in [Procs -> Places] /\ outcome' \in [Procs -> Results]
    <3>1. CASE entries[c].status \in {"none", "intent"}
      BY <1>t, <1>1, <3>1 DEF Begin, Goto
    <3>2. CASE entries[c].status \in {"submitted", "uncertain"}
      <4>1. Goto(p, "doubt") /\ outcome' = [outcome EXCEPT ![p] = Doubtful(c)]
        BY <1>1, <3>2 DEF Begin
      <4> QED
        BY <1>t, <4>1, NothingTyped DEF Goto
    <3>3. CASE entries[c].status = "complete"
      BY <1>t, <1>g, <1>1, <3>3 DEF Begin, Goto
    <3> QED
      BY <1>t, <3>1, <3>2, <3>3 DEF EntriesOK, Statuses
  <2>3. \A q \in Procs : q # p => at'[q] = at[q]
    BY <1>t, <1>1 DEF Begin, Goto
  <2> QED
    BY <1>t, <1>1, <2>1, <2>2, <2>3, Typed DEF Begin
<1>2. CASE Reject(p, c)
  <2>1. EntriesOK(entries') /\ count' \in Counts
    BY <1>t, <1>f, <1>g, <1>2 DEF Reject, PersistRaises
  <2>2. lock' \in {"absent", "empty", "torn", "marked"}
    BY <1>t, <1>2 DEF Reject, Opened
  <2>3. /\ at' = [at EXCEPT ![p] = "ready"] /\ cmd' = [cmd EXCEPT ![p] = NoCmd]
        /\ outcome' \in [Procs -> Results] /\ heard' \subseteq Cmds
        /\ remembered' \in [Procs -> SUBSET Cmds] /\ identity' = identity
    BY <1>t, <1>2, NothingTyped DEF Reject, Return, Remember, Goto
  <2> QED
    BY <1>t, <1>2, <2>1, <2>2, <2>3, Typed DEF Reject
<1>3. CASE AnswerAgain(p, c)
  BY <1>t, <1>3, Typed DEF AnswerAgain
<1>4. CASE AnswerBusy(p, c)
  BY <1>t, <1>4, Typed DEF AnswerBusy, Remember
<1> QED
  BY <1>1, <1>2, <1>3, <1>4 DEF Ask

LEMMA LoseFileData ==
  ASSUME DataOK, LoseFile
  PROVE  DataOK'
<1> USE DEF disk, process, history, client
<1>1. /\ lock' \in {"absent", "empty", "torn", "marked"} /\ stored' \in BOOLEAN
      /\ EntriesOK(entries')
      /\ count' \in Counts
  <2>1. count' \in Counts
    BY DEF LoseFile, DataOK, Counts
  <2>2. EntriesOK(entries') /\ stored' \in BOOLEAN
    BY EntriesTyped, EmptyTyped DEF LoseFile, DataOK, TypeOK
  <2>3. lock' \in {"absent", "empty", "torn", "marked"}
    BY DEF LoseFile, DataOK, TypeOK
  <2> QED
    BY <2>1, <2>2, <2>3
<1> QED
  BY <1>1, Typed DEF DataOK, TypeOK, LoseFile, Alignments

LEMMA DataHolds ==
  ASSUME DataOK, [Next]_vars
  PROVE  DataOK'
<1>1. CASE UNCHANGED vars
  BY <1>1 DEF vars, disk, process, client, history, DataOK, TypeOK, Fits, Wants
<1>2. CASE \E p \in Procs : Step(p) \/ Turn(p) \/ Crash(p)
  BY <1>2, DataStep
<1>3. CASE \E p \in Procs, c \in Cmds : Ask(p, c)
  BY <1>3, AskData
<1> QED
  BY <1>1, <1>2, <1>3, LoseFileData DEF Next

-----------------------------------------------------------------------------
(* Checkpoints and the marker.                                             *)

(* A context that gives its checkpoints up is counted.                     *)
LEMMA GivenUp ==
  ASSUME DataOK, NEW p \in Procs, NEW left, GiveUp(p, left)
  PROVE  count'.stuck > 0 /\ count'.unslotted = count.unslotted
<1>1. count.stuck \in Nat /\ count'.stuck = count.stuck + 1 /\ count'.unslotted = count.unslotted
  BY DEF GiveUp, DataOK, Counts
<1> QED
  BY <1>1

LEMMA TurnAligned ==
  ASSUME DataOK, AlignedInv, NEW p \in Procs, Turn(p)
  PROVE  AlignedInv'
<1>t. /\ at \in [Procs -> Places] /\ off \in [Procs -> BOOLEAN]
      /\ count.stuck \in Nat /\ count.unslotted \in Nat
  BY DEF DataOK, TypeOK, Counts
(* Giving up, and everything that gives nothing up.                        *)
<1>g. ASSUME NEW left, GiveUp(p, left)
      PROVE  count'.stuck > 0
  BY <1>g, GivenUp
<1>1. Excused => Excused'
  BY <1>t, <1>g, ZenonT(30) DEF Turn, BeginTurn, Accepted, NotAccepted, AcceptTurn, FinishTurn,
     RecordUnavailable, Respawn, Excused
<1>2. \A q \in Procs : off'[q] \/ at'[q] = "unrecorded" => count'.stuck > 0
  <2>1. CASE BeginTurn(p)
    BY <1>t, <1>g, <2>1 DEF BeginTurn, AlignedInv, Goto
  <2>2. CASE Accepted(p) \/ NotAccepted(p)
    BY <1>t, <1>g, <2>2 DEF Accepted, NotAccepted, AlignedInv, Goto
  <2>3. CASE AcceptTurn(p) \/ FinishTurn(p)
    BY <1>t, <1>g, <2>3 DEF AcceptTurn, FinishTurn, AlignedInv, Goto
  <2>4. CASE RecordUnavailable(p)
    BY <1>t, <1>g, <2>4 DEF RecordUnavailable, AlignedInv, Goto
  <2>5. CASE Respawn(p)
    BY <1>t, <2>5 DEF Respawn, AlignedInv
  <2> QED
    BY <2>1, <2>2, <2>3, <2>4, <2>5 DEF Turn
<1>3. checkpoint' \in {"behind", "gap", "open"} => Excused'
  <2>1. CASE BeginTurn(p)
    BY <1>1, <1>g, <2>1 DEF BeginTurn, AlignedInv, Aligned, Excused, Recovered
  <2>2. CASE Accepted(p) \/ NotAccepted(p)
    BY <1>1, <1>g, <2>2 DEF Accepted, NotAccepted, AlignedInv, Aligned, Excused, Missing
  <2>3. CASE AcceptTurn(p) \/ FinishTurn(p)
    BY <1>1, <1>g, <2>3 DEF AcceptTurn, FinishTurn, AlignedInv, Aligned, Excused, Slotted
  <2>4. CASE RecordUnavailable(p)
    BY <1>1, <1>g, <2>4 DEF RecordUnavailable, AlignedInv, Aligned, Excused, Slotted
  <2>5. CASE Respawn(p)
    BY <1>1, <2>5 DEF Respawn, AlignedInv, Aligned, Excused
  <2> QED
    BY <2>1, <2>2, <2>3, <2>4, <2>5 DEF Turn
<1>4. \/ Respawn(p)
      \/ at[p] \in TurnPlaces
      \/ \A q \in Procs : at[q] \notin TurnPlaces \cup Rolling
  BY DEF Turn, BeginTurn, Accepted, NotAccepted, AcceptTurn, FinishTurn, RecordUnavailable,
         TurnPlaces
<1>5. PICK place \in Beside : at' = [at EXCEPT ![p] = place]
  BY TurnFrame
<1>6. CASE Respawn(p)
  BY <1>1, <1>2, <1>3, <1>6 DEF Respawn, AlignedInv, Aligned, Excused
<1>7. CASE ~Respawn(p)
  <2>1. \A q \in Procs : at[q] \in Rolling => q = p
    BY <1>4, <1>7 DEF AlignedInv
  <2>2. place \notin Rolling
    BY <1>5 DEF Beside, TurnPlaces, Rolling
  <2>3. \A q \in Procs : at'[q] \notin Rolling
    BY <1>t, <1>5, <2>1, <2>2
  <2>4. \A q \in Procs : at'[q] \in TurnPlaces => q = p
    BY <1>t, <1>4, <1>5, <1>7 DEF AlignedInv
  <2> QED
    BY <1>2, <1>3, <2>3, <2>4 DEF AlignedInv, Aligned, Excused, Rolling
<1> QED
  BY <1>6, <1>7

LEMMA AlignedStep ==
  ASSUME DataOK, AlignedInv, [Next]_vars
  PROVE  AlignedInv'
<1> USE DEF disk, process, history, client
<1>t. /\ count \in Counts /\ at \in [Procs -> Places] /\ off \in [Procs -> BOOLEAN]
      /\ checkpoint \in Alignments
  BY DEF DataOK, TypeOK, Alignments
<1>n. count.stuck \in Nat /\ count.unslotted \in Nat
  BY <1>t DEF Counts
<1>q. ASSUME NEW p \in Procs, Quarantine(p) \/ QuarantineRaises(p)
      PROVE  /\ Excused => Excused'
             /\ \A q \in Procs : off'[q] \/ at[q] = "unrecorded" => count'.stuck > 0
             /\ checkpoint' = checkpoint \/ checkpoint' = "retired"
             /\ Quarantine(p) => checkpoint' = "retired" \/ count'.stuck > 0
  <2>1. CASE Quarantine(p)
    BY <1>t, <2>1 DEF AlignedInv, Quarantine, Excused
  <2>2. CASE QuarantineRaises(p)
    <3>1. count'.stuck > 0
      BY <2>2, GivenUp DEF QuarantineRaises
    <3> QED
      BY <1>t, <2>2, <3>1 DEF QuarantineRaises, GiveUp, Excused, Quarantine
  <2> QED
    BY <1>q, <2>1, <2>2
(* The steps that leave the records and the contexts' view of them alone.  *)
<1>u. ASSUME UNCHANGED <<checkpoint, off>>,
             count'.stuck = count.stuck, count'.unslotted = count.unslotted,
             \A q \in Procs :
               \/ at'[q] = at[q]
               \/ /\ at'[q] \notin TurnPlaces /\ at'[q] # "cut"
                  /\ at'[q] \in Rolling => at[q] \in Rolling \/ ~Busy
      PROVE  AlignedInv'
  <2>1. \A p, q \in Procs :
          at'[p] \in TurnPlaces /\ at'[q] \in TurnPlaces \cup Rolling => p = q
    BY <1>u DEF AlignedInv, Busy
  <2>2. \A p \in Procs : off'[p] \/ at'[p] = "unrecorded" => count'.stuck > 0
    BY <1>u DEF AlignedInv, TurnPlaces
  <2>3. \A p \in Procs : at'[p] = "cut" => at[p] = "cut"
    BY <1>u
  <2> QED
    BY <1>u, <2>1, <2>2, <2>3 DEF AlignedInv, Aligned, Excused
<1>f. Fault => count'.stuck = count.stuck /\ count'.unslotted = count.unslotted
  BY <1>t DEF Fault, Counts
<1> USE DEF TurnPlaces, Rolling
<1>1. CASE \E p \in Procs : Doubt(p) \/ Retire(p) \/ Cut(p) \/ Turn(p) \/ Crash(p)
  <2> PICK p \in Procs : Doubt(p) \/ Retire(p) \/ Cut(p) \/ Turn(p) \/ Crash(p)
    BY <1>1
  <2>x. ASSUME NEW place, place \notin TurnPlaces, at' = [at EXCEPT ![p] = place],
               place \in Rolling => at[p] \in Rolling
        PROVE  \A q, r \in Procs :
                 at'[q] \in TurnPlaces /\ at'[r] \in TurnPlaces \cup Rolling => q = r
    BY <1>t, <2>x DEF AlignedInv
  <2>1. CASE Doubt(p)
    <3>1. at' = [at EXCEPT ![p] = "mark"]
      BY <2>1 DEF Doubt, Goto
    <3>2. /\ Excused => Excused'
          /\ \A q \in Procs : off'[q] \/ at[q] = "unrecorded" => count'.stuck > 0
          /\ checkpoint' = checkpoint \/ checkpoint' = "retired"
      BY <1>q, <2>1 DEF Doubt, AlignedInv, Excused
    <3> QED
      BY <1>t, <2>x, <3>1, <3>2 DEF AlignedInv, Aligned, Excused
  <2>2. CASE Retire(p)
    <3>1. \/ at' = [at EXCEPT ![p] = "cut"] /\ Quarantine(p)
          \/ at' = [at EXCEPT ![p] = "record"]
      BY <2>2 DEF Retire, Goto
    <3>2. /\ Excused => Excused'
          /\ \A q \in Procs : off'[q] \/ at[q] = "unrecorded" => count'.stuck > 0
          /\ checkpoint' = checkpoint \/ checkpoint' = "retired"
          /\ Quarantine(p) => checkpoint' = "retired" \/ count'.stuck > 0
      BY <1>q, <2>2 DEF Retire
    <3>3. at[p] = "retire"
      BY <2>2 DEF Retire
    <3>4. \A q, r \in Procs :
            at'[q] \in TurnPlaces /\ at'[r] \in TurnPlaces \cup Rolling => q = r
      BY <2>x, <3>1, <3>3
    <3>5. \A q \in Procs : at'[q] = "cut" => checkpoint' = "retired" \/ Excused'
      BY <1>t, <3>1, <3>2 DEF AlignedInv, Excused
    <3>6. \A q \in Procs : at'[q] = "unrecorded" => at[q] = "unrecorded"
      BY <1>t, <3>1
    <3> QED
      BY <3>2, <3>4, <3>5, <3>6 DEF AlignedInv, Aligned, Excused
  <2>3. CASE Cut(p)
    <3>1. at' = [at EXCEPT ![p] = "record"] /\ at[p] = "cut" /\ UNCHANGED <<off, count>>
      BY <2>3 DEF Cut, Goto
    <3>2. checkpoint' = checkpoint \/ (checkpoint = "aligned" /\ checkpoint' = "behind")
      BY <2>3 DEF Cut
    <3>3. checkpoint = "retired" \/ Excused
      BY <3>1 DEF AlignedInv
    <3> QED
      BY <1>t, <2>x, <3>1, <3>2, <3>3 DEF AlignedInv, Aligned, Excused
  <2>4. CASE Turn(p)
    BY <2>4, TurnAligned
  <2>5. CASE Crash(p)
    <3>1. count'.stuck = count.stuck
          /\ count'.unslotted = IF checkpoint' = checkpoint THEN count.unslotted
                                                           ELSE count.unslotted + 1
      BY <1>t, <2>5 DEF Crash, Counts
    <3>2. /\ at' = [at EXCEPT ![p] = "down"] /\ off' = [off EXCEPT ![p] = FALSE]
          /\ checkpoint' = Torn(p)
      BY <2>5 DEF Crash
    <3>3. checkpoint' # checkpoint => Excused'
      BY <1>n, <3>1 DEF Excused
    <3>4. Excused => Excused'
      BY <1>n, <3>1 DEF Excused
    <3>5. \A q, r \in Procs :
            at'[q] \in TurnPlaces /\ at'[r] \in TurnPlaces \cup Rolling => q = r
      BY <2>x, <3>2
    <3>6. \A q \in Procs : at'[q] = "cut" => at[q] = "cut"
      BY <1>t, <3>2
    <3>7. \A q \in Procs : off'[q] \/ at'[q] = "unrecorded" => count'.stuck > 0
      BY <1>t, <3>1, <3>2 DEF AlignedInv
    <3>8. checkpoint' = checkpoint \/ Excused'
      BY <3>3
    <3> QED
      BY <3>4, <3>5, <3>6, <3>7, <3>8 DEF AlignedInv, Aligned, Excused
  <2> QED
    BY <2>1, <2>2, <2>3, <2>4, <2>5
<1>2. CASE LoseFile
  BY <1>t, <1>u, <1>2 DEF LoseFile, Counts
<1>3. CASE UNCHANGED vars
  BY <1>u, <1>3 DEF vars
<1>4. CASE \E p \in Procs, c \in Cmds : Ask(p, c)
  <2> PICK p \in Procs, c \in Cmds : Ask(p, c)
    BY <1>4
  <2>1. CASE Begin(p, c)
    <3>1. ~Busy /\ UNCHANGED <<checkpoint, off, count>>
      BY <2>1 DEF Begin
    <3>2. \A q \in Procs : at'[q] = at[q] \/ at'[q] \in {"claim", "doubt", "publish"}
      BY <1>t, <2>1 DEF Begin, Goto
    <3> QED
      BY <1>u, <3>1, <3>2
  <2>2. CASE Reject(p, c)
    BY <1>t, <1>f, <1>u, <2>2 DEF Reject, Return, Remember, Goto, PersistRaises
  <2>3. CASE AnswerAgain(p, c)
    BY <1>u, <2>3 DEF AnswerAgain
  <2>4. CASE AnswerBusy(p, c)
    BY <1>u, <2>4 DEF AnswerBusy
  <2> QED
    BY <2>1, <2>2, <2>3, <2>4 DEF Ask
<1>5. CASE \E p \in Procs : Step(p) /\ ~Doubt(p) /\ ~Retire(p) /\ ~Cut(p)
  <2> PICK p \in Procs : Step(p) /\ ~Doubt(p) /\ ~Retire(p) /\ ~Cut(p)
    BY <1>5
  <2>1. CASE OpenLock(p) \/ Construct(p) \/ WriteMarker(p)
    BY <1>t, <1>f, <1>u, <2>1 DEF OpenLock, Construct, WriteMarker, Ready
  <2>2. CASE Claim(p)
    BY <1>t, <1>u, <2>2 DEF Claim, Goto, First, Persist
  <2>3. CASE ClaimRaises(p)
    BY <1>t, <1>f, <1>u, <2>3 DEF ClaimRaises, Return, Remember, Goto, PersistRaises
  <2>4. CASE Taken(p) \/ Prepare(p)
    BY <1>t, <1>u, <2>4 DEF Taken, Prepare, Goto
  <2>5. CASE RestoreFiles(p)
    BY <1>t, <1>u, <2>5 DEF RestoreFiles, Goto, AfterFiles
  <2>6. CASE Rewind(p)
    BY <1>t, <1>u, <2>6 DEF Rewind, Goto, AfterRewind
  <2>7. CASE Record(p)
    BY <1>t, <1>f, <1>u, <2>7 DEF Record, Goto, Persist, PersistRaises
  <2>8. CASE MarkUncertain(p)
    BY <1>t, <1>f, <1>u, <2>8 DEF MarkUncertain, Goto, Persist, PersistRaises
  <2>9. CASE Publish(p)
    BY <1>t, <1>u, <2>9 DEF Publish, Return, Remember, Goto
  <2> QED
    BY <2>1, <2>2, <2>3, <2>4, <2>5, <2>6, <2>7, <2>8, <2>9 DEF Step
<1> QED
  BY <1>1, <1>2, <1>3, <1>4, <1>5 DEF Next, Step

(* What every step but four leaves of the journal's evidence: the files    *)
(* stay, a lock file that is missing is created anew, and no claim is      *)
(* withdrawn.                                                              *)
Calm ==
  /\ stored' = stored /\ lock' \in {lock, Opened(lock)} /\ count'.lost = count.lost
  /\ \A c \in Cmds : Claimed(c) => Claimed(c)'
  /\ \A q \in Procs : at'[q] = "unmarked" => at[q] = "unmarked"

LEMMA WritesClaims ==
  ASSUME DataOK, NEW c \in Cmds, NEW status, NEW r,
         Claimed(c) => status \in {"submitted", "uncertain", "complete"}
  PROVE  entries' \in {entries, To(c, status, r)} =>
           \A d \in Cmds : Claimed(d) => Claimed(d)'
  BY DEF DataOK, Claimed, To

LEMMA StepIsCalm ==
  ASSUME DataOK, NEW p \in Procs, Step(p) \/ Turn(p),
         ~Construct(p), ~WriteMarker(p)
  PROVE  Calm
<1> USE DEF disk, process, history, client, Calm
<1>t. at \in [Procs -> Places] /\ count.lost \in Nat
  BY DEF DataOK, TypeOK, Counts
<1>c. at[p] \in Handling => cmd[p] \in Cmds
  BY DEF DataOK
<1>f. Fault => count'.lost = count.lost
  BY DEF Fault, DataOK
<1>u. ASSUME entries' = entries
      PROVE  \A c \in Cmds : Claimed(c) => Claimed(c)'
  BY <1>u DEF Claimed
<1>q. Quarantine(p) \/ QuarantineRaises(p) => count'.lost = count.lost
  BY DEF Quarantine, QuarantineRaises, GiveUp, DataOK, Counts
<1> USE DEF Handling, Executing, Answering
<1>1. CASE OpenLock(p)
  BY <1>t, <1>u, <1>1 DEF OpenLock
<1>2. CASE Claim(p)
  <2>1. \A c \in Cmds : Claimed(c) => Claimed(c)'
    BY <1>c, <1>u, <1>2, WritesClaims DEF Claim, Persist, Claimable, Claimed
  <2> QED
    BY <1>t, <1>2, <2>1 DEF Claim, Persist, Goto, First
<1>3. CASE ClaimRaises(p)
  <2>1. \A c \in Cmds : Claimed(c) => Claimed(c)'
    BY <1>c, <1>u, <1>3, WritesClaims DEF ClaimRaises, PersistRaises, Claimable, Claimed
  <2> QED
    BY <1>t, <1>f, <1>3, <2>1 DEF ClaimRaises, PersistRaises, Return, Remember, Goto
<1>4. CASE Taken(p) \/ Prepare(p)
  BY <1>t, <1>u, <1>4 DEF Taken, Prepare, Goto
<1>5. CASE Doubt(p) \/ Retire(p)
  BY <1>t, <1>u, <1>q, <1>5 DEF Doubt, Retire, Goto
<1>6. CASE RestoreFiles(p)
  BY <1>t, <1>u, <1>6 DEF RestoreFiles, Goto, AfterFiles
<1>7. CASE Cut(p)
  BY <1>t, <1>u, <1>7 DEF Cut, Goto
<1>8. CASE Rewind(p)
  BY <1>t, <1>u, <1>8 DEF Rewind, Goto, AfterRewind
<1>9. CASE Record(p)
  <2>1. \A c \in Cmds : Claimed(c) => Claimed(c)'
    BY <1>c, <1>u, <1>9, WritesClaims DEF Record, Persist, PersistRaises
  <2> QED
    BY <1>t, <1>f, <1>9, <2>1 DEF Record, Persist, PersistRaises, Goto
<1>10. CASE MarkUncertain(p)
  <2>1. \A c \in Cmds : Claimed(c) => Claimed(c)'
    BY <1>c, <1>u, <1>10, WritesClaims DEF MarkUncertain, Persist, PersistRaises
  <2> QED
    BY <1>t, <1>f, <1>10, <2>1 DEF MarkUncertain, Persist, PersistRaises, Goto
<1>11. CASE Publish(p)
  BY <1>t, <1>u, <1>11 DEF Publish, Return, Remember, Goto
<1>12. CASE Turn(p)
  BY <1>t, <1>u, <1>12, TurnFrame DEF Beside, TurnPlaces
<1> QED
  BY <1>1, <1>2, <1>3, <1>4, <1>5, <1>6, <1>7, <1>8, <1>9, <1>10, <1>11, <1>12 DEF Step

LEMMA AskIsCalm ==
  ASSUME DataOK, NEW p \in Procs, NEW c \in Cmds, Ask(p, c)
  PROVE  Calm
<1> USE DEF disk, process, history, client, Calm
<1>t. at \in [Procs -> Places] /\ count.lost \in Nat
  BY DEF DataOK, TypeOK, Counts
<1>f. Fault => count'.lost = count.lost
  BY DEF Fault, DataOK
<1>u. ASSUME entries' = entries
      PROVE  \A d \in Cmds : Claimed(d) => Claimed(d)'
  BY <1>u DEF Claimed
<1>1. CASE Begin(p, c)
  <2>1. \A d \in Cmds : Claimed(d) => Claimed(d)'
    BY <1>u, <1>1, WritesClaims DEF Begin, Used, Claimed
  <2> QED
    BY <1>t, <1>1, <2>1 DEF Begin, Goto
<1>2. CASE Reject(p, c)
  <2>1. \A d \in Cmds : Claimed(d) => Claimed(d)'
    BY <1>u, <1>2, WritesClaims DEF Reject, PersistRaises, Used, Claimed
  <2> QED
    BY <1>t, <1>f, <1>2, <2>1 DEF Reject, PersistRaises, Return, Remember, Goto
<1>3. CASE AnswerAgain(p, c) \/ AnswerBusy(p, c)
  BY <1>t, <1>u, <1>3 DEF AnswerAgain, AnswerBusy
<1> QED
  BY <1>1, <1>2, <1>3 DEF Ask

LEMMA InitializerStep ==
  ASSUME DataOK, OneInitializer, [Next]_vars
  PROVE  OneInitializer'
<1> USE DEF disk, process, history, client
<1>t. at \in [Procs -> Places]
  BY DEF DataOK, TypeOK
<1>1. ASSUME Calm
      PROVE  OneInitializer'
  BY <1>1 DEF Calm, Opened, OneInitializer
<1>2. ASSUME NEW p \in Procs, Construct(p)
      PROVE  OneInitializer'
  BY <1>t, <1>2 DEF Construct, Ready, Free, OneInitializer
<1>3. ASSUME NEW p \in Procs, WriteMarker(p)
      PROVE  OneInitializer'
  BY <1>t, <1>3 DEF WriteMarker, Ready, OneInitializer
<1>4. ASSUME NEW p \in Procs, Crash(p)
      PROVE  OneInitializer'
  BY <1>t, <1>4 DEF Crash, OneInitializer
<1>5. CASE LoseFile
  BY <1>5 DEF LoseFile, OneInitializer
<1>6. CASE UNCHANGED vars
  BY <1>6 DEF vars, OneInitializer
<1> QED
  BY <1>1, <1>2, <1>3, <1>4, <1>5, <1>6, StepIsCalm, AskIsCalm DEF Next

(* A spent claim stays spent, while one file at most is lost.              *)
LEMMA SpentStays ==
  ASSUME DataOK, OneInitializer, [Next]_vars, OneLoss', NEW c \in Cmds, Spent(c)
  PROVE  Spent(c)'
<1> USE DEF disk, process, history, client
<1>t. /\ at \in [Procs -> Places] /\ count.lost \in Nat
      /\ lock \in {"absent", "empty", "torn", "marked"}
  BY DEF DataOK, TypeOK, Counts
<1>1. ASSUME Calm
      PROVE  Spent(c)'
  BY <1>t, <1>1 DEF Calm, Opened, Spent
<1>f. Fault => count'.lost = count.lost
  BY DEF Fault, DataOK
<1>2. ASSUME NEW p \in Procs, Construct(p)
      PROVE  Spent(c)'
  <2>1. CASE lock = "marked"
    BY <1>t, <1>2, <2>1 DEF Construct, Spent, Claimed
  <2>2. CASE lock # "marked"
    <3>1. stored /\ c \in Used
      BY <2>2 DEF Spent, Claimed, Used
    <3>2. Refused(p) /\ UNCHANGED <<stored, entries, count, lock>>
      BY <1>2, <2>2, <3>1 DEF Construct, Refused
    <3> QED
      BY <3>2 DEF Spent, Claimed
  <2> QED
    BY <2>1, <2>2
<1>3. ASSUME NEW p \in Procs, WriteMarker(p)
      PROVE  Spent(c)'
  BY <1>f, <1>3 DEF WriteMarker, OneInitializer, Spent, Claimed
<1>4. ASSUME NEW p \in Procs, Crash(p)
      PROVE  Spent(c)'
  <2>1. count'.lost = count.lost
    BY <1>4 DEF Crash, DataOK
  <2> QED
    BY <1>4, <2>1 DEF Crash, OneInitializer, Spent, Claimed
<1>5. CASE LoseFile
  <2>1. count'.lost = count.lost + 1
    BY <1>5 DEF LoseFile, DataOK
  <2>2. count.lost = 0 /\ count'.lost > 0
    BY <1>t, <2>1 DEF OneLoss
  <2>3. lock = "marked" /\ stored /\ Claimed(c)
    BY <2>2 DEF Spent
  <2>4. \/ lock' # "marked" /\ stored' = stored /\ entries' = entries
        \/ lock' = lock /\ ~stored'
    BY <1>5 DEF LoseFile
  <2> QED
    BY <2>2, <2>3, <2>4 DEF Spent, Claimed
<1>6. CASE UNCHANGED vars
  BY <1>6 DEF vars, Spent, Claimed
<1> QED
  BY <1>1, <1>2, <1>3, <1>4, <1>5, <1>6, StepIsCalm, AskIsCalm DEF Next

LEMMA LossesGrow ==
  ASSUME DataOK, [Next]_vars, OneLoss'
  PROVE  OneLoss
<1> USE DEF disk, process, history, client
<1>t. count.lost \in Nat
  BY DEF DataOK, Counts
<1>f. Fault => count'.lost = count.lost
  BY DEF Fault, DataOK
<1>2. ASSUME NEW p \in Procs, Construct(p) \/ WriteMarker(p)
      PROVE  count'.lost = count.lost
  BY <1>f, <1>2 DEF Construct, WriteMarker
<1>4. ASSUME NEW p \in Procs, Crash(p)
      PROVE  count'.lost = count.lost
  BY <1>4 DEF Crash, DataOK
<1>5. CASE LoseFile
  BY <1>t, <1>5 DEF LoseFile, DataOK, OneLoss
<1>6. CASE UNCHANGED vars
  BY <1>6 DEF vars, OneLoss
<1> QED
  BY <1>2, <1>4, <1>5, <1>6, StepIsCalm, AskIsCalm DEF Next, Calm, OneLoss

-----------------------------------------------------------------------------
(* The evidence.                                                           *)

(* A step after which nobody executes who did not, and nothing was         *)
(* mutated: what is told, recorded or about to be told has to be settled.  *)
LEMMA QuietStep ==
  ASSUME DataOK, Evidence, \A c \in Cmds : Spent(c) => Spent(c)',
         UNCHANGED <<identity, calls, changed>>,
         \A q \in Procs : at'[q] \in Executing =>
           at'[q] = at[q] /\ cmd'[q] = cmd[q] /\ outcome'[q] = outcome[q],
         \A t \in told' : t \in told \/ (t.cmd \in Cmds /\ Settles(t.cmd, t.result)),
         \A c \in Cmds : entries'[c].status = "complete" =>
           Settles(c, entries'[c].result),
         \A q \in Procs : at'[q] \in Answering =>
           cmd'[q] \in Cmds /\ Settles(cmd'[q], outcome'[q]),
         \A q \in Procs : at'[q] \notin Answering \cup Executing => outcome'[q] = Nothing
  PROVE  Evidence'
<1>c. \A q \in Procs : at[q] \in Executing => cmd[q] \in Cmds
  BY DEF DataOK, Handling
<1>w. \A c \in Cmds, s \in Surfaces : Wants(c, s)' <=> Wants(c, s)
  BY DEF Wants
<1>1. ClaimInv'
  BY <1>c DEF Evidence, ClaimInv
<1>2. \A p \in Procs : Progress(p)'
  <2> SUFFICES ASSUME NEW p \in Procs
               PROVE  Progress(p)'
    OBVIOUS
  <2>1. CASE at'[p] \in Executing
    BY <1>c, <1>w, <2>1 DEF Evidence, Progress, Executing, Wants
  <2>2. CASE at'[p] \notin Executing
    BY <2>2 DEF Progress, Executing
  <2> QED
    BY <2>1, <2>2
<1>3. MutatesOnce' /\ Ordered' /\ Caused'
  BY <1>w DEF Evidence, MutatesOnce, Ordered, Caused, DataOK, TypeOK, Wants
<1>4. \A c \in Cmds : \A r : Settles(c, r) => Settles(c, r)'
  BY <1>c, <1>w DEF Settles
<1>5. \A t \in told : t.cmd \in Cmds
  BY DEF DataOK
<1>6. Settled'
  <2>1. \A t \in told' : Settles(t.cmd, t.result)'
    BY <1>4, <1>5 DEF Evidence, Settled
  <2>2. \A c \in Cmds : (entries[c].status = "complete" => Settles(c, entries[c].result))'
    BY <1>4
  <2>3. \A q \in Procs : (at[q] \in Answering => Settles(cmd[q], outcome[q]))'
    BY <1>4
  <2> QED
    BY <2>1, <2>2, <2>3 DEF Settled
<1> QED
  BY <1>1, <1>2, <1>3, <1>6 DEF Evidence

(* What MutatesOnce, Ordered and Caused say of one command.                *)
CommandOK(c) ==
  /\ \A s \in Surfaces : calls[c][s] <= 1
  /\ \A s \in changed[c] : calls[c][s] > 0 /\ Wants(c, s)
  /\ identity[c].restore = "both" =>
       /\ identity[c].engine = "codex" /\ calls[c].conversation > 0 => "files" \in changed[c]
       /\ identity[c].engine = "claude" /\ calls[c].files > 0 => "conversation" \in changed[c]

LEMMA CommandsOK == Evidence => \A c \in Cmds : CommandOK(c)
  BY DEF Evidence, MutatesOnce, Ordered, Caused, CommandOK

LEMMA SameCommand ==
  ASSUME NEW c, CommandOK(c), UNCHANGED <<identity, calls, changed>>
  PROVE  CommandOK(c)'
  BY DEF CommandOK, Wants

(* A step of the process that executes a command.                          *)
LEMMA WorkStep ==
  ASSUME DataOK, Evidence, NEW p \in Procs, at[p] \in Executing,
         \A d \in Cmds : Spent(d) => Spent(d)',
         UNCHANGED <<entries, told, identity, cmd>>,
         NEW place \in Executing \cup {"record"}, at' = [at EXCEPT ![p] = place],
         NEW o, outcome' = [outcome EXCEPT ![p] = o],
         \A d \in Cmds : d # cmd[p] => calls'[d] = calls[d] /\ changed'[d] = changed[d],
         changed[cmd[p]] \subseteq changed'[cmd[p]],
         CommandOK(cmd[p])', Progress(p)',
         place = "record" =>
           \A s \in Surfaces :
             /\ o[s] = "succeeded" => s \in changed'[cmd[p]]
             /\ o[s] = "skipped" /\ Wants(cmd[p], s) => s \notin changed'[cmd[p]]
  PROVE  Evidence'
<1> DEFINE c == cmd[p]
<1>c. c \in Cmds /\ Spent(c)' /\ \A q \in Procs : at[q] \in Executing => cmd[q] \in Cmds
  BY DEF DataOK, Handling, Evidence, ClaimInv
<1>a. at \in [Procs -> Places] /\ outcome \in [Procs -> Results]
  BY DEF DataOK, TypeOK
<1>o. \A q \in Procs : q # p /\ at'[q] \in Executing => at[q] \in Executing /\ cmd[q] # c
  BY <1>a DEF Evidence, ClaimInv
<1>w. \A d \in Cmds, s \in Surfaces : Wants(d, s)' <=> Wants(d, s)
  BY DEF Wants
<1>1. ClaimInv'
  <2>1. \A d \in Cmds, s \in Surfaces : calls'[d][s] > 0 => Spent(d)'
    BY <1>c DEF Evidence, ClaimInv
  <2>2. \A q \in Procs : at'[q] \in Executing => Spent(cmd[q])'
    BY <1>c, <1>o DEF Evidence, ClaimInv
  <2> QED
    BY <1>a, <1>o, <2>1, <2>2 DEF Evidence, ClaimInv
<1>2. \A q \in Procs : Progress(q)'
  <2> SUFFICES ASSUME NEW q \in Procs, q # p
               PROVE  Progress(q)'
    OBVIOUS
  <2>1. CASE at'[q] \in Executing
    <3>1. /\ at'[q] = at[q] /\ outcome'[q] = outcome[q] /\ cmd'[q] = cmd[q]
          /\ calls'[cmd[q]] = calls[cmd[q]] /\ changed'[cmd[q]] = changed[cmd[q]]
      BY <1>a, <1>c, <1>o, <2>1
    <3> QED
      BY <3>1 DEF Evidence, Progress, Wants
  <2>2. CASE at'[q] \notin Executing
    BY <2>2 DEF Progress, Executing
  <2> QED
    BY <2>1, <2>2
<1>3. MutatesOnce'
  BY <1>c DEF Evidence, MutatesOnce, CommandOK
<1>4. Ordered'
  BY <1>c DEF Evidence, Ordered, CommandOK
<1>5. Caused'
  BY <1>c, <1>w DEF Evidence, Caused, Wants, CommandOK
<1>6. \A d \in Cmds : \A r : Settles(d, r) => Settles(d, r)'
  <2> SUFFICES ASSUME NEW d \in Cmds, NEW r, Settles(d, r)
               PROVE  Settles(d, r)'
    OBVIOUS
  <2>1. CASE d = c
    BY <1>c, <1>w, <2>1 DEF Settles
  <2>2. CASE d # c
    BY <1>a, <1>c, <1>o, <1>w, <2>2 DEF Settles
  <2> QED
    BY <2>1, <2>2
<1>7. \A t \in told : t.cmd \in Cmds
  BY DEF DataOK
<1>8. place = "record" => Settles(c, o)'
  BY <1>a, <1>c, <1>o, <1>w DEF Settles, Executing
<1>9. Settled'
  <2>1. \A t \in told' : Settles(t.cmd, t.result)'
    BY <1>6, <1>7 DEF Evidence, Settled
  <2>2. \A d \in Cmds : (entries[d].status = "complete" => Settles(d, entries[d].result))'
    BY <1>6 DEF Evidence, Settled
  <2>3. \A q \in Procs : (at[q] \in Answering => Settles(cmd[q], outcome[q]))'
    <3>1. \A q \in Procs : at[q] \in Answering => cmd[q] \in Cmds
      BY DEF DataOK, Handling
    <3>2. "record" \in Answering /\ Executing \cap Answering = {}
      BY DEF Answering, Executing
    <3> QED
      BY <1>a, <1>6, <1>8, <3>1, <3>2 DEF Evidence, Settled
  <2>4. \A q \in Procs : (at[q] \notin Answering \cup Executing => outcome[q] = Nothing)'
    BY <1>a DEF Evidence, Settled, Answering
  <2> QED
    BY <2>1, <2>2, <2>3, <2>4 DEF Settled
<1> QED
  BY <1>1, <1>2, <1>3, <1>4, <1>5, <1>9 DEF Evidence

(* The claim: whoever wins it is the first and the only one.               *)
LEMMA ClaimStep ==
  ASSUME DataOK, Evidence, NEW p \in Procs, Claim(p),
         \A d \in Cmds : Spent(d) => Spent(d)'
  PROVE  Evidence'
<1> DEFINE c == cmd[p]
<1> USE DEF disk, process, history, client
<1>c. c \in Cmds /\ \A q \in Procs : at[q] \in Executing => cmd[q] \in Cmds
  BY DEF DataOK, Handling, Claim
<1>a. /\ at \in [Procs -> Places] /\ outcome[p] = Nothing
      /\ entries \in [Cmds -> [status : Statuses, result : Results]]
      /\ identity \in [Cmds -> Identities]
  BY DEF DataOK, TypeOK, Evidence, Settled, Claim, Answering, Executing
<1>1. CASE Claimable(c) /\ Persist(To(c, "submitted", Nothing)) /\ Goto(p, First(c))
  <2>1. ~Spent(c) /\ Spent(c)'
    <3>1. Usable /\ UNCHANGED <<lock, stored, count, cmd>>
      BY <1>1 DEF Claim, Persist
    <3>2. entries'[c].status = "submitted"
      BY <1>a, <1>c, <1>1 DEF Persist, To
    <3> QED
      BY <1>1, <3>1, <3>2 DEF Usable, Spent, Claimed, Claimable
  <2>2. \A s \in Surfaces : calls[c][s] = 0
    BY <1>c, <2>1 DEF Evidence, ClaimInv, DataOK
  <2>3. \A q \in Procs : at[q] \in Executing => cmd[q] # c /\ q # p
    BY <2>1 DEF Evidence, ClaimInv, Claim, Executing
  <2>4. /\ at' = [at EXCEPT ![p] = First(c)] /\ First(c) \in Executing
        /\ UNCHANGED <<calls, changed, identity, cmd, outcome, told>>
    BY <1>1 DEF Claim, Goto, First, Executing
  <2>w. \A d \in Cmds, s \in Surfaces : Wants(d, s)' <=> Wants(d, s)
    BY <2>4 DEF Wants
  <2>5. ClaimInv'
    BY <1>a, <1>c, <2>1, <2>3, <2>4 DEF Evidence, ClaimInv
  <2>6. \A q \in Procs : Progress(q)'
    <3>1. ASSUME NEW q \in Procs, q # p
          PROVE  Progress(q)'
      BY <1>a, <2>4, <3>1 DEF Evidence, Progress, Wants
    <3>2. Progress(p)'
      <4>1. identity[c].engine \in {"claude", "codex"} /\ identity[c].restore \in {"conversation", "files", "both"}
        BY <1>a, <1>c DEF Identities
      <4> QED
        BY <1>a, <1>c, <2>2, <2>4, <4>1 DEF Progress, First, Wants, Nothing, Surfaces
    <3> QED
      BY <3>1, <3>2
  <2>7. MutatesOnce' /\ Ordered' /\ Caused'
    BY <2>4, <2>w DEF Evidence, MutatesOnce, Ordered, Caused, Wants, DataOK, TypeOK
  <2>8. \A d \in Cmds : \A r : Settles(d, r) => Settles(d, r)'
    BY <1>a, <1>c, <2>1, <2>4, <2>w DEF Settles
  <2>9. Settled'
    <3>1. \A t \in told' : Settles(t.cmd, t.result)'
      BY <2>4, <2>8 DEF Evidence, Settled, DataOK
    <3>2. \A d \in Cmds : (entries[d].status = "complete" => Settles(d, entries[d].result))'
      BY <1>a, <1>c, <1>1, <2>8 DEF Evidence, Settled, Persist, To
    <3>3. \A q \in Procs : (at[q] \in Answering => Settles(cmd[q], outcome[q]))'
      BY <1>a, <2>4, <2>8 DEF Evidence, Settled, DataOK, Handling, Answering, Executing
    <3>4. \A q \in Procs : (at[q] \notin Answering \cup Executing => outcome[q] = Nothing)'
      BY <1>a, <2>4 DEF Evidence, Settled
    <3> QED
      BY <3>1, <3>2, <3>3, <3>4 DEF Settled
  <2> QED
    BY <2>5, <2>6, <2>7, <2>9 DEF Evidence
<1>2. CASE Goto(p, "taken") /\ UNCHANGED entries
  <2>1. /\ at' = [at EXCEPT ![p] = "taken"]
        /\ UNCHANGED <<calls, changed, identity, cmd, outcome, told, entries>>
    BY <1>2 DEF Claim, Goto
  <2> QED
    BY <1>a, <2>1, QuietStep DEF Evidence, Settled, DataOK, Handling, Executing, Answering
<1> QED
  BY <1>1, <1>2 DEF Claim

LEMMA PrepareStep ==
  ASSUME DataOK, Evidence, NEW p \in Procs, Prepare(p),
         \A d \in Cmds : Spent(d) => Spent(d)'
  PROVE  Evidence'
<1> DEFINE c == cmd[p]
<1> USE DEF disk, process, history, client
<1>c. c \in Cmds /\ at[p] \in Executing
  BY DEF DataOK, Handling, Prepare, Executing
<1>a. /\ at \in [Procs -> Places] /\ outcome \in [Procs -> Results] /\ outcome[p] = Nothing
      /\ calls[c].conversation = 0 /\ calls[c].files = 0
      /\ identity[c].engine = "claude" /\ Wants(c, "conversation")
  BY DEF DataOK, TypeOK, Evidence, Progress, Prepare
<1>b. CommandOK(c)' /\ UNCHANGED <<entries, told, identity, cmd, calls, changed>>
  BY <1>c, CommandsOK, SameCommand DEF Prepare
<1>s. \A s \in Surfaces : calls[c][s] <= 1 /\ s \notin changed[c]
  BY <1>a, <1>c DEF Surfaces, Evidence, Caused
<1>1. CASE Goto(p, "rewind") /\ UNCHANGED outcome
  <2> DEFINE o == outcome[p]
  <2>1. at' = [at EXCEPT ![p] = "rewind"] /\ outcome' = [outcome EXCEPT ![p] = o]
    BY <1>a, <1>1 DEF Goto
  <2>2. Progress(p)'
    BY <1>a, <1>b, <2>1 DEF Progress, Wants
  <2> HIDE DEF o
  <2>3. "rewind" \in Executing \cup {"record"} /\ changed[c] \subseteq changed'[c]
    BY <1>b DEF Executing
  <2> QED
    BY <1>b, <1>c, <2>1, <2>2, <2>3, WorkStep
<1>2. CASE Goto(p, "record") /\ Outcome(p, "conversation", "failed")
  <2> DEFINE o == [outcome[p] EXCEPT !["conversation"] = "failed"]
  <2>1. at' = [at EXCEPT ![p] = "record"] /\ outcome' = [outcome EXCEPT ![p] = o]
    BY <1>a, <1>2 DEF Goto, Outcome
  <2>2. Progress(p)'
    BY <1>a, <2>1 DEF Progress
  <2>3. \A s \in Surfaces : o[s] # "succeeded"
    BY <1>a DEF Surfaces, Nothing
  <2> HIDE DEF o
  <2> QED
    BY <1>b, <1>c, <1>s, <2>1, <2>2, <2>3, WorkStep DEF Executing
<1> QED
  BY <1>1, <1>2 DEF Prepare

LEMMA RestoreFilesStep ==
  ASSUME DataOK, Evidence, NEW p \in Procs, RestoreFiles(p),
         \A d \in Cmds : Spent(d) => Spent(d)'
  PROVE  Evidence'
<1> DEFINE c == cmd[p]
<1> USE DEF disk, process, history, client
<1>c. c \in Cmds /\ at[p] \in Executing
  BY DEF DataOK, Handling, RestoreFiles, Executing
<1>a. /\ at \in [Procs -> Places] /\ outcome \in [Procs -> Results]
      /\ calls \in [Cmds -> [Surfaces -> Nat]] /\ changed \in [Cmds -> SUBSET Surfaces]
      /\ identity[c].engine \in {"claude", "codex"}
  BY <1>c DEF DataOK, TypeOK, Identities
<1>p. /\ Wants(c, "files") /\ calls[c].files = 0 /\ outcome[p].files = "skipped"
      /\ IF identity[c].engine = "claude" /\ Wants(c, "conversation")
           THEN outcome[p].conversation = "succeeded" /\ "conversation" \in changed[c]
           ELSE calls[c].conversation = 0 /\ outcome[p].conversation = "skipped"
  BY DEF Evidence, Progress, RestoreFiles
<1>k. CommandOK(c)
  BY <1>c, CommandsOK
<1>b. UNCHANGED <<entries, told, identity, cmd>>
  BY DEF RestoreFiles
<1>1. PICK value \in {"succeeded", "failed"} :
        /\ Outcome(p, "files", value)
        /\ Goto(p, AfterFiles(c, value))
        /\ Mutate(c, "files", value) \/ (value = "failed" /\ UNCHANGED <<calls, changed>>)
  BY DEF RestoreFiles
<1> DEFINE place == AfterFiles(c, value)
           o == [outcome[p] EXCEPT !["files"] = value]
<1>2. at' = [at EXCEPT ![p] = place] /\ outcome' = [outcome EXCEPT ![p] = o]
  BY <1>a, <1>1 DEF Goto, Outcome
<1>3. /\ place \in {"retire", "record"}
      /\ place = "retire" <=> /\ identity[c].engine = "codex"
                              /\ Wants(c, "conversation") /\ value = "succeeded"
  BY DEF AfterFiles
<1>4. o.files = value /\ o.conversation = outcome[p].conversation /\ outcome'[p] = o
  BY <1>a, <1>2 DEF Results
<1>5. /\ \A d \in Cmds : d # c => calls'[d] = calls[d] /\ changed'[d] = changed[d]
      /\ calls'[c].conversation = calls[c].conversation /\ calls'[c].files <= 1
      /\ changed[c] \subseteq changed'[c] /\ changed'[c] \subseteq changed[c] \cup {"files"}
      /\ "files" \in changed'[c] => calls'[c].files > 0
      /\ value = "succeeded" => "files" \in changed'[c]
      /\ calls'[c].files > 0 => calls'[c] # calls[c]
  <2>1. CASE UNCHANGED <<calls, changed>> /\ value = "failed"
    BY <1>p, <1>k, <2>1 DEF CommandOK
  <2>2. CASE Mutate(c, "files", value)
    <3>1. /\ calls' = [calls EXCEPT ![c]["files"] = @ + 1]
          /\ \/ changed' = [changed EXCEPT ![c] = @ \cup {"files"}]
             \/ value = "failed" /\ changed' = changed
      BY <2>2 DEF Mutate
    <3>2. calls[c] \in [Surfaces -> Nat]
      BY <1>a, <1>c
    <3>3. calls'[c] = [calls[c] EXCEPT !["files"] = 1] /\ calls'[c].files = 1
      BY <1>a, <1>c, <1>p, <3>1, <3>2 DEF Surfaces
    <3>4. changed'[c] = changed[c] \cup {"files"} \/ (value = "failed" /\ changed'[c] = changed[c])
      BY <1>a, <1>c, <3>1
    <3> QED
      BY <1>a, <1>c, <1>p, <1>k, <3>1, <3>2, <3>3, <3>4 DEF Surfaces, CommandOK
  <2> QED
    BY <1>1, <2>1, <2>2
<1>6. CommandOK(c)'
  <2>1. \A s \in Surfaces : calls'[c][s] <= 1
    BY <1>5, <1>k DEF Surfaces, CommandOK
  <2>2. \A s \in changed'[c] : calls'[c][s] > 0 /\ Wants(c, s)
    <3>1. changed[c] \subseteq Surfaces
      BY <1>a, <1>c
    <3> QED
      BY <1>5, <1>k, <1>p, <3>1 DEF CommandOK, Surfaces
  <2>3. identity[c].engine = "claude" /\ identity[c].restore = "both" => "conversation" \in changed'[c]
    BY <1>5, <1>p DEF Wants
  <2> QED
    BY <1>b, <1>5, <1>k, <2>1, <2>2, <2>3 DEF CommandOK, Wants
<1>7. Progress(p)'
  BY <1>a, <1>b, <1>p, <1>2, <1>3, <1>4, <1>5 DEF Progress, Wants
<1>8. place = "record" =>
        \A s \in Surfaces :
          /\ o[s] = "succeeded" => s \in changed'[c]
          /\ o[s] = "skipped" /\ Wants(c, s) => s \notin changed'[c]
  BY <1>1, <1>3, <1>4, <1>5, <1>p, <1>k DEF Surfaces, CommandOK
<1> HIDE DEF place, o
<1> QED
  BY <1>b, <1>c, <1>2, <1>3, <1>5, <1>6, <1>7, <1>8, WorkStep DEF Executing

LEMMA RetireStep ==
  ASSUME DataOK, Evidence, NEW p \in Procs, Retire(p),
         \A d \in Cmds : Spent(d) => Spent(d)'
  PROVE  Evidence'
<1> DEFINE c == cmd[p]
<1> USE DEF disk, process, history, client
<1>c. c \in Cmds /\ at[p] \in Executing
  BY DEF DataOK, Handling, Retire, Executing
<1>a. /\ at \in [Procs -> Places] /\ outcome \in [Procs -> Results]
      /\ changed \in [Cmds -> SUBSET Surfaces]
  BY DEF DataOK, TypeOK
<1>p. /\ identity[c].engine = "codex" /\ Wants(c, "conversation")
      /\ calls[c].conversation = 0 /\ outcome[p].conversation = "skipped"
      /\ IF Wants(c, "files")
           THEN outcome[p].files = "succeeded" /\ "files" \in changed[c]
           ELSE outcome[p].files = "skipped"
  BY DEF Evidence, Progress, Retire
<1>b. UNCHANGED <<entries, told, identity, cmd, calls, changed>> /\ CommandOK(c)'
  BY <1>c, CommandsOK, SameCommand DEF Retire
<1>d. \A d \in Cmds : d # c => calls'[d] = calls[d] /\ changed'[d] = changed[d]
  BY <1>b
<1>s. changed[c] \subseteq changed'[c]
  BY <1>b
<1>1. CASE Goto(p, "cut") /\ UNCHANGED outcome
  <2> DEFINE o == outcome[p]
  <2>1. at' = [at EXCEPT ![p] = "cut"] /\ outcome' = [outcome EXCEPT ![p] = o]
    BY <1>a, <1>1 DEF Goto
  <2>2. Progress(p)'
    BY <1>a, <1>b, <1>p, <2>1 DEF Progress, Wants
  <2> HIDE DEF o
  <2>3. "cut" \in Executing \cup {"record"}
    BY DEF Executing
  <2> QED
    BY <1>b, <1>c, <1>d, <1>s, <2>1, <2>2, <2>3, WorkStep
<1>2. CASE Goto(p, "record") /\ Outcome(p, "conversation", "failed")
  <2> DEFINE o == [outcome[p] EXCEPT !["conversation"] = "failed"]
  <2>1. at' = [at EXCEPT ![p] = "record"] /\ outcome' = [outcome EXCEPT ![p] = o]
    BY <1>a, <1>2 DEF Goto, Outcome
  <2>2. Progress(p)'
    BY <1>a, <2>1 DEF Progress
  <2>3. o.files = outcome[p].files /\ o.conversation = "failed"
    BY <1>a DEF Results
  <2>4. \A s \in Surfaces : /\ o[s] = "succeeded" => s \in changed'[c]
                            /\ ~(o[s] = "skipped" /\ Wants(c, s))
    BY <1>b, <1>p, <2>3 DEF Surfaces
  <2> HIDE DEF o
  <2> QED
    BY <1>b, <1>c, <1>d, <1>s, <2>1, <2>2, <2>4, WorkStep DEF Executing
<1> QED
  BY <1>1, <1>2 DEF Retire

LEMMA CutStep ==
  ASSUME DataOK, Evidence, NEW p \in Procs, Cut(p),
         \A d \in Cmds : Spent(d) => Spent(d)'
  PROVE  Evidence'
<1> DEFINE c == cmd[p]
<1> USE DEF disk, process, history, client
<1>c. c \in Cmds /\ at[p] \in Executing
  BY DEF DataOK, Handling, Cut, Executing
<1>a. /\ at \in [Procs -> Places] /\ outcome \in [Procs -> Results]
      /\ calls \in [Cmds -> [Surfaces -> Nat]] /\ changed \in [Cmds -> SUBSET Surfaces]
  BY DEF DataOK, TypeOK
<1>p. /\ identity[c].engine = "codex" /\ Wants(c, "conversation")
      /\ calls[c].conversation = 0
      /\ IF Wants(c, "files")
           THEN outcome[p].files = "succeeded" /\ "files" \in changed[c]
           ELSE outcome[p].files = "skipped"
  BY DEF Evidence, Progress, Cut
<1>k. CommandOK(c) /\ changed[c] \subseteq Surfaces
  BY <1>a, <1>c, CommandsOK
<1>b. UNCHANGED <<entries, told, identity, cmd>>
  BY DEF Cut
<1>1. PICK value \in {"succeeded", "failed"} :
        Outcome(p, "conversation", value) /\ Mutate(c, "conversation", value)
  BY DEF Cut
<1> DEFINE o == [outcome[p] EXCEPT !["conversation"] = value]
<1>2. at' = [at EXCEPT ![p] = "record"] /\ outcome' = [outcome EXCEPT ![p] = o]
  BY <1>a, <1>1 DEF Cut, Goto, Outcome
<1>3. o.conversation = value /\ o.files = outcome[p].files
  BY <1>a DEF Results
<1>4. /\ calls' = [calls EXCEPT ![c]["conversation"] = @ + 1]
      /\ \/ changed' = [changed EXCEPT ![c] = @ \cup {"conversation"}]
         \/ value = "failed" /\ changed' = changed
  BY <1>1 DEF Mutate
<1>5. calls[c] \in [Surfaces -> Nat]
  BY <1>a, <1>c
<1>6. calls'[c] = [calls[c] EXCEPT !["conversation"] = 1]
  BY <1>a, <1>c, <1>p, <1>4, <1>5 DEF Surfaces
<1>7. calls'[c].conversation = 1 /\ calls'[c].files = calls[c].files
  BY <1>5, <1>6 DEF Surfaces
<1>8. \/ changed'[c] = changed[c] \cup {"conversation"}
      \/ value = "failed" /\ changed'[c] = changed[c]
  BY <1>a, <1>c, <1>4
<1>d. \A d \in Cmds : d # c => calls'[d] = calls[d] /\ changed'[d] = changed[d]
  BY <1>a, <1>c, <1>4
<1>9. CommandOK(c)'
  <2>1. \A s \in Surfaces : calls'[c][s] <= 1
    BY <1>7, <1>k DEF Surfaces, CommandOK
  <2>2. \A s \in changed'[c] : calls'[c][s] > 0 /\ Wants(c, s)
    BY <1>7, <1>8, <1>k, <1>p DEF CommandOK, Surfaces
  <2>3. identity[c].restore = "both" => "files" \in changed'[c]
    BY <1>p, <1>8 DEF Wants
  <2> QED
    BY <1>b, <1>p, <2>1, <2>2, <2>3 DEF CommandOK, Wants
<1>10. Progress(p)'
  BY <1>a, <1>2 DEF Progress
<1>11. \A s \in Surfaces : /\ o[s] = "succeeded" => s \in changed'[c]
                           /\ ~(o[s] = "skipped" /\ Wants(c, s))
  BY <1>3, <1>8, <1>p DEF Surfaces
<1>12. changed[c] \subseteq changed'[c]
  BY <1>8
<1> HIDE DEF o
<1> QED
  BY <1>b, <1>c, <1>d, <1>2, <1>9, <1>10, <1>11, <1>12, WorkStep DEF Executing

LEMMA RewindStep ==
  ASSUME DataOK, Evidence, NEW p \in Procs, Rewind(p),
         \A d \in Cmds : Spent(d) => Spent(d)'
  PROVE  Evidence'
<1> DEFINE c == cmd[p]
<1> USE DEF disk, process, history, client
<1>c. c \in Cmds /\ at[p] \in Executing
  BY DEF DataOK, Handling, Rewind, Executing
<1>a. /\ at \in [Procs -> Places] /\ outcome \in [Procs -> Results]
      /\ calls \in [Cmds -> [Surfaces -> Nat]] /\ changed \in [Cmds -> SUBSET Surfaces]
  BY DEF DataOK, TypeOK
<1>p. /\ identity[c].engine = "claude" /\ Wants(c, "conversation")
      /\ calls[c].conversation = 0 /\ calls[c].files = 0 /\ outcome[p] = Nothing
  BY DEF Evidence, Progress, Rewind
<1>k. CommandOK(c) /\ changed[c] \subseteq Surfaces
  BY <1>a, <1>c, CommandsOK
<1>b. UNCHANGED <<entries, told, identity, cmd>>
  BY DEF Rewind
<1>1. PICK k \in 0..Turns, value \in {"succeeded", "failed"} :
        /\ value = "succeeded" => k = Turns
        /\ outcome' = [outcome EXCEPT ![p].conversation = value, ![p].turns = k]
        /\ Goto(p, AfterRewind(c, value))
        /\ calls' = [calls EXCEPT ![c]["conversation"] = @ + 1]
        /\ changed' \in {[changed EXCEPT ![c] = @ \cup {"conversation"}]} \cup
                        IF k = 0 THEN {changed} ELSE {}
  BY DEF Rewind
<1> DEFINE place == AfterRewind(c, value)
           o == [outcome[p] EXCEPT !.conversation = value, !.turns = k]
<1>2. at' = [at EXCEPT ![p] = place] /\ outcome' = [outcome EXCEPT ![p] = o]
  BY <1>a, <1>1 DEF Goto
<1>3. /\ place \in {"files", "record"}
      /\ place = "files" <=> Wants(c, "files") /\ value = "succeeded"
  BY DEF AfterRewind
<1>4. o.conversation = value /\ o.files = "skipped" /\ outcome'[p] = o
  BY <1>a, <1>p, <1>2 DEF Nothing
<1>5. calls[c] \in [Surfaces -> Nat]
  BY <1>a, <1>c
<1>6. calls'[c] = [calls[c] EXCEPT !["conversation"] = 1]
  BY <1>a, <1>c, <1>p, <1>1, <1>5 DEF Surfaces
<1>7. calls'[c].conversation = 1 /\ calls'[c].files = 0
  BY <1>5, <1>6, <1>p DEF Surfaces
<1>8. \/ changed' = [changed EXCEPT ![c] = @ \cup {"conversation"}]
      \/ value = "failed" /\ changed' = changed
  BY <1>1, JournalAssumption
<1>9. \/ changed'[c] = changed[c] \cup {"conversation"}
      \/ value = "failed" /\ changed'[c] = changed[c]
  BY <1>a, <1>c, <1>8
<1>d. \A d \in Cmds : d # c => calls'[d] = calls[d] /\ changed'[d] = changed[d]
  BY <1>a, <1>c, <1>1, <1>8
<1>10. CommandOK(c)'
  <2>1. \A s \in Surfaces : calls'[c][s] <= 1
    BY <1>7 DEF Surfaces
  <2>2. \A s \in changed'[c] : calls'[c][s] > 0 /\ Wants(c, s)
    BY <1>7, <1>9, <1>k, <1>p DEF CommandOK, Surfaces
  <2> QED
    BY <1>b, <1>p, <1>7, <2>1, <2>2 DEF CommandOK, Wants
<1>11. Progress(p)'
  BY <1>a, <1>b, <1>p, <1>2, <1>3, <1>4, <1>7, <1>9 DEF Progress, Wants
<1>12. place = "record" =>
         \A s \in Surfaces :
           /\ o[s] = "succeeded" => s \in changed'[c]
           /\ o[s] = "skipped" /\ Wants(c, s) => s \notin changed'[c]
  <2>1. "files" \notin changed[c]
    BY <1>k, <1>p DEF CommandOK
  <2>2. o["files"] = "skipped" /\ o["conversation"] = value
    BY <1>4
  <2> HIDE DEF o
  <2> QED
    BY <1>1, <1>3, <1>9, <2>1, <2>2 DEF Surfaces
<1>13. changed[c] \subseteq changed'[c]
  BY <1>9
<1> HIDE DEF place, o
<1> QED
  BY <1>b, <1>c, <1>d, <1>2, <1>3, <1>10, <1>11, <1>12, <1>13, WorkStep DEF Executing

(* The steps after which nobody executes who did not.                      *)
LEMMA QuietProcess ==
  ASSUME DataOK, DataOK', Evidence, NEW p \in Procs, Step(p) \/ Turn(p) \/ Crash(p),
         ~Claim(p), ~Prepare(p), ~RestoreFiles(p), ~Retire(p), ~Cut(p), ~Rewind(p),
         \A d \in Cmds : Spent(d) => Spent(d)'
  PROVE  Evidence'
<1> DEFINE c == cmd[p]
<1> USE DEF disk, process, history, client
<1>a. /\ at \in [Procs -> Places] /\ outcome \in [Procs -> Results]
      /\ cmd \in [Procs -> Cmds \cup {NoCmd}]
      /\ entries \in [Cmds -> [status : Statuses, result : Results]]
  BY DEF DataOK, TypeOK
<1>h. \A q \in Procs : at[q] \in Handling => cmd[q] \in Cmds
  BY DEF DataOK
<1>i. \A q \in Procs : at'[q] \in Handling => cmd'[q] \in Cmds
  BY DEF DataOK
<1>s. /\ \A t \in told : t.cmd \in Cmds /\ Settles(t.cmd, t.result)
      /\ \A d \in Cmds : entries[d].status = "complete" => Settles(d, entries[d].result)
      /\ \A q \in Procs : at[q] \in Answering => Settles(cmd[q], outcome[q])
      /\ \A q \in Procs : at[q] \notin Answering \cup Executing => outcome[q] = Nothing
  BY DEF DataOK, Evidence, Settled
<1>w. \A d \in Cmds, status \in {"intent", "submitted", "uncertain"} :
        entries' \in {entries, To(d, status, Nothing)} =>
          \A e \in Cmds : entries'[e].status = "complete" => Settles(e, entries'[e].result)
  BY <1>a, <1>s DEF To
<1>n. Settles(c, Doubtful(c))
  BY DEF Settles, Doubtful, Surfaces
<1> USE DEF Executing, Answering, Handling
(* Only p moves, to a place where its outcome has to be settled or empty.  *)
<1>q. ASSUME UNCHANGED <<identity, calls, changed>>,
             NEW place \in Places \ Executing, at' = [at EXCEPT ![p] = place],
             \A q \in Procs : q # p => cmd'[q] = cmd[q] /\ outcome'[q] = outcome[q],
             told' = told \/ (c \in Cmds /\ told' = told \cup {[cmd |-> c, result |-> outcome[p]]}
                              /\ Settles(c, outcome[p])),
             \A d \in Cmds : entries'[d].status = "complete" => Settles(d, entries'[d].result),
             place \in Answering => cmd' = cmd /\ Settles(c, outcome'[p]),
             place \notin Answering => outcome'[p] = Nothing
      PROVE  Evidence'
  <2>1. \A q \in Procs : at'[q] \in Executing =>
          at'[q] = at[q] /\ cmd'[q] = cmd[q] /\ outcome'[q] = outcome[q]
    BY <1>a, <1>q
  <2>2. \A t \in told' : t \in told \/ (t.cmd \in Cmds /\ Settles(t.cmd, t.result))
    BY <1>q
  <2>3. \A q \in Procs : at'[q] \in Answering =>
          cmd'[q] \in Cmds /\ Settles(cmd'[q], outcome'[q])
    BY <1>a, <1>i, <1>q, <1>s
  <2>4. \A q \in Procs : at'[q] \notin Answering \cup Executing => outcome'[q] = Nothing
    BY <1>a, <1>q, <1>s
  <2> QED
    BY <1>q, <2>1, <2>2, <2>3, <2>4, QuietStep
<1>e. entries' = entries =>
        \A d \in Cmds : entries'[d].status = "complete" => Settles(d, entries'[d].result)
  BY <1>s
<1> USE DEF Places, TurnPlaces
<1>1. CASE OpenLock(p)
  BY <1>e, <1>q, <1>s, <1>1 DEF OpenLock
<1>2. CASE Construct(p)
  <2>1. \A d \in Cmds : entries'[d].status = "complete" => Settles(d, entries'[d].result)
    <3>1. entries' = entries \/ entries' = [d \in Cmds |-> NoEntry]
      BY <1>2 DEF Construct
    <3> QED
      BY <1>e, <3>1 DEF NoEntry
  <2>2. at' = [at EXCEPT ![p] = "ready"] \/ at' = [at EXCEPT ![p] = "unmarked"]
    BY <1>2 DEF Construct, Ready
  <2> QED
    BY <1>q, <1>s, <1>2, <2>1, <2>2 DEF Construct
<1>3. CASE WriteMarker(p)
  BY <1>e, <1>q, <1>s, <1>3 DEF WriteMarker, Ready
<1>4. CASE ClaimRaises(p)
  <2>1. \A d \in Cmds : entries'[d].status = "complete" => Settles(d, entries'[d].result)
    BY <1>e, <1>h, <1>w, <1>4 DEF ClaimRaises, PersistRaises
  <2>2. /\ at' = [at EXCEPT ![p] = "ready"] /\ cmd' = [cmd EXCEPT ![p] = NoCmd]
        /\ outcome' = [outcome EXCEPT ![p] = Nothing]
    BY <1>4 DEF ClaimRaises, Return, Remember, Goto
  <2> QED
    BY <1>a, <1>q, <1>4, <2>1, <2>2 DEF ClaimRaises, Return, Remember
<1>5. CASE Taken(p)
  <2>1. \/ /\ at' = [at EXCEPT ![p] = "publish"] /\ cmd' = cmd
           /\ outcome' = [outcome EXCEPT ![p] = Doubtful(c)]
        \/ /\ at' = [at EXCEPT ![p] = "ready"] /\ cmd' = [cmd EXCEPT ![p] = NoCmd]
           /\ outcome' = outcome /\ outcome[p] = Nothing
    BY <1>s, <1>5 DEF Taken, Goto
  <2>2. UNCHANGED <<identity, calls, changed, told, entries>>
    BY <1>5 DEF Taken
  <2>3. CASE cmd' = cmd /\ outcome' = [outcome EXCEPT ![p] = Doubtful(c)]
             /\ at' = [at EXCEPT ![p] = "publish"]
    BY <1>a, <1>e, <1>n, <1>q, <2>2, <2>3
  <2>4. CASE cmd' = [cmd EXCEPT ![p] = NoCmd] /\ outcome' = outcome /\ outcome[p] = Nothing
             /\ at' = [at EXCEPT ![p] = "ready"]
    BY <1>a, <1>e, <1>q, <2>2, <2>4
  <2> QED
    BY <2>1, <2>3, <2>4
<1>6. CASE Doubt(p)
  <2>1. at' = [at EXCEPT ![p] = "mark"] /\ Settles(c, outcome[p])
    BY <1>s, <1>6 DEF Doubt, Goto
  <2> QED
    BY <1>e, <1>q, <1>6, <2>1 DEF Doubt
<1>7. CASE Record(p)
  <2> DEFINE r == Restored(c, outcome[p])
  <2>1. r.conversation = outcome[p].conversation /\ r.files = outcome[p].files
    BY <1>a DEF Restored, Results
  <2>2. Settles(c, r) /\ c \in Cmds
    BY <1>h, <1>s, <1>7, <2>1 DEF Record, Settles, Surfaces
  <2> HIDE DEF r
  <2>3. entries' \in {entries, To(c, "complete", r)}
    BY <1>7 DEF Record, Persist, PersistRaises, r
  <2>4. \A d \in Cmds : entries'[d].status = "complete" => Settles(d, entries'[d].result)
    BY <1>a, <1>s, <2>2, <2>3 DEF To
  <2>5. outcome' = [outcome EXCEPT ![p] = r]
    BY <1>7 DEF Record, r
  <2>6. at' = [at EXCEPT ![p] = "publish"] \/ at' = [at EXCEPT ![p] = "mark_failed"]
    BY <1>7 DEF Record, Goto
  <2> QED
    BY <1>a, <1>q, <1>7, <2>2, <2>4, <2>5, <2>6 DEF Record
<1>8. CASE MarkUncertain(p)
  <2>1. \A d \in Cmds : entries'[d].status = "complete" => Settles(d, entries'[d].result)
    BY <1>e, <1>h, <1>w, <1>8 DEF MarkUncertain, Persist, PersistRaises
  <2>2. at' = [at EXCEPT ![p] = "publish"] \/ at' = [at EXCEPT ![p] = "finish"]
    BY <1>8 DEF MarkUncertain, Goto
  <2>3. Settles(c, outcome[p])
    BY <1>s, <1>8 DEF MarkUncertain
  <2> QED
    BY <1>q, <1>8, <2>1, <2>2, <2>3 DEF MarkUncertain
<1>9. CASE Publish(p)
  <2>1. Settles(c, outcome[p]) /\ c \in Cmds
    BY <1>h, <1>s, <1>9 DEF Publish
  <2>2. /\ at' = [at EXCEPT ![p] = "ready"] /\ cmd' = [cmd EXCEPT ![p] = NoCmd]
        /\ outcome' = [outcome EXCEPT ![p] = Nothing]
        /\ told' = told \cup {[cmd |-> c, result |-> outcome[p]]}
    BY <1>9 DEF Publish, Return, Remember, Goto, Says
  <2> QED
    BY <1>a, <1>e, <1>q, <1>9, <2>1, <2>2 DEF Publish, Return, Remember
<1>10. CASE Turn(p)
  <2>1. /\ UNCHANGED <<identity, calls, changed, told, entries, cmd, outcome>>
        /\ at[p] \in Beside /\ \E place \in Beside : at' = [at EXCEPT ![p] = place]
    BY <1>10, TurnFrame
  <2>2. PICK place \in Beside : at' = [at EXCEPT ![p] = place]
    BY <2>1
  <2>3. outcome'[p] = Nothing
    BY <1>s, <2>1 DEF Beside
  <2> QED
    BY <1>e, <1>q, <2>1, <2>2, <2>3 DEF Beside
<1>11. CASE Crash(p)
  BY <1>a, <1>e, <1>q, <1>11 DEF Crash
<1> QED
  BY <1>1, <1>2, <1>3, <1>4, <1>5, <1>6, <1>7, <1>8, <1>9, <1>10, <1>11 DEF Step

LEMMA QuietAsk ==
  ASSUME DataOK, DataOK', Evidence, NEW p \in Procs, NEW c \in Cmds, Ask(p, c),
         \A d \in Cmds : Spent(d) => Spent(d)'
  PROVE  Evidence'
<1> USE DEF disk, process, history, client
<1>a. /\ at \in [Procs -> Places] /\ outcome \in [Procs -> Results]
      /\ cmd \in [Procs -> Cmds \cup {NoCmd}]
      /\ entries \in [Cmds -> [status : Statuses, result : Results]]
  BY DEF DataOK, TypeOK
<1>h. \A q \in Procs : at[q] \in Handling => cmd[q] \in Cmds
  BY DEF DataOK
<1>s. /\ \A d \in Cmds : entries[d].status = "complete" => Settles(d, entries[d].result)
      /\ \A q \in Procs : at[q] \in Answering => Settles(cmd[q], outcome[q])
      /\ \A q \in Procs : at[q] \notin Answering \cup Executing => outcome[q] = Nothing
  BY DEF Evidence, Settled
<1>w. entries' \in {entries, To(c, "intent", Nothing)} =>
        \A d \in Cmds : entries'[d].status = "complete" => Settles(d, entries'[d].result)
  BY <1>a, <1>s DEF To
<1>n. Settles(c, Doubtful(c))
  BY DEF Settles, Doubtful, Surfaces
<1> USE DEF Executing, Answering, Handling
<1>q. ASSUME UNCHANGED <<identity, calls, changed, told>>, at[p] = "ready",
             entries' \in {entries, To(c, "intent", Nothing)},
             NEW place \in {"ready", "claim", "doubt", "publish"},
             at' = [at EXCEPT ![p] = place],
             NEW o, outcome' = [outcome EXCEPT ![p] = o],
             NEW d, cmd' = [cmd EXCEPT ![p] = d],
             place \in {"ready", "claim"} => o = Nothing,
             place \in {"doubt", "publish"} => d = c /\ Settles(c, o)
      PROVE  Evidence'
  <2>1. \A q \in Procs : at'[q] \in Executing =>
          at'[q] = at[q] /\ cmd'[q] = cmd[q] /\ outcome'[q] = outcome[q]
    BY <1>a, <1>q
  <2>2. \A q \in Procs : at'[q] \in Answering =>
          cmd'[q] \in Cmds /\ Settles(cmd'[q], outcome'[q])
    BY <1>a, <1>h, <1>q, <1>s
  <2>3. \A q \in Procs : at'[q] \notin Answering \cup Executing => outcome'[q] = Nothing
    BY <1>a, <1>q, <1>s
  <2> QED
    BY <1>q, <1>w, <2>1, <2>2, <2>3, QuietStep
<1>1. CASE Begin(p, c)
  <2>0. /\ UNCHANGED <<identity, calls, changed, told>> /\ at[p] = "ready"
        /\ cmd' = [cmd EXCEPT ![p] = c]
        /\ entries' \in {entries, To(c, "intent", Nothing)}
    BY <1>1 DEF Begin
  <2>1. CASE entries[c].status \in {"none", "intent"}
    <3>1. at' = [at EXCEPT ![p] = "claim"] /\ outcome' = outcome
      BY <1>1, <2>1 DEF Begin, Goto
    <3>2. outcome[p] = Nothing /\ outcome' = [outcome EXCEPT ![p] = Nothing]
      BY <1>a, <1>s, <2>0, <3>1
    <3> QED
      BY <1>q, <2>0, <3>1, <3>2
  <2>2. CASE entries[c].status \in {"submitted", "uncertain"}
    <3>1. at' = [at EXCEPT ![p] = "doubt"] /\ outcome' = [outcome EXCEPT ![p] = Doubtful(c)]
      BY <1>1, <2>2 DEF Begin, Goto
    <3> QED
      BY <1>n, <1>q, <2>0, <3>1
  <2>3. CASE entries[c].status = "complete"
    <3>1. /\ at' = [at EXCEPT ![p] = "publish"]
          /\ outcome' = [outcome EXCEPT ![p] = entries[c].result]
      BY <1>1, <2>3 DEF Begin, Goto
    <3> QED
      BY <1>q, <1>s, <2>0, <2>3, <3>1
  <2> QED
    BY <1>a, <2>1, <2>2, <2>3 DEF Statuses
<1>2. CASE Reject(p, c)
  <2>1. entries' \in {entries, To(c, "intent", Nothing)}
    BY <1>2 DEF Reject, PersistRaises
  <2>2. /\ at' = [at EXCEPT ![p] = "ready"] /\ outcome' = [outcome EXCEPT ![p] = Nothing]
        /\ cmd' = [cmd EXCEPT ![p] = NoCmd]
        /\ UNCHANGED <<identity, calls, changed, told>> /\ at[p] = "ready"
    BY <1>2 DEF Reject, Return, Remember, Goto
  <2> QED
    BY <1>q, <2>1, <2>2
<1>3. CASE AnswerAgain(p, c) \/ AnswerBusy(p, c)
  BY <1>h, <1>s, <1>3, QuietStep DEF AnswerAgain, AnswerBusy, Remember
<1> QED
  BY <1>1, <1>2, <1>3 DEF Ask

LEMMA EvidenceStep ==
  ASSUME DataOK, DataOK', OneInitializer, Evidence, [Next]_vars, OneLoss'
  PROVE  Evidence'
<1> USE DEF disk, process, history, client
<1>s. \A d \in Cmds : Spent(d) => Spent(d)'
  BY SpentStays
<1>h. \A q \in Procs : at[q] \in Handling => cmd[q] \in Cmds
  BY DEF DataOK
<1>e. /\ \A d \in Cmds : entries[d].status = "complete" => Settles(d, entries[d].result)
      /\ \A q \in Procs : at[q] \in Answering => Settles(cmd[q], outcome[q])
      /\ \A q \in Procs : at[q] \notin Answering \cup Executing => outcome[q] = Nothing
  BY DEF Evidence, Settled
<1>1. CASE \E p \in Procs : Step(p) \/ Turn(p) \/ Crash(p)
  BY <1>s, <1>1, ClaimStep, PrepareStep, RestoreFilesStep, RetireStep, CutStep, RewindStep,
     QuietProcess
<1>2. CASE \E p \in Procs, c \in Cmds : Ask(p, c)
  BY <1>s, <1>2, QuietAsk
<1>3. CASE LoseFile
  <2>1. entries' = entries \/ entries' = [d \in Cmds |-> NoEntry]
    BY <1>3 DEF LoseFile
  <2>2. \A d \in Cmds : entries'[d].status = "complete" => Settles(d, entries'[d].result)
    BY <1>e, <2>1 DEF NoEntry
  <2> QED
    BY <1>e, <1>h, <1>s, <1>3, <2>2, QuietStep DEF LoseFile, Handling
<1>4. CASE UNCHANGED vars
  BY <1>e, <1>h, <1>s, <1>4, QuietStep DEF vars, Handling
<1> QED
  BY <1>1, <1>2, <1>3, <1>4 DEF Next

-----------------------------------------------------------------------------
LEMMA InitHolds == Init => IInv
<1> SUFFICES ASSUME Init
             PROVE  IInv
  OBVIOUS
<1>1. DataOK
  BY InitData
<1>2. AlignedInv /\ OneInitializer
  BY DEF Init, AlignedInv, Aligned, Excused, OneInitializer, TurnPlaces
<1>3. Evidence
  BY DEF Init, Evidence, ClaimInv, Progress, MutatesOnce, Ordered, Caused, Settled,
         Executing, Answering, NoEntry, Surfaces
<1> QED
  BY <1>1, <1>2, <1>3 DEF IInv

(* The journal, the processes at it and the records of the thread keep the *)
(* inductive invariant in every reachable state.                           *)
THEOREM Invariance == Spec => []IInv
<1>1. IInv /\ [Next]_vars => IInv'
  <2> SUFFICES ASSUME IInv, [Next]_vars
               PROVE  IInv'
    OBVIOUS
  <2>1. DataOK' /\ AlignedInv' /\ OneInitializer'
    BY DataHolds, AlignedStep, InitializerStep DEF IInv
  <2>2. OneLoss' => Evidence'
    BY <2>1, LossesGrow, EvidenceStep DEF IInv
  <2> QED
    BY <2>1, <2>2 DEF IInv
<1> QED
  BY InitHolds, <1>1, PTL DEF Spec

(* As long as one file of the journal at most was lost, a command mutates  *)
(* each surface at most once and the second one only when the first went   *)
(* well: for all processes and commands, whatever crashes, is retried or   *)
(* fails to be written.                                                    *)
THEOREM MutatesOnceInOrder == Spec => [](OneLoss => MutatesInOrder)
<1>1. IInv => (OneLoss => MutatesInOrder)
  BY DEF IInv, DataOK, Evidence, MutatesInOrder
<1> QED
  BY <1>1, Invariance, PTL

(* And no answer contradicts what was done to a surface.                   *)
THEOREM AnswersAreTruthful == Spec => [](OneLoss => Truthful)
<1>1. IInv => (OneLoss => Truthful)
  <2> SUFFICES ASSUME IInv, OneLoss, NEW t \in told, NEW s \in Surfaces
               PROVE  /\ t.result[s] = "succeeded" => s \in changed[t.cmd]
                      /\ t.result[s] = "skipped" => s \notin changed[t.cmd]
    BY DEF Truthful
  <2>1. t.cmd \in Cmds /\ Settles(t.cmd, t.result)
    BY DEF IInv, DataOK, Evidence, Settled
  <2> QED
    BY <2>1 DEF IInv, Evidence, Caused, Settles
<1> QED
  BY <1>1, Invariance, PTL

(* The file records that survive are those of the turns of the thread, as  *)
(* long as no context gave its checkpoints up and no process died between  *)
(* a turn's acceptance and its slot; however many rollbacks, files, turns  *)
(* and other crashes there are.                                            *)
THEOREM RecordsStayAligned == Spec => []Aligned
<1>1. IInv => Aligned
  BY DEF IInv, AlignedInv
<1> QED
  BY <1>1, Invariance, PTL
=============================================================================
