---------------------------- MODULE Replay_proofs --------------------------
(***************************************************************************)
(* Proofs about RingLog, for all budgets, event sizes, lengths of the log  *)
(* and numbers of turns, and about SessionReplay, for all numbers of       *)
(* browsers, events, lives, connections and link losses.  Both rest on     *)
(* what Appended does to a ring.                                           *)
(***************************************************************************)
EXTENDS RingLog, SessionReplay, FiniteSetTheorems, WellFoundedInduction, TLAPS

(* A record with the four fields of a ring.                                *)
IsRing(r) == DOMAIN r = {"buf", "bytes", "tail", "dropped"}

-----------------------------------------------------------------------------
(* What append does to a well-formed ring: it keeps a suffix of the old    *)
(* events and the new one, drops nothing above dropped, and dropped moves  *)
(* forward exactly to an event it does not keep.                           *)
LEMMA AppendedFacts ==
  ASSUME NEW r, NEW e, NEW n \in Nat, NEW after \in Appended(r, e),
         IsRing(r), r.tail = n, e.seq = n + 1, e.size \in Nat,
         Seqs(r) \subseteq 1..n, r.dropped \in 0..n,
         r.dropped > 0 => r.dropped \notin Seqs(r)
  PROVE  /\ IsRing(after)
         /\ after.tail = n + 1
         /\ after.buf \subseteq r.buf \cup {e}
         /\ after.dropped \in r.dropped..(n + 1)
         /\ \A x \in r.buf \cup {e} : x.seq > after.dropped => x \in after.buf
         /\ after.dropped > 0 => after.dropped \notin Seqs(after)
<1>a. MaxBytes \in Nat
  BY RingAssumption
<1>s. \A x \in r.buf : x.seq \in 1..n
  BY DEF Seqs
<1>1. CASE e.size > MaxBytes
  <2>1. after = [Offered(r, e) EXCEPT !.dropped = Bigger(@, e.seq)]
    BY <1>1 DEF Appended
  <2>2. /\ IsRing(after)
        /\ after.tail = n + 1
        /\ after.buf = r.buf
        /\ after.dropped = n + 1
    BY <2>1 DEF IsRing, Offered, Bigger
  <2>3. Seqs(after) = Seqs(r)
    BY <2>2 DEF Seqs
  <2> QED
    BY <2>2, <2>3, <1>s
<1>2. CASE ~(e.size > MaxBytes)
  <2> DEFINE b == r.buf \cup {e}
  <2>1. PICK cut \in {0} \cup {x.seq : x \in b} :
          after = PopTo(Offered(r, e), b, r.bytes + e.size, cut)
    BY <1>2 DEF Appended
  <2>2. \A x \in b : x.seq \in 1..(n + 1)
    BY <1>s
  <2>3. cut \in 0..(n + 1)
    BY <2>1, <2>2
  <2>4. /\ Offered(r, e).tail = n + 1
        /\ Offered(r, e).dropped = r.dropped
    BY DEF IsRing, Offered, Bigger
  <2>5. /\ IsRing(after)
        /\ after.buf = Kept(b, cut)
        /\ after.tail = n + 1
        /\ after.dropped = Bigger(r.dropped, cut)
    BY <2>1, <2>4 DEF PopTo, IsRing
  <2>6. /\ after.buf \subseteq b
        /\ \A x \in b : x.seq > cut => x \in after.buf
        /\ \A x \in after.buf : x.seq > cut
    BY <2>5 DEF Kept
  <2>7. after.dropped \in r.dropped..(n + 1) /\ after.dropped >= cut
    BY <2>3, <2>5 DEF Bigger
  <2>8. \A x \in b : x.seq > after.dropped => x \in after.buf
    BY <2>2, <2>3, <2>6, <2>7
  <2>9. ASSUME after.dropped > 0, after.dropped \in Seqs(after)
        PROVE  FALSE
    <3>1. PICK x \in after.buf : x.seq = after.dropped
      BY <2>9 DEF Seqs
    <3>2. x.seq > cut /\ x \in b
      BY <2>6
    <3>3. after.dropped = r.dropped
      BY <3>1, <3>2, <2>3, <2>5 DEF Bigger
    <3>4. x \in r.buf
      BY <3>1, <3>2, <3>3
    <3> QED
      BY <2>9, <3>1, <3>3, <3>4 DEF Seqs
  <2> QED
    BY <2>5, <2>6, <2>7, <2>8, <2>9
<1> QED
  BY <1>1, <1>2

-----------------------------------------------------------------------------
(* One emit, whatever turn it belongs to: the new ring is well formed, all *)
(* it holds is what it held before and the one new event.                  *)
LEMMA EmitFacts ==
  ASSUME LogInv, NEW kind \in {"user", "binding", "other"},
         NEW msg \in 0..MaxTurn, Emit(kind, msg)
  PROVE  /\ seq' = seq + 1 /\ seq' \in 0..MaxEmitted
         /\ IsRing(buffer') /\ buffer'.buf \subseteq Events
         /\ RingInv'
         /\ buffer'.dropped \in buffer.dropped..seq'
         /\ \E e \in Events :
              /\ e.seq = seq + 1 /\ e.kind = kind /\ e.msg = msg
              /\ buffer'.buf \subseteq buffer.buf \cup {e}
              /\ \A x \in buffer.buf \cup {e} :
                   x.seq > buffer'.dropped => x \in buffer'.buf
<1>1. PICK size \in Sizes :
        buffer' \in Appended(buffer, [seq |-> seq + 1, size |-> size,
                                      kind |-> kind, msg |-> msg])
  BY DEF Emit
<1> DEFINE e == [seq |-> seq + 1, size |-> size, kind |-> kind, msg |-> msg]
<1>2. seq' = seq + 1 /\ seq' \in 0..MaxEmitted /\ seq \in Nat
  BY LogAssumption DEF Emit, LogInv, LogTypeOK
<1>3. /\ e \in Events /\ e.seq = seq + 1 /\ e.kind = kind /\ e.msg = msg
      /\ e.size \in Nat
  BY <1>2, LogAssumption DEF Events
<1>4. /\ IsRing(buffer') /\ buffer'.tail = seq + 1
      /\ buffer'.buf \subseteq buffer.buf \cup {e}
      /\ buffer'.dropped \in buffer.dropped..(seq + 1)
      /\ \A x \in buffer.buf \cup {e} : x.seq > buffer'.dropped => x \in buffer'.buf
      /\ buffer'.dropped > 0 => buffer'.dropped \notin Seqs(buffer')
  <2>1. /\ IsRing(buffer) /\ buffer.tail = seq
        /\ Seqs(buffer) \subseteq 1..seq /\ buffer.dropped \in 0..seq
        /\ buffer.dropped > 0 => buffer.dropped \notin Seqs(buffer)
    BY DEF LogInv, LogTypeOK, RingInv, IsRing
  <2> HIDE DEF e
  <2> QED
    BY <1>1, <1>2, <1>3, <2>1, AppendedFacts DEF e
<1>5. RingInv'
  <2>1. Seqs(buffer') \subseteq 1..seq'
    <3>1. \A x \in buffer.buf : x.seq \in 1..seq
      BY DEF LogInv, RingInv, Seqs
    <3> QED
      BY <1>2, <1>3, <1>4, <3>1 DEF Seqs
  <2>2. buffer'.dropped \in 0..seq'
    BY <1>2, <1>4 DEF LogInv, RingInv
  <2>3. ASSUME NEW s \in (buffer'.dropped + 1)..seq'
        PROVE  s \in Seqs(buffer')
    <3>1. s > buffer'.dropped /\ s \in Nat /\ s > buffer.dropped
      BY <2>2, <1>2, <1>4 DEF LogInv, RingInv
    <3>2. CASE s = seq + 1
      BY <3>1, <3>2, <1>3, <1>4 DEF Seqs
    <3>3. CASE s # seq + 1
      <4>1. s \in (buffer.dropped + 1)..seq
        BY <3>1, <3>3, <1>2 DEF LogInv, RingInv
      <4>2. PICK x \in buffer.buf : x.seq = s
        BY <4>1 DEF LogInv, RingInv, Seqs
      <4> QED
        BY <3>1, <4>2, <1>4 DEF Seqs
    <3> QED
      BY <3>2, <3>3
  <2> QED
    BY <1>2, <1>4, <2>1, <2>2, <2>3 DEF RingInv
<1> HIDE DEF e
<1>6. buffer'.buf \subseteq Events
  BY <1>3, <1>4 DEF LogInv, LogTypeOK
<1> QED
  BY <1>2, <1>3, <1>4, <1>5, <1>6

-----------------------------------------------------------------------------
(* A new session satisfies the invariant: its ring is empty and no turn     *)
(* is running.                                                             *)
THEOREM InitInv == LogInit => LogInv
<1> SUFFICES ASSUME LogInit PROVE LogInv
  OBVIOUS
<1>1. LogTypeOK
  <2>1. /\ DOMAIN buffer = {"buf", "bytes", "tail", "dropped"}
        /\ buffer.buf = {} /\ buffer.tail = 0 /\ buffer.dropped = 0
    BY DEF LogInit, EmptyRing
  <2>2. 0 \in 0..MaxEmitted /\ 0 \in 0..MaxTurn
    BY LogAssumption
  <2>3. /\ seq \in 0..MaxEmitted /\ turn \in 0..MaxTurn
        /\ binding \in 0..MaxEmitted /\ first \in 0..MaxEmitted
    BY <2>2 DEF LogInit
  <2>4. buffer.buf \subseteq Events /\ buffer.tail \in Nat /\ buffer.dropped \in Nat
    BY <2>1
  <2>5. /\ running \in BOOLEAN /\ followup \in BOOLEAN /\ marked \in BOOLEAN
        /\ engine \in {"claude", "codex"} /\ endings \in Nat
        /\ active \in {Unnamed, turn} /\ owner \in 0..MaxTurn
    BY <2>2 DEF LogInit, Unnamed
  <2> QED
    BY <2>1, <2>3, <2>4, <2>5, Zenon DEF LogTypeOK
<1>2. RingInv
  BY DEF LogInit, RingInv, EmptyRing, Seqs
<1>3. TurnInv
  BY DEF LogInit, TurnInv, EmptyRing, Markers
<1> QED
  BY <1>1, <1>2, <1>3 DEF LogInv

(* Emitting anything but a user marker leaves the last marker where it     *)
(* was, retained or passed by dropped; a claim makes it an older turn's.   *)
LEMMA SameMarker ==
  ASSUME LogInv, NEW kind \in {"binding", "other"}, NEW msg \in 0..MaxTurn,
         Emit(kind, msg), first' = first,
         (turn' = turn /\ marked' = marked) \/ (turn' = turn + 1 /\ ~marked'),
         \/ binding' = 0
         \/ /\ running' /\ marked' /\ engine' = "codex"
            /\ owner' = turn' /\ binding' \in first..(seq + 1)
  PROVE  TurnInv'
<1>0. /\ seq \in Nat /\ turn \in Nat /\ first \in 0..seq
      /\ buffer.dropped \in 0..seq
  BY LogAssumption DEF LogInv, LogTypeOK, TurnInv, RingInv
<1>1. PICK e \in Events :
        /\ e.kind = kind
        /\ buffer'.buf \subseteq buffer.buf \cup {e}
        /\ \A x \in buffer.buf \cup {e} :
             x.seq > buffer'.dropped => x \in buffer'.buf
  BY EmitFacts
<1>2. seq' = seq + 1 /\ buffer'.dropped \in buffer.dropped..seq'
  BY EmitFacts
<1>3. first' \in 0..seq'
  BY <1>0, <1>2
<1>4. marked' => first' > 0
  BY DEF LogInv, TurnInv
<1>5. binding' # 0 =>
        /\ running' /\ marked' /\ engine' = "codex"
        /\ owner' = turn' /\ binding' \in first'..seq'
  BY <1>2
<1>6. ASSUME NEW x \in buffer'.buf, x.kind = "user"
      PROVE  /\ x.msg <= turn' /\ x.seq <= first'
             /\ x.msg = turn' /\ turn' > 0 => marked' /\ x.seq = first'
  <2>1. x \in buffer.buf /\ x.msg \in Nat
    BY <1>1, <1>6 DEF LogInv, LogTypeOK, Events
  <2>2. /\ x.msg <= turn /\ x.seq <= first
        /\ x.msg = turn /\ turn > 0 => marked /\ x.seq = first
    BY <1>6, <2>1 DEF LogInv, TurnInv
  <2> QED
    BY <1>0, <2>1, <2>2
<1>7. ASSUME buffer'.dropped < first'
      PROVE  \E x \in Markers(buffer, Unnamed)' : x.seq = first'
  <2>1. buffer.dropped < first
    BY <1>0, <1>2, <1>7
  <2>2. PICK x \in Markers(buffer, Unnamed) : x.seq = first
    BY <2>1 DEF LogInv, TurnInv
  <2>3. x \in buffer.buf /\ x.kind = "user" /\ x.seq > buffer'.dropped
    BY <1>0, <1>2, <1>7, <2>2 DEF Markers
  <2> QED
    BY <1>1, <2>2, <2>3 DEF Markers
<1> QED
  BY <1>3, <1>4, <1>5, <1>6, <1>7 DEF TurnInv

(* A user marker becomes the last one, and the one of a turn that had none *)
(* or, published without its name, of no turn.                             *)
LEMMA NewMarker ==
  ASSUME LogInv, NEW msg \in 0..MaxTurn, EmitMarker(msg),
         turn' \in Nat, turn' >= turn, msg \in {Unnamed, turn'},
         \A x \in buffer.buf : ~(x.kind = "user" /\ x.msg = turn' /\ turn' > 0),
         \/ binding' = 0
         \/ /\ running' /\ engine' = "codex"
            /\ owner' = turn' /\ binding' = seq + 1
  PROVE  TurnInv'
<1>0. seq \in Nat /\ turn \in Nat /\ first \in 0..seq
  BY LogAssumption DEF LogInv, LogTypeOK, TurnInv
<1>e. Emit("user", msg) /\ marked' = TRUE /\ first' = seq + 1
  BY DEF EmitMarker
<1>1. PICK e \in Events :
        /\ e.seq = seq + 1 /\ e.kind = "user" /\ e.msg = msg
        /\ buffer'.buf \subseteq buffer.buf \cup {e}
        /\ \A x \in buffer.buf \cup {e} :
             x.seq > buffer'.dropped => x \in buffer'.buf
  BY <1>e, EmitFacts
<1>2. seq' = seq + 1 /\ buffer'.dropped \in buffer.dropped..seq'
  BY <1>e, EmitFacts
<1>3. first' \in 0..seq' /\ first' > 0
  BY <1>0, <1>2, <1>e
<1>4. binding' # 0 =>
        /\ running' /\ marked' /\ engine' = "codex"
        /\ owner' = turn' /\ binding' \in first'..seq'
  BY <1>0, <1>2, <1>e
<1>5. ASSUME NEW x \in buffer'.buf, x.kind = "user"
      PROVE  /\ x.msg <= turn' /\ x.seq <= first'
             /\ x.msg = turn' /\ turn' > 0 => marked' /\ x.seq = first'
  <2>1. CASE x = e
    BY <1>0, <1>1, <1>e, <2>1 DEF Unnamed
  <2>2. CASE x \in buffer.buf
    <3>1. /\ x.msg \in Nat /\ x.seq \in Nat
          /\ x.msg <= turn /\ x.seq <= first
      BY <1>5, <2>2 DEF LogInv, LogTypeOK, TurnInv, Events
    <3>2. ~(x.msg = turn' /\ turn' > 0)
      BY <1>5, <2>2
    <3> QED
      BY <1>0, <1>e, <3>1, <3>2
  <2> QED
    BY <1>1, <2>1, <2>2
<1>6. buffer'.dropped < first' =>
        \E x \in Markers(buffer, Unnamed)' : x.seq = first'
  <2>1. buffer'.dropped \in Int
    BY <1>0, <1>2 DEF LogInv, RingInv
  <2> QED
    BY <1>0, <1>1, <1>e, <2>1 DEF Markers
<1> QED
  BY <1>3, <1>4, <1>5, <1>6 DEF TurnInv

-----------------------------------------------------------------------------
(* One emit keeps the type of the session's numbering and of its ring.     *)
LEMMA EmitType ==
  ASSUME LogInv, NEW kind \in {"user", "binding", "other"},
         NEW msg \in 0..MaxTurn, Emit(kind, msg),
         engine' = engine, turn' \in 0..MaxTurn, active' \in {Unnamed, turn'},
         running' \in BOOLEAN, followup' \in BOOLEAN, marked' \in BOOLEAN,
         endings' \in Nat, owner' \in 0..MaxTurn,
         binding' \in {0, binding, seq + 1}, first' \in {first, seq + 1}
  PROVE  LogTypeOK'
<1>1. /\ seq' = seq + 1 /\ seq' \in 0..MaxEmitted
      /\ IsRing(buffer') /\ buffer'.buf \subseteq Events /\ RingInv'
  BY EmitFacts
<1>2. buffer'.tail \in Nat /\ buffer'.dropped \in Nat
  BY <1>1 DEF RingInv
<1>3. binding' \in 0..MaxEmitted /\ first' \in 0..MaxEmitted
  BY <1>1, LogAssumption DEF LogInv, LogTypeOK
<1>4. engine' \in {"claude", "codex"}
  BY DEF LogInv, LogTypeOK
<1> QED
  BY <1>1, <1>2, <1>3, <1>4, Zenon DEF LogTypeOK, IsRing

(* Every step of the session keeps the invariant: each claim, marker,      *)
(* binding, steer, other event, turn end, idle state and late reset, and   *)
(* each follow-up.                                                         *)
THEOREM StepInv == LogInv /\ [LogNext]_logVars => LogInv'
<1> SUFFICES ASSUME LogInv, [LogNext]_logVars PROVE LogInv'
  OBVIOUS
<1>t. /\ turn \in 0..MaxTurn /\ turn \in Nat /\ seq \in Nat
      /\ running \in BOOLEAN /\ followup \in BOOLEAN /\ marked \in BOOLEAN
      /\ active \in {Unnamed, turn} /\ active \in 0..MaxTurn
      /\ endings \in Nat /\ owner \in 0..MaxTurn
      /\ Unnamed \in 0..MaxTurn
  BY LogAssumption DEF LogInv, LogTypeOK, Unnamed
<1>b. binding # 0 => /\ running /\ marked /\ engine = "codex"
                     /\ owner = turn /\ binding \in first..seq
  BY DEF LogInv, TurnInv
<1>k. first \in 0..seq
  BY DEF LogInv, TurnInv
<1>1. CASE ClaimTurn
  <2>e. Emit("other", Unnamed)
    BY <1>1 DEF ClaimTurn
  <2>1. turn' \in 0..MaxTurn /\ turn' = turn + 1 /\ active' = turn'
    BY <1>1, <1>t, LogAssumption DEF ClaimTurn
  <2>2. LogTypeOK'
    BY <1>1, <1>t, <2>e, <2>1, EmitType DEF ClaimTurn, turnBinding
  <2>3. RingInv'
    BY <1>t, <2>e, EmitFacts
  <2>4. binding' = 0 /\ marked' = FALSE /\ first' = first
    BY <1>1, <1>b DEF ClaimTurn, turnBinding
  <2>5. TurnInv'
    BY <1>t, <2>e, <2>1, <2>4, SameMarker
  <2> QED
    BY <2>2, <2>3, <2>5 DEF LogInv
<1>2. CASE EmitUserMsg
  <2>e. EmitMarker(active) /\ Emit("user", active)
    BY <1>2 DEF EmitUserMsg, EmitMarker
  <2>1. LogTypeOK'
    BY <1>2, <1>t, <2>e, EmitType DEF EmitUserMsg, EmitMarker, task, turnBinding
  <2>2. RingInv'
    BY <1>t, <2>e, EmitFacts
  <2>3. TurnInv'
    <3>1. turn' = turn /\ binding' = 0
      BY <1>2, <1>b DEF EmitUserMsg, task, turnBinding
    <3>2. \A x \in buffer.buf : ~(x.kind = "user" /\ x.msg = turn' /\ turn' > 0)
      BY <1>2, <3>1 DEF EmitUserMsg, LogInv, TurnInv
    <3> QED
      BY <1>t, <2>e, <3>1, <3>2, NewMarker
  <2> QED
    BY <2>1, <2>2, <2>3 DEF LogInv
<1>3. CASE EmitBinding
  <2>e. Emit("binding", active) /\ active = turn
    BY <1>3, <1>t DEF EmitBinding
  <2>1. LogTypeOK'
    BY <1>3, <1>t, <2>e, EmitType DEF EmitBinding, Bind, task
  <2>2. RingInv'
    BY <1>t, <2>e, EmitFacts
  <2>3. /\ first' = first /\ turn' = turn /\ marked' = marked
        /\ running' /\ marked' /\ engine' = "codex"
        /\ owner' = turn' /\ binding' = seq + 1
    BY <1>3, <2>e DEF EmitBinding, Bind, task
  <2>4. TurnInv'
    <3>1. binding' \in first..(seq + 1)
      BY <1>t, <1>k, <2>3
    <3> QED
      BY <1>t, <2>e, <2>3, <3>1, SameMarker
  <2> QED
    BY <2>1, <2>2, <2>4 DEF LogInv
<1>4. CASE EmitSteered
  <2>1. turn' \in 0..MaxTurn /\ turn' = turn + 1 /\ active' = turn'
    BY <1>4, <1>t, LogAssumption DEF EmitSteered
  <2>e. EmitMarker(turn') /\ Emit("user", turn')
    BY <1>4, <2>1 DEF EmitSteered, EmitMarker
  <2>2. LogTypeOK'
    BY <1>4, <1>t, <2>1, <2>e, EmitType DEF EmitSteered, EmitMarker, Bind
  <2>3. RingInv'
    BY <2>1, <2>e, EmitFacts
  <2>4. TurnInv'
    <3>1. ASSUME NEW x \in buffer.buf, x.kind = "user", x.msg = turn'
          PROVE  FALSE
      <4>1. x.msg \in Nat /\ x.msg <= turn
        BY <3>1 DEF LogInv, LogTypeOK, TurnInv, Events
      <4> QED
        BY <1>t, <2>1, <3>1, <4>1
    <3>2. turn' >= turn /\ turn' \in Nat
      BY <1>t, <2>1
    <3>3. running' /\ engine' = "codex" /\ owner' = turn' /\ binding' = seq + 1
      BY <1>4, <2>1 DEF EmitSteered, Bind
    <3> QED
      BY <2>1, <2>e, <3>1, <3>2, <3>3, NewMarker
  <2> QED
    BY <2>2, <2>3, <2>4 DEF LogInv
<1>5. CASE EmitOther
  <2>e. Emit("other", Unnamed)
    BY <1>5 DEF EmitOther
  <2>1. LogTypeOK'
    BY <1>5, <1>t, <2>e, EmitType DEF EmitOther, task, turnBinding
  <2>2. RingInv'
    BY <1>t, <2>e, EmitFacts
  <2>3. /\ first' = first /\ turn' = turn /\ marked' = marked
        /\ running' = running /\ engine' = engine
        /\ owner' = owner /\ binding' = binding
    BY <1>5 DEF EmitOther, task, turnBinding
  <2>4. TurnInv'
    <3>1. binding' # 0 => binding' \in first..(seq + 1)
      BY <1>b, <1>t, <1>k, <2>3
    <3> QED
      BY <1>b, <1>t, <2>e, <2>3, <3>1, SameMarker
  <2> QED
    BY <2>1, <2>2, <2>4 DEF LogInv
<1>6. CASE EmitTurnEndMsg
  <2>e. Emit("other", Unnamed)
    BY <1>6 DEF EmitTurnEndMsg
  <2>1. LogTypeOK'
    BY <1>6, <1>t, <2>e, EmitType DEF EmitTurnEndMsg, Unbind, task
  <2>2. RingInv'
    BY <1>t, <2>e, EmitFacts
  <2>3. first' = first /\ turn' = turn /\ marked' = marked /\ binding' = 0
    BY <1>6 DEF EmitTurnEndMsg, Unbind, task
  <2>4. TurnInv'
    BY <1>t, <2>e, <2>3, SameMarker
  <2> QED
    BY <2>1, <2>2, <2>4 DEF LogInv
<1>7. CASE EmitIdle
  <2>e. Emit("other", Unnamed)
    BY <1>7 DEF EmitIdle
  <2>1. LogTypeOK'
    <3>1. /\ engine' = engine /\ turn' = turn /\ active' = active
          /\ running' = FALSE /\ followup' = followup /\ marked' = marked
          /\ endings' \in Nat /\ owner' = Unnamed /\ binding' = 0
          /\ first' = first
      BY <1>7, <1>t DEF EmitIdle, Unbind
    <3> QED
      BY <1>t, <2>e, <3>1, EmitType
  <2>2. RingInv'
    BY <1>t, <2>e, EmitFacts
  <2>3. first' = first /\ turn' = turn /\ marked' = marked /\ binding' = 0
    BY <1>7 DEF EmitIdle, Unbind
  <2>4. TurnInv'
    BY <1>t, <2>e, <2>3, SameMarker
  <2> QED
    BY <2>1, <2>2, <2>4 DEF LogInv
<1>8. CASE Finish \/ GiveWay
  <2>1. LogTypeOK'
    <3>1. /\ seq' = seq /\ buffer' = buffer /\ engine' = engine /\ turn' = turn
          /\ running' = running /\ binding' = binding /\ owner' = owner
          /\ marked' = marked /\ first' = first
      BY <1>8 DEF Finish, GiveWay, turnBinding
    <3>2. /\ followup' = TRUE \/ followup' = followup
          /\ active' = Unnamed \/ active' = active
          /\ endings' \in Nat
      BY <1>8, <1>t DEF Finish, GiveWay
    <3> QED
      BY <1>t, <3>1, <3>2 DEF LogInv, LogTypeOK
  <2>2. RingInv'
    BY <1>8 DEF Finish, GiveWay, LogInv, RingInv, Seqs
  <2>3. TurnInv'
    BY <1>8 DEF Finish, GiveWay, turnBinding, LogInv, TurnInv, Markers
  <2> QED
    BY <2>1, <2>2, <2>3 DEF LogInv
<1>9. CASE FollowUp
  <2>e. Emit("other", Unnamed)
    BY <1>9 DEF FollowUp
  <2>1. LogTypeOK'
    BY <1>9, <1>t, <2>e, EmitType DEF FollowUp, turnBinding
  <2>2. RingInv'
    BY <1>t, <2>e, EmitFacts
  <2>3. first' = first /\ turn' = turn /\ marked' = marked /\ binding' = 0
    BY <1>9, <1>b DEF FollowUp, turnBinding
  <2>4. TurnInv'
    BY <1>t, <2>e, <2>3, SameMarker
  <2> QED
    BY <2>1, <2>2, <2>4 DEF LogInv
<1>10. CASE SettleFollowUp
  <2>e. Emit("other", Unnamed)
    BY <1>10 DEF SettleFollowUp
  <2>1. LogTypeOK'
    BY <1>10, <1>t, <2>e, EmitType DEF SettleFollowUp, Unbind
  <2>2. RingInv'
    BY <1>t, <2>e, EmitFacts
  <2>3. first' = first /\ turn' = turn /\ marked' = marked /\ binding' = 0
    BY <1>10 DEF SettleFollowUp, Unbind
  <2>4. TurnInv'
    BY <1>t, <2>e, <2>3, SameMarker
  <2> QED
    BY <2>1, <2>2, <2>4 DEF LogInv
<1>11. CASE UNCHANGED logVars
  BY <1>11 DEF logVars, task, turnBinding, LogInv, LogTypeOK, RingInv, TurnInv,
               Seqs, Markers
<1> QED
  BY <1>1, <1>2, <1>3, <1>4, <1>5, <1>6, <1>7, <1>8, <1>9, <1>10, <1>11
     DEF LogNext

(* The invariant holds in every reachable state.                           *)
THEOREM Invariance == LogSpec => []LogInv
BY InitInv, StepInv, PTL DEF LogSpec

-----------------------------------------------------------------------------
(* What the invariant says about the events after a cursor: dropped is the *)
(* last one missing.                                                       *)
LEMMA MissingAfter ==
  ASSUME LogInv, NEW from \in 0..seq
  PROVE  {s \in Seqs(buffer) : s > from} # (from + 1)..seq
           <=> from < buffer.dropped
<1>0. seq \in Nat /\ buffer.dropped \in 0..seq /\ from \in Nat
  BY LogAssumption DEF LogInv, LogTypeOK, RingInv
<1>1. ASSUME from < buffer.dropped
      PROVE  {s \in Seqs(buffer) : s > from} # (from + 1)..seq
  <2>1. buffer.dropped \in (from + 1)..seq /\ buffer.dropped \notin Seqs(buffer)
    BY <1>0, <1>1 DEF LogInv, RingInv
  <2> QED
    BY <2>1
<1>2. ASSUME ~(from < buffer.dropped)
      PROVE  {s \in Seqs(buffer) : s > from} = (from + 1)..seq
  <2>1. \A s \in (from + 1)..seq : s \in Seqs(buffer) /\ s > from
    BY <1>0, <1>2 DEF LogInv, RingInv
  <2>2. \A s \in Seqs(buffer) : s > from => s \in (from + 1)..seq
    BY <1>0 DEF LogInv, RingInv
  <2> QED
    BY <2>1, <2>2
<1> QED
  BY <1>1, <1>2

(* The two tests of replay_from, a head beyond the cursor and a hole after *)
(* it, say together exactly that dropped has passed the cursor.            *)
LEMMA TruncatedAfter ==
  ASSUME LogInv, NEW from \in 0..seq
  PROVE  Truncated(buffer, from) <=> from < buffer.dropped
<1>0. seq \in Nat /\ buffer.dropped \in 0..seq /\ from \in Nat /\ buffer.tail = seq
  BY LogAssumption DEF LogInv, LogTypeOK, RingInv
<1>1. HasGapAfter(buffer, from) <=> from < buffer.dropped
  BY <1>0 DEF HasGapAfter
<1>2. ASSUME HeadBeyond(buffer, from + 1) PROVE from < buffer.dropped
  <2>1. PICK x \in buffer.buf : x.seq > from + 1
    BY <1>2 DEF HeadBeyond
  <2>2. from + 1 \in 1..seq /\ from + 1 \notin Seqs(buffer)
    <3>1. x.seq \in 1..seq
      BY DEF LogInv, RingInv, Seqs
    <3>2. \A y \in buffer.buf : y.seq # from + 1
      BY <1>2, <1>0 DEF HeadBeyond, LogInv, RingInv, Seqs
    <3> QED
      BY <1>0, <2>1, <3>1, <3>2 DEF Seqs
  <2> QED
    BY <1>0, <2>2 DEF LogInv, RingInv
<1> QED
  BY <1>1, <1>2 DEF Truncated

(* A client that names a cursor is told exactly the truth: truncated if    *)
(* and only if an event after its cursor is missing from the reply.        *)
THEOREM ReplayExactness == LogSpec => []ReplayExact
<1>1. LogInv => ReplayExact
  <2> SUFFICES ASSUME LogInv, NEW from \in 0..seq
               PROVE  LET reply == ReplayFrom(buffer, from, FALSE)
                      IN /\ reply.to = seq
                         /\ ~reply.rebuild
                         /\ reply.truncated <=> reply.body # (from + 1)..seq
    BY DEF ReplayExact
  <2> DEFINE have == {s \in Seqs(buffer) : s > from}
             reply == ReplayFrom(buffer, from, FALSE)
  <2>0. seq \in Nat /\ buffer.dropped \in 0..seq /\ from \in Nat /\ buffer.tail = seq
    BY LogAssumption DEF LogInv, LogTypeOK, RingInv
  <2>1. /\ reply.to = seq /\ reply.rebuild = FALSE /\ reply.body = have
        /\ reply.truncated = Truncated(buffer, from)
    BY <2>0 DEF ReplayFrom, Envelope
  <2>2. Truncated(buffer, from) <=> from < buffer.dropped
    BY TruncatedAfter
  <2>3. have # (from + 1)..seq <=> from < buffer.dropped
    BY MissingAfter
  <2> QED
    BY <2>1, <2>2, <2>3
<1> QED
  BY <1>1, Invariance, PTL

(* A rebuild says truncated if and only if it is not the whole session.    *)
THEOREM RebuildExactness == LogSpec => []RebuildExact
<1>1. LogInv => RebuildExact
  <2> SUFFICES ASSUME LogInv, NEW from \in 0..seq + 1
               PROVE  LET reply == ReplayFrom(buffer, from, from <= seq)
                      IN /\ reply.rebuild
                         /\ reply.truncated <=> reply.body # 1..seq
    BY DEF RebuildExact
  <2>0. seq \in Nat /\ buffer.dropped \in 0..seq /\ buffer.tail = seq
    BY LogAssumption DEF LogInv, LogTypeOK, RingInv
  <2>1. ReplayFrom(buffer, from, from <= seq) = WholeBuffer(buffer)
    <3>1. from <= seq \/ from > buffer.tail
      BY <2>0
    <3> QED
      BY <3>1, Zenon DEF ReplayFrom
  <2>2. /\ WholeBuffer(buffer).rebuild = TRUE
        /\ WholeBuffer(buffer).body = Seqs(buffer)
        /\ WholeBuffer(buffer).truncated = (buffer.dropped > 0)
    BY DEF WholeBuffer, Envelope
  <2>3. {s \in Seqs(buffer) : s > 0} = Seqs(buffer)
    BY <2>0 DEF LogInv, RingInv
  <2>4. Seqs(buffer) # 1..seq <=> 0 < buffer.dropped
    <3>1. 0 \in 0..seq /\ 0 + 1 = 1
      BY <2>0
    <3>2. {s \in Seqs(buffer) : s > 0} # (0 + 1)..seq <=> 0 < buffer.dropped
      BY <3>1, MissingAfter
    <3> QED
      BY <2>3, <3>1, <3>2
  <2> QED
    BY <2>0, <2>1, <2>2, <2>4
<1> QED
  BY <1>1, Invariance, PTL

(* A reply that starts at the last marker shows nothing older and is       *)
(* complete unless it says truncated.                                      *)
LEMMA FromFirst ==
  ASSUME LogInv, first \in 1..seq
  PROVE  LET reply == FromMarker(buffer, first)
         IN /\ reply.body \subseteq first..seq
            /\ reply.truncated \/ reply.body = first..seq
            /\ reply.to = seq
<1> DEFINE reply == FromMarker(buffer, first)
<1>0. /\ seq \in Nat /\ buffer.dropped \in 0..seq /\ buffer.tail = seq
      /\ Seqs(buffer) \subseteq 1..seq
  BY LogAssumption DEF LogInv, LogTypeOK, RingInv
<1>1. /\ reply.to = seq
      /\ reply.body = {s \in Seqs(buffer) : s >= first}
      /\ reply.truncated = (buffer.dropped >= first)
  BY <1>0 DEF FromMarker, Envelope
<1>2. ASSUME ~(buffer.dropped >= first) PROVE reply.body = first..seq
  <2>1. \A s \in first..seq : s \in Seqs(buffer) /\ s >= first
    BY <1>0, <1>2 DEF LogInv, RingInv
  <2> QED
    BY <1>0, <1>1, <2>1
<1>3. reply.body \subseteq first..seq
  BY <1>0, <1>1
<1> QED
  BY <1>1, <1>2, <1>3

(* The newest marker of a set all of whose markers are at or before first  *)
(* and one of which is at first.                                           *)
LEMMA NewestIsFirst ==
  ASSUME NEW marks, first \in marks, first \in Int, \A s \in marks : first >= s
  PROVE  Max(marks) = first
<1>1. \A m \in marks : (\A s \in marks : m >= s) => m >= first
  OBVIOUS
<1>2. ASSUME NEW m \in marks, \A s \in marks : m >= s PROVE m = first
  BY <1>2
<1> QED
  BY <1>2 DEF Max

(* A client that arrives during a turn sees that turn and nothing older,   *)
(* complete unless it is told otherwise, whatever was evicted and even     *)
(* while the wrapper has no prompt to ask for, unless the turn has no      *)
(* marker yet or its marker was never retained and an older one is.        *)
THEOREM CurrentTurnExactness == LogSpec => []CurrentTurnOnly
<1>1. LogInv => CurrentTurnOnly
  <2> SUFFICES ASSUME LogInv, AskedFor # Unnamed \/ ~(Preflight \/ Hidden),
                      NEW reply \in Replies
               PROVE  /\ ~Preflight
                      /\ reply.body \subseteq first..seq
                      /\ reply.truncated \/ reply.body = first..seq
                      /\ reply.to = seq
    BY DEF CurrentTurnOnly
  <2>0. /\ seq \in Nat /\ buffer.dropped \in 0..seq /\ buffer.tail = seq
        /\ first \in 0..seq /\ binding \in Nat /\ turn \in Nat
        /\ Seqs(buffer) \subseteq 1..seq
        /\ marked => first \in 1..seq
    BY LogAssumption DEF LogInv, LogTypeOK, RingInv, TurnInv
  <2>r. reply \in CurrentTurn(buffer, AskedFor, binding)
    BY DEF Replies
  <2> DEFINE marks == {e.seq : e \in Markers(buffer, AskedFor)}
  <2>m. ASSUME Markers(buffer, AskedFor) # {}
        PROVE  reply = FromMarker(buffer, Max(marks))
    BY <2>r, <2>m, Zenon DEF CurrentTurn
  <2>1. CASE AskedFor # Unnamed
    <3>1. AskedFor = turn /\ turn > 0
      BY <2>0, <2>1 DEF AskedFor, LogInv, LogTypeOK, TurnInv, Unnamed
    <3>2. CASE Markers(buffer, AskedFor) # {}
      <4>1. marked /\ marks = {first}
        BY <2>1, <3>1, <3>2 DEF Markers, LogInv, TurnInv
      <4>2. Max(marks) = first
        BY <2>0, <4>1, NewestIsFirst
      <4> QED
        BY <2>0, <2>m, <3>2, <4>1, <4>2, FromFirst DEF Preflight
    <3>3. CASE Markers(buffer, AskedFor) = {}
      <4>1. /\ binding # 0
            /\ reply = FromBinding(buffer, binding)
        BY <2>r, <2>1, <3>3 DEF CurrentTurn
      <4>2. marked /\ binding \in first..seq
        BY <4>1 DEF LogInv, TurnInv
      <4>3. /\ reply.to = seq
            /\ reply.body = {s \in Seqs(buffer) : s >= binding}
            /\ reply.truncated = TRUE
        BY <2>0, <4>1 DEF FromBinding, Envelope
      <4> QED
        BY <2>0, <4>2, <4>3 DEF Preflight
    <3> QED
      BY <3>2, <3>3
  <2>2. CASE AskedFor = Unnamed
    <3>1. ~Preflight /\ ~Hidden
      BY <2>2
    <3>2. CASE Markers(buffer, AskedFor) # {}
      <4>1. PICK e \in Markers(buffer, AskedFor) : e.seq = first
        BY <2>2, <3>1, <3>2 DEF Hidden
      <4>2. \A x \in Markers(buffer, AskedFor) : x.seq <= first /\ x.seq \in 1..seq
        BY <2>0 DEF Markers, LogInv, TurnInv, Seqs
      <4>3. first \in marks /\ first \in 1..seq /\ \A s \in marks : first >= s
        BY <2>0, <4>1, <4>2
      <4>4. Max(marks) = first
        BY <4>3, NewestIsFirst
      <4> QED
        BY <2>m, <3>1, <3>2, <4>3, <4>4, FromFirst
    <3>3. CASE Markers(buffer, AskedFor) = {}
      <4>1. reply = Envelope(HeadSeq(buffer), seq, TRUE, FALSE, {})
        BY <2>0, <2>r, <2>2, <3>3 DEF CurrentTurn
      <4> QED
        BY <3>1, <4>1 DEF Envelope
    <3> QED
      BY <3>2, <3>3
  <2> QED
    BY <2>1, <2>2
<1> QED
  BY <1>1, Invariance, PTL
-----------------------------------------------------------------------------
(* Among sets of subsets of a finite set there is a smallest one: finite   *)
(* induction, as the search for a smallest counterexample.                 *)
LEMMA Smallest ==
  ASSUME NEW S, IsFiniteSet(S), NEW T, T \subseteq SUBSET S, T # {}
  PROVE  \E m \in T : \A y \in T : ~(y \subseteq m /\ y # m)
<1> DEFINE R == StrictSubsetOrdering(S)
<1>1. IsWellFoundedOn(R, SUBSET S)
  BY FS_StrictSubsetOrderingWellFounded, FS_FiniteSubsetsOfFinite
<1> HIDE DEF R
<1>2. PICK m \in T : \A y \in T : ~(<<y, m>> \in R)
  BY <1>1, WFMin
<1>3. \A y \in T : y \subseteq m /\ y # m => <<y, m>> \in R
  <2> SUFFICES ASSUME NEW y \in T, y \subseteq m, y # m
               PROVE  <<y, m>> \in R
    OBVIOUS
  <2>1. <<y, m>> \in (SUBSET S) \X (SUBSET S)
    OBVIOUS
  <2> QED
    BY <2>1 DEF R, StrictSubsetOrdering
<1>4. \A y \in T : ~(y \subseteq m /\ y # m)
  BY <1>2, <1>3
<1> QED
  BY <1>4

(* A nonempty set of numbers has a least one.                              *)
LEMMA LeastNumber ==
  ASSUME NEW T, T \subseteq Nat, T # {}
  PROVE  \E n \in T : \A k \in T : n <= k
<1>1. PICK n \in T : \A k \in T : ~(<<k, n>> \in OpToRel(<, Nat))
  BY NatLessThanWellFounded, WFMin
<1>2. \A k \in T : ~(k < n)
  BY <1>1 DEF OpToRel
<1> QED
  BY <1>2

(***************************************************************************)
(* SizeOf is a fold, and a fold is a recursive function: on a finite set   *)
(* there is exactly one function that satisfies its equation.              *)
(***************************************************************************)
Body(f, q) ==
  IF q = {} THEN 0 ELSE LET x == CHOOSE x \in q : TRUE IN x.size + f[q \ {x}]

IsSum(f, S) == f = [q \in SUBSET S |-> Body(f, q)]

Summing(S) == CHOOSE f : IsSum(f, S)

LEMMA SizeIs == ASSUME NEW S PROVE SizeOf(S) = Summing(S)[S]
BY DEF SizeOf, MapThenSumSet, MapThenFoldSet, Summing, IsSum, Body

LEMMA OneSum ==
  ASSUME NEW S, IsFiniteSet(S), NEW f, IsSum(f, S),
         NEW r \in SUBSET S, NEW g, IsSum(g, r)
  PROVE  f[r] = g[r]
<1> DEFINE T == {q \in SUBSET r : f[q] # g[q]}
<1>1. SUFFICES ASSUME T # {} PROVE FALSE
  OBVIOUS
<1>2. PICK m \in T : \A y \in T : ~(y \subseteq m /\ y # m)
  <2>1. IsFiniteSet(r)
    BY FS_Subset
  <2> HIDE DEF T
  <2>2. T \subseteq SUBSET r
    BY DEF T
  <2> QED
    BY <1>1, <2>1, <2>2, Smallest
<1>3. f[m] = Body(f, m) /\ g[m] = Body(g, m)
  <2>1. m \in SUBSET S /\ m \in SUBSET r
    OBVIOUS
  <2>2. f[m] = [q \in SUBSET S |-> Body(f, q)][m]
    BY DEF IsSum
  <2>3. g[m] = [q \in SUBSET r |-> Body(g, q)][m]
    BY DEF IsSum
  <2> HIDE DEF T
  <2> QED
    BY <2>1, <2>2, <2>3
<1>4. m # {}
  BY <1>3 DEF Body
<1>5. PICK x \in m : x = CHOOSE z \in m : TRUE
  BY <1>4
<1>6. f[m \ {x}] = g[m \ {x}]
  <2>1. m \ {x} \subseteq m /\ m \ {x} # m /\ m \ {x} \in SUBSET r
    OBVIOUS
  <2> QED
    BY <1>2, <2>1
<1>7. f[m] = g[m]
  BY <1>3, <1>4, <1>5, <1>6 DEF Body
<1> QED
  BY <1>7

LEMMA SumExists ==
  ASSUME NEW S, IsFiniteSet(S)
  PROVE  IsSum(Summing(S), S)
<1> DEFINE T == {q \in SUBSET S : ~IsSum(Summing(q), q)}
<1>1. SUFFICES ASSUME S \in T PROVE FALSE
  OBVIOUS
<1>2. PICK m \in T : \A y \in T : ~(y \subseteq m /\ y # m)
  <2> HIDE DEF T
  <2>2. T \subseteq SUBSET S
    BY DEF T
  <2> QED
    BY <1>1, <2>2, Smallest
<1>3. \A q \in SUBSET m : q # m => IsSum(Summing(q), q)
  BY <1>2
<1>f. IsFiniteSet(m) /\ \A q \in SUBSET m : IsFiniteSet(q)
  BY FS_Subset
<1> DEFINE below == [q \in SUBSET m |-> Summing(q)[q]]
           f == [q \in SUBSET m |-> IF q = m THEN Body(below, m) ELSE below[q]]
<1>4. ASSUME NEW q \in SUBSET m PROVE f[q] = Body(f, q)
  <2>1. CASE q = {}
    <3>1. CASE m = {}
      BY <2>1, <3>1 DEF Body
    <3>2. CASE m # {}
      <4>1. f[q] = Summing(q)[q]
        BY <2>1, <3>2
      <4>2. IsSum(Summing(q), q)
        BY <1>3, <2>1, <3>2
      <4>3. Summing(q)[q] = [p \in SUBSET q |-> Body(Summing(q), p)][q]
        BY <4>2 DEF IsSum
      <4> QED
        BY <4>1, <4>3, <2>1 DEF Body
    <3> QED
      BY <3>1, <3>2
  <2>2. CASE q # {}
    <3>1. PICK x \in q : x = CHOOSE z \in q : TRUE
      BY <2>2
    <3> DEFINE p == q \ {x}
    <3>2. p \in SUBSET m /\ p # m /\ p \in SUBSET q
      OBVIOUS
    <3>3. f[p] = below[p] /\ below[p] = Summing(p)[p]
      BY <3>2
    <3>4. Body(f, q) = x.size + f[p] /\ Body(below, q) = x.size + below[p]
      BY <2>2, <3>1 DEF Body
    <3>5. CASE q = m
      <4>1. f[q] = Body(below, q)
        BY <3>5
      <4> HIDE DEF f, below
      <4> QED
        BY <3>3, <3>4, <4>1
    <3>6. CASE q # m
      <4>1. IsSum(Summing(q), q) /\ IsSum(Summing(p), p)
        BY <3>2, <1>3, <3>6
      <4>2. f[q] = Summing(q)[q]
        BY <3>6
      <4>3. Summing(q)[q] = [z \in SUBSET q |-> Body(Summing(q), z)][q]
        BY <4>1 DEF IsSum
      <4>4. Summing(q)[q] = x.size + Summing(q)[p]
        BY <4>3, <2>2, <3>1 DEF Body
      <4>5. Summing(q)[p] = Summing(p)[p]
        <5> HIDE DEF p
        <5> QED
          BY <1>f, <3>2, <4>1, OneSum
      <4> HIDE DEF f, below, p
      <4> QED
        BY <4>2, <4>4, <4>5, <3>3, <3>4
    <3> QED
      BY <3>5, <3>6
  <2> QED
    BY <2>1, <2>2
<1>5. IsSum(f, m)
  <2>1. f = [q \in SUBSET m |-> f[q]]
    OBVIOUS
  <2> HIDE DEF f
  <2>2. [q \in SUBSET m |-> f[q]] = [q \in SUBSET m |-> Body(f, q)]
    BY <1>4
  <2> QED
    BY <2>1, <2>2 DEF IsSum
<1>6. IsSum(Summing(m), m)
  <2> HIDE DEF f, below, T
  <2> QED
    BY <1>5 DEF Summing
<1> QED
  BY <1>6

LEMMA SizeOfEmpty == SizeOf({}) = 0
<1>1. IsSum(Summing({}), {})
  BY FS_EmptySet, SumExists
<1>2. Summing({})[{}] = [q \in SUBSET {} |-> Body(Summing({}), q)][{}]
  BY <1>1 DEF IsSum
<1> QED
  BY <1>2, SizeIs DEF Body

LEMMA SizeOfChosen ==
  ASSUME NEW S, IsFiniteSet(S), S # {}
  PROVE  \E x \in S : SizeOf(S) = x.size + SizeOf(S \ {x})
<1>1. PICK x \in S : x = CHOOSE z \in S : TRUE
  OBVIOUS
<1> DEFINE p == S \ {x}
<1>2. IsFiniteSet(p) /\ p \in SUBSET S
  BY FS_Subset
<1>3. IsSum(Summing(S), S) /\ IsSum(Summing(p), p)
  BY <1>2, SumExists
<1>4. Summing(S)[S] = [q \in SUBSET S |-> Body(Summing(S), q)][S]
  BY <1>3 DEF IsSum
<1>5. Summing(S)[S] = x.size + Summing(S)[p]
  BY <1>4, <1>1 DEF Body
<1>6. Summing(S)[p] = Summing(p)[p]
  <2> HIDE DEF p
  <2> QED
    BY <1>2, <1>3, OneSum
<1>7. SizeOf(S) = Summing(S)[S] /\ SizeOf(p) = Summing(p)[p]
  BY SizeIs
<1> QED
  BY <1>5, <1>6, <1>7

(* The size of a set is a number, whatever the order of the sum.           *)
LEMMA SizeOfNat ==
  ASSUME NEW S, IsFiniteSet(S), \A x \in S : x.size \in Nat
  PROVE  SizeOf(S) \in Nat
<1> DEFINE T == {q \in SUBSET S : SizeOf(q) \notin Nat}
<1>1. SUFFICES ASSUME S \in T PROVE FALSE
  OBVIOUS
<1>2. PICK m \in T : \A y \in T : ~(y \subseteq m /\ y # m)
  <2> HIDE DEF T
  <2>2. T \subseteq SUBSET S
    BY DEF T
  <2> QED
    BY <1>1, <2>2, Smallest
<1>3. m # {}
  BY SizeOfEmpty
<1>4. PICK x \in m : SizeOf(m) = x.size + SizeOf(m \ {x})
  <2>1. IsFiniteSet(m)
    BY FS_Subset
  <2> QED
    BY <1>3, <2>1, SizeOfChosen
<1>5. SizeOf(m \ {x}) \in Nat
  <2>1. m \ {x} \subseteq m /\ m \ {x} # m /\ m \ {x} \in SUBSET S
    OBVIOUS
  <2> QED
    BY <1>2, <2>1
<1>6. x.size \in Nat
  OBVIOUS
<1>7. SizeOf(m) \in Nat
  BY <1>4, <1>5, <1>6
<1> QED
  BY <1>7

LEMMA SizeOfElement ==
  ASSUME NEW S, IsFiniteSet(S), \A x \in S : x.size \in Nat, NEW e \in S
  PROVE  SizeOf(S) = e.size + SizeOf(S \ {e})
<1> DEFINE P(q) == \A y \in q : SizeOf(q) = y.size + SizeOf(q \ {y})
           T == {q \in SUBSET S : ~P(q)}
<1>1. SUFFICES ASSUME S \in T PROVE FALSE
  OBVIOUS
<1>2. PICK m \in T : \A y \in T : ~(y \subseteq m /\ y # m)
  <2> HIDE DEF T
  <2>2. T \subseteq SUBSET S
    BY DEF T
  <2> QED
    BY <1>1, <2>2, Smallest
<1>f. \A q \in SUBSET S : IsFiniteSet(q)
  BY FS_Subset
<1>n. \A q \in SUBSET S : SizeOf(q) \in Nat
  BY <1>f, SizeOfNat
<1>3. PICK y \in m : SizeOf(m) # y.size + SizeOf(m \ {y})
  OBVIOUS
<1>4. PICK x \in m : SizeOf(m) = x.size + SizeOf(m \ {x})
  BY <1>3, <1>f, SizeOfChosen
<1>5. x # y
  BY <1>3, <1>4
<1>6. P(m \ {x}) /\ P(m \ {y})
  <2>1. /\ m \ {x} \subseteq m /\ m \ {x} # m /\ m \ {x} \in SUBSET S
        /\ m \ {y} \subseteq m /\ m \ {y} # m /\ m \ {y} \in SUBSET S
    OBVIOUS
  <2> QED
    BY <1>2, <2>1
<1>7. SizeOf(m \ {x}) = y.size + SizeOf((m \ {x}) \ {y})
  BY <1>5, <1>6
<1>8. SizeOf(m \ {y}) = x.size + SizeOf((m \ {y}) \ {x})
  BY <1>5, <1>6
<1>9. (m \ {x}) \ {y} = (m \ {y}) \ {x} /\ (m \ {x}) \ {y} \in SUBSET S
  OBVIOUS
<1>10. x.size \in Nat /\ y.size \in Nat /\ SizeOf((m \ {x}) \ {y}) \in Nat
  BY <1>9, <1>n
<1>11. SizeOf(m) = y.size + SizeOf(m \ {y})
  <2>1. PICK rest \in Nat : SizeOf((m \ {x}) \ {y}) = rest
                            /\ SizeOf((m \ {y}) \ {x}) = rest
    BY <1>9, <1>10
  <2>2. SizeOf(m) = x.size + (y.size + rest) /\ SizeOf(m \ {y}) = x.size + rest
    BY <1>4, <1>7, <1>8, <2>1
  <2> HIDE DEF P, T
  <2> QED
    BY <1>10, <2>2
<1> QED
  BY <1>3, <1>11

(* The sizes of two disjoint sets add up.                                  *)
LEMMA SizeOfUnion ==
  ASSUME NEW S, NEW U, IsFiniteSet(S), IsFiniteSet(U), S \cap U = {},
         \A x \in S \cup U : x.size \in Nat
  PROVE  SizeOf(S \cup U) = SizeOf(S) + SizeOf(U)
<1> DEFINE P(q) == SizeOf(S \cup q) = SizeOf(S) + SizeOf(q)
           T == {q \in SUBSET U : ~P(q)}
<1>1. SUFFICES ASSUME U \in T PROVE FALSE
  OBVIOUS
<1>2. PICK m \in T : \A y \in T : ~(y \subseteq m /\ y # m)
  <2> HIDE DEF T
  <2>2. T \subseteq SUBSET U
    BY DEF T
  <2> QED
    BY <1>1, <2>2, Smallest
<1>f. IsFiniteSet(m) /\ IsFiniteSet(S \cup m)
  BY FS_Subset, FS_Union
<1>3. m # {}
  <2>1. SizeOf(S) \in Nat
    BY SizeOfNat
  <2>2. P({})
    BY <2>1, SizeOfEmpty
  <2> QED
    BY <2>2
<1>4. PICK x \in m : TRUE
  BY <1>3
<1>5. SizeOf(m) = x.size + SizeOf(m \ {x})
  BY <1>f, SizeOfElement
<1>6. SizeOf(S \cup m) = x.size + SizeOf((S \cup m) \ {x})
  BY <1>f, SizeOfElement
<1>7. (S \cup m) \ {x} = S \cup (m \ {x})
  OBVIOUS
<1>8. P(m \ {x})
  <2>1. m \ {x} \subseteq m /\ m \ {x} # m /\ m \ {x} \in SUBSET U
    OBVIOUS
  <2> QED
    BY <1>2, <2>1
<1>9. SizeOf(S) \in Nat /\ SizeOf(m \ {x}) \in Nat /\ x.size \in Nat
  <2>1. IsFiniteSet(m \ {x})
    BY <1>f, FS_RemoveElement
  <2> QED
    BY <2>1, SizeOfNat
<1>10. P(m)
  <2>1. SizeOf(S \cup (m \ {x})) = SizeOf(S) + SizeOf(m \ {x})
    BY <1>8
  <2>2. SizeOf(S \cup m) = x.size + (SizeOf(S) + SizeOf(m \ {x}))
    BY <1>6, <1>7, <2>1
  <2>3. SizeOf(S \cup m) = SizeOf(S) + SizeOf(m)
    <3> HIDE DEF P, T
    <3> QED
      BY <1>5, <1>9, <2>2
  <2> QED
    BY <2>3
<1> QED
  BY <1>10

-----------------------------------------------------------------------------
(* RingBounded with what makes it inductive: the buffer is finite.         *)
RoomInv == IsFiniteSet(buffer.buf) /\ RingBounded

(* What the eviction loop leaves keeps both budgets: it stops within them, *)
(* or at the newest event alone, which was admitted because it fits.       *)
LEMMA AppendedRoom ==
  ASSUME NEW r, NEW e, NEW n \in Nat, NEW after \in Appended(r, e),
         IsRing(r), IsFiniteSet(r.buf),
         \A x \in r.buf : x.seq \in 1..n /\ x.size \in Nat,
         e.seq = n + 1, e.size \in Nat,
         Cardinality(r.buf) <= MaxEvents,
         r.bytes = SizeOf(r.buf), r.bytes <= MaxBytes
  PROVE  /\ IsFiniteSet(after.buf)
         /\ Cardinality(after.buf) <= MaxEvents
         /\ after.bytes = SizeOf(after.buf)
         /\ after.bytes <= MaxBytes
<1>a. MaxBytes \in Nat /\ MaxEvents \in Nat \ {0}
  BY RingAssumption
<1>1. CASE e.size > MaxBytes
  <2>1. after = [Offered(r, e) EXCEPT !.dropped = Bigger(@, e.seq)]
    BY <1>1 DEF Appended
  <2>2. after.buf = r.buf /\ after.bytes = r.bytes
    BY <2>1 DEF IsRing, Offered
  <2> QED
    BY <2>2
<1>2. CASE ~(e.size > MaxBytes)
  <2> DEFINE b == r.buf \cup {e}
  <2>1. PICK cut \in {0} \cup {x.seq : x \in b} :
          /\ StopsAt(b, r.bytes + e.size, cut)
          /\ after = PopTo(Offered(r, e), b, r.bytes + e.size, cut)
    BY <1>2 DEF Appended
  <2>2. /\ after.buf = Kept(b, cut)
        /\ after.bytes = (r.bytes + e.size) - SizeOf(Popped(b, cut))
    BY <2>1 DEF PopTo
  <2>3. /\ IsFiniteSet(b) /\ \A x \in b : x.seq \in 1..(n + 1) /\ x.size \in Nat
        /\ e \notin r.buf
    BY FS_AddElement
  <2>4. cut \in 0..(n + 1)
    BY <2>1, <2>3
  <2>5. /\ IsFiniteSet(Kept(b, cut)) /\ IsFiniteSet(Popped(b, cut))
        /\ Kept(b, cut) \subseteq b /\ Popped(b, cut) \subseteq b
    <3>1. Kept(b, cut) \in SUBSET b /\ Popped(b, cut) \in SUBSET b
      BY DEF Kept, Popped
    <3> HIDE DEF b
    <3> QED
      BY <2>3, <3>1, FS_Subset
  <2>6. SizeOf(b) = r.bytes + e.size
    <3>1. b \ {e} = r.buf /\ e \in b
      BY <2>3
    <3>2. SizeOf(b) = e.size + SizeOf(r.buf)
      <4> HIDE DEF b
      <4> QED
        BY <2>3, <3>1, SizeOfElement
    <3>3. SizeOf(r.buf) \in Nat
      BY SizeOfNat
    <3> QED
      BY <3>2, <3>3
  <2>7. SizeOf(b) = SizeOf(Popped(b, cut)) + SizeOf(Kept(b, cut))
    <3>1. /\ Popped(b, cut) \cup Kept(b, cut) = b
          /\ Popped(b, cut) \cap Kept(b, cut) = {}
      BY <2>3, <2>4 DEF Kept, Popped
    <3> HIDE DEF b
    <3> QED
      BY <2>3, <2>5, <3>1, SizeOfUnion
  <2>8. SizeOf(Popped(b, cut)) \in Nat /\ SizeOf(Kept(b, cut)) \in Nat
    <3> HIDE DEF b
    <3> QED
      BY <2>3, <2>5, SizeOfNat
  <2>9. after.bytes = SizeOf(Kept(b, cut))
    <3> HIDE DEF b
    <3> QED
      BY <2>2, <2>6, <2>7, <2>8
  <2>10. CASE WithinBudget(b, r.bytes + e.size, cut)
    BY <2>2, <2>5, <2>9, <2>10 DEF WithinBudget
  <2>11. CASE Cardinality(Kept(b, cut)) = 1
    <3>1. PICK y \in Kept(b, cut) : Kept(b, cut) = {y}
      BY <2>5, <2>11, FS_Singleton
    <3>2. e \in Kept(b, cut)
      <4>1. y.seq > cut /\ y.seq \in 1..(n + 1)
        BY <2>3 DEF Kept
      <4> QED
        BY <2>4, <4>1 DEF Kept
    <3>3. Kept(b, cut) = {e}
      BY <3>1, <3>2
    <3>4. SizeOf({e}) = e.size
      <4>1. IsFiniteSet({e}) /\ {e} \ {e} = {} /\ \A x \in {e} : x.size \in Nat
        BY FS_Singleton
      <4>2. SizeOf({e}) = e.size + SizeOf({})
        BY <4>1, SizeOfElement
      <4> QED
        BY <4>2, SizeOfEmpty
    <3>5. after.bytes = e.size
      <4> HIDE DEF b
      <4> QED
        BY <2>9, <3>3, <3>4
    <3>6. e.size <= MaxBytes
      BY <1>2, <1>a
    <3> QED
      BY <1>a, <2>2, <2>5, <2>9, <2>11, <3>5, <3>6
  <2> QED
    BY <2>1, <2>10, <2>11 DEF StopsAt
<1> QED
  BY <1>1, <1>2

(* Every emit keeps both bounds of the ring.                               *)
LEMMA StepRoom == LogInv /\ RoomInv /\ [LogNext]_logVars => RoomInv'
<1> SUFFICES ASSUME LogInv, RoomInv, [LogNext]_logVars PROVE RoomInv'
  OBVIOUS
<1>1. ASSUME NEW kind \in {"user", "binding", "other"}, NEW msg, Emit(kind, msg)
      PROVE  RoomInv'
  <2>1. PICK size \in Sizes :
          buffer' \in Appended(buffer, [seq |-> seq + 1, size |-> size,
                                        kind |-> kind, msg |-> msg])
    BY <1>1 DEF Emit
  <2> DEFINE e == [seq |-> seq + 1, size |-> size, kind |-> kind, msg |-> msg]
  <2>2. seq \in Nat /\ e.seq = seq + 1 /\ e.size \in Nat
    BY LogAssumption DEF LogInv, LogTypeOK
  <2>3. IsRing(buffer) /\ IsFiniteSet(buffer.buf)
    BY DEF LogInv, LogTypeOK, IsRing, RoomInv
  <2>4. ASSUME NEW x \in buffer.buf PROVE x.seq \in 1..seq /\ x.size \in Nat
    <3>1. x \in Events
      BY DEF LogInv, LogTypeOK
    <3>2. x.size \in Nat
      BY <3>1, LogAssumption DEF Events
    <3> QED
      BY <3>2 DEF LogInv, RingInv, Seqs
  <2>5. /\ Cardinality(buffer.buf) <= MaxEvents
        /\ buffer.bytes = SizeOf(buffer.buf) /\ buffer.bytes <= MaxBytes
    BY DEF RoomInv, RingBounded
  <2> HIDE DEF e
  <2>6. buffer' \in Appended(buffer, e)
    BY <2>1 DEF e
  <2>7. /\ IsFiniteSet(buffer'.buf)
        /\ Cardinality(buffer'.buf) <= MaxEvents
        /\ buffer'.bytes = SizeOf(buffer'.buf)
        /\ buffer'.bytes <= MaxBytes
    BY <2>2, <2>3, <2>4, <2>5, <2>6, AppendedRoom
  <2> QED
    BY <2>7 DEF RoomInv, RingBounded
<1>2. CASE LogNext
  <2>1. CASE Finish \/ GiveWay
    BY <2>1 DEF Finish, GiveWay, RoomInv, RingBounded
  <2>2. CASE ~(Finish \/ GiveWay)
    BY <1>1, <1>2, <2>2 DEF LogNext, ClaimTurn, EmitMarker, EmitUserMsg,
         EmitBinding, EmitSteered, EmitOther, EmitTurnEndMsg, EmitIdle,
         FollowUp, SettleFollowUp
  <2> QED
    BY <2>1, <2>2
<1>3. CASE UNCHANGED logVars
  BY <1>3 DEF logVars, RoomInv, RingBounded
<1> QED
  BY <1>2, <1>3

(* The ring never exceeds its two budgets and its byte counter never       *)
(* drifts from what it holds, for all budgets and all event sizes.         *)
THEOREM RoomInvariance == LogSpec => []RoomInv
<1>1. LogInit => RoomInv
  <2> SUFFICES ASSUME LogInit PROVE RoomInv
    OBVIOUS
  <2>1. buffer.buf = {} /\ buffer.bytes = 0
    BY DEF LogInit, EmptyRing
  <2> QED
    BY <2>1, SizeOfEmpty, FS_EmptySet, RingAssumption DEF RoomInv, RingBounded
<1> QED
  BY <1>1, StepRoom, Invariance, PTL DEF LogSpec

THEOREM StaysBounded == LogSpec => []RingBounded
<1>1. RoomInv => RingBounded
  BY DEF RoomInv
<1> QED
  BY <1>1, RoomInvariance, PTL

-----------------------------------------------------------------------------
(* What replay_from_bounded chooses from: the events after the cursor, or  *)
(* the whole ring; sent is the union of the suffixes that fit.             *)
Have(from) == {e \in buffer.buf : from > buffer.tail \/ e.seq > from}
Suffix(from, n) == {e \in Have(from) : e.seq >= n}
Fits(S, events, bytes) == Cardinality(S) <= events /\ SizeOf(S) <= bytes
Starts(from, events, bytes) ==
  {e.seq : e \in {x \in Have(from) : Fits(Suffix(from, x.seq), events, bytes)}}
Sent(from, events, bytes) ==
  UNION {Suffix(from, n) : n \in Starts(from, events, bytes)}

LEMMA BoundedReply ==
  ASSUME NEW from, NEW events, NEW bytes
  PROVE  LET reply == ReplayBounded(buffer, from, FALSE, events, bytes)
         IN /\ reply.rebuild = (from > buffer.tail)
            /\ reply.body = {e.seq : e \in Sent(from, events, bytes)}
            /\ reply.truncated = (\/ Sent(from, events, bytes) # Have(from)
                                  \/ IF from > buffer.tail THEN buffer.dropped > 0
                                     ELSE Truncated(buffer, from))
<1> DEFINE whole == FALSE \/ from > buffer.tail
           have == {e \in buffer.buf : whole \/ e.seq > from}
           suffix(n) == {e \in have : e.seq >= n}
           fits(S) == Cardinality(S) <= events /\ SizeOf(S) <= bytes
           sent == UNION {suffix(n) : n \in {e.seq : e \in
                            {x \in have : fits(suffix(x.seq))}}}
           reply == ReplayBounded(buffer, from, FALSE, events, bytes)
<1>1. /\ reply.rebuild = whole
      /\ reply.body = {e.seq : e \in sent}
      /\ reply.truncated = (\/ sent # have
                            \/ IF whole THEN buffer.dropped > 0
                               ELSE Truncated(buffer, from))
  BY DEF ReplayBounded, Envelope
<1>2. whole = (from > buffer.tail) /\ have = Have(from)
  BY DEF Have
<1>3. sent = Sent(from, events, bytes)
  <2>1. \A n : suffix(n) = Suffix(from, n)
    BY <1>2 DEF Suffix
  <2> HIDE DEF have, suffix
  <2>2. \A S : fits(S) <=> Fits(S, events, bytes)
    BY DEF Fits
  <2> HIDE DEF fits
  <2>3. {x \in have : fits(suffix(x.seq))}
          = {x \in Have(from) : Fits(Suffix(from, x.seq), events, bytes)}
    BY <1>2, <2>1, <2>2
  <2> QED
    BY <2>1, <2>3 DEF Sent, Starts
<1> HIDE DEF whole, have, sent, reply
<1>4. /\ reply.rebuild = (from > buffer.tail)
      /\ reply.body = {e.seq : e \in Sent(from, events, bytes)}
      /\ reply.truncated = (\/ Sent(from, events, bytes) # Have(from)
                            \/ IF from > buffer.tail THEN buffer.dropped > 0
                               ELSE Truncated(buffer, from))
  BY <1>1, <1>2, <1>3
<1> QED
  BY <1>4 DEF reply

(* What is sent is a suffix of what there is.                              *)
LEMMA SentSuffix ==
  ASSUME LogInv, RoomInv, NEW from \in Nat, NEW events, NEW bytes
  PROVE  /\ Sent(from, events, bytes) \subseteq Have(from)
         /\ \A x \in Sent(from, events, bytes), y \in Have(from) :
              y.seq >= x.seq => y \in Sent(from, events, bytes)
         /\ Sent(from, events, bytes) # {} =>
              Fits(Sent(from, events, bytes), events, bytes)
<1> DEFINE have == Have(from)
           starts == Starts(from, events, bytes)
           sent == Sent(from, events, bytes)
<1>1. \A x \in have : x \in buffer.buf /\ x.seq \in Nat
  BY DEF Have, LogInv, RingInv, Seqs
<1>2. starts \subseteq Nat
  BY <1>1 DEF Starts
<1>3. \A x : x \in sent <=> x \in have /\ \E n \in starts : x.seq >= n
  BY DEF Sent, Suffix
<1>4. ASSUME NEW x \in sent, NEW y \in have, y.seq >= x.seq PROVE y \in sent
  <2>1. PICK n \in starts : x.seq >= n
    BY <1>3
  <2>2. y.seq >= n
    BY <1>1, <1>2, <1>3, <1>4, <2>1
  <2> QED
    BY <1>3, <2>2
<1>5. ASSUME sent # {} PROVE Fits(sent, events, bytes)
  <2>1. starts # {}
    BY <1>3, <1>5
  <2>2. PICK n \in starts : \A k \in starts : n <= k
    BY <1>2, <2>1, LeastNumber
  <2>3. sent = Suffix(from, n)
    <3>1. \A x \in have : (\E k \in starts : x.seq >= k) <=> x.seq >= n
      BY <1>1, <1>2, <2>2
    <3> QED
      BY <1>3, <3>1 DEF Suffix
  <2>4. Fits(Suffix(from, n), events, bytes)
    BY DEF Starts
  <2> QED
    BY <2>3, <2>4
<1> QED
  BY <1>3, <1>4, <1>5

(* The bounded reply never cuts in silence and keeps both budgets, for all *)
(* budgets of the ring and of the request.                                 *)
THEOREM BoundedExactness == LogSpec => []BoundedExact
<1>1. LogInv /\ RoomInv => BoundedExact
  <2> SUFFICES ASSUME LogInv, RoomInv, NEW from \in 0..seq + 1,
                      NEW events \in 1..MaxEvents, NEW bytes \in 1..MaxBytes
               PROVE  LET reply == ReplayBounded(buffer, from, FALSE, events, bytes)
                          full  == ReplayFrom(buffer, from, FALSE)
                          after == IF reply.rebuild THEN 1..seq ELSE (from + 1)..seq
                      IN /\ reply.truncated <=> reply.body # after
                         /\ \A s \in reply.body, t \in full.body :
                              t > s => t \in reply.body
                         /\ Cardinality(reply.body) <= events
                         /\ SizeOf({e \in buffer.buf : e.seq \in reply.body}) <= bytes
    BY DEF BoundedExact
  <2> DEFINE have == Have(from)
             sent == Sent(from, events, bytes)
             body == {e.seq : e \in sent}
             after == IF from > buffer.tail THEN 1..seq ELSE (from + 1)..seq
             full == ReplayFrom(buffer, from, FALSE)
             lost == IF from > buffer.tail THEN buffer.dropped > 0
                     ELSE Truncated(buffer, from)
  <2>0. /\ seq \in Nat /\ buffer.dropped \in 0..seq /\ buffer.tail = seq
        /\ from \in Nat /\ Seqs(buffer) \subseteq 1..seq
    BY LogAssumption DEF LogInv, LogTypeOK, RingInv
  <2>s. /\ sent \subseteq have
        /\ \A x \in sent, y \in have : y.seq >= x.seq => y \in sent
        /\ sent # {} => Fits(sent, events, bytes)
    BY <2>0, SentSuffix
  <2>b. \A x \in buffer.buf : x.seq \in 1..seq
    BY <2>0 DEF Seqs
  <2>h. have \subseteq buffer.buf
    BY DEF Have
  <2>e. \A x \in have : x.seq \in body => x \in sent
    <3>1. ASSUME NEW x \in have, NEW y \in sent, x.seq = y.seq PROVE x \in sent
      <4>1. x.seq >= y.seq
        BY <2>b, <2>h, <3>1
      <4> QED
        BY <2>s, <4>1
    <3> QED
      BY <3>1
  <2>1. /\ have = {x \in buffer.buf : x.seq \in after}
        /\ {x.seq : x \in have} # after <=> lost
    <3>1. CASE from > buffer.tail
      <4>1. have = buffer.buf /\ after = 1..seq
        BY <3>1 DEF Have
      <4>2. {x.seq : x \in have} = {s \in Seqs(buffer) : s > 0}
        <5>1. {x.seq : x \in have} = Seqs(buffer)
          BY <4>1 DEF Seqs
        <5> QED
          BY <5>1, <2>0
      <4>3. 0 \in 0..seq /\ 0 + 1 = 1
        BY <2>0
      <4>4. {s \in Seqs(buffer) : s > 0} # (0 + 1)..seq <=> 0 < buffer.dropped
        BY <4>3, MissingAfter
      <4>5. {x.seq : x \in have} # after <=> lost
        BY <2>0, <3>1, <4>1, <4>2, <4>3, <4>4
      <4>6. have = {x \in buffer.buf : x.seq \in after}
        BY <4>1, <2>b
      <4> QED
        BY <4>5, <4>6
    <3>2. CASE ~(from > buffer.tail)
      <4>1. have = {x \in buffer.buf : x.seq > from} /\ after = (from + 1)..seq
        BY <3>2 DEF Have
      <4>2. from \in 0..seq
        BY <2>0, <3>2
      <4>3. {x.seq : x \in have} = {s \in Seqs(buffer) : s > from}
        BY <4>1 DEF Seqs
      <4>4. {s \in Seqs(buffer) : s > from} # (from + 1)..seq <=> from < buffer.dropped
        BY <4>2, MissingAfter
      <4>5. lost <=> from < buffer.dropped
        BY <3>2, <4>2, TruncatedAfter
      <4>6. have = {x \in buffer.buf : x.seq \in after}
        BY <2>0, <2>b, <4>1
      <4> HIDE DEF have, after, lost
      <4> QED
        BY <4>1, <4>3, <4>4, <4>5, <4>6
    <3> QED
      BY <3>1, <3>2
  <2>2. (sent # have \/ lost) <=> body # after
    <3>1. CASE sent = have
      BY <2>1, <3>1
    <3>2. CASE sent # have
      <4>1. PICK x \in have : x \notin sent
        BY <2>s, <3>2
      <4>2. x.seq \in after /\ x.seq \notin body
        BY <2>1, <2>e, <4>1
      <4> QED
        BY <3>2, <4>2
    <3> QED
      BY <3>1, <3>2
  <2>3. ASSUME NEW s \in body, NEW t \in full.body, t > s PROVE t \in body
    <3>1. PICK x \in sent : x.seq = s
      OBVIOUS
    <3>2. PICK y \in have : y.seq = t
      <4>1. full.body = IF from > buffer.tail THEN Seqs(buffer)
                        ELSE {k \in Seqs(buffer) : k > from}
        BY DEF ReplayFrom, WholeBuffer, Envelope
      <4> QED
        BY <4>1 DEF Have, Seqs
    <3>3. y.seq >= x.seq
      BY <2>3, <2>b, <2>h, <2>s, <3>1, <3>2
    <3> QED
      BY <2>s, <3>2, <3>3
  <2>4. IsFiniteSet(sent)
    <3>1. sent \in SUBSET buffer.buf
      BY <2>s, <2>h
    <3> QED
      BY <3>1, FS_Subset DEF RoomInv
  <2>5. Cardinality(sent) <= events /\ SizeOf(sent) <= bytes
    <3>1. CASE sent = {}
      BY <3>1, SizeOfEmpty, FS_EmptySet, RingAssumption
    <3>2. CASE sent # {}
      BY <3>2, <2>s DEF Fits
    <3> QED
      BY <3>1, <3>2
  <2>6. Cardinality(body) <= events
    <3> DEFINE f == [x \in sent |-> x.seq]
    <3>1. f \in Surjection(sent, body)
      BY DEF Surjection
    <3> HIDE DEF f, sent, body
    <3>2. IsFiniteSet(body) /\ Cardinality(body) <= Cardinality(sent)
      BY <2>4, <3>1, FS_Surjection
    <3>3. Cardinality(body) \in Nat /\ Cardinality(sent) \in Nat
      BY <2>4, <3>2, FS_CardinalityType
    <3> QED
      BY <2>5, <3>2, <3>3, RingAssumption
  <2>7. {e \in buffer.buf : e.seq \in body} = sent
    <3>1. ASSUME NEW x \in buffer.buf, NEW y \in sent, x.seq = y.seq PROVE x \in sent
      <4>1. x \in have
        BY <3>1, <2>s DEF Have
      <4> QED
        BY <3>1, <4>1, <2>e
    <3> QED
      BY <3>1, <2>s, <2>h
  <2>8. LET reply == ReplayBounded(buffer, from, FALSE, events, bytes)
        IN /\ reply.rebuild = (from > buffer.tail)
           /\ reply.body = body
           /\ reply.truncated = (sent # have \/ lost)
    BY BoundedReply
  <2> DEFINE reply == ReplayBounded(buffer, from, FALSE, events, bytes)
  <2>9. (IF reply.rebuild THEN 1..seq ELSE (from + 1)..seq) = after
    BY <2>8
  <2> HIDE DEF have, sent, body, full, lost, after, reply
  <2>10. /\ reply.truncated <=> reply.body # after
         /\ \A s \in reply.body, t \in full.body : t > s => t \in reply.body
         /\ Cardinality(reply.body) <= events
         /\ SizeOf({e \in buffer.buf : e.seq \in reply.body}) <= bytes
    BY <2>2, <2>3, <2>5, <2>6, <2>7, <2>8 DEF reply
  <2> QED
    BY <2>9, <2>10 DEF full, reply
<1> QED
  BY <1>1, Invariance, RoomInvariance, PTL

-----------------------------------------------------------------------------
(***************************************************************************)
(* SessionReplay: why no reducer sees an event twice or out of order.      *)
(*                                                                         *)
(* What is on its way to a browser is its queue at the relay and behind it *)
(* the wrapper's link.  Along it, incarnations never go backwards, a live  *)
(* event is later than every event ahead of it, and an answer's events     *)
(* follow their replay_start in ascending order without a gap.  (A hello's *)
(* life and gen may be of two incarnations; nothing reads them.)           *)
(***************************************************************************)
Id(f) == <<f.life, f.seq>>

(* f, sent first, and g.                                                   *)
Before(f, g) ==
  f.type # "hello" /\ g.type # "hello" =>
    /\ \/ f.life < g.life /\ f.gen <= g.gen
       \/ f.life = g.life /\ f.gen = g.gen
    /\ f.type = "event" /\ g.type = "event" /\ g.to = Nobody =>
         After(Id(g), Id(f))

(* An event of the answer to a hello of c's connection r.                  *)
Own(f, c, r) == f.type = "event" /\ f.to = c /\ f.conn = r

(* f is what the wrapper sent right before g, an event of an answer.       *)
Precedes(f, g) ==
  /\ f.to = g.to /\ f.conn = g.conn /\ f.routed = g.routed
  /\ f.life = g.life /\ f.type \in {"start", "event"}
  /\ f.type = "event" => f.seq < g.seq

(* What c may get next without disorder while a rebuild runs.              *)
Expected(f, c) == rebuilding[c] => After(Id(f), last[c])

Sorted(s) == \A i, j \in 1..Len(s) : i < j => Before(s[i], s[j])

Chained(s, c, r) ==
  \A i \in 1..Len(s) : i > 1 /\ Own(s[i], c, r) => Precedes(s[i - 1], s[i])

(* A frame on its way names an incarnation that exists or existed.         *)
Known(f) ==
  /\ f.life \in 1..life /\ f.gen <= gen /\ f.conn <= routes
  /\ f.to # Nobody => f.conn >= 1
  /\ resident /\ f.life = life /\ f.type # "hello" =>
       f.gen = gen /\ f.seq <= ring.tail

(***************************************************************************)
(* A frame on its way to c against what c has: not of an older incarnation *)
(* or generation; a live event is later than the last event given; and     *)
(* unless an orphan was taken, a frame that could make c forget its cursor *)
(* (of a newer generation), or meets a cursor below the last event, is of  *)
(* a later incarnation than that event.                                    *)
(***************************************************************************)
Coming(f, c) ==
  f.type # "hello" =>
    /\ cgen[c] <= f.gen
    /\ last[c][1] <= f.life
    /\ f.type = "event" /\ f.to = Nobody => After(Id(f), last[c])
    /\ ~orphan[c] /\ (f.gen > cgen[c] \/ Bigger(cursor[c], 0) < last[c][2]) =>
         f.life > last[c][1]

(* The same of the session's next event.                                   *)
Present(c) ==
  /\ cgen[c] <= gen
  /\ last[c][1] <= life
  /\ resident /\ last[c][1] = life => last[c][2] <= ring.tail
  /\ resident /\ ~orphan[c]
     /\ (gen > cgen[c] \/ Bigger(cursor[c], 0) < last[c][2]) =>
       life > last[c][1]

PoolInv ==
  /\ ~resident => ring = EmptyRing /\ turnFrom = 0
  /\ IsRing(ring)
  /\ Seqs(ring) \subseteq 1..ring.tail
  /\ ring.dropped \in 0..ring.tail
  /\ ring.dropped > 0 => ring.dropped \notin Seqs(ring)
  /\ \A s \in (ring.dropped + 1)..ring.tail : s \in Seqs(ring)
  /\ turnFrom <= ring.tail

LinkInv ==
  /\ ~up => wq = <<>>
  /\ Sorted(wq)
  /\ \A i \in 1..Len(wq) : Known(wq[i])
  /\ \A i \in 1..Len(inbox) : inbox[i].conn <= routes

ClientInv(c) ==
  /\ route[c] <= routes
  /\ route[c] = 0 => cq[c] = <<>>
  /\ \A i \in 1..Len(cq[c]) : Known(cq[c][i]) /\ cq[c][i].to \in {Nobody, c}
  /\ Sorted(cq[c])
  /\ \A i \in 1..Len(cq[c]), j \in 1..Len(wq) : Before(cq[c][i], wq[j])
  /\ \A i \in 1..Len(cq[c]) : Coming(cq[c][i], c)
  /\ \A i \in 1..Len(wq) : Coming(wq[i], c)
  /\ Present(c)
  /\ Chained(cq[c], c, route[c])
  /\ Chained(wq, c, route[c])
  /\ cq[c] # <<>> /\ Own(cq[c][1], c, route[c]) => Expected(cq[c][1], c)
  /\ wq # <<>> /\ Own(wq[1], c, route[c]) =>
       IF cq[c] = <<>> THEN Expected(wq[1], c)
       ELSE Precedes(cq[c][Len(cq[c])], wq[1])
  /\ ~disorder[c]

ReplayInv == TypeOK /\ PoolInv /\ LinkInv /\ \A c \in Clients : ClientInv(c)

-----------------------------------------------------------------------------
(* A finite set of numbers can be listed in ascending order.               *)
LEMMA AscendingFacts ==
  ASSUME NEW S, IsFiniteSet(S)
  PROVE  S \subseteq Nat =>
           /\ Ascending(S) \in [1..Cardinality(S) -> S]
           /\ \A i, j \in 1..Cardinality(S) :
                i < j => Ascending(S)[i] < Ascending(S)[j]
<1> DEFINE Up(s, q) == /\ s \in [1..Cardinality(q) -> q]
                       /\ \A i, j \in 1..Cardinality(q) : i < j => s[i] < s[j]
           T == {q \in SUBSET S : ~\E s : Up(s, q)}
<1>0. SUFFICES ASSUME S \subseteq Nat
               PROVE  /\ Ascending(S) \in [1..Cardinality(S) -> S]
                      /\ \A i, j \in 1..Cardinality(S) :
                           i < j => Ascending(S)[i] < Ascending(S)[j]
  OBVIOUS
<1>1. ASSUME S \in T PROVE FALSE
  <2>1. PICK m \in T : \A y \in T : ~(y \subseteq m /\ y # m)
    <3> HIDE DEF T
    <3>1. T \subseteq SUBSET S
      BY DEF T
    <3> QED
      BY <1>1, <3>1, Smallest
  <2>2. IsFiniteSet(m) /\ m \subseteq Nat
    BY <1>0, FS_Subset
  <2>3. m # {}
    <3>1. Cardinality({}) = 0
      BY FS_EmptySet
    <3>2. ASSUME m = {} PROVE FALSE
      <4>1. Up([i \in 1..0 |-> 0], m)
        BY <3>1, <3>2
      <4> QED
        BY <4>1
    <3> QED
      BY <3>2
  <2>4. PICK x \in m : \A k \in m : x <= k
    BY <2>2, <2>3, LeastNumber
  <2> DEFINE n == Cardinality(m)
             p == m \ {x}
  <2>5. n \in Nat /\ n >= 1 /\ Cardinality(p) = n - 1 /\ IsFiniteSet(p)
    <3>1. n \in Nat /\ n # 0
      BY <2>2, <2>3, FS_CardinalityType, FS_EmptySet
    <3>2. Cardinality(p) = n - 1 /\ IsFiniteSet(p)
      BY <2>2, FS_RemoveElement
    <3> QED
      BY <3>1, <3>2
  <2>6. PICK g : Up(g, p)
    <3>1. p \subseteq m /\ p # m /\ p \in SUBSET S
      OBVIOUS
    <3> QED
      BY <2>1, <3>1
  <2> HIDE DEF n, p
  <2>7. /\ g \in [1..(n - 1) -> p]
        /\ \A i, j \in 1..(n - 1) : i < j => g[i] < g[j]
    BY <2>5, <2>6
  <2> DEFINE f == [i \in 1..n |-> IF i = 1 THEN x ELSE g[i - 1]]
  <2>8. \A i \in 1..n : i # 1 => i - 1 \in 1..(n - 1) /\ g[i - 1] \in p
    BY <2>5, <2>7
  <2>9. \A k \in p : k \in m /\ x < k
    BY <2>2, <2>4 DEF p
  <2>10. f \in [1..n -> m]
    BY <2>8, <2>9
  <2>11. ASSUME NEW i \in 1..n, NEW j \in 1..n, i < j PROVE f[i] < f[j]
    <3>1. j # 1 /\ f[j] = g[j - 1]
      BY <2>5, <2>11
    <3>2. CASE i = 1
      BY <2>8, <2>9, <3>1, <3>2
    <3>3. CASE i # 1
      <4>1. /\ f[i] = g[i - 1] /\ i - 1 < j - 1
            /\ i - 1 \in 1..(n - 1) /\ j - 1 \in 1..(n - 1)
        BY <2>8, <2>5, <2>11, <3>1, <3>3
      <4> QED
        BY <2>7, <3>1, <4>1
    <3> QED
      BY <3>2, <3>3
  <2>12. Up(f, m)
    <3> HIDE DEF f
    <3> QED
      BY <2>10, <2>11 DEF n
  <2> QED
    BY <2>12
<1>2. \E s : Up(s, S)
  BY <1>1
<1>3. PICK s : Up(s, S)
  BY <1>2
<1>4. Up(Ascending(S), S)
  <2>1. \E t \in [1..Cardinality(S) -> S] :
          \A i, j \in 1..Cardinality(S) : i < j => t[i] < t[j]
    BY <1>3
  <2> QED
    BY <2>1 DEF Ascending
<1> QED
  BY <1>4

-----------------------------------------------------------------------------
LEMMA FrameType ==
  ASSUME NEW f \in Frames
  PROVE  /\ f.type \in {"event", "start", "end", "snapshot", "hello"}
         /\ f.to \in Clients \cup {Nobody} /\ f.conn \in Nat
         /\ f.gen \in 1..MaxGen /\ f.life \in 1..MaxLife /\ f.seq \in 0..MaxSeq
         /\ f.gen \in Nat /\ f.life \in Nat /\ f.seq \in Nat
         /\ f.truncated \in BOOLEAN /\ f.rebuild \in BOOLEAN
BY ReplayAssumption DEF Frames

LEMMA BrowserTypes ==
  ASSUME TypeOK
  PROVE  /\ inbox \in Seq(Hellos)
         /\ cursor \in [Clients -> NoCursor..MaxSeq] /\ cgen \in [Clients -> 0..MaxGen]
         /\ rebuilding \in [Clients -> BOOLEAN]
         /\ seen \in [Clients -> SUBSET (Nat \X Nat)]
         /\ last \in [Clients -> Nat \X Nat] /\ disorder \in [Clients -> BOOLEAN]
         /\ owed \in [Clients -> BOOLEAN] /\ overlap \in [Clients -> BOOLEAN]
         /\ orphan \in [Clients -> BOOLEAN]
BY DEF TypeOK

LEMMA ConnNumbers ==
  ASSUME TypeOK
  PROVE  wq \in Seq(Frames) /\ \A i \in 1..Len(wq) : wq[i].conn \in Nat
<1>1. wq \in Seq(Frames)
  BY DEF TypeOK
<1>2. \A i \in 1..Len(wq) : wq[i] \in Frames
  BY <1>1
<1> QED
  BY <1>1, <1>2, FrameType

LEMMA FrameFields ==
  ASSUME NEW type, NEW s
  PROVE  /\ Frame(type, s).type = type /\ Frame(type, s).seq = s
         /\ Frame(type, s).to = Nobody /\ Frame(type, s).conn = 0
         /\ Frame(type, s).gen = gen /\ Frame(type, s).life = life
BY DEF Frame

LEMMA AnswerFields ==
  ASSUME NEW h, NEW type, NEW s
  PROVE  /\ Answer(h, type, s).type = type /\ Answer(h, type, s).seq = s
         /\ Answer(h, type, s).to = h.client /\ Answer(h, type, s).conn = h.conn
         /\ Answer(h, type, s).routed = h.routed
         /\ Answer(h, type, s).gen = gen /\ Answer(h, type, s).life = life
BY DEF Answer, Frame

LEMMA FrameIsFrame ==
  ASSUME TypeOK, NEW type \in {"event", "start", "end", "snapshot", "hello"},
         NEW s \in 0..MaxSeq
  PROVE  /\ Frame(type, s) \in Frames
         /\ \A h \in Hellos : Answer(h, type, s) \in Frames
<1>0. 0 \in 0..MaxRoute /\ \A n \in 1..MaxRoute : n \in 0..MaxRoute
  BY ReplayAssumption
<1>1. gen \in 1..MaxGen /\ life \in 1..MaxLife
  BY DEF TypeOK
<1>2. Frame(type, s) \in Frames
  BY <1>0, <1>1 DEF Frame, Frames
<1>3. ASSUME NEW h \in Hellos PROVE Answer(h, type, s) \in Frames
  <2>1. h.client \in Clients /\ h.conn \in 0..MaxRoute /\ h.routed \in BOOLEAN
    BY <1>0 DEF Hellos
  <2>2. h.stray \in BOOLEAN
    BY DEF Hellos
  <2> QED
    BY <1>0, <1>1, <2>1, <2>2 DEF Answer, Frame, Frames
<1> QED
  BY <1>2, <1>3

(* A frame that answers the hello h now.                                   *)
Answering(f, h) ==
  /\ f \in Frames /\ f.type # "hello"
  /\ f.to = h.client /\ f.conn = h.conn /\ f.routed = h.routed
  /\ f.gen = gen /\ f.life = life /\ f.seq <= ring.tail

(* The frames of an answer, of which no event comes without its envelope.  *)
AnswerTo(s, h) ==
  /\ s \in Seq(Frames)
  /\ \A i \in 1..Len(s) : Answering(s[i], h)
  /\ s # <<>> => s[1].type # "event"
  /\ \A i \in 1..Len(s) : i > 1 /\ s[i].type = "event" =>
       s[i - 1].type \in {"start", "event"}
       /\ (s[i - 1].type = "event" => s[i - 1].seq < s[i].seq)

LEMMA ReplayFrames ==
  ASSUME TypeOK, NEW h \in Hellos, NEW e, e.to = ring.tail,
         e.body \subseteq 1..ring.tail,
         e.truncated \in BOOLEAN, e.rebuild \in BOOLEAN
  PROVE  /\ AnswerTo(Replay(h, e), h)
         /\ Replay(h, e) # <<>> /\ Replay(h, e)[1].type = "start"
<1> DEFINE n == Cardinality(e.body)
           start == [Answer(h, "start", e.to) EXCEPT !.truncated = e.truncated,
                                                     !.rebuild = e.rebuild]
           event(i) == Answer(h, "event", Ascending(e.body)[i])
           events == [i \in 1..n |-> event(i)]
           end == Answer(h, "end", e.to)
<1>0. ring.tail \in 0..MaxSeq /\ ring.tail \in Nat /\ MaxSeq \in Nat
  BY ReplayAssumption DEF TypeOK
<1>1. IsFiniteSet(e.body) /\ n \in Nat
  <2>0. 1 \in Int /\ ring.tail \in Int
    BY <1>0
  <2>1. IsFiniteSet(1..ring.tail) /\ e.body \in SUBSET (1..ring.tail)
    BY <2>0, FS_Interval
  <2> QED
    BY <2>1, FS_Subset, FS_CardinalityType
<1>2. /\ \A i \in 1..n : Ascending(e.body)[i] \in 1..ring.tail
      /\ \A i, j \in 1..n : i < j => Ascending(e.body)[i] < Ascending(e.body)[j]
  <2>1. e.body \subseteq Nat
    BY <1>0
  <2>2. /\ Ascending(e.body) \in [1..n -> e.body]
        /\ \A i, j \in 1..n : i < j => Ascending(e.body)[i] < Ascending(e.body)[j]
    BY <1>1, <2>1, AscendingFacts
  <2> QED
    BY <2>2
<1>3. Answering(start, h) /\ start.type = "start"
  <2>1. /\ Answer(h, "start", e.to) \in Frames
        /\ Answering(Answer(h, "start", e.to), h)
        /\ Answer(h, "start", e.to).type = "start"
    BY <1>0, FrameIsFrame, AnswerFields DEF Answering
  <2> QED
    BY <2>1 DEF Answering, Frames
<1>4. Answering(end, h) /\ end.type = "end"
  BY <1>0, FrameIsFrame, AnswerFields DEF Answering
<1>5. \A i \in 1..n : /\ Answering(event(i), h) /\ event(i).type = "event"
                      /\ event(i).seq = Ascending(e.body)[i]
  <2> SUFFICES ASSUME NEW i \in 1..n
               PROVE  /\ Answering(event(i), h) /\ event(i).type = "event"
                      /\ event(i).seq = Ascending(e.body)[i]
    OBVIOUS
  <2>1. Ascending(e.body)[i] \in 0..MaxSeq /\ Ascending(e.body)[i] <= ring.tail
    BY <1>0, <1>2
  <2> QED
    BY <2>1, FrameIsFrame, AnswerFields DEF Answering
<1> HIDE DEF start, event, end, n
<1>6. events \in Seq(Frames) /\ Len(events) = n /\ \A i \in 1..n : events[i] = event(i)
  BY <1>1, <1>5 DEF Answering
<1> HIDE DEF events
<1> DEFINE s == <<start>> \o events \o <<end>>
<1>7. /\ s \in Seq(Frames) /\ Len(s) = n + 2
      /\ s[1] = start /\ s[n + 2] = end
      /\ \A i \in 1..n : s[i + 1] = event(i)
  <2>1. start \in Frames /\ end \in Frames
    BY <1>3, <1>4 DEF Answering
  <2> QED
    BY <1>1, <1>6, <2>1
<1>8. \A k \in 1..Len(s) : k = 1 \/ k = n + 2 \/ (k - 1 \in 1..n /\ s[k] = event(k - 1))
  BY <1>1, <1>7
<1>9. Replay(h, e) = s
  BY DEF Replay, s, start, events, event, end, n
<1> HIDE DEF s
<1>10. \A k \in 1..Len(s) : Answering(s[k], h)
  BY <1>3, <1>4, <1>5, <1>7, <1>8
<1>11. ASSUME NEW k \in 1..Len(s), k > 1, s[k].type = "event"
       PROVE  /\ s[k - 1].type \in {"start", "event"}
              /\ s[k - 1].type = "event" => s[k - 1].seq < s[k].seq
  <2>1. k - 1 \in 1..n /\ s[k] = event(k - 1)
    BY <1>1, <1>4, <1>7, <1>8, <1>11
  <2>2. CASE k = 2
    BY <1>3, <1>7, <2>2
  <2>3. CASE k # 2
    <3>1. k - 2 \in 1..n /\ (k - 2) + 1 = k - 1 /\ k - 2 < k - 1
      BY <1>1, <2>1, <2>3
    <3>2. s[k - 1] = event(k - 2)
      BY <1>7, <3>1
    <3> QED
      BY <1>2, <1>5, <2>1, <3>1, <3>2
  <2> QED
    BY <2>2, <2>3
<1>12. s # <<>> /\ s[1].type = "start"
  BY <1>1, <1>3, <1>7
<1> QED
  BY <1>7, <1>9, <1>10, <1>11, <1>12 DEF AnswerTo

LEMMA HelloReplyFrames ==
  ASSUME TypeOK, PoolInv, NEW h \in Hellos
  PROVE  AnswerTo(HelloReply(h), h)
<1>0. ring.tail \in 0..MaxSeq /\ ring.tail \in Nat
  BY ReplayAssumption DEF TypeOK
<1>s. Seqs(ring) \subseteq 1..ring.tail
  BY DEF PoolInv
<1>1. ASSUME NEW from, NEW rebuild \in BOOLEAN
      PROVE  /\ ReplayFrom(ring, from, rebuild).to = ring.tail
             /\ ReplayFrom(ring, from, rebuild).body \subseteq 1..ring.tail
             /\ ReplayFrom(ring, from, rebuild).truncated \in BOOLEAN
             /\ ReplayFrom(ring, from, rebuild).rebuild \in BOOLEAN
  <2>1. CASE rebuild \/ from > ring.tail
    <3>1. /\ WholeBuffer(ring).to = ring.tail
          /\ WholeBuffer(ring).body = Seqs(ring)
          /\ WholeBuffer(ring).truncated = (ring.dropped > 0)
          /\ WholeBuffer(ring).rebuild = TRUE
      BY DEF WholeBuffer, Envelope
    <3>2. (ring.dropped > 0) \in BOOLEAN
      BY SMT
    <3>3. ReplayFrom(ring, from, rebuild) = WholeBuffer(ring)
      BY <2>1 DEF ReplayFrom
    <3> QED
      BY <3>1, <3>2, <3>3, <1>s
  <2>2. CASE ~(rebuild \/ from > ring.tail)
    <3>1. /\ ReplayFrom(ring, from, rebuild).to = ring.tail
          /\ ReplayFrom(ring, from, rebuild).body = {x \in Seqs(ring) : x > from}
          /\ ReplayFrom(ring, from, rebuild).truncated = Truncated(ring, from)
          /\ ReplayFrom(ring, from, rebuild).rebuild = FALSE
      BY <2>2 DEF ReplayFrom, Envelope
    <3>2. Truncated(ring, from) \in BOOLEAN
      BY Zenon DEF Truncated
    <3> QED
      BY <3>1, <3>2, <1>s
  <2> QED
    BY <2>1, <2>2
<1>2. ASSUME turnFrom # 0, NEW e \in CurrentTurn(ring, turnFrom, 0)
      PROVE  /\ e.to = ring.tail /\ e.body \subseteq 1..ring.tail
             /\ e.truncated \in BOOLEAN /\ e.rebuild \in BOOLEAN
  <2> DEFINE from == Max({x.seq : x \in Markers(ring, turnFrom)})
  <2>1. /\ e.to = ring.tail /\ e.body = {x \in Seqs(ring) : x >= from}
        /\ e.truncated = (ring.dropped >= from) /\ e.rebuild = FALSE
    BY <1>2 DEF CurrentTurn, FromMarker, Envelope, Unnamed
  <2>2. (ring.dropped >= from) \in BOOLEAN
    BY SMT
  <2> HIDE DEF from
  <2> QED
    BY <2>1, <2>2, <1>s
<1>3. CASE h.cursor # NoCursor
  <2> DEFINE e == ReplayFrom(ring, IF h.gen = gen THEN h.cursor ELSE 0, ~(h.gen = gen))
  <2>1. HelloReply(h) = Replay(h, e)
    BY <1>3 DEF HelloReply
  <2>2. /\ e.to = ring.tail /\ e.body \subseteq 1..ring.tail
        /\ e.truncated \in BOOLEAN /\ e.rebuild \in BOOLEAN
    <3>1. (~(h.gen = gen)) \in BOOLEAN
      BY Zenon
    <3> QED
      BY <1>1, <3>1
  <2> HIDE DEF e
  <2> QED
    BY <2>1, <2>2, ReplayFrames
<1>4. CASE h.cursor = NoCursor
  <2> DEFINE snap == Answer(h, "snapshot", ring.tail)
  <2>1. Answering(snap, h) /\ snap.type = "snapshot" /\ snap \in Frames
    BY <1>0, FrameIsFrame, AnswerFields DEF Answering
  <2>2. CASE turnFrom # 0 /\ CurrentTurn(ring, turnFrom, 0) # {}
    <3>1. PICK e \in CurrentTurn(ring, turnFrom, 0) :
            e = CHOOSE x \in CurrentTurn(ring, turnFrom, 0) : TRUE
      BY <2>2
    <3> DEFINE s == Replay(h, e)
    <3>2. HelloReply(h) = <<snap>> \o s
      BY <1>4, <2>2, <3>1 DEF HelloReply
    <3>3. AnswerTo(s, h) /\ s # <<>> /\ s[1].type = "start"
      BY <1>2, <2>2, ReplayFrames
    <3> HIDE DEF s, snap
    <3>4. s \in Seq(Frames) /\ Len(s) \in Nat
      BY <3>3 DEF AnswerTo
    <3> DEFINE r == <<snap>> \o s
    <3>5. /\ r \in Seq(Frames) /\ Len(r) = Len(s) + 1 /\ r[1] = snap
          /\ \A i \in 1..Len(r) : i # 1 => i - 1 \in 1..Len(s) /\ r[i] = s[i - 1]
      BY <2>1, <3>4
    <3> HIDE DEF r
    <3>6. \A i \in 1..Len(r) : Answering(r[i], h)
      BY <2>1, <3>3, <3>5 DEF AnswerTo
    <3>7. ASSUME NEW i \in 1..Len(r), i > 1, r[i].type = "event"
          PROVE  /\ r[i - 1].type \in {"start", "event"}
                 /\ r[i - 1].type = "event" => r[i - 1].seq < r[i].seq
      <4>1. i - 1 \in 1..Len(s) /\ r[i] = s[i - 1]
        BY <3>5, <3>7
      <4>2. i - 1 # 1
        BY <3>3, <3>7, <4>1
      <4>3. i - 1 \in 1..Len(r) /\ r[i - 1] = s[(i - 1) - 1] /\ i - 1 > 1
        BY <3>4, <3>5, <4>1, <4>2
      <4> QED
        BY <3>3, <3>7, <4>1, <4>3 DEF AnswerTo
    <3>8. r # <<>> /\ r[1].type # "event"
      BY <2>1, <3>4, <3>5
    <3> QED
      BY <3>2, <3>5, <3>6, <3>7, <3>8 DEF AnswerTo, r
  <2>3. CASE ~(turnFrom # 0 /\ CurrentTurn(ring, turnFrom, 0) # {})
    <3>1. HelloReply(h) = <<snap>>
      <4>1. HelloReply(h) = <<snap>> \o <<>>
        BY <1>4, <2>3 DEF HelloReply
      <4> HIDE DEF snap
      <4>2. <<snap>> \o <<>> = <<snap>>
        BY <2>1
      <4> QED
        BY <4>1, <4>2
    <3> HIDE DEF snap
    <3>2. /\ <<snap>> \in Seq(Frames) /\ Len(<<snap>>) = 1 /\ <<snap>>[1] = snap
      BY <2>1
    <3> QED
      BY <2>1, <3>1, <3>2 DEF AnswerTo
  <2> QED
    BY <2>2, <2>3
<1> QED
  BY <1>3, <1>4

-----------------------------------------------------------------------------
(* Frames that join or leave a queue.                                      *)
LEMMA SortedAppend ==
  ASSUME NEW s \in Seq(Frames), NEW t \in Seq(Frames), Sorted(s), Sorted(t),
         \A i \in 1..Len(s), j \in 1..Len(t) : Before(s[i], t[j])
  PROVE  Sorted(s \o t)
<1> DEFINE u == s \o t
<1>1. /\ u \in Seq(Frames) /\ Len(u) = Len(s) + Len(t)
      /\ Len(s) \in Nat /\ Len(t) \in Nat
      /\ \A i \in 1..Len(u) : u[i] = IF i <= Len(s) THEN s[i] ELSE t[i - Len(s)]
  OBVIOUS
<1> HIDE DEF u
<1>2. ASSUME NEW i \in 1..Len(u), NEW j \in 1..Len(u), i < j
      PROVE  Before(u[i], u[j])
  <2>1. CASE j <= Len(s)
    BY <1>1, <1>2, <2>1, SMTT(30) DEF Sorted
  <2>2. CASE i <= Len(s) /\ j > Len(s)
    <3>1. i \in 1..Len(s) /\ j - Len(s) \in 1..Len(t)
      BY <1>1, <2>2
    <3>2. u[i] = s[i] /\ u[j] = t[j - Len(s)]
      BY <1>1, <2>2
    <3>3. Before(s[i], t[j - Len(s)])
      BY <3>1
    <3> QED
      BY <3>2, <3>3
  <2>3. CASE i > Len(s)
    <3>1. /\ i - Len(s) \in 1..Len(t) /\ j - Len(s) \in 1..Len(t)
          /\ i - Len(s) < j - Len(s)
      BY <1>1, <1>2, <2>3
    <3>2. u[i] = t[i - Len(s)] /\ u[j] = t[j - Len(s)]
      BY <1>1, <1>2, <2>3
    <3>3. Before(t[i - Len(s)], t[j - Len(s)])
      BY <3>1 DEF Sorted
    <3> QED
      BY <3>2, <3>3
  <2> QED
    BY <1>1, <1>2, <2>1, <2>2, <2>3
<1> QED
  BY <1>2 DEF Sorted, u

LEMMA ChainedAppend ==
  ASSUME NEW s \in Seq(Frames), NEW t \in Seq(Frames), NEW c, NEW r,
         Chained(s, c, r), Chained(t, c, r),
         t # <<>> /\ Own(t[1], c, r) =>
           s # <<>> /\ Precedes(s[Len(s)], t[1])
  PROVE  Chained(s \o t, c, r)
<1> DEFINE u == s \o t
<1>1. /\ u \in Seq(Frames) /\ Len(u) = Len(s) + Len(t)
      /\ Len(s) \in Nat /\ Len(t) \in Nat
      /\ \A i \in 1..Len(u) : u[i] = IF i <= Len(s) THEN s[i] ELSE t[i - Len(s)]
  OBVIOUS
<1> HIDE DEF u
<1>2. ASSUME NEW i \in 1..Len(u), i > 1, Own(u[i], c, r)
      PROVE  Precedes(u[i - 1], u[i])
  <2>1. CASE i <= Len(s)
    BY <1>1, <1>2, <2>1 DEF Chained
  <2>2. CASE i = Len(s) + 1
    <3>1. t # <<>> /\ u[i] = t[1] /\ i - 1 = Len(s)
      BY <1>1, <1>2, <2>2
    <3>2. u[i - 1] = s[Len(s)]
      <4>1. i - 1 \in 1..Len(u) /\ i - 1 <= Len(s)
        BY <1>1, <1>2, <2>2
      <4> QED
        BY <1>1, <3>1, <4>1
    <3> QED
      BY <1>2, <3>1, <3>2
  <2>3. CASE i > Len(s) + 1
    <3>1. /\ i - Len(s) \in 1..Len(t) /\ i - Len(s) > 1
          /\ u[i] = t[i - Len(s)] /\ u[i - 1] = t[(i - Len(s)) - 1]
      BY <1>1, <1>2, <2>3, SMTT(30)
    <3> QED
      BY <1>2, <3>1 DEF Chained
  <2> QED
    BY <1>1, <1>2, <2>1, <2>2, <2>3
<1> QED
  BY <1>2 DEF Chained, u

LEMMA TailKept ==
  ASSUME NEW s \in Seq(Frames), s # <<>>
  PROVE  /\ Tail(s) \in Seq(Frames) /\ Len(Tail(s)) = Len(s) - 1
         /\ Len(s) \in Nat \ {0} /\ Head(s) = s[1] /\ s[1] \in Frames
         /\ \A i \in 1..Len(Tail(s)) : i + 1 \in 1..Len(s) /\ Tail(s)[i] = s[i + 1]
         /\ Sorted(s) => Sorted(Tail(s))
                         /\ \A i \in 1..Len(Tail(s)) : Before(s[1], Tail(s)[i])
         /\ \A c, r : Chained(s, c, r) =>
              /\ Chained(Tail(s), c, r)
              /\ Tail(s) # <<>> /\ Own(Tail(s)[1], c, r) => Precedes(s[1], Tail(s)[1])
<1> DEFINE t == Tail(s)
<1>1. /\ t \in Seq(Frames) /\ Len(t) = Len(s) - 1 /\ Len(s) \in Nat \ {0}
      /\ Head(s) = s[1] /\ s[1] \in Frames
      /\ \A i \in 1..Len(t) : i + 1 \in 1..Len(s) /\ t[i] = s[i + 1]
  OBVIOUS
<1> HIDE DEF t
<1>2. ASSUME Sorted(s) PROVE Sorted(t) /\ \A i \in 1..Len(t) : Before(s[1], t[i])
  BY <1>1, <1>2, SMTT(30) DEF Sorted
<1>3. ASSUME NEW c, NEW r, Chained(s, c, r)
      PROVE  /\ Chained(t, c, r)
             /\ t # <<>> /\ Own(t[1], c, r) => Precedes(s[1], t[1])
  <2>1. ASSUME NEW i \in 1..Len(t), i > 1, Own(t[i], c, r)
        PROVE  Precedes(t[i - 1], t[i])
    <3>1. /\ i + 1 \in 1..Len(s) /\ i + 1 > 1 /\ t[i] = s[i + 1]
          /\ i - 1 \in 1..Len(t) /\ t[i - 1] = s[(i + 1) - 1]
      BY <1>1, <2>1
    <3> QED
      BY <1>3, <2>1, <3>1 DEF Chained
  <2>2. ASSUME t # <<>>, Own(t[1], c, r) PROVE Precedes(s[1], t[1])
    <3>1. 1 \in 1..Len(t) /\ t[1] = s[1 + 1] /\ 1 + 1 \in 1..Len(s) /\ (1 + 1) - 1 = 1
      BY <1>1, <2>2
    <3> QED
      BY <1>3, <2>2, <3>1 DEF Chained
  <2> QED
    BY <2>1, <2>2 DEF Chained
<1> QED
  BY <1>1, <1>2, <1>3 DEF t

-----------------------------------------------------------------------------
(* The pool only ever goes on: no incarnation comes back, and within one    *)
(* the ring's tail never falls.                                            *)
Onward ==
  /\ life <= life' /\ gen <= gen' /\ routes <= routes'
  /\ resident' => \/ life < life'
                  \/ /\ resident /\ life' = life /\ gen' = gen
                     /\ ring.tail <= ring'.tail

(* The arithmetic the proofs need of the types.                            *)
Numeric ==
  /\ gen \in Nat /\ life \in Nat /\ routes \in Nat /\ ring.tail \in Nat
  /\ life >= 1 /\ gen >= 1 /\ turnFrom \in Nat
  /\ \A c \in Clients :
       /\ cgen[c] \in Nat /\ cursor[c] \in Int /\ route[c] \in Nat
       /\ last[c] \in Nat \X Nat /\ last[c][1] \in Nat /\ last[c][2] \in Nat
       /\ Bigger(cursor[c], 0) \in Nat

LEMMA Numbers == TypeOK => Numeric
<1> SUFFICES ASSUME TypeOK PROVE Numeric
  OBVIOUS
<1>1. /\ gen \in Nat /\ life \in Nat /\ routes \in Nat /\ ring.tail \in Nat
      /\ life >= 1 /\ gen >= 1 /\ turnFrom \in Nat
  BY ReplayAssumption DEF TypeOK
<1>2. ASSUME NEW c \in Clients
      PROVE  /\ cgen[c] \in Nat /\ cursor[c] \in Int /\ route[c] \in Nat
             /\ last[c] \in Nat \X Nat
             /\ Bigger(cursor[c], 0) \in Nat
  <2>1. cgen[c] \in 0..MaxGen /\ cursor[c] \in NoCursor..MaxSeq
        /\ route[c] \in 0..MaxRoute /\ last[c] \in Nat \X Nat
    BY DEF TypeOK
  <2>2. cursor[c] \in Int
    BY <2>1, ReplayAssumption DEF NoCursor
  <2>3. cgen[c] \in Nat /\ route[c] \in Nat
    BY <2>1, ReplayAssumption
  <2>4. Bigger(cursor[c], 0) \in Nat
    BY <2>2 DEF Bigger
  <2> QED
    BY <2>1, <2>2, <2>3, <2>4
<1>3. \A p \in Nat \X Nat : p[1] \in Nat /\ p[2] \in Nat
  OBVIOUS
<1> QED
  BY <1>1, <1>2, <1>3 DEF Numeric

LEMMA NumbersNext == TypeOK' => Numeric'
BY Numbers, PTL

LEMMA KnownOnward ==
  ASSUME TypeOK, TypeOK', Onward
  PROVE  \A f \in Frames : Known(f) => Known(f)'
<1>1. /\ gen \in Nat /\ life \in Nat /\ routes \in Nat /\ ring.tail \in Nat
      /\ gen' \in Nat /\ life' \in Nat /\ routes' \in Nat /\ ring'.tail \in Nat
  BY Numbers, NumbersNext DEF Numeric
<1> QED
  BY <1>1, FrameType DEF Known, Onward

LEMMA PresentOnward ==
  ASSUME TypeOK, TypeOK', Onward, UNCHANGED browser
  PROVE  \A c \in Clients : Present(c) => Present(c)'
<1>1. /\ gen \in Nat /\ life \in Nat /\ ring.tail \in Nat
      /\ gen' \in Nat /\ life' \in Nat /\ ring'.tail \in Nat
  BY Numbers, NumbersNext DEF Numeric
<1>2. ASSUME NEW c \in Clients, Present(c) PROVE Present(c)'
  <2>1. /\ cgen[c] \in Nat /\ last[c][1] \in Nat /\ last[c][2] \in Nat
    BY Numbers DEF Numeric
  <2> QED
    BY <1>1, <1>2, <2>1 DEF Present, Onward, browser
<1> QED
  BY <1>2

-----------------------------------------------------------------------------
(* A frame sent in this step: it is of the present incarnation, and if it   *)
(* is a live event its seq is new.                                         *)
Fresh(f) ==
  /\ Known(f)'
  /\ f.type # "hello" => resident' /\ f.life = life' /\ f.gen = gen'
  /\ f.type = "event" /\ f.to = Nobody =>
       resident /\ life' = life /\ ring.tail < f.seq

LEMMA BehindTheOthers ==
  ASSUME TypeOK, TypeOK', Onward
  PROVE  \A f, g \in Frames : Known(f) /\ Fresh(g) => Before(f, g)
<1>1. /\ gen \in Nat /\ life \in Nat /\ routes \in Nat /\ ring.tail \in Nat
      /\ gen' \in Nat /\ life' \in Nat /\ routes' \in Nat /\ ring'.tail \in Nat
  BY Numbers, NumbersNext DEF Numeric
<1>2. ASSUME NEW f \in Frames, NEW g \in Frames, Known(f), Fresh(g),
             f.type # "hello", g.type # "hello"
      PROVE  /\ \/ f.life < g.life /\ f.gen <= g.gen
                \/ f.life = g.life /\ f.gen = g.gen
             /\ f.type = "event" /\ g.type = "event" /\ g.to = Nobody =>
                  After(Id(g), Id(f))
  <2>1. /\ f.life \in Nat /\ f.gen \in Nat /\ f.seq \in Nat
        /\ g.life \in Nat /\ g.gen \in Nat /\ g.seq \in Nat
    BY FrameType
  <2>2. g.life = life' /\ g.gen = gen' /\ resident'
    BY <1>2 DEF Fresh
  <2>3. /\ f.life <= life /\ f.gen <= gen
        /\ resident /\ f.life = life => f.gen = gen /\ f.seq <= ring.tail
    BY <1>2 DEF Known
  <2>4. \/ f.life < g.life /\ f.gen <= g.gen
        \/ f.life = g.life /\ f.gen = g.gen
    BY <1>1, <2>1, <2>2, <2>3 DEF Onward
  <2>5. ASSUME g.type = "event", g.to = Nobody PROVE After(Id(g), Id(f))
    <3>1. resident /\ life' = life /\ ring.tail < g.seq
      BY <1>2, <2>5 DEF Fresh
    <3>2. g.life > f.life \/ (g.life = f.life /\ g.seq > f.seq)
      BY <1>1, <2>1, <2>2, <2>3, <3>1
    <3> QED
      BY <3>2 DEF After, Id
  <2> QED
    BY <2>4, <2>5
<1> QED
  BY <1>2 DEF Before

LEMMA ComingFresh ==
  ASSUME TypeOK, TypeOK', Onward, UNCHANGED browser
  PROVE  \A f \in Frames, c \in Clients :
           Present(c) /\ Fresh(f) => Coming(f, c)'
<1>1. /\ gen \in Nat /\ life \in Nat /\ ring.tail \in Nat
      /\ gen' \in Nat /\ life' \in Nat /\ ring'.tail \in Nat
  BY Numbers, NumbersNext DEF Numeric
<1>2. ASSUME NEW f \in Frames, NEW c \in Clients, Present(c), Fresh(f),
             f.type # "hello"
      PROVE  Coming(f, c)'
  <2>1. /\ f.life \in Nat /\ f.gen \in Nat /\ f.seq \in Nat
        /\ cgen[c] \in Nat /\ last[c][1] \in Nat /\ last[c][2] \in Nat
        /\ Bigger(cursor[c], 0) \in Nat
    BY FrameType, Numbers DEF Numeric
  <2>2. f.life = life' /\ f.gen = gen' /\ resident'
    BY <1>2 DEF Fresh
  <2>3. UNCHANGED <<cgen, last, cursor, orphan>>
    BY DEF browser
  <2>4. cgen[c] <= f.gen /\ last[c][1] <= f.life
    BY <1>1, <1>2, <2>1, <2>2 DEF Present, Onward
  <2>5. ASSUME f.type = "event", f.to = Nobody PROVE After(Id(f), last[c])
    <3>1. resident /\ life' = life /\ ring.tail < f.seq
      BY <1>2, <2>5 DEF Fresh
    <3>2. last[c][1] < f.life \/ (last[c][1] = f.life /\ last[c][2] < f.seq)
      BY <1>1, <1>2, <2>1, <2>2, <3>1 DEF Present
    <3> QED
      BY <2>1, <3>2 DEF After, Id
  <2>6. ~orphan[c] /\ (f.gen > cgen[c] \/ Bigger(cursor[c], 0) < last[c][2]) =>
          f.life > last[c][1]
    BY <1>1, <1>2, <2>1, <2>2 DEF Present, Onward
  <2> QED
    BY <2>3, <2>4, <2>5, <2>6 DEF Coming
<1> QED
  BY <1>2 DEF Coming

(* Whatever the wrapper sends, if it is fresh and comes in envelopes, keeps *)
(* the order on the way to every browser.                                  *)
LEMMA WrapperSends ==
  ASSUME ReplayInv, TypeOK', Onward, UNCHANGED <<relay, browser>>,
         NEW fs \in Seq(Frames), wq' = wq \o fs,
         \A k \in 1..Len(fs) : Fresh(fs[k]),
         Sorted(fs), \A c \in Clients : Chained(fs, c, route[c]),
         fs # <<>> => fs[1].type # "event" \/ fs[1].to = Nobody
  PROVE  /\ Sorted(wq') /\ (\A i \in 1..Len(wq) : Known(wq[i]))'
         /\ \A c \in Clients : ClientInv(c)'
<1>1. /\ TypeOK /\ wq \in Seq(Frames) /\ cq \in [Clients -> Seq(Frames)]
      /\ LinkInv /\ \A c \in Clients : ClientInv(c)
  BY DEF ReplayInv, TypeOK
<1>2. UNCHANGED <<route, cq, routes, cursor, cgen, rebuilding, last, disorder, orphan>>
  BY DEF relay, browser
<1>3. /\ wq' \in Seq(Frames) /\ Len(wq) \in Nat /\ Len(fs) \in Nat
      /\ \A i \in 1..Len(wq') : \/ i \in 1..Len(wq) /\ wq'[i] = wq[i]
                                \/ i - Len(wq) \in 1..Len(fs) /\ wq'[i] = fs[i - Len(wq)]
  BY <1>1
<1>f. /\ \A i \in 1..Len(wq) : wq[i] \in Frames
      /\ \A k \in 1..Len(fs) : fs[k] \in Frames
  BY <1>1
<1>4. \A f \in Frames : Known(f) => Known(f)'
  BY <1>1, KnownOnward
<1>5. \A f, g \in Frames : Known(f) /\ Fresh(g) => Before(f, g)
  BY <1>1, BehindTheOthers
<1>6. \A f \in Frames, c \in Clients : Present(c) /\ Fresh(f) => Coming(f, c)'
  BY <1>1, ComingFresh
<1>7. \A c \in Clients : Present(c) => Present(c)'
  BY <1>1, PresentOnward
<1>8. Sorted(wq')
  <2>1. \A i \in 1..Len(wq), j \in 1..Len(fs) : Before(wq[i], fs[j])
    BY <1>1, <1>5, <1>f DEF LinkInv
  <2> QED
    BY <1>1, <2>1, SortedAppend DEF LinkInv
<1>9. (\A i \in 1..Len(wq) : Known(wq[i]))'
  <2>1. \A k \in 1..Len(fs) : Known(fs[k])'
    BY DEF Fresh
  <2>2. \A i \in 1..Len(wq) : Known(wq[i])
    BY <1>1 DEF LinkInv
  <2> QED
    BY <1>3, <1>4, <1>f, <2>1, <2>2 DEF Known
<1>10. ASSUME NEW c \in Clients PROVE ClientInv(c)'
  <2>0. cq[c] \in Seq(Frames) /\ \A i \in 1..Len(cq[c]) : cq[c][i] \in Frames
    BY <1>1
  <2>c. ClientInv(c)
    BY <1>1
  <2>1. (\A i \in 1..Len(cq[c]) : Known(cq[c][i]) /\ cq[c][i].to \in {Nobody, c})'
    BY <1>2, <1>4, <2>0, <2>c DEF ClientInv, Known
  <2>2. \A i \in 1..Len(cq[c]), j \in 1..Len(wq') : Before(cq[c][i], wq'[j])
    BY <1>3, <1>5, <1>f, <2>0, <2>c DEF ClientInv
  <2>3. (\A i \in 1..Len(wq) : Coming(wq[i], c))'
    BY <1>2, <1>3, <1>6, <1>f, <2>c DEF ClientInv, Coming
  <2>4. (\A i \in 1..Len(cq[c]) : Coming(cq[c][i], c))'
    BY <1>2, <2>c DEF ClientInv, Coming
  <2>5. Present(c)'
    BY <1>7, <2>c DEF ClientInv
  <2>6. c # Nobody /\ (fs # <<>> => ~Own(fs[1], c, route[c]))
    BY ReplayAssumption DEF Own
  <2>7. Chained(wq', c, route[c])
    BY <1>1, <2>6, <2>c, ChainedAppend DEF ClientInv
  <2>8. wq' # <<>> /\ Own(wq'[1], c, route[c]) =>
          /\ wq # <<>> /\ wq'[1] = wq[1]
    BY <1>1, <2>6
  <2>9. (wq # <<>> /\ Own(wq[1], c, route[c]) =>
           IF cq[c] = <<>> THEN Expected(wq[1], c)
           ELSE Precedes(cq[c][Len(cq[c])], wq[1]))'
    BY <1>2, <2>8, <2>c DEF ClientInv, Expected
  <2>10. (cq[c] # <<>> /\ Own(cq[c][1], c, route[c]) => Expected(cq[c][1], c))'
    BY <1>2, <2>c DEF ClientInv, Expected
  <2>11. /\ route'[c] <= routes' /\ (route'[c] = 0 => cq'[c] = <<>>)
         /\ Sorted(cq'[c]) /\ Chained(cq'[c], c, route'[c]) /\ ~disorder'[c]
    BY <1>2, <2>c DEF ClientInv
  <2> QED
    BY <1>2, <2>1, <2>2, <2>3, <2>4, <2>5, <2>7, <2>9, <2>10, <2>11 DEF ClientInv
<1> QED
  BY <1>8, <1>9, <1>10

(* A lost link takes what it carried; what reached the relay stays.        *)
LEMMA LinkCleared ==
  ASSUME ReplayInv, TypeOK', Onward, UNCHANGED <<relay, browser>>, wq' = <<>>
  PROVE  \A c \in Clients : ClientInv(c)'
<1>1. TypeOK /\ cq \in [Clients -> Seq(Frames)] /\ \A c \in Clients : ClientInv(c)
  BY DEF ReplayInv, TypeOK
<1>2. UNCHANGED <<route, cq, routes, cursor, cgen, rebuilding, last, disorder, orphan>>
  BY DEF relay, browser
<1>4. \A f \in Frames : Known(f) => Known(f)'
  BY <1>1, KnownOnward
<1>7. \A c \in Clients : Present(c) => Present(c)'
  BY <1>1, PresentOnward
<1>10. ASSUME NEW c \in Clients PROVE ClientInv(c)'
  <2>0. cq[c] \in Seq(Frames) /\ \A i \in 1..Len(cq[c]) : cq[c][i] \in Frames
    BY <1>1
  <2>c. ClientInv(c)
    BY <1>1
  <2>w. Len(wq') = 0
    OBVIOUS
  <2>1. (\A i \in 1..Len(cq[c]) : Known(cq[c][i]) /\ cq[c][i].to \in {Nobody, c})'
    BY <1>2, <1>4, <2>0, <2>c DEF ClientInv, Known
  <2>4. (\A i \in 1..Len(cq[c]) : Coming(cq[c][i], c))'
    BY <1>2, <2>c DEF ClientInv, Coming
  <2>5. Present(c)'
    BY <1>7, <2>c DEF ClientInv
  <2>10. (cq[c] # <<>> /\ Own(cq[c][1], c, route[c]) => Expected(cq[c][1], c))'
    BY <1>2, <2>c DEF ClientInv, Expected
  <2>11. /\ route'[c] <= routes' /\ (route'[c] = 0 => cq'[c] = <<>>)
         /\ Sorted(cq'[c]) /\ Chained(cq'[c], c, route'[c]) /\ ~disorder'[c]
    BY <1>2, <2>c DEF ClientInv
  <2>12. Chained(wq', c, route'[c])
    BY <2>w DEF Chained
  <2> QED
    BY <2>w, <2>1, <2>4, <2>5, <2>10, <2>11, <2>12 DEF ClientInv
<1> QED
  BY <1>10

(* A browser to which nothing happens.                                     *)
LEMMA ClientKept ==
  ASSUME UNCHANGED <<wrapper, wq>>, NEW c \in Clients, ClientInv(c), TypeOK,
         routes' \in Nat, routes <= routes',
         cq'[c] = cq[c], route'[c] = route[c],
         cursor'[c] = cursor[c], cgen'[c] = cgen[c], last'[c] = last[c],
         rebuilding'[c] = rebuilding[c], disorder'[c] = disorder[c],
         orphan'[c] = orphan[c]
  PROVE  ClientInv(c)'
<1>1. UNCHANGED <<gen, life, resident, ring>>
  BY DEF wrapper
<1>2. cq[c] \in Seq(Frames) /\ routes \in Nat /\ route[c] \in Nat
      /\ \A i \in 1..Len(cq[c]) : cq[c][i] \in Frames
  BY Numbers DEF TypeOK, Numeric
<1>3. (\A i \in 1..Len(cq[c]) : Known(cq[c][i]) /\ cq[c][i].to \in {Nobody, c})'
  BY <1>1, <1>2, FrameType, SMTT(30) DEF ClientInv, Known
<1>4. /\ (\A i \in 1..Len(cq[c]) : Coming(cq[c][i], c))'
      /\ (\A i \in 1..Len(wq) : Coming(wq[i], c))'
      /\ Present(c)'
  BY <1>1 DEF ClientInv, Coming, Present
<1>5. /\ (cq[c] # <<>> /\ Own(cq[c][1], c, route[c]) => Expected(cq[c][1], c))'
      /\ (wq # <<>> /\ Own(wq[1], c, route[c]) =>
            IF cq[c] = <<>> THEN Expected(wq[1], c)
            ELSE Precedes(cq[c][Len(cq[c])], wq[1]))'
  BY DEF ClientInv, Expected
<1>6. route'[c] <= routes'
  BY <1>2 DEF ClientInv
<1> QED
  BY <1>3, <1>4, <1>5, <1>6 DEF ClientInv

-----------------------------------------------------------------------------
(* The wrapper's own steps.                                                *)
LEMMA EmitFacts2 ==
  ASSUME ReplayInv, NEW kind, NEW from, EmitEvent(kind, from),
         turnFrom' <= ring.tail + 1
  PROVE  PoolInv' /\ ring'.tail = ring.tail + 1 /\ ring'.tail \in 0..MaxSeq
<1>1. ring.tail \in 0..MaxSeq /\ ring.tail \in Nat /\ MaxSeq \in Nat /\ resident
      /\ resident' /\ ring.tail < MaxSeq
  BY Numbers, ReplayAssumption DEF EmitEvent, ReplayInv, TypeOK, Numeric
<1> DEFINE e == [seq |-> ring.tail + 1, size |-> 1, kind |-> kind, msg |-> from]
           n == ring.tail
<1>2. ring' \in Appended(ring, e) /\ e.seq = n + 1 /\ e.size \in Nat
  BY DEF EmitEvent
<1>3. /\ IsRing(ring) /\ ring.tail = n /\ n \in Nat
      /\ Seqs(ring) \subseteq 1..n /\ ring.dropped \in 0..n
      /\ ring.dropped > 0 => ring.dropped \notin Seqs(ring)
  BY <1>1 DEF ReplayInv, PoolInv
<1> HIDE DEF e, n
<1>4. /\ IsRing(ring') /\ ring'.tail = n + 1
      /\ ring'.buf \subseteq ring.buf \cup {e}
      /\ ring'.dropped \in ring.dropped..(n + 1)
      /\ \A x \in ring.buf \cup {e} : x.seq > ring'.dropped => x \in ring'.buf
      /\ ring'.dropped > 0 => ring'.dropped \notin Seqs(ring')
  BY <1>2, <1>3, AppendedFacts
<1>5. Seqs(ring') \subseteq 1..(n + 1)
  <2>1. \A x \in ring.buf : x.seq \in 1..n
    BY <1>3 DEF Seqs
  <2>2. \A x \in ring'.buf : x.seq \in 1..(n + 1)
    BY <1>2, <1>3, <1>4, <2>1
  <2> QED
    BY <2>2 DEF Seqs
<1>6. ring'.dropped \in 0..(n + 1)
  BY <1>3, <1>4
<1>7. ASSUME NEW s \in (ring'.dropped + 1)..(n + 1) PROVE s \in Seqs(ring')
  <2>1. s \in Nat /\ s > ring'.dropped /\ s > ring.dropped /\ s <= n + 1
    BY <1>3, <1>4
  <2>2. CASE s = n + 1
    BY <1>2, <1>4, <2>1, <2>2 DEF Seqs
  <2>3. CASE s # n + 1
    <3>1. s \in (ring.dropped + 1)..n
      BY <1>3, <2>1, <2>3
    <3>2. PICK x \in ring.buf : x.seq = s
      BY <1>1, <3>1 DEF ReplayInv, PoolInv, Seqs, n
    <3> QED
      BY <1>4, <2>1, <3>2 DEF Seqs
  <2> QED
    BY <2>2, <2>3
<1> QED
  BY <1>1, <1>3, <1>4, <1>5, <1>6, <1>7 DEF PoolInv, n

LEMMA EmptyRingFacts ==
  /\ IsRing(EmptyRing) /\ EmptyRing.tail = 0 /\ EmptyRing.dropped = 0
  /\ Seqs(EmptyRing) = {}
BY DEF IsRing, EmptyRing, Seqs

LEMMA PoolEmptied ==
  ASSUME ring' = EmptyRing, turnFrom' = 0
  PROVE  PoolInv'
BY EmptyRingFacts DEF PoolInv

LEMMA StepEmit ==
  ASSUME ReplayInv, NEW kind, NEW from, EmitEvent(kind, from),
         turnFrom' \in Nat, turnFrom' <= ring.tail + 1
  PROVE  ReplayInv'
<1>1. TypeOK /\ LinkInv /\ PoolInv /\ Numeric
  BY Numbers DEF ReplayInv
<1>2. /\ UNCHANGED <<gen, life, resident, evicted, up, losses, inbox, relay, browser>>
      /\ resident
  BY DEF EmitEvent
<1>3. PoolInv' /\ ring'.tail = ring.tail + 1 /\ ring'.tail \in 0..MaxSeq
  BY EmitFacts2
<1>4. turnFrom' \in 0..MaxSeq
  BY <1>1, <1>3, ReplayAssumption DEF Numeric
<1>5. PICK f \in Frames : f = Frame("event", ring.tail + 1)
  BY <1>1, <1>3, FrameIsFrame
<1>6. /\ f.type = "event" /\ f.to = Nobody /\ f.seq = ring.tail + 1
      /\ f.gen = gen /\ f.life = life /\ f.conn = 0
  BY <1>5, FrameFields
<1>f. PICK fs : fs = IF up THEN <<f>> ELSE <<>>
  OBVIOUS
<1>7. wq \in Seq(Frames) /\ fs \in Seq(Frames) /\ wq' = wq \o fs
  BY <1>1, <1>5, <1>f, SMTT(30) DEF EmitEvent, Send, TypeOK
<1>8. Len(fs) \in {0, 1} /\ \A k \in 1..Len(fs) : fs[k] = f
  BY <1>f
<1>9. TypeOK'
  <2>1. wq' \in Seq(Frames)
    BY <1>7
  <2> QED
    BY <1>1, <1>2, <1>3, <1>4, <2>1 DEF TypeOK, relay, browser
<1>10. Onward
  BY <1>1, <1>2, <1>3 DEF Onward, Numeric, relay
<1>11. Fresh(f)
  <2>1. f.life \in 1..life
    BY <1>1, <1>6 DEF Numeric
  <2>2. Known(f)'
    BY <1>1, <1>2, <1>3, <1>6, <2>1 DEF Known, Numeric, relay
  <2> QED
    BY <1>1, <1>2, <1>6, <2>2 DEF Fresh, Numeric
<1>12. Sorted(fs) /\ \A c \in Clients : Chained(fs, c, route[c])
  BY <1>8 DEF Sorted, Chained
<1>13. fs # <<>> => fs[1].to = Nobody
  BY <1>6, <1>8
<1>14. UNCHANGED <<relay, browser>>
  BY <1>2
<1>15. \A k \in 1..Len(fs) : Fresh(fs[k])
  BY <1>8, <1>11
<1>16. /\ Sorted(wq') /\ (\A i \in 1..Len(wq) : Known(wq[i]))'
       /\ \A c \in Clients : ClientInv(c)'
  BY <1>7, <1>9, <1>10, <1>12, <1>13, <1>14, <1>15, WrapperSends
<1>17. LinkInv'
  <2>1. ~up' => wq' = <<>>
    BY <1>1, <1>2 DEF LinkInv, EmitEvent, Send
  <2>2. \A i \in 1..Len(inbox') : inbox'[i].conn <= routes'
    BY <1>1, <1>2 DEF LinkInv, relay
  <2> QED
    BY <1>16, <2>1, <2>2 DEF LinkInv
<1> QED
  BY <1>3, <1>9, <1>16, <1>17 DEF ReplayInv

LEMMA StepHandleHello == ReplayInv /\ HandleHello => ReplayInv'
<1> SUFFICES ASSUME ReplayInv, HandleHello PROVE ReplayInv'
  OBVIOUS
<1>1. TypeOK /\ LinkInv /\ PoolInv /\ Numeric
  BY Numbers DEF ReplayInv
<1>2. UNCHANGED <<wrapper, up, losses, relay, browser>> /\ inbox # <<>>
      /\ inbox' = Tail(inbox)
  BY DEF HandleHello
<1>3. UNCHANGED <<gen, life, resident, ring, turnFrom, evicted, routes, route>>
  BY <1>2 DEF wrapper, relay
<1>4. /\ inbox \in Seq(Hellos) /\ inbox' \in Seq(Hellos) /\ Head(inbox) \in Hellos
      /\ Head(inbox) = inbox[1] /\ 1 \in 1..Len(inbox)
      /\ \A i \in 1..Len(inbox') : i + 1 \in 1..Len(inbox) /\ inbox'[i] = inbox[i + 1]
  BY <1>1, <1>2 DEF TypeOK
<1>5. PICK h \in Hellos : h = Head(inbox)
  BY <1>4
<1>6. h.client \in Clients /\ h.conn \in 1..MaxRoute /\ h.conn <= routes
      /\ h.conn \in Nat /\ h.conn >= 1
  BY <1>1, <1>4, <1>5, ReplayAssumption DEF LinkInv, Hellos
<1>7. PICK rs : /\ AnswerTo(rs, h)
                /\ wq' = IF up /\ resident THEN wq \o rs ELSE wq
  <2>1. AnswerTo(HelloReply(h), h)
    BY <1>1, HelloReplyFrames
  <2>2. wq \o <<>> = wq
    BY <1>1 DEF TypeOK
  <2> QED
    BY <2>1, <2>2, <1>5 DEF HandleHello, Send
<1>f. PICK fs : fs = IF up /\ resident THEN rs ELSE <<>>
  OBVIOUS
<1>8. /\ fs \in Seq(Frames) /\ wq' = wq \o fs /\ wq \in Seq(Frames)
      /\ fs # <<>> => up /\ resident /\ fs = rs
  <2>1. wq \o <<>> = wq /\ wq \in Seq(Frames) /\ rs \in Seq(Frames)
    BY <1>1, <1>7 DEF TypeOK, AnswerTo
  <2> QED
    BY <1>7, <1>f, <2>1
<1>9. \A k \in 1..Len(fs) : /\ fs[k] \in Frames /\ fs # <<>>
                            /\ Answering(fs[k], h)
  BY <1>7, <1>8 DEF AnswerTo
<1>10. TypeOK'
  <2>1. wq' \in Seq(Frames)
    BY <1>8
  <2> QED
    BY <1>1, <1>2, <1>3, <1>4, <2>1 DEF TypeOK, relay, browser
<1>11. Onward
  BY <1>1, <1>3 DEF Onward, Numeric
<1>12. \A k \in 1..Len(fs) : Fresh(fs[k])
  <2> SUFFICES ASSUME NEW k \in 1..Len(fs) PROVE Fresh(fs[k])
    OBVIOUS
  <2>1. PICK f \in Frames : f = fs[k]
    BY <1>9
  <2>2. Answering(f, h) /\ resident
    BY <1>8, <1>9, <2>1
  <2>3. f.life \in 1..life /\ f.to # Nobody
    BY <1>1, <1>6, <2>2, ReplayAssumption DEF Answering, Numeric
  <2>4. Known(f)'
    BY <1>1, <1>3, <1>6, <2>2, <2>3 DEF Known, Answering, Numeric
  <2>5. Fresh(f)
    BY <1>3, <2>2, <2>3, <2>4 DEF Fresh, Answering
  <2> QED
    BY <2>1, <2>5
<1>13. Sorted(fs)
  <2>1. ASSUME NEW i \in 1..Len(fs), NEW j \in 1..Len(fs), i < j
        PROVE  Before(fs[i], fs[j])
    BY <1>6, <1>9, ReplayAssumption DEF Before, Answering
  <2> QED
    BY <2>1 DEF Sorted
<1>14. \A c \in Clients : Chained(fs, c, route[c])
  <2>1. ASSUME NEW i \in 1..Len(fs), i > 1, fs[i].type = "event"
        PROVE  Precedes(fs[i - 1], fs[i])
    <3>1. i - 1 \in 1..Len(fs) /\ fs = rs
      BY <1>8, <1>9, <2>1
    <3>2. fs[i - 1].type \in {"start", "event"}
          /\ (fs[i - 1].type = "event" => fs[i - 1].seq < fs[i].seq)
      BY <1>7, <2>1, <3>1 DEF AnswerTo
    <3> QED
      BY <1>9, <3>1, <3>2 DEF Precedes, Answering
  <2> QED
    BY <2>1 DEF Chained, Own
<1>15. fs # <<>> => fs[1].type # "event"
  BY <1>7, <1>8 DEF AnswerTo
<1>16. /\ Sorted(wq') /\ (\A i \in 1..Len(wq) : Known(wq[i]))'
       /\ \A c \in Clients : ClientInv(c)'
  BY <1>2, <1>8, <1>10, <1>11, <1>12, <1>13, <1>14, <1>15, WrapperSends
<1>17. LinkInv'
  <2>1. ~up' => wq' = <<>>
    BY <1>1, <1>2, <1>7 DEF LinkInv
  <2>2. \A i \in 1..Len(inbox') : inbox'[i].conn <= routes'
    BY <1>1, <1>3, <1>4 DEF LinkInv
  <2> QED
    BY <1>16, <2>1, <2>2 DEF LinkInv
<1>18. PoolInv'
  BY <1>1, <1>3 DEF PoolInv
<1> QED
  BY <1>10, <1>16, <1>17, <1>18 DEF ReplayInv

LEMMA StepEvict == ReplayInv /\ Evict => ReplayInv'
<1> SUFFICES ASSUME ReplayInv, Evict PROVE ReplayInv'
  OBVIOUS
<1>1. TypeOK /\ LinkInv /\ PoolInv /\ Numeric
  BY Numbers DEF ReplayInv
<1>2. /\ ring' = EmptyRing /\ turnFrom' = 0 /\ ~resident' /\ evicted' = TRUE
      /\ UNCHANGED <<gen, life, link, relay, browser>> /\ resident' = FALSE
  BY DEF Evict
<1>3. UNCHANGED <<up, losses, wq, inbox, routes>>
  BY <1>2 DEF link, relay
<1>4. TypeOK'
  <2>1. ring'.tail \in 0..MaxSeq /\ turnFrom' \in 0..MaxSeq
    BY <1>2, EmptyRingFacts, ReplayAssumption
  <2> QED
    BY <1>1, <1>2, <1>3, <2>1 DEF TypeOK, relay, browser
<1>5. Onward
  BY <1>1, <1>2, <1>3 DEF Onward, Numeric
<1>6. PICK fs : fs = <<>>
  OBVIOUS
<1>7. /\ wq' = wq \o fs /\ fs \in Seq(Frames) /\ Len(fs) = 0
      /\ Sorted(fs) /\ \A c \in Clients : Chained(fs, c, route[c])
  <2>1. wq \in Seq(Frames)
    BY <1>1 DEF TypeOK
  <2> QED
    BY <1>3, <1>6, <2>1 DEF Sorted, Chained
<1>8. /\ Sorted(wq') /\ (\A i \in 1..Len(wq) : Known(wq[i]))'
      /\ \A c \in Clients : ClientInv(c)'
  <2>1. UNCHANGED <<relay, browser>>
    BY <1>2
  <2>2. \A k \in 1..Len(fs) : Fresh(fs[k])
    BY <1>7
  <2> QED
    BY <1>4, <1>5, <1>6, <1>7, <2>1, <2>2, WrapperSends
<1>9. LinkInv'
  BY <1>1, <1>3, <1>8 DEF LinkInv
<1> QED
  BY <1>2, <1>4, <1>8, <1>9, PoolEmptied DEF ReplayInv

LEMMA StepRespawn == ReplayInv /\ Respawn => ReplayInv'
<1> SUFFICES ASSUME ReplayInv, Respawn PROVE ReplayInv'
  OBVIOUS
<1>1. TypeOK /\ LinkInv /\ PoolInv /\ Numeric
  BY Numbers DEF ReplayInv
<1>2. /\ life' = life + 1 /\ resident' /\ resident' = TRUE /\ life < MaxLife
      /\ UNCHANGED <<gen, ring, turnFrom, evicted, up, losses, inbox, relay, browser>>
  BY DEF Respawn
<1>3. life' \in 1..MaxLife /\ life' \in Nat
  BY <1>1, <1>2, ReplayAssumption DEF Numeric
<1>4. PICK f \in Frames : f = [Frame("snapshot", 0) EXCEPT !.life = life + 1]
  <2>1. 0 \in 0..MaxSeq
    BY ReplayAssumption
  <2>2. Frame("snapshot", 0) \in Frames
    BY <1>1, <2>1, FrameIsFrame
  <2> QED
    BY <1>2, <1>3, <2>2 DEF Frames
<1>5. /\ f.type = "snapshot" /\ f.to = Nobody /\ f.conn = 0 /\ f.seq = 0
      /\ f.gen = gen' /\ f.life = life'
  BY <1>2, <1>4 DEF Frame
<1>6. PICK fs : fs = IF up THEN <<f>> ELSE <<>>
  OBVIOUS
<1>7. /\ wq \in Seq(Frames) /\ fs \in Seq(Frames) /\ wq' = wq \o fs
      /\ Len(fs) \in {0, 1} /\ \A k \in 1..Len(fs) : fs[k] = f
  <2>1. wq \in Seq(Frames)
    BY <1>1 DEF TypeOK
  <2>2. wq' = IF up THEN Append(wq, f) ELSE wq
    BY <1>4 DEF Respawn
  <2> QED
    BY <1>6, <2>1, <2>2
<1>8. TypeOK'
  <2>1. wq' \in Seq(Frames)
    BY <1>7
  <2> QED
    BY <1>1, <1>2, <1>3, <2>1 DEF TypeOK, relay, browser
<1>9. Onward
  BY <1>1, <1>2 DEF Onward, Numeric, relay
<1>10. Fresh(f)
  <2>1. f.life \in 1..life'
    BY <1>3, <1>5, <1>1, <1>2 DEF Numeric
  <2>2. Known(f)'
    <3>1. gen' \in Nat /\ ring'.tail \in Nat /\ routes' \in Nat
      BY <1>1, <1>2 DEF Numeric, relay
    <3> QED
      BY <1>5, <2>1, <3>1 DEF Known
  <2> QED
    BY <1>2, <1>5, <2>2 DEF Fresh
<1>11. Sorted(fs) /\ (\A c \in Clients : Chained(fs, c, route[c]))
       /\ (fs # <<>> => fs[1].to = Nobody)
  BY <1>5, <1>7 DEF Sorted, Chained
<1>12. \A k \in 1..Len(fs) : Fresh(fs[k])
  BY <1>7, <1>10
<1>13. /\ Sorted(wq') /\ (\A i \in 1..Len(wq) : Known(wq[i]))'
       /\ \A c \in Clients : ClientInv(c)'
  BY <1>2, <1>7, <1>8, <1>9, <1>11, <1>12, WrapperSends
<1>14. LinkInv'
  <2>1. ~up' => wq' = <<>>
    BY <1>1, <1>2 DEF LinkInv, Respawn
  <2>2. \A i \in 1..Len(inbox') : inbox'[i].conn <= routes'
    BY <1>1, <1>2 DEF LinkInv, relay
  <2> QED
    BY <1>13, <2>1, <2>2 DEF LinkInv
<1>15. PoolInv'
  BY <1>1, <1>2 DEF PoolInv
<1> QED
  BY <1>8, <1>13, <1>14, <1>15 DEF ReplayInv

LEMMA StepWrapperRestart == ReplayInv /\ WrapperRestart => ReplayInv'
<1> SUFFICES ASSUME ReplayInv, WrapperRestart PROVE ReplayInv'
  OBVIOUS
<1>1. TypeOK /\ LinkInv /\ PoolInv /\ Numeric
  BY Numbers DEF ReplayInv
<1>2. /\ gen' = gen + 1 /\ gen < MaxGen /\ ~resident' /\ resident' = FALSE
      /\ ring' = EmptyRing /\ turnFrom' = 0 /\ evicted' = FALSE /\ up' = FALSE
      /\ wq' = <<>> /\ inbox' = <<>>
      /\ UNCHANGED <<life, losses, relay, browser>>
  BY DEF WrapperRestart
<1>3. TypeOK'
  <2>1. ring'.tail \in 0..MaxSeq /\ turnFrom' \in 0..MaxSeq
    BY <1>2, EmptyRingFacts, ReplayAssumption
  <2>2. gen' \in 1..MaxGen
    BY <1>1, <1>2, ReplayAssumption DEF Numeric
  <2>3. wq' \in Seq(Frames) /\ inbox' \in Seq(Hellos)
    BY <1>2
  <2> QED
    BY <1>1, <1>2, <2>1, <2>2, <2>3 DEF TypeOK, relay, browser
<1>4. Onward
  BY <1>1, <1>2 DEF Onward, Numeric, relay
<1>5. \A c \in Clients : ClientInv(c)'
  BY <1>2, <1>3, <1>4, LinkCleared
<1>6. LinkInv'
  <2>1. Len(wq') = 0 /\ Len(inbox') = 0
    BY <1>2
  <2> QED
    BY <1>2, <2>1 DEF LinkInv, Sorted
<1> QED
  BY <1>2, <1>3, <1>5, <1>6, PoolEmptied DEF ReplayInv

LEMMA StepLinkDown == ReplayInv /\ LinkDown => ReplayInv'
<1> SUFFICES ASSUME ReplayInv, LinkDown PROVE ReplayInv'
  OBVIOUS
<1>1. TypeOK /\ LinkInv /\ PoolInv /\ Numeric
  BY Numbers DEF ReplayInv
<1>2. /\ losses' = losses + 1 /\ losses < MaxLinkLoss /\ up' = FALSE /\ wq' = <<>>
      /\ UNCHANGED <<wrapper, relay, browser>>
  BY DEF LinkDown
<1>3. UNCHANGED <<gen, life, resident, ring, turnFrom, evicted, routes>>
  BY <1>2 DEF wrapper, relay
<1>4. /\ inbox' \in Seq(Hellos)
      /\ \A i \in 1..Len(inbox') : i \in 1..Len(inbox) /\ inbox'[i] = inbox[i]
  <2>1. PICK n \in 0..Len(inbox) : inbox' = SubSeq(inbox, 1, n)
    BY DEF LinkDown
  <2> QED
    BY <1>1, <2>1 DEF TypeOK
<1>5. TypeOK'
  <2>1. losses' \in 0..MaxLinkLoss
    BY <1>1, <1>2, ReplayAssumption DEF TypeOK
  <2>2. wq' \in Seq(Frames)
    BY <1>2
  <2> QED
    BY <1>1, <1>2, <1>3, <1>4, <2>1, <2>2 DEF TypeOK, relay, browser
<1>6. Onward
  BY <1>1, <1>3 DEF Onward, Numeric
<1>7. \A c \in Clients : ClientInv(c)'
  BY <1>2, <1>5, <1>6, LinkCleared
<1>8. LinkInv'
  <2>1. Len(wq') = 0
    BY <1>2
  <2> QED
    BY <1>1, <1>2, <1>3, <1>4, <2>1 DEF LinkInv, Sorted
<1>9. PoolInv'
  BY <1>1, <1>3 DEF PoolInv
<1> QED
  BY <1>5, <1>7, <1>8, <1>9 DEF ReplayInv

LEMMA StepLinkUp == ReplayInv /\ LinkUp => ReplayInv'
<1> SUFFICES ASSUME ReplayInv, LinkUp PROVE ReplayInv'
  OBVIOUS
<1>1. TypeOK /\ LinkInv /\ PoolInv /\ Numeric
  BY Numbers DEF ReplayInv
<1>2. /\ ~up /\ up' = TRUE /\ UNCHANGED <<wrapper, losses, inbox, relay, browser>>
  BY DEF LinkUp
<1>3. UNCHANGED <<gen, life, resident, ring, turnFrom, evicted, routes>>
  BY <1>2 DEF wrapper, relay
<1>4. PICK f \in Frames : f = Frame("hello", 0)
  <2>1. 0 \in 0..MaxSeq
    BY ReplayAssumption
  <2> QED
    BY <1>1, <2>1, FrameIsFrame
<1>5. /\ f.type = "hello" /\ f.to = Nobody /\ f.conn = 0
      /\ f.gen = gen /\ f.life = life
  BY <1>4, FrameFields
<1>6. PICK fs : fs = <<f>>
  OBVIOUS
<1>7. /\ fs \in Seq(Frames) /\ wq' = wq \o fs
      /\ Len(fs) = 1 /\ \A k \in 1..Len(fs) : fs[k] = f
  <2>1. wq = <<>> /\ wq' = <<f>>
    BY <1>1, <1>2, <1>4 DEF LinkInv, LinkUp
  <2> QED
    BY <1>6, <2>1
<1>8. TypeOK'
  <2>1. wq' \in Seq(Frames)
    BY <1>1, <1>7 DEF TypeOK
  <2> QED
    BY <1>1, <1>2, <1>3, <2>1 DEF TypeOK, relay, browser
<1>9. Onward
  BY <1>1, <1>3 DEF Onward, Numeric
<1>10. Fresh(f)
  <2>1. f.life \in 1..life
    BY <1>1, <1>5 DEF Numeric
  <2>2. Known(f)'
    BY <1>1, <1>3, <1>5, <2>1 DEF Known, Numeric
  <2> QED
    BY <1>5, <2>2 DEF Fresh
<1>11. Sorted(fs) /\ (\A c \in Clients : Chained(fs, c, route[c]))
       /\ fs[1].to = Nobody
  BY <1>5, <1>7 DEF Sorted, Chained
<1>12. \A k \in 1..Len(fs) : Fresh(fs[k])
  BY <1>7, <1>10
<1>13. /\ Sorted(wq') /\ (\A i \in 1..Len(wq) : Known(wq[i]))'
       /\ \A c \in Clients : ClientInv(c)'
  BY <1>2, <1>7, <1>8, <1>9, <1>11, <1>12, WrapperSends
<1>14. LinkInv'
  <2>1. \A i \in 1..Len(inbox') : inbox'[i].conn <= routes'
    BY <1>1, <1>2, <1>3 DEF LinkInv
  <2> QED
    BY <1>2, <1>13, <2>1 DEF LinkInv
<1>15. PoolInv'
  BY <1>1, <1>3 DEF PoolInv
<1> QED
  BY <1>8, <1>13, <1>14, <1>15 DEF ReplayInv

LEMMA StepEmits ==
  ReplayInv /\ (EmitUser \/ EmitDelta \/ EmitTurnEnd) => ReplayInv'
<1> SUFFICES ASSUME ReplayInv, EmitUser \/ EmitDelta \/ EmitTurnEnd
             PROVE  ReplayInv'
  OBVIOUS
<1>1. TypeOK /\ PoolInv /\ Numeric
  BY Numbers DEF ReplayInv
<1>2. ring.tail \in Nat /\ turnFrom \in Nat /\ turnFrom <= ring.tail
  BY <1>1 DEF Numeric, PoolInv
<1>3. CASE EmitUser
  BY <1>2, <1>3, StepEmit DEF EmitUser
<1>4. CASE EmitDelta
  BY <1>2, <1>4, StepEmit DEF EmitDelta
<1>5. CASE EmitTurnEnd
  BY <1>2, <1>5, StepEmit DEF EmitTurnEnd
<1> QED
  BY <1>3, <1>4, <1>5

-----------------------------------------------------------------------------
(* The relay's step: the frame at the head of the link reaches a queue, or *)
(* nobody, or costs a slow browser its connection.                         *)
LEMMA Delivered ==
  ASSUME ReplayInv, OnWrapperMsg, NEW c \in Clients
  PROVE  /\ ClientInv(c)'
         /\ cq'[c] \in Seq(Frames) /\ Len(cq'[c]) <= QueueCap
         /\ route'[c] \in {0, route[c]}
<1>1. TypeOK /\ LinkInv /\ PoolInv /\ Numeric /\ ClientInv(c)
  BY Numbers DEF ReplayInv
<1>2. /\ UNCHANGED <<wrapper, up, losses, inbox, routes, browser>>
      /\ wq # <<>> /\ wq' = Tail(wq)
  BY DEF OnWrapperMsg
<1>3. /\ UNCHANGED <<gen, life, resident, ring, routes>>
      /\ UNCHANGED <<cursor, cgen, rebuilding, last, disorder, orphan>>
  BY <1>2 DEF wrapper, browser
<1>4. /\ wq \in Seq(Frames) /\ cq[c] \in Seq(Frames) /\ Len(cq[c]) <= QueueCap
      /\ Len(cq[c]) \in Nat /\ route[c] \in Nat /\ QueueCap \in Nat
  BY <1>1, ReplayAssumption DEF TypeOK, Numeric
<1>5. /\ wq' \in Seq(Frames) /\ Len(wq') = Len(wq) - 1 /\ Len(wq) \in Nat \ {0}
      /\ Head(wq) = wq[1]
      /\ \A i \in 1..Len(wq') : i + 1 \in 1..Len(wq) /\ wq'[i] = wq[i + 1]
      /\ Sorted(wq') /\ \A i \in 1..Len(wq') : Before(wq[1], wq'[i])
  BY <1>1, <1>2, <1>4, TailKept DEF LinkInv
<1>6. /\ Chained(wq', c, route[c])
      /\ wq' # <<>> /\ Own(wq'[1], c, route[c]) => Precedes(wq[1], wq'[1])
  BY <1>1, <1>2, <1>4, TailKept DEF ClientInv
<1>7. PICK x \in Frames : x = wq[1]
  BY <1>4, <1>5
<1>8. 1 \in 1..Len(wq) /\ Known(x) /\ Coming(x, c)
      /\ \A i \in 1..Len(cq[c]) : Before(cq[c][i], x)
  <2>1. 1 \in 1..Len(wq)
    BY <1>5
  <2> QED
    BY <2>1, <1>1, <1>7 DEF LinkInv, ClientInv
<1>9. /\ route'[c] = IF c \in Slow(x) THEN 0 ELSE route[c]
      /\ cq'[c] = IF c \in Slow(x) THEN <<>>
                  ELSE IF Receives(x, c) THEN Append(cq[c], x) ELSE cq[c]
  BY <1>5, <1>7 DEF OnWrapperMsg
<1>10. /\ (\A i \in 1..Len(wq) : Coming(wq[i], c))'
       /\ Present(c)' /\ ~disorder'[c] /\ route[c] <= routes'
  BY <1>1, <1>3, <1>5 DEF ClientInv, Coming, Present
<1>11. \A f \in Frames : Known(f) => Known(f)'
  BY <1>3 DEF Known
<1>12. \A i \in 1..Len(wq') : wq'[i] \in Frames /\ Known(wq'[i])
  BY <1>1, <1>4, <1>5, SMTT(30) DEF LinkInv
<1>13. \A i \in 1..Len(wq') : wq'[i].to = c => wq'[i].conn # 0
  <2> SUFFICES ASSUME NEW i \in 1..Len(wq'), wq'[i].to = c
               PROVE  wq'[i].conn # 0
    OBVIOUS
  <2> QED
    BY <1>12, ReplayAssumption, FrameType DEF Known
<1>14. CASE c \in Slow(x)
  <2>1. route'[c] = 0 /\ cq'[c] = <<>> /\ Len(cq'[c]) = 0
    BY <1>9, <1>14
  <2>2. Sorted(cq'[c]) /\ Chained(cq'[c], c, route'[c])
    BY <2>1 DEF Sorted, Chained
  <2>3. Chained(wq', c, route'[c])
    BY <1>13, <2>1 DEF Chained, Own
  <2>4. wq' # <<>> => ~Own(wq'[1], c, route'[c])
    <3>1. wq' # <<>> => 1 \in 1..Len(wq')
      BY <1>5
    <3> QED
      BY <1>13, <2>1, <3>1 DEF Own
  <2>5. route'[c] <= routes'
    BY <1>3, <1>1, <2>1 DEF Numeric
  <2>6. ClientInv(c)'
    BY <1>10, <2>1, <2>2, <2>3, <2>4, <2>5 DEF ClientInv
  <2> QED
    BY <1>4, <2>1, <2>6
<1>15. CASE c \notin Slow(x) /\ Receives(x, c)
  <2>1. route'[c] = route[c] /\ cq'[c] = Append(cq[c], x)
    BY <1>9, <1>15
  <2>2. Len(cq[c]) < QueueCap
    BY <1>4, <1>15 DEF Slow
  <2>3. PICK q : q = cq[c]
    OBVIOUS
  <2>4. /\ q \in Seq(Frames) /\ cq'[c] \in Seq(Frames) /\ Len(cq'[c]) = Len(q) + 1
        /\ Len(q) \in Nat
        /\ cq'[c] = q \o <<x>> /\ cq'[c] # <<>>
        /\ cq'[c][Len(q) + 1] = x
        /\ \A i \in 1..Len(cq'[c]) : \/ i \in 1..Len(q) /\ cq'[c][i] = q[i]
                                     \/ i = Len(q) + 1 /\ cq'[c][i] = x
    <3>1. q \in Seq(Frames) /\ x \in Frames /\ cq'[c] = Append(q, x)
      BY <1>4, <2>1, <2>3
    <3>2. PICK r : r = Append(q, x)
      OBVIOUS
    <3>3. /\ r \in Seq(Frames) /\ Len(r) = Len(q) + 1 /\ Len(q) \in Nat
          /\ r = q \o <<x>> /\ r # <<>> /\ r[Len(q) + 1] = x
          /\ \A i \in 1..Len(q) : r[i] = q[i]
      BY <3>1, <3>2
    <3>4. \A i \in 1..Len(r) : i \in 1..Len(q) \/ i = Len(q) + 1
      BY <3>3
    <3> QED
      BY <3>1, <3>2, <3>3, <3>4
  <2>5. Sorted(cq'[c])
    <3>1. PICK t : t = <<x>>
      OBVIOUS
    <3>2. t \in Seq(Frames) /\ Len(t) = 1 /\ t[1] = x
      BY <3>1
    <3>3. Sorted(t)
      BY <3>2 DEF Sorted
    <3>4. Sorted(q)
      BY <1>1, <2>3 DEF ClientInv
    <3>5. \A i \in 1..Len(q), j \in 1..Len(t) : Before(q[i], t[j])
      BY <1>8, <2>3, <3>2
    <3> QED
      BY <2>4, <3>1, <3>2, <3>3, <3>4, <3>5, SortedAppend
  <2>6. Chained(cq'[c], c, route[c])
    <3>1. CASE q = <<>>
      <4>1. Len(cq'[c]) = 1
        BY <2>4, <3>1
      <4> QED
        BY <4>1 DEF Chained
    <3>2. CASE q # <<>>
      <4>1. PICK t : t = <<x>>
        OBVIOUS
      <4>2. t \in Seq(Frames) /\ Len(t) = 1 /\ t[1] = x /\ Chained(t, c, route[c])
        BY <4>1 DEF Chained
      <4>3. Own(x, c, route[c]) => Precedes(q[Len(q)], x)
        BY <1>1, <1>2, <1>7, <2>3, <3>2 DEF ClientInv
      <4>4. Chained(q, c, route[c])
        BY <1>1, <2>3 DEF ClientInv
      <4> QED
        BY <2>4, <3>2, <4>1, <4>2, <4>3, <4>4, ChainedAppend
    <3> QED
      BY <3>1, <3>2
  <2>7. x.to \in {Nobody, c}
    BY <1>15 DEF Receives
  <2>8. \A i \in 1..Len(cq'[c]) : /\ cq'[c][i] \in Frames
                                  /\ Known(cq'[c][i]) /\ cq'[c][i].to \in {Nobody, c}
    BY <1>1, <1>8, <2>3, <2>4, <2>7 DEF ClientInv
  <2>9. (\A i \in 1..Len(cq[c]) : Known(cq[c][i]) /\ cq[c][i].to \in {Nobody, c})'
    BY <1>11, <2>8 DEF Known
  <2>10. \A i \in 1..Len(cq'[c]), j \in 1..Len(wq') : Before(cq'[c][i], wq'[j])
    BY <1>1, <1>5, <1>7, <2>3, <2>4 DEF ClientInv
  <2>11. (\A i \in 1..Len(cq[c]) : Coming(cq[c][i], c))'
    BY <1>1, <1>3, <1>8, <2>3, <2>4 DEF ClientInv, Coming
  <2>12. (cq[c] # <<>> /\ Own(cq[c][1], c, route[c]) => Expected(cq[c][1], c))'
    <3>1. CASE q = <<>>
      <4>1. cq'[c][1] = x
        BY <2>4, <3>1
      <4>2. Own(x, c, route[c]) => Expected(x, c)
        BY <1>1, <1>2, <1>7, <2>3, <3>1 DEF ClientInv
      <4> QED
        BY <1>3, <2>1, <4>1, <4>2 DEF Expected
    <3>2. CASE q # <<>>
      <4>1. cq'[c][1] = q[1]
        BY <2>4, <3>2
      <4>2. Own(q[1], c, route[c]) => Expected(q[1], c)
        BY <1>1, <2>3, <3>2 DEF ClientInv
      <4> QED
        BY <1>3, <2>1, <4>1, <4>2 DEF Expected
    <3> QED
      BY <3>1, <3>2
  <2>13. wq' # <<>> /\ Own(wq'[1], c, route[c]) =>
           cq'[c] # <<>> /\ Precedes(cq'[c][Len(cq'[c])], wq'[1])
    BY <1>6, <1>7, <2>4
  <2>14. route'[c] # 0
    BY <1>15, <2>1 DEF Receives
  <2>15. ClientInv(c)'
    BY <1>6, <1>10, <2>1, <2>5, <2>6, <2>9, <2>10, <2>11, <2>12, <2>13, <2>14
       DEF ClientInv
  <2>16. Len(cq'[c]) <= QueueCap
    BY <1>4, <2>2, <2>3, <2>4
  <2> QED
    BY <2>1, <2>4, <2>15, <2>16
<1>16. CASE c \notin Slow(x) /\ ~Receives(x, c)
  <2>1. route'[c] = route[c] /\ cq'[c] = cq[c]
    BY <1>9, <1>16
  <2>2. wq' # <<>> => ~Own(wq'[1], c, route[c])
    <3> SUFFICES ASSUME wq' # <<>>, Own(wq'[1], c, route[c]) PROVE FALSE
      OBVIOUS
    <3>1. x.to = c /\ x.conn = route[c]
      BY <1>6, <1>7 DEF Precedes, Own
    <3>2. 1 \in 1..Len(wq')
      BY <1>5
    <3>3. route[c] # 0
      BY <1>13, <3>2 DEF Own
    <3> QED
      BY <1>16, <3>1, <3>3 DEF Receives
  <2>3. (\A i \in 1..Len(cq[c]) : Known(cq[c][i]) /\ cq[c][i].to \in {Nobody, c})'
    BY <1>1, <1>4, <1>11, <2>1 DEF ClientInv, Known
  <2>4. \A i \in 1..Len(cq[c]), j \in 1..Len(wq') : Before(cq[c][i], wq'[j])
    BY <1>1, <1>5 DEF ClientInv
  <2>5. (\A i \in 1..Len(cq[c]) : Coming(cq[c][i], c))'
    BY <1>1, <1>3, <2>1 DEF ClientInv, Coming
  <2>6. (cq[c] # <<>> /\ Own(cq[c][1], c, route[c]) => Expected(cq[c][1], c))'
    BY <1>1, <1>3, <2>1 DEF ClientInv, Expected
  <2>7. (route'[c] = 0 => cq'[c] = <<>>) /\ Sorted(cq'[c]) /\ Chained(cq'[c], c, route'[c])
    BY <1>1, <2>1 DEF ClientInv
  <2>8. ClientInv(c)'
    BY <1>6, <1>10, <2>1, <2>2, <2>3, <2>4, <2>5, <2>6, <2>7 DEF ClientInv
  <2> QED
    BY <1>4, <2>1, <2>8
<1> QED
  BY <1>14, <1>15, <1>16

LEMMA StepOnWrapperMsg == ReplayInv /\ OnWrapperMsg => ReplayInv'
<1> SUFFICES ASSUME ReplayInv, OnWrapperMsg PROVE ReplayInv'
  OBVIOUS
<1>1. TypeOK /\ LinkInv /\ PoolInv /\ Numeric
  BY Numbers DEF ReplayInv
<1>2. /\ UNCHANGED <<wrapper, up, losses, inbox, routes, browser>>
      /\ up /\ wq # <<>> /\ wq' = Tail(wq)
      /\ route' = [c \in Clients |-> route'[c]]
      /\ cq' = [c \in Clients |-> cq'[c]]
  BY DEF OnWrapperMsg
<1>3. UNCHANGED <<gen, life, resident, ring, turnFrom, evicted>>
  BY <1>2 DEF wrapper
<1>4. \A c \in Clients : /\ ClientInv(c)'
                         /\ cq'[c] \in Seq(Frames) /\ Len(cq'[c]) <= QueueCap
                         /\ route'[c] \in {0, route[c]}
  BY Delivered
<1>5. /\ wq \in Seq(Frames) /\ wq' \in Seq(Frames) /\ Sorted(wq')
      /\ \A i \in 1..Len(wq') : i + 1 \in 1..Len(wq) /\ wq'[i] = wq[i + 1]
  BY <1>1, <1>2, TailKept DEF TypeOK, LinkInv
<1>6. TypeOK'
  <2>1. cq' \in [Clients -> Seq(Frames)]
    BY <1>2, <1>4
  <2>2. route' \in [Clients -> 0..MaxRoute]
    <3>1. \A c \in Clients : route[c] \in 0..MaxRoute /\ 0 \in 0..MaxRoute
      BY <1>1, ReplayAssumption DEF TypeOK
    <3>2. \A c \in Clients : route'[c] \in 0..MaxRoute
      BY <1>4, <3>1
    <3> QED
      BY <1>2, <3>2
  <2> QED
    BY <1>1, <1>2, <1>3, <1>4, <1>5, <2>1, <2>2 DEF TypeOK, browser
<1>7. LinkInv'
  <2>1. (\A i \in 1..Len(wq) : Known(wq[i]))'
    BY <1>1, <1>2, <1>3, <1>5 DEF LinkInv, Known
  <2>2. \A i \in 1..Len(inbox') : inbox'[i].conn <= routes'
    BY <1>1, <1>2 DEF LinkInv
  <2> QED
    BY <1>2, <1>5, <2>1, <2>2 DEF LinkInv
<1>8. PoolInv'
  BY <1>1, <1>3 DEF PoolInv
<1> QED
  BY <1>4, <1>6, <1>7, <1>8 DEF ReplayInv

-----------------------------------------------------------------------------
(* The browsers' steps.  A hello waits in the wrapper's inbox with the      *)
(* connection it came by.                                                  *)
LEMMA HelloSent ==
  ASSUME ReplayInv, NEW c \in Clients, NEW routed \in BOOLEAN, Hello(c, routed),
         route'[c] \in 1..MaxRoute, route'[c] <= routes', routes <= routes',
         routes' \in Nat
  PROVE  /\ inbox' \in Seq(Hellos)
         /\ \A i \in 1..Len(inbox') : inbox'[i].conn <= routes'
         /\ owed' \in [Clients -> BOOLEAN]
<1>1. TypeOK /\ LinkInv /\ Numeric
  BY Numbers DEF ReplayInv
<1>2. PICK h : h = [client |-> c, conn |-> route'[c], routed |-> routed,
                    stray |-> orphan[c], cursor |-> cursor[c], gen |-> cgen[c]]
  OBVIOUS
<1>3. h \in Hellos /\ h.conn = route'[c]
  BY <1>1, <1>2 DEF Hellos, TypeOK
<1>4. /\ inbox \in Seq(Hellos) /\ \A i \in 1..Len(inbox) : inbox[i].conn <= routes
      /\ inbox' = IF up THEN Append(inbox, h) ELSE inbox
  BY <1>1, <1>2 DEF TypeOK, LinkInv, Hello
<1>5. \A i \in 1..Len(inbox) : inbox[i].conn \in Nat
  <2>1. \A x \in Hellos : x.conn \in Nat
    BY ReplayAssumption DEF Hellos
  <2> QED
    BY <1>4, <2>1
<1>6. \A i \in 1..Len(inbox) : inbox[i].conn <= routes'
  BY <1>1, <1>4, <1>5 DEF Numeric
<1>7. inbox' \in Seq(Hellos)
  BY <1>3, <1>4
<1>8. \A i \in 1..Len(inbox') : inbox'[i].conn <= routes'
  BY <1>3, <1>4, <1>6
<1>9. owed' \in [Clients -> BOOLEAN]
  BY <1>1 DEF TypeOK, Hello
<1> QED
  BY <1>7, <1>8, <1>9

LEMMA StepConnect == ReplayInv /\ (\E c \in Clients : Connect(c)) => ReplayInv'
<1> SUFFICES ASSUME ReplayInv, NEW c \in Clients, Connect(c) PROVE ReplayInv'
  OBVIOUS
<1>1. TypeOK /\ LinkInv /\ PoolInv /\ Numeric
  BY Numbers DEF ReplayInv
<1>2. /\ route[c] = 0 /\ routes < MaxRoute /\ routes' = routes + 1
      /\ route' = [route EXCEPT ![c] = routes + 1]
      /\ cq' = [cq EXCEPT ![c] = <<>>]
      /\ Hello(c, TRUE)
      /\ UNCHANGED <<wrapper, up, losses, wq>>
      /\ UNCHANGED <<cursor, cgen, rebuilding, seen, last, disorder, overlap, orphan>>
  BY DEF Connect, Hello
<1>3. UNCHANGED <<gen, life, resident, ring, turnFrom, evicted>>
  BY <1>2 DEF wrapper
<1>4. /\ routes \in Nat /\ routes' \in Nat /\ routes <= routes'
      /\ routes' \in 1..MaxRoute
      /\ route \in [Clients -> 0..MaxRoute] /\ cq \in [Clients -> Seq(Frames)]
  BY <1>1, <1>2, ReplayAssumption DEF TypeOK, Numeric
<1>5. /\ route'[c] = routes' /\ cq'[c] = <<>> /\ Len(cq'[c]) = 0
      /\ \A d \in Clients : d # c => route'[d] = route[d] /\ cq'[d] = cq[d]
  BY <1>2, <1>4
<1>6. /\ inbox' \in Seq(Hellos)
      /\ \A i \in 1..Len(inbox') : inbox'[i].conn <= routes'
      /\ owed' \in [Clients -> BOOLEAN]
  <2>1. PICK routed \in BOOLEAN : Hello(c, routed)
    BY <1>2, Zenon
  <2>2. route'[c] \in 1..MaxRoute /\ route'[c] <= routes'
    BY <1>4, <1>5
  <2> QED
    BY <1>4, <2>1, <2>2, HelloSent
<1>7. TypeOK'
  <2>1. routes' \in 0..MaxRoute /\ route' \in [Clients -> 0..MaxRoute]
        /\ cq' \in [Clients -> Seq(Frames)]
    BY <1>2, <1>4
  <2>2. \A d \in Clients : Len(cq'[d]) <= QueueCap
    <3>1. 0 <= QueueCap /\ \A d \in Clients : Len(cq[d]) <= QueueCap
      BY <1>1, ReplayAssumption DEF TypeOK
    <3> QED
      BY <1>5, <3>1
  <2> QED
    BY <1>1, <1>2, <1>3, <1>6, <2>1, <2>2 DEF TypeOK
<1>8. LinkInv'
  <2>0. wq \in Seq(Frames) /\ \A i \in 1..Len(wq) : wq[i].conn \in Nat
    BY <1>1, ConnNumbers
  <2>1. (\A i \in 1..Len(wq) : Known(wq[i]))'
    BY <1>1, <1>2, <1>3, <1>4, <2>0 DEF LinkInv, Known
  <2> QED
    BY <1>1, <1>2, <1>6, <2>1 DEF LinkInv
<1>9. PoolInv'
  BY <1>1, <1>3 DEF PoolInv
<1>10. ASSUME NEW d \in Clients PROVE ClientInv(d)'
  <2>0. ClientInv(d)
    BY DEF ReplayInv
  <2>1. CASE d # c
    BY <1>1, <1>2, <1>4, <1>5, <2>0, <2>1, ClientKept
  <2>2. CASE d = c
    <3>0. wq \in Seq(Frames) /\ \A i \in 1..Len(wq) : wq[i].conn \in Nat
      BY <1>1, ConnNumbers
    <3>1. \A i \in 1..Len(wq) : wq[i].conn # routes'
      <4>1. \A i \in 1..Len(wq) : wq[i].conn <= routes
        BY <1>1 DEF LinkInv, Known
      <4>2. routes' = routes + 1
        BY <1>2
      <4> QED
        BY <1>4, <3>0, <4>1, <4>2
    <3>2. Chained(wq', c, route'[c])
      BY <1>2, <1>5, <3>1 DEF Chained, Own
    <3>3. wq' # <<>> => ~Own(wq'[1], c, route'[c])
      <4>1. wq # <<>> => 1 \in 1..Len(wq)
        BY <3>0
      <4> QED
        BY <1>2, <1>5, <3>1, <4>1 DEF Own
    <3>4. (\A i \in 1..Len(wq) : Coming(wq[i], c))' /\ Present(c)'
      BY <1>2, <1>3, <2>0, <2>2 DEF ClientInv, Coming, Present
    <3>5. Sorted(cq'[c]) /\ Chained(cq'[c], c, route'[c])
      BY <1>5 DEF Sorted, Chained
    <3>6. route'[c] <= routes' /\ ~disorder'[c]
      BY <1>2, <1>4, <1>5, <2>0, <2>2 DEF ClientInv
    <3>7. ClientInv(c)'
      BY <1>5, <3>2, <3>3, <3>4, <3>5, <3>6 DEF ClientInv
    <3> QED
      BY <2>2, <3>7
  <2> QED
    BY <2>1, <2>2
<1> QED
  BY <1>7, <1>8, <1>9, <1>10 DEF ReplayInv

LEMMA PoolLinkKept ==
  ASSUME ReplayInv, UNCHANGED <<wrapper, up, wq, routes>>,
         \A i \in 1..Len(inbox') : inbox'[i].conn <= routes'
  PROVE  PoolInv' /\ LinkInv'
<1>1. UNCHANGED <<gen, life, resident, ring, turnFrom>> /\ PoolInv /\ LinkInv
  BY DEF wrapper, ReplayInv
<1>2. PoolInv'
  BY <1>1 DEF PoolInv
<1>3. (\A i \in 1..Len(wq) : Known(wq[i]))'
  BY <1>1 DEF LinkInv, Known
<1> QED
  BY <1>1, <1>2, <1>3 DEF LinkInv

(* No answer on its way belongs to a connection that is not there.         *)
LEMMA NothingOwn ==
  ASSUME ReplayInv, NEW c \in Clients
  PROVE  \A i \in 1..Len(wq) : ~Own(wq[i], c, 0)
<1>1. wq \in Seq(Frames) /\ LinkInv
  BY DEF ReplayInv, TypeOK
<1> SUFFICES ASSUME NEW i \in 1..Len(wq) PROVE ~Own(wq[i], c, 0)
  OBVIOUS
<1>2. wq[i].to # Nobody => wq[i].conn >= 1
  BY <1>1 DEF LinkInv, Known
<1> QED
  BY <1>2, ReplayAssumption DEF Own

LEMMA StepDisconnect ==
  ReplayInv /\ (\E c \in Clients : Disconnect(c)) => ReplayInv'
<1> SUFFICES ASSUME ReplayInv, NEW c \in Clients, Disconnect(c) PROVE ReplayInv'
  OBVIOUS
<1>1. TypeOK /\ LinkInv /\ PoolInv /\ Numeric
  BY Numbers DEF ReplayInv
<1>2. /\ route' = [route EXCEPT ![c] = 0] /\ cq' = [cq EXCEPT ![c] = <<>>]
      /\ UNCHANGED <<wrapper, link, routes, browser>>
  BY DEF Disconnect
<1>3. /\ UNCHANGED <<gen, life, resident, ring, turnFrom, evicted>>
      /\ UNCHANGED <<up, losses, wq, inbox>>
      /\ UNCHANGED <<cursor, cgen, rebuilding, seen, last, disorder, owed, overlap, orphan>>
  BY <1>2 DEF wrapper, link, browser
<1>4. /\ route \in [Clients -> 0..MaxRoute] /\ cq \in [Clients -> Seq(Frames)]
      /\ 0 \in 0..MaxRoute /\ 0 <= QueueCap /\ routes \in Nat
      /\ \A d \in Clients : Len(cq[d]) <= QueueCap
  BY <1>1, ReplayAssumption DEF TypeOK, Numeric
<1>5. /\ route'[c] = 0 /\ cq'[c] = <<>> /\ Len(cq'[c]) = 0
      /\ \A d \in Clients : d # c => route'[d] = route[d] /\ cq'[d] = cq[d]
  BY <1>2, <1>4
<1>6. TypeOK'
  <2>1. route' \in [Clients -> 0..MaxRoute] /\ cq' \in [Clients -> Seq(Frames)]
    BY <1>2, <1>4
  <2>2. \A d \in Clients : Len(cq'[d]) <= QueueCap
    BY <1>4, <1>5
  <2> QED
    BY <1>1, <1>2, <1>3, <2>1, <2>2 DEF TypeOK
<1>7. PoolInv' /\ LinkInv'
  BY <1>1, <1>2, <1>3, PoolLinkKept DEF LinkInv
<1>8. ASSUME NEW d \in Clients PROVE ClientInv(d)'
  <2>0. ClientInv(d)
    BY DEF ReplayInv
  <2>1. CASE d # c
    BY <1>1, <1>2, <1>3, <1>4, <1>5, <2>0, <2>1, ClientKept
  <2>2. CASE d = c
    <3>1. /\ Chained(wq', c, route'[c])
          /\ wq' # <<>> => ~Own(wq'[1], c, route'[c])
      <4>1. wq # <<>> => 1 \in 1..Len(wq)
        BY <1>1 DEF TypeOK
      <4> QED
        BY <1>3, <1>5, <4>1, NothingOwn DEF Chained
    <3>2. (\A i \in 1..Len(wq) : Coming(wq[i], c))' /\ Present(c)'
      BY <1>3, <2>0, <2>2 DEF ClientInv, Coming, Present
    <3>3. Sorted(cq'[c]) /\ Chained(cq'[c], c, route'[c])
      BY <1>5 DEF Sorted, Chained
    <3>4. route'[c] <= routes' /\ ~disorder'[c]
      BY <1>2, <1>3, <1>4, <1>5, <2>0, <2>2 DEF ClientInv
    <3>5. ClientInv(c)'
      BY <1>5, <3>1, <3>2, <3>3, <3>4 DEF ClientInv
    <3> QED
      BY <2>2, <3>5
  <2> QED
    BY <2>1, <2>2
<1> QED
  BY <1>6, <1>7, <1>8 DEF ReplayInv

LEMMA StepReload == ReplayInv /\ (\E c \in Clients : Reload(c)) => ReplayInv'
<1> SUFFICES ASSUME ReplayInv, NEW c \in Clients, Reload(c) PROVE ReplayInv'
  OBVIOUS
<1>1. TypeOK /\ LinkInv /\ PoolInv /\ Numeric
  BY Numbers DEF ReplayInv
<1>2. /\ route[c] = 0
      /\ cursor' = [cursor EXCEPT ![c] = NoCursor]
      /\ cgen' = [cgen EXCEPT ![c] = 0]
      /\ rebuilding' = [rebuilding EXCEPT ![c] = FALSE]
      /\ seen' = [seen EXCEPT ![c] = {}]
      /\ last' = [last EXCEPT ![c] = <<0, 0>>]
      /\ overlap' = [overlap EXCEPT ![c] = FALSE]
      /\ orphan' = [orphan EXCEPT ![c] = FALSE]
      /\ UNCHANGED <<wrapper, link, relay, disorder, owed>>
  BY DEF Reload
<1>3. /\ UNCHANGED <<gen, life, resident, ring, turnFrom, evicted>>
      /\ UNCHANGED <<up, losses, wq, inbox, routes, route, cq>>
  BY <1>2 DEF wrapper, link, relay
<1>4. /\ cursor \in [Clients -> NoCursor..MaxSeq] /\ cgen \in [Clients -> 0..MaxGen]
      /\ rebuilding \in [Clients -> BOOLEAN] /\ last \in [Clients -> Nat \X Nat]
      /\ seen \in [Clients -> SUBSET (Nat \X Nat)]
      /\ overlap \in [Clients -> BOOLEAN] /\ orphan \in [Clients -> BOOLEAN]
      /\ NoCursor \in NoCursor..MaxSeq /\ 0 \in 0..MaxGen /\ routes \in Nat
  <2>1. NoCursor \in NoCursor..MaxSeq /\ 0 \in 0..MaxGen /\ routes \in Nat
    BY <1>1, ReplayAssumption DEF Numeric, NoCursor
  <2> QED
    BY <1>1, <2>1, BrowserTypes
<1>5. TypeOK'
  <2>1. /\ cursor' \in [Clients -> NoCursor..MaxSeq] /\ cgen' \in [Clients -> 0..MaxGen]
        /\ rebuilding' \in [Clients -> BOOLEAN] /\ last' \in [Clients -> Nat \X Nat]
        /\ seen' \in [Clients -> SUBSET (Nat \X Nat)]
        /\ overlap' \in [Clients -> BOOLEAN] /\ orphan' \in [Clients -> BOOLEAN]
    BY <1>2, <1>4
  <2> QED
    BY <1>1, <1>2, <1>3, <2>1 DEF TypeOK
<1>6. PoolInv' /\ LinkInv'
  BY <1>1, <1>2, <1>3, PoolLinkKept DEF LinkInv
<1>7. ASSUME NEW d \in Clients PROVE ClientInv(d)'
  <2>0. ClientInv(d)
    BY DEF ReplayInv
  <2>1. CASE d # c
    <3>1. /\ cursor'[d] = cursor[d] /\ cgen'[d] = cgen[d] /\ last'[d] = last[d]
          /\ rebuilding'[d] = rebuilding[d] /\ orphan'[d] = orphan[d]
          /\ disorder'[d] = disorder[d]
      BY <1>2, <1>4, <2>1
    <3>2. routes' \in Nat /\ routes <= routes'
      BY <1>3, <1>4
    <3> QED
      BY <1>1, <1>2, <1>3, <2>0, <3>1, <3>2, ClientKept
  <2>2. CASE d = c
    <3>1. /\ cursor'[c] = NoCursor /\ cgen'[c] = 0 /\ rebuilding'[c] = FALSE
          /\ last'[c] = <<0, 0>> /\ last'[c][1] = 0 /\ last'[c][2] = 0
      BY <1>2, <1>4
    <3>2. wq \in Seq(Frames)
      BY <1>1 DEF TypeOK
    <3>3. \A f \in Frames : Coming(f, c)'
      <4> SUFFICES ASSUME NEW f \in Frames PROVE Coming(f, c)'
        OBVIOUS
      <4>1. f.life \in Nat /\ f.gen \in Nat /\ f.life > 0
        BY FrameType, ReplayAssumption
      <4> QED
        BY <3>1, <4>1 DEF Coming, After, Id
    <3>4. Present(c)'
      BY <1>1, <1>3, <3>1 DEF Present, Numeric
    <3>5. \A f : Expected(f, c)'
      BY <3>1 DEF Expected
    <3>6. cq[c] = <<>> /\ Len(cq[c]) = 0
      BY <1>2, <2>0, <2>2 DEF ClientInv
    <3>7. ClientInv(c)'
      BY <1>2, <1>3, <2>0, <2>2, <3>2, <3>3, <3>4, <3>5, <3>6 DEF ClientInv
    <3> QED
      BY <2>2, <3>7
  <2> QED
    BY <2>1, <2>2
<1> QED
  BY <1>5, <1>6, <1>7 DEF ReplayInv

(* The frame at the head of c's queue, and what remains behind it.         *)
LEMMA TakeFacts ==
  ASSUME ReplayInv, NEW c \in Clients, NEW type, Take(c, type),
         NEW f, f = Head(cq[c])
  PROVE  /\ f \in Frames /\ f.type = type /\ Known(f) /\ Coming(f, c)
         /\ f.to \in {Nobody, c}
         /\ Own(f, c, route[c]) => Expected(f, c)
         /\ cq'[c] \in Seq(Frames) /\ cq' \in [Clients -> Seq(Frames)]
         /\ \A d \in Clients : Len(cq'[d]) <= QueueCap
         /\ \A d \in Clients : d # c => cq'[d] = cq[d]
         /\ Sorted(cq'[c]) /\ Chained(cq'[c], c, route[c])
         /\ \A i \in 1..Len(cq'[c]) :
              /\ cq'[c][i] \in Frames /\ Known(cq'[c][i])
              /\ cq'[c][i].to \in {Nobody, c} /\ Coming(cq'[c][i], c)
              /\ Before(f, cq'[c][i])
              /\ \A j \in 1..Len(wq) : Before(cq'[c][i], wq[j])
         /\ \A j \in 1..Len(wq) : Before(f, wq[j])
         /\ cq'[c] # <<>> /\ Own(cq'[c][1], c, route[c]) =>
              Precedes(f, cq'[c][1])
         /\ wq # <<>> /\ Own(wq[1], c, route[c]) =>
              IF cq'[c] = <<>> THEN Precedes(f, wq[1])
              ELSE Precedes(cq'[c][Len(cq'[c])], wq[1])
<1> USE DEF Take
<1>1. TypeOK /\ ClientInv(c)
  BY DEF ReplayInv
<1>2. /\ cq \in [Clients -> Seq(Frames)] /\ cq[c] \in Seq(Frames) /\ cq[c] # <<>>
      /\ cq' = [cq EXCEPT ![c] = Tail(cq[c])]
      /\ \A d \in Clients : Len(cq[d]) <= QueueCap
      /\ QueueCap \in Nat
  BY <1>1, ReplayAssumption DEF TypeOK
<1>3. PICK q \in Seq(Frames) : q = cq[c]
  BY <1>2
<1>4. PICK t : t = Tail(q)
  OBVIOUS
<1>5. /\ cq'[c] = t /\ cq' \in [Clients -> Seq(Frames)]
      /\ \A d \in Clients : d # c => cq'[d] = cq[d]
  BY <1>2, <1>3, <1>4
<1>6. /\ t \in Seq(Frames) /\ Len(t) = Len(q) - 1
      /\ Len(q) \in Nat \ {0} /\ f = q[1] /\ f \in Frames
      /\ \A i \in 1..Len(t) : i + 1 \in 1..Len(q) /\ t[i] = q[i + 1]
  BY <1>2, <1>3, <1>4, TailKept
<1>7. Sorted(t) /\ \A i \in 1..Len(t) : Before(f, t[i])
  BY <1>1, <1>2, <1>3, <1>4, <1>6, TailKept DEF ClientInv
<1>8. /\ Chained(t, c, route[c])
      /\ t # <<>> /\ Own(t[1], c, route[c]) => Precedes(f, t[1])
  BY <1>1, <1>2, <1>3, <1>4, <1>6, TailKept DEF ClientInv
<1>9. 1 \in 1..Len(q)
  BY <1>6
<1>10. /\ Known(f) /\ f.to \in {Nobody, c} /\ Coming(f, c)
       /\ Own(f, c, route[c]) => Expected(f, c)
       /\ \A j \in 1..Len(wq) : Before(f, wq[j])
  BY <1>1, <1>2, <1>3, <1>6, <1>9 DEF ClientInv
<1>11. \A i \in 1..Len(t) :
         /\ t[i] \in Frames /\ Known(t[i]) /\ t[i].to \in {Nobody, c}
         /\ Coming(t[i], c) /\ \A j \in 1..Len(wq) : Before(t[i], wq[j])
  <2>1. \A k \in 1..Len(q) :
          /\ Known(q[k]) /\ q[k].to \in {Nobody, c}
          /\ Coming(q[k], c) /\ \A j \in 1..Len(wq) : Before(q[k], wq[j])
    BY <1>1, <1>3 DEF ClientInv
  <2>2. \A i \in 1..Len(t) : t[i] \in Frames
    BY <1>6
  <2> QED
    BY <1>6, <2>1, <2>2
<1>12. ASSUME wq # <<>>, Own(wq[1], c, route[c])
       PROVE  IF t = <<>> THEN Precedes(f, wq[1]) ELSE Precedes(t[Len(t)], wq[1])
  <2>1. Precedes(q[Len(q)], wq[1])
    BY <1>1, <1>2, <1>3, <1>12 DEF ClientInv
  <2>2. CASE t = <<>>
    <3>1. Len(q) = 1
      BY <1>6, <2>2
    <3> QED
      BY <1>6, <2>1, <2>2, <3>1
  <2>3. CASE t # <<>>
    <3>1. t[Len(t)] = q[Len(q)]
      <4>1. Len(t) \in 1..Len(t) /\ Len(t) + 1 = Len(q)
        BY <1>6, <2>3
      <4> QED
        BY <1>6, <4>1
    <3> QED
      BY <2>1, <2>3, <3>1
  <2> QED
    BY <2>2, <2>3
<1>13. \A d \in Clients : Len(cq'[d]) <= QueueCap
  <2>1. Len(q) <= QueueCap
    BY <1>2, <1>3
  <2>2. Len(t) <= QueueCap
    BY <1>2, <1>6, <2>1
  <2> QED
    BY <1>2, <1>5, <2>2
<1>14. f.type = type
  OBVIOUS
<1> HIDE DEF Take
<1> QED
  BY <1>5, <1>6, <1>7, <1>8, <1>10, <1>11, <1>12, <1>13, <1>14

(* What the browser does with a frame keeps the order, if it keeps the     *)
(* order of every frame that may come behind it.                           *)
LEMMA Taken ==
  ASSUME ReplayInv, NEW c \in Clients, NEW type, Take(c, type),
         NEW f, f = Head(cq[c]),
         \A d \in Clients : d # c =>
           /\ cursor'[d] = cursor[d] /\ cgen'[d] = cgen[d] /\ last'[d] = last[d]
           /\ rebuilding'[d] = rebuilding[d] /\ disorder'[d] = disorder[d]
           /\ orphan'[d] = orphan[d],
         \A g \in Frames : Known(g) /\ Before(f, g) /\ Coming(g, c) => Coming(g, c)',
         \A g \in Frames : Own(g, c, route[c]) /\ Precedes(f, g) => Expected(g, c)',
         Present(c)', ~disorder'[c]
  PROVE  \A d \in Clients : ClientInv(d)'
<1>1. TypeOK /\ Numeric /\ LinkInv /\ \A d \in Clients : ClientInv(d)
  BY Numbers DEF ReplayInv
<1>2. UNCHANGED <<wrapper, wq, routes, route>>
  BY DEF Take
<1>3. /\ f \in Frames /\ cq'[c] \in Seq(Frames)
      /\ \A d \in Clients : d # c => cq'[d] = cq[d]
      /\ Sorted(cq'[c]) /\ Chained(cq'[c], c, route[c])
      /\ \A i \in 1..Len(cq'[c]) :
           /\ cq'[c][i] \in Frames /\ Known(cq'[c][i])
           /\ cq'[c][i].to \in {Nobody, c} /\ Coming(cq'[c][i], c)
           /\ Before(f, cq'[c][i])
           /\ \A j \in 1..Len(wq) : Before(cq'[c][i], wq[j])
      /\ \A j \in 1..Len(wq) : Before(f, wq[j])
  BY TakeFacts
<1>4. /\ cq'[c] # <<>> /\ Own(cq'[c][1], c, route[c]) => Precedes(f, cq'[c][1])
      /\ wq # <<>> /\ Own(wq[1], c, route[c]) =>
           IF cq'[c] = <<>> THEN Precedes(f, wq[1])
           ELSE Precedes(cq'[c][Len(cq'[c])], wq[1])
  BY TakeFacts
<1>5. ASSUME NEW d \in Clients, d # c PROVE ClientInv(d)'
  <2>1. routes' \in Nat /\ routes <= routes' /\ UNCHANGED <<wrapper, wq>>
        /\ route'[d] = route[d] /\ cq'[d] = cq[d]
    BY <1>1, <1>2, <1>3, <1>5 DEF Numeric
  <2> QED
    BY <1>1, <1>5, <2>1, ClientKept
<1>6. wq \in Seq(Frames) /\ \A i \in 1..Len(wq) : /\ wq[i] \in Frames /\ Known(wq[i])
                                                  /\ Coming(wq[i], c)
  BY <1>1 DEF TypeOK, LinkInv, ClientInv
<1>7. UNCHANGED <<gen, life, resident, ring, wq, routes, route>>
  BY <1>2 DEF wrapper
<1>8. (\A i \in 1..Len(cq[c]) : Known(cq[c][i]) /\ cq[c][i].to \in {Nobody, c})'
  BY <1>3, <1>7 DEF Known
<1>9. (\A i \in 1..Len(cq[c]) : Coming(cq[c][i], c))'
  <2>1. \A i \in 1..Len(cq'[c]) : Coming(cq'[c][i], c) /\ Known(cq'[c][i])
                                  /\ Before(f, cq'[c][i]) /\ cq'[c][i] \in Frames
    BY <1>3
  <2> QED
    BY <2>1 DEF Coming
<1>10. (\A i \in 1..Len(wq) : Coming(wq[i], c))'
  BY <1>3, <1>6, <1>7 DEF Coming
<1>11. (cq[c] # <<>> /\ Own(cq[c][1], c, route[c]) => Expected(cq[c][1], c))'
  <2>1. cq'[c] # <<>> => cq'[c][1] \in Frames
    BY <1>3
  <2> QED
    BY <1>4, <1>7, <2>1 DEF Expected
<1>12. (wq # <<>> /\ Own(wq[1], c, route[c]) =>
          IF cq[c] = <<>> THEN Expected(wq[1], c)
          ELSE Precedes(cq[c][Len(cq[c])], wq[1]))'
  <2>1. wq # <<>> => wq[1] \in Frames
    BY <1>6
  <2> QED
    BY <1>4, <1>7, <2>1 DEF Expected
<1>13. ClientInv(c)'
  <2>1. /\ route[c] <= routes /\ Chained(wq, c, route[c])
        /\ route[c] = 0 => cq[c] = <<>>
    BY <1>1 DEF ClientInv
  <2>2. cq[c] # <<>>
    BY DEF Take
  <2> QED
    BY <1>3, <1>7, <1>8, <1>9, <1>10, <1>11, <1>12, <2>1, <2>2 DEF ClientInv
<1> QED
  BY <1>5, <1>13

(* A browser step that takes a frame, but for what it does to the browser.  *)
LEMMA StepTaken ==
  ASSUME ReplayInv, NEW c \in Clients, NEW type, Take(c, type),
         \A d \in Clients : ClientInv(d)',
         inbox' \in Seq(Hellos), \A i \in 1..Len(inbox') : inbox'[i].conn <= routes,
         cursor' \in [Clients -> NoCursor..MaxSeq], cgen' \in [Clients -> 0..MaxGen],
         rebuilding' \in [Clients -> BOOLEAN],
         seen' \in [Clients -> SUBSET (Nat \X Nat)],
         last' \in [Clients -> Nat \X Nat], disorder' \in [Clients -> BOOLEAN],
         owed' \in [Clients -> BOOLEAN], overlap' \in [Clients -> BOOLEAN],
         orphan' \in [Clients -> BOOLEAN]
  PROVE  ReplayInv'
<1>1. TypeOK
  BY DEF ReplayInv
<1>2. UNCHANGED <<wrapper, up, losses, wq, routes, route>>
  BY DEF Take
<1>3. UNCHANGED <<gen, life, resident, ring, turnFrom, evicted>>
  BY <1>2 DEF wrapper
<1>4. cq' \in [Clients -> Seq(Frames)] /\ \A d \in Clients : Len(cq'[d]) <= QueueCap
  BY TakeFacts
<1>5. TypeOK'
  BY <1>1, <1>2, <1>3, <1>4 DEF TypeOK
<1>6. PoolInv' /\ LinkInv'
  BY <1>2, PoolLinkKept
<1> QED
  BY <1>5, <1>6 DEF ReplayInv

LEMMA StepTakeReconnected ==
  ReplayInv /\ (\E c \in Clients : TakeReconnected(c)) => ReplayInv'
<1> SUFFICES ASSUME ReplayInv, NEW c \in Clients, TakeReconnected(c)
             PROVE  ReplayInv'
  OBVIOUS
<1>1. TypeOK /\ Numeric /\ ClientInv(c)
  BY Numbers DEF ReplayInv
<1>2. /\ Take(c, "hello") /\ Hello(c, FALSE)
      /\ UNCHANGED <<cursor, cgen, rebuilding, seen, last, disorder, overlap, orphan>>
  BY DEF TakeReconnected, Hello
<1>3. UNCHANGED <<wrapper, wq, routes, route>> /\ cq[c] # <<>>
  BY <1>2 DEF Take
<1>4. UNCHANGED <<gen, life, resident, ring>>
  BY <1>3 DEF wrapper
<1>5. PICK f : f = Head(cq[c])
  OBVIOUS
<1>6. f.type = "hello"
  BY <1>2, <1>5, TakeFacts
<1>7. \A g \in Frames : Coming(g, c) => Coming(g, c)'
  BY <1>2 DEF Coming
<1>8. \A g : ~Precedes(f, g)
  BY <1>6 DEF Precedes
<1>9. Present(c)' /\ ~disorder'[c]
  BY <1>1, <1>2, <1>4 DEF ClientInv, Present
<1>10. \A d \in Clients : ClientInv(d)'
  BY <1>2, <1>5, <1>7, <1>8, <1>9, Taken
<1>11. /\ inbox' \in Seq(Hellos) /\ owed' \in [Clients -> BOOLEAN]
       /\ \A i \in 1..Len(inbox') : inbox'[i].conn <= routes
  <2>1. route'[c] \in 1..MaxRoute /\ route'[c] <= routes'
        /\ routes <= routes' /\ routes' \in Nat
    <3>1. route[c] # 0 /\ route[c] <= routes
      BY <1>1, <1>3 DEF ClientInv
    <3>2. route[c] \in 0..MaxRoute
      BY <1>1 DEF TypeOK
    <3> QED
      BY <1>1, <1>3, <3>1, <3>2, ReplayAssumption DEF Numeric
  <2>2. PICK routed \in BOOLEAN : Hello(c, routed)
    BY <1>2, Zenon
  <2> QED
    BY <1>3, <2>1, <2>2, HelloSent
<1> QED
  BY <1>1, <1>2, <1>10, <1>11, StepTaken, BrowserTypes

(* A frame that carries a generation: c forgets its cursor if it knew      *)
(* another one, but only in front of a later incarnation.                  *)
LEMMA GenerationNoted ==
  ASSUME ReplayInv, NEW c \in Clients, NEW f \in Frames,
         f.type # "hello", Known(f), Coming(f, c),
         UNCHANGED wrapper, last'[c] = last[c], ~orphan'[c] => ~orphan[c],
         cursor'[c] = CursorIn(c, f.gen), cgen'[c] = f.gen
  PROVE  /\ \A g \in Frames : Before(f, g) /\ Coming(g, c) => Coming(g, c)'
         /\ Present(c)'
<1>1. Numeric /\ Present(c) /\ UNCHANGED <<gen, life, resident, ring>>
  BY Numbers DEF ReplayInv, ClientInv, wrapper
<1>2. /\ f.gen \in Nat /\ f.life \in Nat /\ gen \in Nat /\ life \in Nat
      /\ cgen[c] \in Nat /\ last[c][1] \in Nat /\ last[c][2] \in Nat
      /\ Bigger(cursor[c], 0) \in Nat
  BY <1>1, FrameType DEF Numeric
<1>3. /\ cgen[c] <= f.gen /\ last[c][1] <= f.life
      /\ ~orphan[c] /\ (f.gen > cgen[c] \/ Bigger(cursor[c], 0) < last[c][2]) =>
           f.life > last[c][1]
  BY DEF Coming
<1>4. /\ f.life <= life /\ f.gen <= gen
      /\ resident /\ f.life = life => f.gen = gen
  BY DEF Known
<1>5. ~orphan'[c] /\ Bigger(cursor'[c], 0) < last[c][2] => f.life > last[c][1]
  <2>1. CASE cursor'[c] = cursor[c]
    BY <1>3, <2>1
  <2>2. CASE cgen[c] # f.gen
    <3>1. f.gen > cgen[c]
      BY <1>2, <1>3, <2>2
    <3> QED
      BY <1>3, <3>1
  <2> QED
    BY <2>1, <2>2 DEF CursorIn
<1>6. ASSUME NEW g \in Frames, Before(f, g), Coming(g, c), g.type # "hello"
      PROVE  /\ cgen'[c] <= g.gen
             /\ last'[c][1] <= g.life
             /\ g.type = "event" /\ g.to = Nobody => After(Id(g), last'[c])
             /\ ~orphan'[c] /\ (g.gen > cgen'[c] \/ Bigger(cursor'[c], 0) < last'[c][2]) =>
                  g.life > last'[c][1]
  <2>1. g.gen \in Nat /\ g.life \in Nat
    BY FrameType
  <2>2. \/ f.life < g.life /\ f.gen <= g.gen
        \/ f.life = g.life /\ f.gen = g.gen
    BY <1>6 DEF Before
  <2>3. /\ last[c][1] <= g.life
        /\ g.type = "event" /\ g.to = Nobody => After(Id(g), last[c])
    BY <1>6 DEF Coming
  <2>4. ASSUME ~orphan'[c], g.gen > f.gen \/ Bigger(cursor'[c], 0) < last[c][2]
        PROVE  g.life > last[c][1]
    <3>1. CASE g.gen > f.gen
      BY <1>2, <1>3, <2>1, <2>2, <3>1
    <3>2. CASE Bigger(cursor'[c], 0) < last[c][2]
      BY <1>2, <1>5, <2>1, <2>2, <2>4, <3>2
    <3> QED
      BY <2>4, <3>1, <3>2
  <2> QED
    BY <1>2, <2>1, <2>2, <2>3, <2>4
<1>7. \A g \in Frames : Before(f, g) /\ Coming(g, c) => Coming(g, c)'
  BY <1>6 DEF Coming
<1>8. Present(c)'
  <2>1. last[c][1] <= life /\ (resident /\ last[c][1] = life => last[c][2] <= ring.tail)
    BY <1>1 DEF Present
  <2>2. ASSUME resident, ~orphan'[c], gen > f.gen \/ Bigger(cursor'[c], 0) < last[c][2]
        PROVE  life > last[c][1]
    <3>1. CASE gen > f.gen
      BY <1>2, <1>3, <1>4, <2>2, <3>1
    <3>2. CASE Bigger(cursor'[c], 0) < last[c][2]
      BY <1>2, <1>4, <1>5, <2>2, <3>2
    <3> QED
      BY <2>2, <3>1, <3>2
  <2> QED
    BY <1>1, <1>2, <1>4, <2>1, <2>2 DEF Present
<1> QED
  BY <1>7, <1>8

LEMMA CoversPairs ==
  ASSUME NEW f \in Frames
  PROVE  Covers(f) \subseteq Nat \X Nat
<1>1. f.seq \in Nat /\ f.life \in Nat
  BY FrameType
<1> QED
  BY <1>1 DEF Covers

LEMMA NotedType ==
  ASSUME TypeOK, NEW c \in Clients, NEW f \in Frames
  PROVE  /\ CursorIn(c, f.gen) \in NoCursor..MaxSeq /\ f.gen \in 0..MaxGen
         /\ 0 \in NoCursor..MaxSeq
         /\ Bigger(cursor[c], f.seq) \in NoCursor..MaxSeq
<1>1. /\ cursor[c] \in NoCursor..MaxSeq /\ f.gen \in 1..MaxGen /\ f.seq \in 0..MaxSeq
  BY FrameType DEF TypeOK
<1> QED
  BY <1>1, ReplayAssumption DEF CursorIn, NoCursor, Bigger

LEMMA StepTakeSnapshot ==
  ReplayInv /\ (\E c \in Clients : TakeSnapshot(c)) => ReplayInv'
<1> SUFFICES ASSUME ReplayInv, NEW c \in Clients, TakeSnapshot(c)
             PROVE  ReplayInv'
  OBVIOUS
<1>1. TypeOK /\ Numeric /\ ClientInv(c)
  BY Numbers DEF ReplayInv
<1>2. PICK f : f = Head(cq[c])
  OBVIOUS
<1>3. /\ Take(c, "snapshot")
      /\ cursor' = [cursor EXCEPT ![c] = CursorIn(c, f.gen)]
      /\ cgen' = [cgen EXCEPT ![c] = f.gen]
      /\ seen' = [seen EXCEPT ![c] = @ \cup Covers(f)]
      /\ rebuilding' = [rebuilding EXCEPT ![c] = FALSE]
      /\ owed' = [owed EXCEPT ![c] = @ /\ ~Answers(f, c)]
      /\ UNCHANGED <<inbox, last, disorder, overlap, orphan>>
  BY <1>2 DEF TakeSnapshot
<1>4. UNCHANGED <<wrapper, wq, routes, route>>
  BY <1>3 DEF Take
<1>5. f \in Frames /\ f.type = "snapshot" /\ Known(f) /\ Coming(f, c)
  BY <1>2, <1>3, TakeFacts
<1>6. /\ CursorIn(c, f.gen) \in NoCursor..MaxSeq /\ f.gen \in 0..MaxGen
      /\ Covers(f) \subseteq Nat \X Nat
  BY <1>1, <1>5, NotedType, CoversPairs
<1>7. /\ inbox \in Seq(Hellos)
      /\ cursor \in [Clients -> NoCursor..MaxSeq] /\ cgen \in [Clients -> 0..MaxGen]
      /\ rebuilding \in [Clients -> BOOLEAN]
      /\ seen \in [Clients -> SUBSET (Nat \X Nat)]
      /\ owed \in [Clients -> BOOLEAN]
  BY <1>1, BrowserTypes
<1>8. /\ cursor' \in [Clients -> NoCursor..MaxSeq] /\ cgen' \in [Clients -> 0..MaxGen]
      /\ rebuilding' \in [Clients -> BOOLEAN]
      /\ cursor'[c] = CursorIn(c, f.gen) /\ cgen'[c] = f.gen /\ rebuilding'[c] = FALSE
      /\ \A d \in Clients : d # c => /\ cursor'[d] = cursor[d] /\ cgen'[d] = cgen[d]
                                     /\ rebuilding'[d] = rebuilding[d]
  BY <1>3, <1>6, <1>7
<1>9. seen' \in [Clients -> SUBSET (Nat \X Nat)]
  <2>1. seen[c] \cup Covers(f) \in SUBSET (Nat \X Nat)
    BY <1>6, <1>7
  <2> QED
    BY <1>3, <1>7, <2>1
<1>10. owed' \in [Clients -> BOOLEAN]
  BY <1>3, <1>7
<1>11. /\ \A g \in Frames : Before(f, g) /\ Coming(g, c) => Coming(g, c)'
       /\ Present(c)'
  BY <1>3, <1>4, <1>5, <1>8, GenerationNoted
<1>12. \A g : Expected(g, c)'
  BY <1>8 DEF Expected
<1>13. ~disorder'[c]
  BY <1>1, <1>3 DEF ClientInv
<1>14. \A d \in Clients : ClientInv(d)'
  BY <1>2, <1>3, <1>8, <1>11, <1>12, <1>13, Taken
<1>15. \A i \in 1..Len(inbox') : inbox'[i].conn <= routes
  BY <1>3 DEF ReplayInv, LinkInv
<1> QED
  BY <1>1, <1>3, <1>7, <1>8, <1>9, <1>10, <1>14, <1>15, StepTaken, BrowserTypes

(* A reset: nothing was given yet.                                         *)
LEMMA ResetNoted ==
  ASSUME ReplayInv, NEW c \in Clients, NEW f \in Frames,
         f.type # "hello", Known(f),
         UNCHANGED wrapper, last'[c] = <<0, 0>>,
         Bigger(cursor'[c], 0) \in Nat, cgen'[c] = f.gen
  PROVE  /\ \A g \in Frames : Before(f, g) => Coming(g, c)'
         /\ Present(c)'
         /\ \A g \in Frames : Expected(g, c)'
<1>1. Numeric /\ UNCHANGED <<gen, life, resident, ring>>
  BY Numbers DEF ReplayInv, wrapper
<1>2. /\ last'[c][1] = 0 /\ last'[c][2] = 0
  OBVIOUS
<1>3. ASSUME NEW g \in Frames PROVE After(Id(g), last'[c]) /\ g.life > 0
  <2>1. g.life \in Nat /\ g.life > 0
    BY FrameType, ReplayAssumption
  <2> QED
    BY <1>2, <2>1 DEF After, Id
<1>4. ASSUME NEW g \in Frames, Before(f, g) PROVE Coming(g, c)'
  <2>1. g.type # "hello" => f.gen <= g.gen
    <3>1. f.gen \in Nat /\ g.gen \in Nat
      BY FrameType
    <3> QED
      BY <1>4, <3>1 DEF Before
  <2>2. g.life \in Nat /\ g.life > 0
    BY <1>3, FrameType
  <2> QED
    BY <1>2, <1>3, <2>1, <2>2 DEF Coming
<1>5. Present(c)'
  <2>1. f.gen <= gen /\ life >= 1 /\ life \in Nat /\ ring.tail \in Nat
    BY <1>1 DEF Known, Numeric
  <2> QED
    BY <1>1, <1>2, <2>1 DEF Present
<1>6. \A g \in Frames : Expected(g, c)'
  BY <1>3 DEF Expected
<1> QED
  BY <1>4, <1>5, <1>6

LEMMA StepTakeStart ==
  ReplayInv /\ (\E c \in Clients : TakeStart(c)) => ReplayInv'
<1> SUFFICES ASSUME ReplayInv, NEW c \in Clients, TakeStart(c)
             PROVE  ReplayInv'
  OBVIOUS
<1>1. TypeOK /\ Numeric /\ ClientInv(c)
  BY Numbers DEF ReplayInv
<1>2. PICK f : f = Head(cq[c])
  OBVIOUS
<1>r. PICK reset : reset = (f.truncated \/ f.rebuild)
  OBVIOUS
<1>3. /\ Take(c, "start")
      /\ cursor' = [cursor EXCEPT ![c] = IF f.rebuild THEN 0 ELSE CursorIn(c, f.gen)]
      /\ cgen' = [cgen EXCEPT ![c] = f.gen]
      /\ rebuilding' = [rebuilding EXCEPT ![c] = f.rebuild]
      /\ seen' = [seen EXCEPT ![c] = IF reset THEN @ \cup Covers(f) ELSE @]
      /\ last' = [last EXCEPT ![c] = IF reset THEN <<0, 0>> ELSE @]
      /\ overlap' = [overlap EXCEPT ![c] = @ /\ ~reset]
      /\ orphan' = [orphan EXCEPT ![c] =
           ~Answers(f, c) \/ ((@ \/ f.stray) /\ ~f.rebuild)]
      /\ UNCHANGED <<inbox, disorder, owed>>
  BY <1>2, <1>r DEF TakeStart
<1>4. UNCHANGED <<wrapper, wq, routes, route>>
  BY <1>3 DEF Take
<1>5. f \in Frames /\ f.type = "start" /\ Known(f) /\ Coming(f, c)
  BY <1>2, <1>3, TakeFacts
<1>6. /\ CursorIn(c, f.gen) \in NoCursor..MaxSeq /\ f.gen \in 0..MaxGen
      /\ 0 \in NoCursor..MaxSeq /\ f.rebuild \in BOOLEAN /\ f.truncated \in BOOLEAN
      /\ Covers(f) \subseteq Nat \X Nat
  BY <1>1, <1>5, NotedType, CoversPairs, FrameType
<1>7. /\ inbox \in Seq(Hellos)
      /\ cursor \in [Clients -> NoCursor..MaxSeq] /\ cgen \in [Clients -> 0..MaxGen]
      /\ rebuilding \in [Clients -> BOOLEAN]
      /\ seen \in [Clients -> SUBSET (Nat \X Nat)]
      /\ last \in [Clients -> Nat \X Nat]
      /\ overlap \in [Clients -> BOOLEAN] /\ orphan \in [Clients -> BOOLEAN]
  BY <1>1, BrowserTypes
<1>8. /\ cursor' \in [Clients -> NoCursor..MaxSeq] /\ cgen' \in [Clients -> 0..MaxGen]
      /\ cursor'[c] = IF f.rebuild THEN 0 ELSE CursorIn(c, f.gen)
      /\ cgen'[c] = f.gen
      /\ \A d \in Clients : d # c => cursor'[d] = cursor[d] /\ cgen'[d] = cgen[d]
  BY <1>3, <1>6, <1>7
<1>9. /\ rebuilding' \in [Clients -> BOOLEAN] /\ rebuilding'[c] = f.rebuild
      /\ \A d \in Clients : d # c => rebuilding'[d] = rebuilding[d]
  BY <1>3, <1>6, <1>7
<1>10. /\ last' \in [Clients -> Nat \X Nat]
       /\ last'[c] = IF reset THEN <<0, 0>> ELSE last[c]
       /\ \A d \in Clients : d # c => last'[d] = last[d]
  <2>1. <<0, 0>> \in Nat \X Nat /\ last[c] \in Nat \X Nat
    BY <1>7
  <2> QED
    BY <1>3, <1>7, <2>1
<1>11. /\ overlap' \in [Clients -> BOOLEAN] /\ orphan' \in [Clients -> BOOLEAN]
       /\ orphan'[c] = (~Answers(f, c) \/ ((orphan[c] \/ f.stray) /\ ~f.rebuild))
       /\ \A d \in Clients : d # c => orphan'[d] = orphan[d]
  BY <1>3, <1>7, Zenon
<1>12. seen' \in [Clients -> SUBSET (Nat \X Nat)]
  <2>1. /\ seen[c] \cup Covers(f) \in SUBSET (Nat \X Nat)
        /\ seen[c] \in SUBSET (Nat \X Nat)
    BY <1>6, <1>7
  <2> QED
    BY <1>3, <1>7, <2>1
<1>13. /\ \A g \in Frames : Known(g) /\ Before(f, g) /\ Coming(g, c) => Coming(g, c)'
       /\ Present(c)'
       /\ \A g \in Frames : Expected(g, c)'
  <2>1. CASE reset
    <3>1. Bigger(cursor'[c], 0) \in Nat
      <4>1. cursor'[c] \in Int
        BY <1>6, <1>8, ReplayAssumption DEF NoCursor
      <4> QED
        BY <4>1 DEF Bigger
    <3> QED
      BY <1>4, <1>5, <1>8, <1>10, <2>1, <3>1, ResetNoted
  <2>2. CASE ~reset
    <3>1. ~f.rebuild
      BY <1>r, <2>2
    <3>2. cursor'[c] = CursorIn(c, f.gen) /\ last'[c] = last[c]
      BY <1>8, <1>10, <2>2, <3>1
    <3>3. ~orphan'[c] => ~orphan[c]
      BY <1>11, <3>1
    <3>4. \A g : Expected(g, c)'
      BY <1>9, <3>1 DEF Expected
    <3> QED
      BY <1>4, <1>5, <1>8, <3>2, <3>3, <3>4, GenerationNoted
  <2> QED
    BY <2>1, <2>2
<1>14. ~disorder'[c]
  BY <1>1, <1>3 DEF ClientInv
<1>15. \A d \in Clients : ClientInv(d)'
  BY <1>2, <1>3, <1>8, <1>9, <1>10, <1>11, <1>13, <1>14, Taken
<1>16. \A i \in 1..Len(inbox') : inbox'[i].conn <= routes
  BY <1>3 DEF ReplayInv, LinkInv
<1> QED
  BY <1>1, <1>3, <1>7, <1>8, <1>9, <1>10, <1>11, <1>12, <1>15, <1>16,
     StepTaken, BrowserTypes

(* The heart of it: an event that is neither stale nor an orphan is later  *)
(* than the last event given.                                              *)
LEMMA GivenInOrder ==
  ASSUME ReplayInv, NEW c \in Clients, NEW f \in Frames, f.type = "event",
         Coming(f, c), f.to \in {Nobody, c},
         Own(f, c, route[c]) => Expected(f, c),
         ~Stale(c, f), ~orphan[c], f.to = c => Answers(f, c)
  PROVE  After(Id(f), last[c])
<1>1. Numeric
  BY Numbers DEF ReplayInv
<1>2. CASE f.to = Nobody
  BY <1>2 DEF Coming
<1>3. CASE f.to = c
  <2>1. rebuilding[c] => After(Id(f), last[c])
    BY <1>3 DEF Answers, Own, Expected
  <2>2. ASSUME ~rebuilding[c] PROVE After(Id(f), last[c])
    <3>1. /\ f.seq \in Nat /\ f.life \in Nat /\ Bigger(cursor[c], 0) \in Nat
          /\ last[c][1] \in Nat /\ last[c][2] \in Nat
      BY <1>1, FrameType DEF Numeric
    <3>2. ~(f.seq <= Bigger(cursor[c], 0))
      BY <2>2 DEF Stale
    <3>3. /\ last[c][1] <= f.life
          /\ Bigger(cursor[c], 0) < last[c][2] => f.life > last[c][1]
      BY DEF Coming
    <3>4. f.life > last[c][1] \/ (f.life = last[c][1] /\ f.seq > last[c][2])
      BY <3>1, <3>2, <3>3
    <3> QED
      BY <3>4 DEF After, Id
  <2> QED
    BY <2>1, <2>2
<1> QED
  BY <1>2, <1>3

LEMMA GivenNoted ==
  ASSUME ReplayInv, NEW c \in Clients, NEW f \in Frames, f.type = "event",
         Known(f), Coming(f, c), UNCHANGED wrapper,
         cursor'[c] = Bigger(cursor[c], f.seq), cgen'[c] = cgen[c],
         last'[c] = Id(f), ~orphan'[c] => cgen[c] = f.gen
  PROVE  /\ \A g \in Frames : Before(f, g) /\ Coming(g, c) => Coming(g, c)'
         /\ Present(c)'
         /\ \A g \in Frames : Precedes(f, g) => Expected(g, c)'
<1>1. Numeric /\ UNCHANGED <<gen, life, resident, ring>>
  BY Numbers DEF ReplayInv, wrapper
<1>2. /\ f.gen \in Nat /\ f.life \in Nat /\ f.seq \in Nat
      /\ gen \in Nat /\ life \in Nat /\ ring.tail \in Nat
      /\ cgen[c] \in Nat /\ cursor[c] \in Int
  BY <1>1, FrameType DEF Numeric
<1>3. last'[c][1] = f.life /\ last'[c][2] = f.seq
  BY DEF Id
<1>4. Bigger(cursor'[c], 0) >= f.seq /\ Bigger(cursor'[c], 0) \in Nat
  BY <1>2 DEF Bigger
<1>5. cgen[c] <= f.gen
  BY DEF Coming
<1>6. /\ f.life <= life /\ f.gen <= gen
      /\ resident /\ f.life = life => f.gen = gen /\ f.seq <= ring.tail
  BY DEF Known
<1>7. ASSUME NEW g \in Frames, Before(f, g), Coming(g, c), g.type # "hello"
      PROVE  /\ cgen'[c] <= g.gen
             /\ last'[c][1] <= g.life
             /\ g.type = "event" /\ g.to = Nobody => After(Id(g), last'[c])
             /\ ~orphan'[c] /\ (g.gen > cgen'[c] \/ Bigger(cursor'[c], 0) < last'[c][2]) =>
                  g.life > last'[c][1]
  <2>1. g.gen \in Nat /\ g.life \in Nat
    BY FrameType
  <2>2. /\ \/ f.life < g.life /\ f.gen <= g.gen
           \/ f.life = g.life /\ f.gen = g.gen
        /\ g.type = "event" /\ g.to = Nobody => After(Id(g), Id(f))
    BY <1>7 DEF Before
  <2> QED
    BY <1>2, <1>3, <1>4, <1>5, <2>1, <2>2
<1>8. Present(c)'
  BY <1>1, <1>2, <1>3, <1>4, <1>5, <1>6 DEF Present
<1>9. ASSUME NEW g \in Frames, Precedes(f, g) PROVE Expected(g, c)'
  <2>1. g.life = f.life /\ g.seq > f.seq
    <3>1. g.seq \in Nat
      BY FrameType
    <3> QED
      BY <1>2, <1>9, <3>1 DEF Precedes
  <2> QED
    BY <2>1 DEF Expected, After, Id
<1> QED
  BY <1>7, <1>8, <1>9 DEF Coming

LEMMA StepTakeEvent ==
  ReplayInv /\ (\E c \in Clients : TakeEvent(c)) => ReplayInv'
<1> SUFFICES ASSUME ReplayInv, NEW c \in Clients, TakeEvent(c)
             PROVE  ReplayInv'
  OBVIOUS
<1>1. TypeOK /\ Numeric /\ ClientInv(c)
  BY Numbers DEF ReplayInv
<1>2. PICK f : f = Head(cq[c])
  OBVIOUS
<1>3. Take(c, "event")
  BY DEF TakeEvent
<1>4. UNCHANGED <<wrapper, wq, routes, route>>
  BY <1>3 DEF Take
<1>5. /\ f \in Frames /\ f.type = "event" /\ Known(f) /\ Coming(f, c)
      /\ f.to \in {Nobody, c} /\ (Own(f, c, route[c]) => Expected(f, c))
  BY <1>2, <1>3, TakeFacts
<1>6. /\ inbox \in Seq(Hellos)
      /\ cursor \in [Clients -> NoCursor..MaxSeq]
      /\ seen \in [Clients -> SUBSET (Nat \X Nat)]
      /\ last \in [Clients -> Nat \X Nat] /\ disorder \in [Clients -> BOOLEAN]
      /\ overlap \in [Clients -> BOOLEAN] /\ orphan \in [Clients -> BOOLEAN]
  BY <1>1, BrowserTypes
<1>i. \A i \in 1..Len(inbox) : inbox[i].conn <= routes
  BY DEF ReplayInv, LinkInv
<1>7. CASE Stale(c, f)
  <2>1. UNCHANGED <<inbox, browser>>
    BY <1>2, <1>7 DEF TakeEvent
  <2>2. UNCHANGED <<cursor, cgen, rebuilding, seen, last, disorder, owed, overlap, orphan>>
    BY <2>1 DEF browser
  <2>3. \A g \in Frames : Coming(g, c) => Coming(g, c)'
    BY <2>2 DEF Coming
  <2>4. \A g : Expected(g, c)'
    BY <1>7, <2>2 DEF Stale, Expected
  <2>5. UNCHANGED <<gen, life, resident, ring>>
    BY <1>4 DEF wrapper
  <2>6. Present(c)' /\ ~disorder'[c]
    BY <1>1, <2>2, <2>5 DEF ClientInv, Present
  <2>7. \A d \in Clients : ClientInv(d)'
    BY <1>2, <1>3, <2>2, <2>3, <2>4, <2>6, Taken
  <2> QED
    BY <1>1, <1>3, <1>i, <2>1, <2>2, <2>7, StepTaken, BrowserTypes
<1>8. CASE ~Stale(c, f)
  <2>1. /\ cursor' = [cursor EXCEPT ![c] = Bigger(@, f.seq)]
        /\ overlap' = [overlap EXCEPT ![c] = @ \/ (owed[c] /\ f.to = Nobody)]
        /\ orphan' = [orphan EXCEPT ![c] =
             @ \/ cgen[c] # f.gen \/ (f.to = c /\ ~Answers(f, c))]
        /\ seen' = [seen EXCEPT ![c] = @ \cup {Id(f)}]
        /\ last' = [last EXCEPT ![c] = Id(f)]
        /\ disorder' = [disorder EXCEPT ![c] =
             @ \/ (~orphan'[c] /\ ~After(Id(f), last[c]))]
        /\ UNCHANGED <<inbox, cgen, rebuilding, owed>>
    BY <1>2, <1>8 DEF TakeEvent, NoteSeq, Id
  <2>2. /\ cursor' \in [Clients -> NoCursor..MaxSeq]
        /\ cursor'[c] = Bigger(cursor[c], f.seq)
        /\ \A d \in Clients : d # c => cursor'[d] = cursor[d]
    <3>1. Bigger(cursor[c], f.seq) \in NoCursor..MaxSeq
      BY <1>1, <1>5, NotedType
    <3> QED
      BY <1>6, <2>1, <3>1
  <2>3. Id(f) \in Nat \X Nat
    BY <1>5, FrameType DEF Id
  <2>4. /\ last' \in [Clients -> Nat \X Nat] /\ last'[c] = Id(f)
        /\ \A d \in Clients : d # c => last'[d] = last[d]
    BY <1>6, <2>1, <2>3
  <2>5. /\ overlap' \in [Clients -> BOOLEAN] /\ orphan' \in [Clients -> BOOLEAN]
        /\ orphan'[c] = (orphan[c] \/ cgen[c] # f.gen \/ (f.to = c /\ ~Answers(f, c)))
        /\ \A d \in Clients : d # c => orphan'[d] = orphan[d]
    BY <1>6, <2>1, Zenon
  <2>6. seen' \in [Clients -> SUBSET (Nat \X Nat)]
    <3>1. seen[c] \cup {Id(f)} \in SUBSET (Nat \X Nat)
      BY <1>6, <2>3
    <3> QED
      BY <1>6, <2>1, <3>1
  <2>7. /\ disorder' \in [Clients -> BOOLEAN]
        /\ disorder'[c] = (disorder[c] \/ (~orphan'[c] /\ ~After(Id(f), last[c])))
        /\ \A d \in Clients : d # c => disorder'[d] = disorder[d]
    BY <1>6, <2>1, Zenon
  <2>8. ~disorder'[c]
    <3>1. ~disorder[c]
      BY <1>1 DEF ClientInv
    <3>2. ~orphan'[c] => After(Id(f), last[c])
      BY <1>5, <1>8, <2>5, GivenInOrder
    <3> QED
      BY <2>7, <3>1, <3>2
  <2>9. /\ \A g \in Frames : Before(f, g) /\ Coming(g, c) => Coming(g, c)'
        /\ Present(c)'
        /\ \A g \in Frames : Precedes(f, g) => Expected(g, c)'
    <3>1. ~orphan'[c] => cgen[c] = f.gen
      BY <2>5
    <3> QED
      BY <1>4, <1>5, <2>1, <2>2, <2>4, <3>1, GivenNoted
  <2>10. \A d \in Clients : ClientInv(d)'
    BY <1>2, <1>3, <2>1, <2>2, <2>4, <2>5, <2>7, <2>8, <2>9, Taken
  <2> QED
    BY <1>1, <1>3, <1>i, <2>1, <2>2, <2>4, <2>5, <2>6, <2>7, <2>10,
       StepTaken, BrowserTypes
<1> QED
  BY <1>7, <1>8

LEMMA StepTakeEnd ==
  ReplayInv /\ (\E c \in Clients : TakeEnd(c)) => ReplayInv'
<1> SUFFICES ASSUME ReplayInv, NEW c \in Clients, TakeEnd(c)
             PROVE  ReplayInv'
  OBVIOUS
<1>1. TypeOK /\ Numeric /\ ClientInv(c)
  BY Numbers DEF ReplayInv
<1>2. PICK f : f = Head(cq[c])
  OBVIOUS
<1>3. /\ Take(c, "end")
      /\ cursor' = [cursor EXCEPT ![c] = Bigger(@, f.seq)]
      /\ overlap' = [overlap EXCEPT ![c] = @ \/ (owed[c] /\ f.to = Nobody)]
      /\ orphan' = [orphan EXCEPT ![c] =
           @ \/ cgen[c] # f.gen \/ (f.to = c /\ ~Answers(f, c))]
      /\ rebuilding' = [rebuilding EXCEPT ![c] = FALSE]
      /\ owed' = [owed EXCEPT ![c] = @ /\ ~Answers(f, c)]
      /\ UNCHANGED <<inbox, cgen, seen, last, disorder>>
  BY <1>2 DEF TakeEnd, NoteSeq
<1>4. UNCHANGED <<wrapper, wq, routes, route>>
  BY <1>3 DEF Take
<1>5. f \in Frames
  BY <1>2, <1>3, TakeFacts
<1>6. /\ inbox \in Seq(Hellos)
      /\ cursor \in [Clients -> NoCursor..MaxSeq]
      /\ rebuilding \in [Clients -> BOOLEAN] /\ owed \in [Clients -> BOOLEAN]
      /\ overlap \in [Clients -> BOOLEAN] /\ orphan \in [Clients -> BOOLEAN]
  BY <1>1, BrowserTypes
<1>7. /\ cursor' \in [Clients -> NoCursor..MaxSeq]
      /\ cursor'[c] = Bigger(cursor[c], f.seq)
      /\ \A d \in Clients : d # c => cursor'[d] = cursor[d]
  <2>1. Bigger(cursor[c], f.seq) \in NoCursor..MaxSeq
    BY <1>1, <1>5, NotedType
  <2> QED
    BY <1>3, <1>6, <2>1
<1>8. /\ overlap' \in [Clients -> BOOLEAN] /\ orphan' \in [Clients -> BOOLEAN]
      /\ rebuilding' \in [Clients -> BOOLEAN] /\ owed' \in [Clients -> BOOLEAN]
      /\ orphan'[c] = (orphan[c] \/ cgen[c] # f.gen \/ (f.to = c /\ ~Answers(f, c)))
      /\ rebuilding'[c] = FALSE
      /\ \A d \in Clients : d # c => orphan'[d] = orphan[d] /\ rebuilding'[d] = rebuilding[d]
  BY <1>3, <1>6, Zenon
<1>9. Bigger(cursor'[c], 0) >= Bigger(cursor[c], 0)
      /\ Bigger(cursor'[c], 0) \in Nat /\ Bigger(cursor[c], 0) \in Nat
  <2>1. cursor[c] \in Int /\ f.seq \in Nat
    BY <1>1, <1>5, FrameType DEF Numeric
  <2> QED
    BY <1>7, <2>1 DEF Bigger
<1>10. last[c][2] \in Nat
  BY <1>1 DEF Numeric
<1>11. Bigger(cursor'[c], 0) < last[c][2] => Bigger(cursor[c], 0) < last[c][2]
  BY <1>9, <1>10
<1>12. \A g \in Frames : Coming(g, c) => Coming(g, c)'
  BY <1>3, <1>8, <1>11 DEF Coming
<1>13. Present(c)' /\ ~disorder'[c]
  <2>1. UNCHANGED <<gen, life, resident, ring>>
    BY <1>4 DEF wrapper
  <2> QED
    BY <1>1, <1>3, <1>8, <1>11, <2>1 DEF ClientInv, Present
<1>14. \A g : Expected(g, c)'
  BY <1>8 DEF Expected
<1>15. \A d \in Clients : ClientInv(d)'
  BY <1>2, <1>3, <1>7, <1>8, <1>12, <1>13, <1>14, Taken
<1>16. \A i \in 1..Len(inbox') : inbox'[i].conn <= routes
  BY <1>3 DEF ReplayInv, LinkInv
<1> QED
  BY <1>1, <1>3, <1>7, <1>8, <1>15, <1>16, StepTaken, BrowserTypes

-----------------------------------------------------------------------------
LEMMA InitReplay == Init => ReplayInv
<1> SUFFICES ASSUME Init PROVE ReplayInv
  OBVIOUS
<1>1. /\ gen = 1 /\ life = 1 /\ resident = TRUE /\ ring = EmptyRing /\ turnFrom = 0
      /\ evicted = FALSE /\ up = TRUE /\ losses = 0 /\ wq = <<>> /\ inbox = <<>>
      /\ routes = 0
  BY DEF Init
<1>2. ASSUME NEW c \in Clients
      PROVE  /\ route[c] = 0 /\ cq[c] = <<>> /\ Len(cq[c]) = 0
             /\ cursor[c] = NoCursor /\ cgen[c] = 0 /\ last[c] = <<0, 0>>
             /\ disorder[c] = FALSE
  BY DEF Init
<1>3. TypeOK
  <2>1. /\ 1 \in 1..MaxGen /\ 1 \in 1..MaxLife /\ 0 \in 0..MaxSeq /\ 0 \in 0..MaxLinkLoss
        /\ 0 \in 0..MaxRoute /\ NoCursor \in NoCursor..MaxSeq /\ 0 \in 0..MaxGen
        /\ 0 <= QueueCap
    BY ReplayAssumption DEF NoCursor
  <2>2. <<>> \in Seq(Frames) /\ <<>> \in Seq(Hellos) /\ <<0, 0>> \in Nat \X Nat
    OBVIOUS
  <2>3. \A c \in Clients : Len(cq[c]) <= QueueCap
    BY <1>2, <2>1
  <2>4. /\ route \in [Clients -> 0..MaxRoute] /\ cq \in [Clients -> Seq(Frames)]
        /\ cursor \in [Clients -> NoCursor..MaxSeq] /\ cgen \in [Clients -> 0..MaxGen]
    BY <2>1, <2>2 DEF Init
  <2>5. /\ rebuilding \in [Clients -> BOOLEAN] /\ disorder \in [Clients -> BOOLEAN]
        /\ owed \in [Clients -> BOOLEAN] /\ overlap \in [Clients -> BOOLEAN]
        /\ orphan \in [Clients -> BOOLEAN]
    BY DEF Init
  <2>6. seen \in [Clients -> SUBSET (Nat \X Nat)] /\ last \in [Clients -> Nat \X Nat]
    BY <2>2 DEF Init
  <2> QED
    BY <1>1, <2>1, <2>2, <2>3, <2>4, <2>5, <2>6, EmptyRingFacts DEF TypeOK
<1>4. PoolInv
  BY <1>1, EmptyRingFacts DEF PoolInv
<1>5. LinkInv
  <2>1. Len(wq) = 0 /\ Len(inbox) = 0
    BY <1>1
  <2> QED
    BY <1>1, <2>1 DEF LinkInv, Sorted
<1>6. ASSUME NEW c \in Clients PROVE ClientInv(c)
  <2>0. /\ route[c] = 0 /\ cq[c] = <<>> /\ Len(cq[c]) = 0
        /\ cursor[c] = NoCursor /\ cgen[c] = 0 /\ disorder[c] = FALSE
        /\ last[c] = <<0, 0>> /\ last[c][1] = 0 /\ last[c][2] = 0
    <3>1. /\ cq[c] = <<>> /\ cursor[c] = NoCursor /\ cgen[c] = 0
          /\ disorder[c] = FALSE /\ last[c] = <<0, 0>> /\ route[c] = 0
      BY <1>2
    <3> QED
      BY <3>1
  <2>1. wq = <<>> /\ Len(wq) = 0 /\ routes = 0
    BY <1>1
  <2>2. Sorted(cq[c])
    BY <2>0 DEF Sorted
  <2>3. Chained(cq[c], c, route[c])
    BY <2>0 DEF Chained
  <2>4. Chained(wq, c, route[c])
    BY <2>1 DEF Chained
  <2>5. gen = 1 /\ life = 1 /\ ring.tail = 0
    BY <1>1, EmptyRingFacts
  <2>6. Present(c)
    BY <2>0, <2>5 DEF Present
  <2> QED
    BY <2>0, <2>1, <2>2, <2>3, <2>4, <2>6 DEF ClientInv
<1> QED
  BY <1>3, <1>4, <1>5, <1>6 DEF ReplayInv

LEMMA StepReplay == ReplayInv /\ [Next]_vars => ReplayInv'
<1> SUFFICES ASSUME ReplayInv, [Next]_vars PROVE ReplayInv'
  OBVIOUS
<1>1. CASE WrapperNext
  BY <1>1, StepEmits, StepHandleHello, StepEvict, StepRespawn, StepWrapperRestart
     DEF WrapperNext
<1>2. CASE LinkNext
  BY <1>2, StepLinkDown, StepLinkUp, StepOnWrapperMsg DEF LinkNext
<1>3. CASE \E c \in Clients : ClientNext(c)
  BY <1>3, StepConnect, StepDisconnect, StepReload, StepTakeReconnected,
     StepTakeSnapshot, StepTakeStart, StepTakeEvent, StepTakeEnd DEF ClientNext
<1>4. CASE UNCHANGED vars
  <2>1. UNCHANGED <<gen, life, resident, ring, turnFrom, evicted, up, losses, wq, inbox>>
    BY <1>4 DEF vars, wrapper, link
  <2>2. UNCHANGED <<routes, route, cq, cursor, cgen, rebuilding, seen, last, disorder,
                    owed, overlap, orphan>>
    BY <1>4 DEF vars, relay, browser
  <2>3. TypeOK' /\ PoolInv'
    BY <2>1, <2>2 DEF ReplayInv, TypeOK, PoolInv
  <2>4. LinkInv'
    BY <2>1, <2>2 DEF ReplayInv, LinkInv, Known
  <2>5. ASSUME NEW c \in Clients PROVE ClientInv(c)'
    <3>1. UNCHANGED <<wrapper, wq>> /\ TypeOK /\ ClientInv(c)
          /\ routes' \in Nat /\ routes <= routes'
      BY <1>4, <2>2, Numbers DEF vars, link, ReplayInv, Numeric
    <3> QED
      BY <2>2, <3>1, ClientKept
  <2> QED
    BY <2>3, <2>4, <2>5 DEF ReplayInv
<1> QED
  BY <1>1, <1>2, <1>3, <1>4 DEF Next

(* The order on the way to every browser holds always, whatever is lost,   *)
(* restarted, evicted, reconnected or reloaded, and however often.         *)
THEOREM ReplayInvariance == Spec => []ReplayInv
BY InitReplay, StepReplay, PTL DEF Spec

(* Every variable of the replay protocol has its type, and no connection's *)
(* queue at the relay exceeds its cap.                                     *)
THEOREM ReplayTypeCorrect == Spec => []TypeOK
<1>1. ReplayInv => TypeOK
  BY DEF ReplayInv
<1> QED
  BY <1>1, ReplayInvariance, PTL

(* No reducer is given an event twice or out of order, for any number of   *)
(* browsers, events, lives, connections and losses (web/src/ws.ts drops an *)
(* event at or below its cursor unless a rebuild runs).                    *)
THEOREM ReplayInOrder == Spec => []InOrderOnce
<1>1. ReplayInv => InOrderOnce
  BY DEF ReplayInv, ClientInv, InOrderOnce
<1> QED
  BY <1>1, ReplayInvariance, PTL

-----------------------------------------------------------------------------
(***************************************************************************)
(* SessionReplay: why a browser that lost frames notices.                  *)
(*                                                                         *)
(* Pipe(c) is what is on its way to c, first the frames that arrive first. *)
(* The relay forwards to c only the frames of Mine(c).                     *)
(***************************************************************************)
Pipe(c) == cq[c] \o wq

Mine(c) ==
  {f \in Frames : f.to = Nobody \/ (f.to = c /\ (f.routed => f.conn = route[c]))}

(* The answers to hellos of the connection c has.                          *)
Ours(c) == {f \in Frames : f.to = c /\ f.conn = route[c] /\ route[c] # 0}

(* The wrapper's announcements, which make a browser say hello again.      *)
Calls == {f \in Frames : f.type = "hello" /\ f.to = Nobody}

Resets(f) == f.type = "start" /\ (f.truncated \/ f.rebuild)

(* Event s, live.                                                          *)
Live(s) ==
  {f \in Frames : f.type = "event" /\ f.to = Nobody /\ f.life = life /\ f.seq = s}

(* What gives c event s: the event, or a frame whose History covers it.    *)
Gives(c, s) ==
  {f \in Mine(c) : f.life = life /\
     \/ f.type = "event" /\ f.seq = s
     \/ (f.type = "snapshot" \/ Resets(f)) /\ f.seq >= s}

(* What makes c an orphan.                                                 *)
Strays(c) ==
  {f \in Mine(c) : f.type = "start" /\ (f \notin Ours(c) \/ (f.stray /\ ~f.rebuild))}

(* What may move c's cursor back below s and does not cover event s.       *)
Below(s) ==
  {f \in Frames : f.type \in {"start", "snapshot"} /\ (f.life < life \/ f.seq < s)}

(* What tells c the present generation, and what ends a rebuild.           *)
Renews(c) == {f \in Mine(c) : f.type \in {"start", "snapshot"} /\ f.gen = gen}
Closes(c) == {f \in Mine(c) : f.type \in {"end", "snapshot"}}
Rebuilding(c) == {f \in Mine(c) : f.type = "start" /\ f.rebuild}

(* The answers of generation g that continue c's cursor, and the Snapshots *)
(* of answers to hellos without a cursor.                                  *)
Continues(c, g) == {f \in Ours(c) : f.type = "start" /\ ~f.rebuild /\ f.gen = g}
Snapshots(c, g) == {f \in Ours(c) : f.type = "snapshot" /\ f.gen = g}

Has(P, Y) == \E q \in 1..Len(P) : P[q] \in Y
Behind(P, X, Y) ==
  \A p \in 1..Len(P) : P[p] \in X => \E q \in 1..Len(P) : p < q /\ P[q] \in Y
Ahead(P, X, Y) ==
  \A p \in 1..Len(P) : P[p] \in X => \E q \in 1..Len(P) : q < p /\ P[q] \in Y

(* inbox[i] is a hello of the connection c has.                            *)
Calling(c, i) == inbox[i].client = c /\ inbox[i].conn = route[c]
Called(c) == \E i \in 1..Len(inbox) : Calling(c, i)
Served(c) == up /\ resident /\ route[c] # 0

(* c has event s, or counts as having it, or it is on its way, or c will   *)
(* say hello again.                                                        *)
Saving(c, s) == Gives(c, s) \cup Strays(c) \cup Calls
Safe(c, s) ==
  orphan[c] \/ <<life, s>> \in seen[c] \/ s <= cursor[c] \/ Has(Pipe(c), Saving(c, s))

(* A frame that does not cover an event is followed by that event, live,   *)
(* or by the announcement of the link that lost it.                        *)
Followed(c) ==
  up /\ resident =>
    \A s \in 1..ring.tail : Behind(Pipe(c), Below(s), Live(s) \cup Calls)

(* Unless c's hello waits for its answer, every event is safe; and a hello *)
(* waits with a cursor below which every event is safe.                    *)
Reached(c) ==
  Served(c) /\ ~Called(c) => \A s \in 1..ring.tail : Safe(c, s)

Asked(c) ==
  Served(c) => \A i \in 1..Len(inbox), s \in 1..ring.tail :
    Calling(c, i) /\ s <= inbox[i].cursor =>
      Safe(c, s) \/ \E j \in 1..Len(inbox) : i < j /\ Calling(c, j)

(* Unless c's hello waits for its answer, c knows or will be told the      *)
(* present generation, and every rebuild ends.                             *)
Informed(c) ==
  Served(c) /\ ~Called(c) => cgen[c] = gen \/ Has(Pipe(c), Renews(c) \cup Calls)

RebuildEnds(c) ==
  Served(c) /\ ~Called(c) =>
    /\ rebuilding[c] => Has(Pipe(c), Closes(c) \cup Calls)
    /\ Behind(Pipe(c), Rebuilding(c), Closes(c) \cup Calls)

(* Before c gets an answer that continues its cursor, it knows the         *)
(* generation; so does it when such a hello waits.                         *)
Continued(c) ==
  \A g \in 1..MaxGen : g # cgen[c] =>
    Ahead(Pipe(c), Continues(c, g), Snapshots(c, g))

Resumed(c) ==
  \A i \in 1..Len(inbox) :
    Calling(c, i) /\ inbox[i].cursor # NoCursor /\ inbox[i].gen = gen =>
      cgen[c] = gen

Addressed(c) == \A i \in 1..Len(cq[c]) : cq[c][i] \in Mine(c)

CatchingUp(c) ==
  /\ Followed(c) /\ Reached(c) /\ Asked(c) /\ Informed(c) /\ RebuildEnds(c)
  /\ Continued(c) /\ Resumed(c) /\ Addressed(c)

-----------------------------------------------------------------------------
(* The ways a pipe changes.  Q is P without its kth frame; Q is P with fs  *)
(* behind it; Q is P from its kth frame on.                                *)
Removed(P, k, Q) ==
  /\ k \in 1..Len(P) /\ Len(Q) = Len(P) - 1
  /\ \A i \in 1..Len(Q) : Q[i] = P[IF i < k THEN i ELSE i + 1]

Grown(P, fs, Q) ==
  /\ Len(Q) = Len(P) + Len(fs)
  /\ \A i \in 1..Len(P) : Q[i] = P[i]
  /\ \A i \in 1..Len(fs) : Q[Len(P) + i] = fs[i]

CutAt(P, k, Q) ==
  /\ k \in 0..Len(P) /\ Len(Q) = Len(P) - k
  /\ \A i \in 1..Len(Q) : Q[i] = P[i + k]

LEMMA RemovedFacts ==
  ASSUME NEW P, NEW Q, NEW k, Removed(P, k, Q), Len(P) \in Nat
  PROVE  /\ \A Y : P[k] \notin Y /\ Has(P, Y) => Has(Q, Y)
         /\ \A X, Y : (k = 1 \/ P[k] \notin Y) /\ Behind(P, X, Y) => Behind(Q, X, Y)
         /\ \A X, Y : k = 1 /\ P[1] \in X /\ Behind(P, X, Y) => Has(Q, Y)
         /\ \A X, Y : P[k] \notin Y /\ Ahead(P, X, Y) => Ahead(Q, X, Y)
<1>1. /\ k \in Nat /\ Len(Q) \in Nat /\ k \in 1..Len(P) /\ Len(Q) = Len(P) - 1
      /\ \A i \in 1..Len(Q) : Q[i] = P[IF i < k THEN i ELSE i + 1]
  BY DEF Removed
<1>2. \A p \in 1..Len(P) : p < k => p \in 1..Len(Q) /\ Q[p] = P[p]
  BY <1>1
<1>3. \A p \in 1..Len(P) : p > k => p - 1 \in 1..Len(Q) /\ Q[p - 1] = P[p]
  BY <1>1
<1>4. \A i \in 1..Len(Q) : i < k => i \in 1..Len(P) /\ Q[i] = P[i]
  BY <1>1
<1>5. \A i \in 1..Len(Q) : ~(i < k) => i + 1 \in 1..Len(P) /\ Q[i] = P[i + 1]
  BY <1>1
<1>10. ASSUME NEW i \in 1..Len(Q)
       PROVE  \E p \in 1..Len(P) : /\ (i < k /\ p = i) \/ (~(i < k) /\ p = i + 1)
                                  /\ P[p] = Q[i]
  <2>1. CASE i < k
    <3>1. i \in 1..Len(P) /\ P[i] = Q[i]
      BY <1>4, <2>1
    <3> QED
      BY <2>1, <3>1
  <2>2. CASE ~(i < k)
    <3>1. i + 1 \in 1..Len(P) /\ P[i + 1] = Q[i]
      BY <1>5, <2>2
    <3> QED
      BY <2>2, <3>1
  <2> QED
    BY <2>1, <2>2
<1>6. ASSUME NEW Y, P[k] \notin Y, Has(P, Y) PROVE Has(Q, Y)
  <2>1. PICK q \in 1..Len(P) : P[q] \in Y
    BY <1>6 DEF Has
  <2>2. q < k \/ q > k
    BY <1>1, <1>6, <2>1
  <2> QED
    BY <1>2, <1>3, <2>1, <2>2 DEF Has
<1>7. ASSUME NEW X, NEW Y, k = 1 \/ P[k] \notin Y, Behind(P, X, Y) PROVE Behind(Q, X, Y)
  <2> SUFFICES ASSUME NEW i \in 1..Len(Q), Q[i] \in X
               PROVE  \E q \in 1..Len(Q) : i < q /\ Q[q] \in Y
    BY DEF Behind
  <2>1. PICK p \in 1..Len(P) : /\ (i < k /\ p = i) \/ (~(i < k) /\ p = i + 1)
                               /\ P[p] = Q[i]
    BY <1>10
  <2>2. PICK q \in 1..Len(P) : p < q /\ P[q] \in Y
    BY <1>7, <2>1 DEF Behind
  <2>3. q < k \/ q > k
    BY <1>1, <1>7, <2>1, <2>2
  <2>4. CASE q < k
    <3>1. q \in 1..Len(Q) /\ Q[q] \in Y
      BY <1>2, <2>2, <2>4
    <3>2. i < q
      BY <1>1, <2>1, <2>2, <2>4
    <3> QED
      BY <3>1, <3>2
  <2>5. CASE q > k
    <3>1. q - 1 \in 1..Len(Q) /\ Q[q - 1] \in Y
      BY <1>3, <2>2, <2>5
    <3>2. i < q - 1
      BY <1>1, <2>1, <2>2, <2>5
    <3> QED
      BY <3>1, <3>2
  <2> QED
    BY <2>3, <2>4, <2>5
<1>8. ASSUME NEW X, NEW Y, k = 1, P[1] \in X, Behind(P, X, Y) PROVE Has(Q, Y)
  <2>1. PICK q \in 1..Len(P) : 1 < q /\ P[q] \in Y
    BY <1>1, <1>8 DEF Behind
  <2> QED
    BY <1>3, <1>8, <2>1 DEF Has
<1>9. ASSUME NEW X, NEW Y, P[k] \notin Y, Ahead(P, X, Y) PROVE Ahead(Q, X, Y)
  <2> SUFFICES ASSUME NEW i \in 1..Len(Q), Q[i] \in X
               PROVE  \E q \in 1..Len(Q) : q < i /\ Q[q] \in Y
    BY DEF Ahead
  <2>1. PICK p \in 1..Len(P) : /\ (i < k /\ p = i) \/ (~(i < k) /\ p = i + 1)
                               /\ P[p] = Q[i]
    BY <1>10
  <2>2. PICK q \in 1..Len(P) : q < p /\ P[q] \in Y
    BY <1>9, <2>1 DEF Ahead
  <2>3. q < k \/ q > k
    BY <1>1, <1>9, <2>2
  <2>4. CASE q < k
    <3>1. q \in 1..Len(Q) /\ Q[q] \in Y
      BY <1>2, <2>2, <2>4
    <3>2. q < i
      BY <1>1, <2>1, <2>2, <2>4
    <3> QED
      BY <3>1, <3>2
  <2>5. CASE q > k
    <3>1. q - 1 \in 1..Len(Q) /\ Q[q - 1] \in Y
      BY <1>3, <2>2, <2>5
    <3>2. q - 1 < i
      BY <1>1, <2>1, <2>2, <2>5
    <3> QED
      BY <3>1, <3>2
  <2> QED
    BY <2>3, <2>4, <2>5
<1> QED
  BY <1>6, <1>7, <1>8, <1>9

LEMMA GrownFacts ==
  ASSUME NEW P, NEW Q, NEW fs, Grown(P, fs, Q), Len(P) \in Nat, Len(fs) \in Nat
  PROVE  /\ \A Y : Has(P, Y) \/ Has(fs, Y) => Has(Q, Y)
         /\ \A X, Y : Behind(P, X, Y) /\ Behind(fs, X, Y) => Behind(Q, X, Y)
         /\ \A X, Y : Has(fs, Y) /\ Behind(fs, X, Y) => Behind(Q, X, Y)
         /\ \A X, Y : Ahead(P, X, Y) /\ Ahead(fs, X, Y) => Ahead(Q, X, Y)
<1>1. /\ Len(Q) \in Nat /\ Len(Q) = Len(P) + Len(fs)
      /\ \A i \in 1..Len(P) : i \in 1..Len(Q) /\ Q[i] = P[i]
      /\ \A i \in 1..Len(fs) : Len(P) + i \in 1..Len(Q) /\ Q[Len(P) + i] = fs[i]
  BY DEF Grown
<1>2. \A i \in 1..Len(Q) : \/ i \in 1..Len(P) /\ Q[i] = P[i]
                           \/ i - Len(P) \in 1..Len(fs) /\ Q[i] = fs[i - Len(P)] /\ i > Len(P)
  <2> SUFFICES ASSUME NEW i \in 1..Len(Q), i > Len(P)
               PROVE  i - Len(P) \in 1..Len(fs) /\ Q[i] = fs[i - Len(P)]
    BY <1>1
  <2>1. i - Len(P) \in 1..Len(fs) /\ Len(P) + (i - Len(P)) = i
    BY <1>1
  <2> QED
    BY <1>1, <2>1
<1>3. ASSUME NEW Y, Has(P, Y) \/ Has(fs, Y) PROVE Has(Q, Y)
  BY <1>1, <1>3 DEF Has
<1>4. ASSUME NEW X, NEW Y, Behind(fs, X, Y), NEW i \in 1..Len(Q), Q[i] \in X,
             i - Len(P) \in 1..Len(fs), Q[i] = fs[i - Len(P)]
      PROVE  \E q \in 1..Len(Q) : i < q /\ Q[q] \in Y
  <2>1. PICK q \in 1..Len(fs) : i - Len(P) < q /\ fs[q] \in Y
    BY <1>4 DEF Behind
  <2>2. i < Len(P) + q
    BY <1>1, <2>1
  <2> QED
    BY <1>1, <2>1, <2>2
<1>5. ASSUME NEW X, NEW Y, Behind(P, X, Y), Behind(fs, X, Y) PROVE Behind(Q, X, Y)
  <2> SUFFICES ASSUME NEW i \in 1..Len(Q), Q[i] \in X
               PROVE  \E q \in 1..Len(Q) : i < q /\ Q[q] \in Y
    BY DEF Behind
  <2>1. CASE i \in 1..Len(P) /\ Q[i] = P[i]
    <3>1. PICK q \in 1..Len(P) : i < q /\ P[q] \in Y
      BY <1>5, <2>1 DEF Behind
    <3> QED
      BY <1>1, <3>1
  <2> QED
    BY <1>2, <1>4, <1>5, <2>1
<1>6. ASSUME NEW X, NEW Y, Has(fs, Y), Behind(fs, X, Y) PROVE Behind(Q, X, Y)
  <2> SUFFICES ASSUME NEW i \in 1..Len(Q), Q[i] \in X
               PROVE  \E q \in 1..Len(Q) : i < q /\ Q[q] \in Y
    BY DEF Behind
  <2>1. CASE i \in 1..Len(P)
    <3>1. PICK q \in 1..Len(fs) : fs[q] \in Y
      BY <1>6 DEF Has
    <3>2. i < Len(P) + q
      BY <1>1, <2>1
    <3> QED
      BY <1>1, <3>1, <3>2
  <2> QED
    BY <1>2, <1>4, <1>6, <2>1
<1>7. ASSUME NEW X, NEW Y, Ahead(P, X, Y), Ahead(fs, X, Y) PROVE Ahead(Q, X, Y)
  <2> SUFFICES ASSUME NEW i \in 1..Len(Q), Q[i] \in X
               PROVE  \E q \in 1..Len(Q) : q < i /\ Q[q] \in Y
    BY DEF Ahead
  <2>1. CASE i \in 1..Len(P) /\ Q[i] = P[i]
    <3>1. PICK q \in 1..Len(P) : q < i /\ P[q] \in Y
      BY <1>7, <2>1 DEF Ahead
    <3> QED
      BY <1>1, <3>1
  <2>2. CASE i - Len(P) \in 1..Len(fs) /\ Q[i] = fs[i - Len(P)]
    <3>1. PICK q \in 1..Len(fs) : q < i - Len(P) /\ fs[q] \in Y
      BY <1>7, <2>2 DEF Ahead
    <3>2. Len(P) + q < i
      BY <1>1, <3>1
    <3> QED
      BY <1>1, <3>1, <3>2
  <2> QED
    BY <1>2, <2>1, <2>2
<1> QED
  BY <1>3, <1>5, <1>6, <1>7

LEMMA CutFacts ==
  ASSUME NEW P, NEW Q, NEW k, CutAt(P, k, Q), Len(P) \in Nat
  PROVE  \A X, Y : Behind(P, X, Y) => Behind(Q, X, Y)
<1>1. /\ k \in Nat /\ k <= Len(P) /\ Len(Q) = Len(P) - k /\ Len(Q) \in Nat
      /\ \A i \in 1..Len(Q) : i + k \in 1..Len(P) /\ Q[i] = P[i + k]
      /\ \A q \in 1..Len(P) : q > k => q - k \in 1..Len(Q) /\ (q - k) + k = q
  BY DEF CutAt
<1> SUFFICES ASSUME NEW X, NEW Y, Behind(P, X, Y), NEW i \in 1..Len(Q), Q[i] \in X
             PROVE  \E q \in 1..Len(Q) : i < q /\ Q[q] \in Y
  BY DEF Behind
<1>2. PICK q \in 1..Len(P) : i + k < q /\ P[q] \in Y
  BY <1>1 DEF Behind
<1>3. q > k /\ i < q - k
  BY <1>1, <1>2
<1> QED
  BY <1>1, <1>2, <1>3

-----------------------------------------------------------------------------
(* What an answer to a hello holds.                                        *)
LEMMA AscendingListsAll ==
  ASSUME NEW S, IsFiniteSet(S), S \subseteq Nat
  PROVE  \A s \in S : \E i \in 1..Cardinality(S) : Ascending(S)[i] = s
<1> DEFINE n == Cardinality(S)
           a == Ascending(S)
<1>1. n \in Nat
  BY FS_CardinalityType
<1>2. a \in [1..n -> S] /\ \A i, j \in 1..n : i < j => a[i] < a[j]
  BY AscendingFacts
<1> HIDE DEF a
<1>3. IsFiniteSet(1..n) /\ Cardinality(1..n) = n
  <2>1. 1 \in Int /\ n \in Int
    BY <1>1
  <2> HIDE DEF n
  <2> QED
    BY <1>1, <2>1, FS_Interval
<1>4. a \in Injection(1..n, S)
  <2>1. ASSUME NEW i \in 1..n, NEW j \in 1..n, a[i] = a[j] PROVE i = j
    <3>1. a[i] \in Nat /\ a[j] \in Nat
      BY <1>2
    <3>2. i \in Nat /\ j \in Nat
      BY <1>1
    <3>3. ~(i < j) /\ ~(j < i)
      BY <1>2, <2>1, <3>1
    <3> QED
      BY <3>2, <3>3
  <2> HIDE DEF n
  <2> QED
    BY <1>2, <2>1 DEF Injection, IsInjective
<1>5. a \in Surjection(1..n, S)
  <2> HIDE DEF n
  <2> QED
    BY <1>3, <1>4, FS_Injection DEF n
<1> HIDE DEF n
<1> QED
  BY <1>5 DEF Surjection, a, n

(* The frames of an envelope.                                              *)
Enveloped(s, h, e) ==
  /\ s[1].truncated = e.truncated /\ s[1].rebuild = e.rebuild
  /\ Len(s) > 1 /\ s[Len(s)].type = "end"
  /\ \A k \in 1..Len(s) :
       /\ s[k].stray = h.stray
       /\ k = 1 \/ s[k].type \in {"event", "end"}
       /\ s[k].type # "event" => s[k].seq = ring.tail
       /\ s[k].type = "event" => s[k].seq \in e.body
       /\ s[k].type = "end" => k = Len(s)
  /\ \A x \in e.body : \E k \in 1..Len(s) : s[k].type = "event" /\ s[k].seq = x
  /\ \A j, k \in 1..Len(s) :
       j < k /\ s[j].type = "event" /\ s[k].type = "event" => s[j].seq < s[k].seq

LEMMA ReplayContents ==
  ASSUME TypeOK, NEW h \in Hellos, NEW e, e.to = ring.tail,
         e.body \subseteq 1..ring.tail
  PROVE  Enveloped(Replay(h, e), h, e)
<1> DEFINE n == Cardinality(e.body)
           start == [Answer(h, "start", e.to) EXCEPT !.truncated = e.truncated,
                                                     !.rebuild = e.rebuild]
           event(i) == Answer(h, "event", Ascending(e.body)[i])
           events == [i \in 1..n |-> event(i)]
           end == Answer(h, "end", e.to)
<1>0. ring.tail \in 0..MaxSeq /\ ring.tail \in Nat /\ MaxSeq \in Nat
  BY ReplayAssumption DEF TypeOK
<1>1. IsFiniteSet(e.body) /\ n \in Nat /\ e.body \subseteq Nat
  <2>0. 1 \in Int /\ ring.tail \in Int
    BY <1>0
  <2>1. IsFiniteSet(1..ring.tail) /\ e.body \in SUBSET (1..ring.tail)
    BY <2>0, FS_Interval
  <2> QED
    BY <1>0, <2>1, FS_Subset, FS_CardinalityType
<1>2. /\ \A i \in 1..n : Ascending(e.body)[i] \in e.body
      /\ \A i, j \in 1..n : i < j => Ascending(e.body)[i] < Ascending(e.body)[j]
      /\ \A x \in e.body : \E i \in 1..n : Ascending(e.body)[i] = x
  BY <1>1, AscendingFacts, AscendingListsAll
<1>3. \A type, x : /\ Answer(h, type, x).type = type /\ Answer(h, type, x).seq = x
                   /\ Answer(h, type, x).stray = h.stray
  BY DEF Answer, Frame
<1>4. /\ start.type = "start" /\ start.seq = ring.tail /\ start.stray = h.stray
      /\ start.truncated = e.truncated /\ start.rebuild = e.rebuild
  BY DEF Answer, Frame
<1>5. end.type = "end" /\ end.seq = ring.tail /\ end.stray = h.stray
  BY <1>3
<1>6. \A i \in 1..n : /\ event(i).type = "event" /\ event(i).stray = h.stray
                      /\ event(i).seq = Ascending(e.body)[i]
  BY <1>3
<1> HIDE DEF start, event, end, n
<1>7. events \in Seq({event(i) : i \in 1..n}) /\ Len(events) = n
      /\ \A i \in 1..n : events[i] = event(i)
  BY <1>1
<1> HIDE DEF events
<1> DEFINE s == <<start>> \o events \o <<end>>
<1>8. /\ Len(s) = n + 2 /\ s[1] = start /\ s[n + 2] = end
      /\ \A i \in 1..n : s[i + 1] = event(i)
  BY <1>1, <1>7
<1>9. Replay(h, e) = s
  BY DEF Replay, s, start, events, event, end, n
<1> HIDE DEF s
<1>10. ASSUME NEW k \in 1..Len(s)
       PROVE  \/ k = 1 /\ s[k] = start
              \/ k = n + 2 /\ s[k] = end
              \/ k - 1 \in 1..n /\ s[k] = event(k - 1)
  <2>1. k = 1 \/ k = n + 2 \/ (k - 1 \in 1..n /\ (k - 1) + 1 = k)
    BY <1>1, <1>8
  <2> QED
    BY <1>8, <2>1
<1>11. \A k \in 1..Len(s) :
         /\ s[k].stray = h.stray
         /\ k = 1 \/ s[k].type \in {"event", "end"}
         /\ s[k].type # "event" => s[k].seq = ring.tail
         /\ s[k].type = "event" =>
              /\ k - 1 \in 1..n /\ s[k].seq = Ascending(e.body)[k - 1]
  BY <1>4, <1>5, <1>6, <1>10
<1>12. ASSUME NEW x \in e.body
       PROVE  \E k \in 1..Len(s) : s[k].type = "event" /\ s[k].seq = x
  <2>1. PICK i \in 1..n : Ascending(e.body)[i] = x
    BY <1>2
  <2>2. i + 1 \in 1..Len(s)
    BY <1>1, <1>8
  <2> QED
    BY <1>6, <1>8, <2>1, <2>2
<1>13. ASSUME NEW j \in 1..Len(s), NEW k \in 1..Len(s), j < k,
              s[j].type = "event", s[k].type = "event"
       PROVE  s[j].seq < s[k].seq
  <2>1. j - 1 < k - 1
    BY <1>1, <1>8, <1>13
  <2> QED
    BY <1>2, <1>11, <1>13, <2>1
<1>14. Len(s) > 1 /\ s[Len(s)].type = "end"
  BY <1>1, <1>5, <1>8
<1>15. s[1].truncated = e.truncated /\ s[1].rebuild = e.rebuild
  BY <1>4, <1>8
<1>16. \A k \in 1..Len(s) : s[k].type = "event" => s[k].seq \in e.body
  BY <1>2, <1>11
<1>17. \A k \in 1..Len(s) : s[k].type = "end" => k = Len(s)
  BY <1>4, <1>6, <1>8, <1>10
<1>18. Enveloped(s, h, e)
  BY <1>11, <1>12, <1>13, <1>14, <1>15, <1>16, <1>17 DEF Enveloped
<1> QED
  BY <1>9, <1>18

(* The answer to h: it ends what it starts, it is as recent as the ring,   *)
(* and unless it resets the browser it names every event past the cursor.  *)
ReplyTo(rs, h) ==
  /\ AnswerTo(rs, h) /\ rs # <<>>
  /\ rs[Len(rs)].type \in {"end", "snapshot"}
  /\ \A k \in 1..Len(rs) :
       /\ rs[k].stray = h.stray /\ (rs[k].type # "event" => rs[k].seq = ring.tail)
       /\ rs[k].type = "end" => k = Len(rs)
  /\ \A j, k \in 1..Len(rs) :
       j < k /\ rs[j].type = "event" /\ rs[k].type = "event" => rs[j].seq < rs[k].seq
  /\ h.cursor = NoCursor => rs[1].type = "snapshot"
  /\ h.cursor # NoCursor =>
       /\ rs[1].type = "start"
       /\ \A k \in 1..Len(rs) : k = 1 \/ rs[k].type \in {"event", "end"}
       /\ h.gen # gen => rs[1].rebuild
       /\ ~Resets(rs[1]) =>
            /\ h.cursor <= ring.tail
            /\ \A s \in 1..ring.tail : s > h.cursor =>
                 \E k \in 1..Len(rs) : rs[k].type = "event" /\ rs[k].seq = s

LEMMA HelloReplyContents ==
  ASSUME TypeOK, PoolInv, NEW h \in Hellos
  PROVE  ReplyTo(HelloReply(h), h)
<1>0. ring.tail \in 0..MaxSeq /\ ring.tail \in Nat /\ ring.dropped \in 0..ring.tail
  BY ReplayAssumption DEF TypeOK, PoolInv
<1>s. /\ Seqs(ring) \subseteq 1..ring.tail
      /\ \A s \in (ring.dropped + 1)..ring.tail : s \in Seqs(ring)
  BY DEF PoolInv
<1>a. AnswerTo(HelloReply(h), h)
  BY HelloReplyFrames
<1>c. h.cursor \in Int
  BY ReplayAssumption DEF Hellos, NoCursor
<1>1. CASE h.cursor # NoCursor
  <2> DEFINE e == ReplayFrom(ring, IF h.gen = gen THEN h.cursor ELSE 0, ~(h.gen = gen))
             rs == Replay(h, e)
  <2>1. HelloReply(h) = rs
    BY <1>1 DEF HelloReply
  <2>2. /\ e.to = ring.tail /\ e.body \subseteq 1..ring.tail
        /\ e.truncated \in BOOLEAN /\ e.rebuild \in BOOLEAN
        /\ h.gen # gen => e.rebuild
        /\ ~e.truncated /\ ~e.rebuild =>
             /\ h.cursor <= ring.tail
             /\ \A s \in 1..ring.tail : s > h.cursor => s \in e.body
    <3>1. CASE h.gen # gen \/ h.cursor > ring.tail
      <4>1. e = WholeBuffer(ring)
        BY <3>1 DEF ReplayFrom
      <4>2. /\ e.to = ring.tail /\ e.body = Seqs(ring) /\ e.rebuild = TRUE
            /\ e.truncated = (ring.dropped > 0)
        BY <4>1 DEF WholeBuffer, Envelope
      <4>3. (ring.dropped > 0) \in BOOLEAN
        BY SMT
      <4> HIDE DEF e
      <4> QED
        BY <1>s, <4>2, <4>3
    <3>2. CASE h.gen = gen /\ ~(h.cursor > ring.tail)
      <4>1. /\ e.to = ring.tail /\ e.body = {x \in Seqs(ring) : x > h.cursor}
            /\ e.truncated = Truncated(ring, h.cursor) /\ e.rebuild = FALSE
        BY <3>2 DEF ReplayFrom, Envelope
      <4> HIDE DEF e
      <4>2. Truncated(ring, h.cursor) \in BOOLEAN
        BY Zenon DEF Truncated
      <4>3. ~Truncated(ring, h.cursor) => h.cursor >= ring.dropped
        BY <1>0, <1>c DEF Truncated, HasGapAfter
      <4>4. ASSUME ~e.truncated, NEW s \in 1..ring.tail, s > h.cursor
            PROVE  s \in e.body
        <5>1. s \in (ring.dropped + 1)..ring.tail
          BY <1>0, <1>c, <4>1, <4>3, <4>4
        <5> QED
          BY <1>s, <4>1, <4>4, <5>1
      <4>5. e.body \subseteq 1..ring.tail
        BY <1>s, <4>1
      <4>6. h.cursor <= ring.tail
        BY <1>0, <1>c, <3>2
      <4> QED
        BY <3>2, <4>1, <4>2, <4>4, <4>5, <4>6
    <3> QED
      BY <3>1, <3>2
  <2> HIDE DEF e
  <2>3. Enveloped(rs, h, e)
    BY <2>2, ReplayContents
  <2>4. AnswerTo(rs, h) /\ rs # <<>> /\ rs[1].type = "start"
    BY <2>2, ReplayFrames
  <2> HIDE DEF rs
  <2>5. h.gen # gen => rs[1].rebuild
    BY <2>2, <2>3 DEF Enveloped
  <2>6. ~Resets(rs[1]) =>
          /\ h.cursor <= ring.tail
          /\ \A s \in 1..ring.tail : s > h.cursor =>
               \E k \in 1..Len(rs) : rs[k].type = "event" /\ rs[k].seq = s
    BY <2>2, <2>3, <2>4 DEF Enveloped, Resets
  <2> QED
    BY <1>1, <2>1, <2>3, <2>4, <2>5, <2>6 DEF ReplyTo, Enveloped
<1>2. CASE h.cursor = NoCursor
  <2> DEFINE snap == Answer(h, "snapshot", ring.tail)
  <2>1. /\ Answering(snap, h) /\ snap.type = "snapshot" /\ snap \in Frames
        /\ snap.stray = h.stray /\ snap.seq = ring.tail
    <3>1. snap.stray = h.stray
      BY DEF Answer, Frame
    <3> QED
      BY <1>0, <3>1, FrameIsFrame, AnswerFields DEF Answering
  <2>2. CASE turnFrom # 0 /\ CurrentTurn(ring, turnFrom, 0) # {}
    <3>1. PICK e \in CurrentTurn(ring, turnFrom, 0) :
            e = CHOOSE x \in CurrentTurn(ring, turnFrom, 0) : TRUE
      BY <2>2
    <3> DEFINE s == Replay(h, e)
    <3>2. HelloReply(h) = <<snap>> \o s
      BY <1>2, <2>2, <3>1 DEF HelloReply
    <3>3. e.to = ring.tail /\ e.body \subseteq 1..ring.tail
      <4> DEFINE from == Max({x.seq : x \in Markers(ring, turnFrom)})
      <4>1. e.to = ring.tail /\ e.body = {x \in Seqs(ring) : x >= from}
        BY <2>2 DEF CurrentTurn, FromMarker, Envelope, Unnamed
      <4> HIDE DEF from
      <4> QED
        BY <4>1, <1>s
    <3>4. Enveloped(s, h, e)
      BY <3>3, ReplayContents
    <3>5. s \in Seq(Frames)
      <4>1. /\ e.truncated \in BOOLEAN /\ e.rebuild \in BOOLEAN
        <5> DEFINE from == Max({x.seq : x \in Markers(ring, turnFrom)})
        <5>1. e.truncated = (ring.dropped >= from) /\ e.rebuild = FALSE
          BY <2>2 DEF CurrentTurn, FromMarker, Envelope, Unnamed
        <5>2. (ring.dropped >= from) \in BOOLEAN
          BY SMT
        <5> HIDE DEF from
        <5> QED
          BY <5>1, <5>2
      <4> QED
        BY <3>3, <4>1, ReplayFrames DEF AnswerTo
    <3> HIDE DEF s, snap
    <3>6. s \in Seq(Frames) /\ Len(s) \in Nat
      BY <3>5
    <3> DEFINE r == <<snap>> \o s
    <3>7. /\ r \in Seq(Frames) /\ Len(r) = Len(s) + 1 /\ r[1] = snap
          /\ \A i \in 1..Len(r) : i # 1 => i - 1 \in 1..Len(s) /\ r[i] = s[i - 1]
      BY <2>1, <3>6
    <3> HIDE DEF r
    <3>8. r # <<>> /\ r[1].type = "snapshot"
      BY <2>1, <3>6, <3>7
    <3>9. r[Len(r)].type = "end"
      <4>1. Len(s) > 1 /\ s[Len(s)].type = "end"
        BY <3>4 DEF Enveloped
      <4>2. Len(r) \in 1..Len(r) /\ Len(r) # 1 /\ Len(r) - 1 = Len(s)
        BY <3>6, <3>7, <4>1
      <4>3. r[Len(r)] = s[Len(s)]
        BY <3>7, <4>2
      <4> QED
        BY <4>1, <4>3
    <3>10. \A k \in 1..Len(r) :
             /\ r[k].stray = h.stray /\ (r[k].type # "event" => r[k].seq = ring.tail)
             /\ r[k].type = "end" => k = Len(r)
      <4>1. \A i \in 1..Len(s) :
              /\ s[i].stray = h.stray /\ (s[i].type # "event" => s[i].seq = ring.tail)
              /\ s[i].type = "end" => i = Len(s)
        BY <3>4 DEF Enveloped
      <4>2. \A k \in 1..Len(r) : r[k].type = "end" => k = Len(r)
        BY <2>1, <3>6, <3>7, <4>1
      <4> QED
        BY <2>1, <3>7, <4>1, <4>2
    <3>11. ASSUME NEW j \in 1..Len(r), NEW k \in 1..Len(r), j < k,
                  r[j].type = "event", r[k].type = "event"
           PROVE  r[j].seq < r[k].seq
      <4>1. j # 1 /\ k # 1 /\ j - 1 < k - 1
        BY <2>1, <3>6, <3>7, <3>11
      <4>2. /\ j - 1 \in 1..Len(s) /\ r[j] = s[j - 1]
            /\ k - 1 \in 1..Len(s) /\ r[k] = s[k - 1]
        BY <3>7, <4>1
      <4>3. s[j - 1].type = "event" /\ s[k - 1].type = "event"
        BY <3>11, <4>2
      <4>4. s[j - 1].seq < s[k - 1].seq
        BY <3>4, <4>1, <4>2, <4>3 DEF Enveloped
      <4> QED
        BY <4>2, <4>4
    <3> QED
      BY <1>2, <1>a, <3>2, <3>8, <3>9, <3>10, <3>11 DEF ReplyTo, r
  <2>3. CASE ~(turnFrom # 0 /\ CurrentTurn(ring, turnFrom, 0) # {})
    <3>1. HelloReply(h) = <<snap>>
      <4>1. HelloReply(h) = <<snap>> \o <<>>
        BY <1>2, <2>3 DEF HelloReply
      <4> HIDE DEF snap
      <4>2. <<snap>> \o <<>> = <<snap>>
        BY <2>1
      <4> QED
        BY <4>1, <4>2
    <3> HIDE DEF snap
    <3>2. /\ <<snap>> \in Seq(Frames) /\ Len(<<snap>>) = 1 /\ <<snap>>[1] = snap
          /\ <<snap>> # <<>>
      BY <2>1
    <3> QED
      BY <1>2, <1>a, <2>1, <3>1, <3>2 DEF ReplyTo
  <2> QED
    BY <2>2, <2>3
<1> QED
  BY <1>1, <1>2

-----------------------------------------------------------------------------
(* How the steps change a pipe.                                            *)
PipeShape ==
  \A c \in Clients :
    /\ Pipe(c) \in Seq(Frames) /\ cq[c] \in Seq(Frames) /\ wq \in Seq(Frames)
    /\ Len(cq[c]) \in Nat /\ Len(wq) \in Nat
    /\ Len(Pipe(c)) \in Nat /\ Len(Pipe(c)) = Len(cq[c]) + Len(wq)
    /\ \A i \in 1..Len(Pipe(c)) : Pipe(c)[i] \in Frames
    /\ \A i \in 1..Len(cq[c]) : i \in 1..Len(Pipe(c)) /\ Pipe(c)[i] = cq[c][i]
    /\ \A i \in 1..Len(wq) :
         Len(cq[c]) + i \in 1..Len(Pipe(c)) /\ Pipe(c)[Len(cq[c]) + i] = wq[i]

LEMMA PipeShaped == TypeOK => PipeShape
<1> SUFFICES ASSUME TypeOK, NEW c \in Clients
             PROVE  /\ Pipe(c) \in Seq(Frames) /\ cq[c] \in Seq(Frames) /\ wq \in Seq(Frames)
                    /\ Len(cq[c]) \in Nat /\ Len(wq) \in Nat
                    /\ Len(Pipe(c)) \in Nat /\ Len(Pipe(c)) = Len(cq[c]) + Len(wq)
                    /\ \A i \in 1..Len(Pipe(c)) : Pipe(c)[i] \in Frames
                    /\ \A i \in 1..Len(cq[c]) :
                         i \in 1..Len(Pipe(c)) /\ Pipe(c)[i] = cq[c][i]
                    /\ \A i \in 1..Len(wq) :
                         /\ Len(cq[c]) + i \in 1..Len(Pipe(c))
                         /\ Pipe(c)[Len(cq[c]) + i] = wq[i]
  BY DEF PipeShape
<1>1. cq[c] \in Seq(Frames) /\ wq \in Seq(Frames)
  BY DEF TypeOK
<1>2. PICK q, w, p : q = cq[c] /\ w = wq /\ p = Pipe(c)
  OBVIOUS
<1>3. q \in Seq(Frames) /\ w \in Seq(Frames) /\ p = q \o w
  BY <1>1, <1>2 DEF Pipe
<1>4. /\ p \in Seq(Frames) /\ Len(p) = Len(q) + Len(w)
      /\ Len(q) \in Nat /\ Len(w) \in Nat /\ Len(p) \in Nat
  BY <1>3
<1>5. \A i \in 1..Len(p) : p[i] \in Frames
  BY <1>4
<1>6. \A i \in 1..Len(q) : i \in 1..Len(p) /\ p[i] = q[i]
  BY <1>3, <1>4
<1>7. \A i \in 1..Len(w) : Len(q) + i \in 1..Len(p) /\ p[Len(q) + i] = w[i]
  BY <1>3, <1>4
<1> QED
  BY <1>2, <1>3, <1>4, <1>5, <1>6, <1>7

LEMMA PipeShapedNext == TypeOK' => PipeShape'
BY PipeShaped, PTL

(* Every frame on its way to c is known, and came to c or stays behind.    *)
LEMMA PipeIndex ==
  ASSUME TypeOK, NEW c \in Clients, NEW i \in 1..Len(Pipe(c))
  PROVE  \/ i \in 1..Len(cq[c]) /\ Pipe(c)[i] = cq[c][i]
         \/ i > Len(cq[c]) /\ i - Len(cq[c]) \in 1..Len(wq)
            /\ Pipe(c)[i] = wq[i - Len(cq[c])]
<1>1. /\ Len(cq[c]) \in Nat /\ Len(wq) \in Nat /\ Len(Pipe(c)) = Len(cq[c]) + Len(wq)
      /\ \A j \in 1..Len(cq[c]) : Pipe(c)[j] = cq[c][j]
      /\ \A j \in 1..Len(wq) : Pipe(c)[Len(cq[c]) + j] = wq[j]
  BY PipeShaped DEF PipeShape
<1>2. CASE i <= Len(cq[c])
  BY <1>1, <1>2
<1>3. CASE i > Len(cq[c])
  <2>1. i - Len(cq[c]) \in 1..Len(wq) /\ Len(cq[c]) + (i - Len(cq[c])) = i
    BY <1>1, <1>3
  <2> QED
    BY <1>1, <1>3, <2>1
<1> QED
  BY <1>1, <1>2, <1>3

LEMMA PipeKnown ==
  ASSUME ReplayInv, NEW c \in Clients
  PROVE  /\ \A i \in 1..Len(Pipe(c)) : Pipe(c)[i] \in Frames /\ Known(Pipe(c)[i])
         /\ Sorted(Pipe(c))
         /\ \A i \in 1..Len(Pipe(c)) : Coming(Pipe(c)[i], c)
<1>1. TypeOK /\ LinkInv /\ ClientInv(c) /\ PipeShape
  BY PipeShaped DEF ReplayInv
<1>2. \A i \in 1..Len(Pipe(c)) : Pipe(c)[i] \in Frames
  BY <1>1 DEF PipeShape
<1>3. ASSUME NEW i \in 1..Len(Pipe(c))
      PROVE  Known(Pipe(c)[i]) /\ Coming(Pipe(c)[i], c)
  <2>1. \/ i \in 1..Len(cq[c]) /\ Pipe(c)[i] = cq[c][i]
        \/ i - Len(cq[c]) \in 1..Len(wq) /\ Pipe(c)[i] = wq[i - Len(cq[c])]
    BY <1>1, PipeIndex
  <2> QED
    BY <1>1, <2>1 DEF LinkInv, ClientInv
<1>4. Sorted(Pipe(c))
  <2>1. /\ cq[c] \in Seq(Frames) /\ wq \in Seq(Frames)
        /\ Sorted(cq[c]) /\ Sorted(wq)
        /\ \A i \in 1..Len(cq[c]), j \in 1..Len(wq) : Before(cq[c][i], wq[j])
    BY <1>1 DEF PipeShape, LinkInv, ClientInv
  <2> QED
    BY <2>1, SortedAppend DEF Pipe
<1> QED
  BY <1>2, <1>3, <1>4

LEMMA PipeTaken ==
  ASSUME TypeOK, TypeOK', NEW c \in Clients, NEW type, Take(c, type)
  PROVE  /\ Removed(Pipe(c), 1, Pipe(c)')
         /\ Pipe(c)[1] = Head(cq[c]) /\ 1 \in 1..Len(Pipe(c))
         /\ 1 \in 1..Len(cq[c]) /\ cq[c][1] = Head(cq[c])
         /\ \A i \in 1..Len(cq'[c]) : i + 1 \in 1..Len(cq[c]) /\ cq'[c][i] = cq[c][i + 1]
<1>1. PipeShape /\ PipeShape'
  BY PipeShaped, PipeShapedNext
<1>2. wq' = wq /\ cq[c] # <<>> /\ cq'[c] = Tail(cq[c])
  BY DEF Take, TypeOK
<1>3. PICK q, r, w, p, n : q = cq[c] /\ r = cq'[c] /\ w = wq /\ p = Pipe(c) /\ n = Pipe(c)'
  OBVIOUS
<1>4. /\ q \in Seq(Frames) /\ q # <<>> /\ r = Tail(q)
      /\ Len(q) \in Nat /\ Len(w) \in Nat /\ Len(r) \in Nat
      /\ Len(p) = Len(q) + Len(w) /\ Len(n) = Len(r) + Len(w)
      /\ \A i \in 1..Len(q) : p[i] = q[i]
      /\ \A i \in 1..Len(r) : n[i] = r[i]
      /\ \A i \in 1..Len(w) : p[Len(q) + i] = w[i] /\ n[Len(r) + i] = w[i]
  BY <1>1, <1>2, <1>3 DEF PipeShape
<1>5. /\ Len(r) = Len(q) - 1 /\ Len(q) >= 1 /\ Head(q) = q[1]
      /\ \A i \in 1..Len(r) : i + 1 \in 1..Len(q) /\ r[i] = q[i + 1]
  BY <1>4
<1>6. ASSUME NEW i \in 1..Len(n) PROVE n[i] = p[i + 1]
  <2>1. CASE i <= Len(r)
    BY <1>4, <1>5, <2>1
  <2>2. CASE i > Len(r)
    <3>1. PICK j \in 1..Len(w) : i = Len(r) + j /\ i + 1 = Len(q) + j
      <4>1. /\ i - Len(r) \in 1..Len(w) /\ i = Len(r) + (i - Len(r))
            /\ i + 1 = Len(q) + (i - Len(r))
        BY <1>4, <1>5, <2>2
      <4> QED
        BY <4>1, Zenon
    <3> QED
      BY <1>4, <3>1
  <2> QED
    BY <1>4, <2>1, <2>2
<1>7. Removed(p, 1, n)
  <2>1. 1 \in 1..Len(p) /\ Len(n) = Len(p) - 1
    BY <1>4, <1>5
  <2>2. \A i \in 1..Len(n) : ~(i < 1)
    BY <1>4
  <2> QED
    BY <1>6, <2>1, <2>2 DEF Removed
<1>8. p[1] = Head(q) /\ 1 \in 1..Len(p) /\ 1 \in 1..Len(q)
  BY <1>4, <1>5
<1> QED
  BY <1>3, <1>5, <1>7, <1>8

LEMMA PipeSent ==
  ASSUME TypeOK, TypeOK', NEW c \in Clients, NEW fs \in Seq(Frames),
         cq'[c] = cq[c], wq' = wq \o fs
  PROVE  Grown(Pipe(c), fs, Pipe(c)') /\ Len(fs) \in Nat
<1>1. PipeShape /\ PipeShape'
  BY PipeShaped, PipeShapedNext
<1>3. PICK q, w, x, p, n : q = cq[c] /\ w = wq /\ x = wq' /\ p = Pipe(c) /\ n = Pipe(c)'
  OBVIOUS
<1>4. /\ q \in Seq(Frames) /\ w \in Seq(Frames) /\ x = w \o fs
      /\ Len(q) \in Nat /\ Len(w) \in Nat
      /\ Len(p) = Len(q) + Len(w) /\ Len(n) = Len(q) + Len(x)
      /\ \A i \in 1..Len(q) : p[i] = q[i] /\ n[i] = q[i]
      /\ \A i \in 1..Len(w) : p[Len(q) + i] = w[i]
      /\ \A i \in 1..Len(x) : n[Len(q) + i] = x[i]
  <2>1. /\ q \in Seq(Frames) /\ w \in Seq(Frames) /\ x = w \o fs
        /\ Len(q) \in Nat /\ Len(w) \in Nat
        /\ Len(p) = Len(q) + Len(w)
        /\ \A i \in 1..Len(q) : p[i] = q[i]
        /\ \A i \in 1..Len(w) : p[Len(q) + i] = w[i]
    BY <1>1, <1>3 DEF PipeShape
  <2>2. /\ Len(n) = Len(q) + Len(x)
        /\ \A i \in 1..Len(q) : n[i] = q[i]
        /\ \A i \in 1..Len(x) : n[Len(q) + i] = x[i]
    <3>1. /\ Len(Pipe(c)') = Len(cq'[c]) + Len(wq')
          /\ \A i \in 1..Len(cq'[c]) : Pipe(c)'[i] = cq'[c][i]
          /\ \A i \in 1..Len(wq') : Pipe(c)'[Len(cq'[c]) + i] = wq'[i]
      BY <1>1 DEF PipeShape
    <3>2. cq'[c] = q /\ wq' = x /\ Pipe(c)' = n
      BY <1>3
    <3> QED
      BY <3>1, <3>2
  <2> QED
    BY <2>1, <2>2
<1>5. /\ Len(x) = Len(w) + Len(fs) /\ Len(fs) \in Nat
      /\ \A i \in 1..Len(w) : i \in 1..Len(x) /\ x[i] = w[i]
      /\ \A i \in 1..Len(fs) : Len(w) + i \in 1..Len(x) /\ x[Len(w) + i] = fs[i]
  BY <1>4
<1>6. ASSUME NEW i \in 1..Len(p) PROVE n[i] = p[i]
  <2>1. CASE i <= Len(q)
    BY <1>4, <2>1
  <2>2. CASE i > Len(q)
    <3>1. PICK j \in 1..Len(w) : i = Len(q) + j
      <4>1. i - Len(q) \in 1..Len(w)
        BY <1>4, <2>2
      <4> QED
        BY <1>4, <4>1
    <3>2. n[Len(q) + j] = x[j] /\ x[j] = w[j]
      BY <1>4, <1>5
    <3> QED
      BY <1>4, <3>1, <3>2
  <2> QED
    BY <1>4, <2>1, <2>2
<1>7. ASSUME NEW i \in 1..Len(fs) PROVE n[Len(p) + i] = fs[i]
  <2>1. Len(w) + i \in 1..Len(x) /\ Len(p) + i = Len(q) + (Len(w) + i)
    BY <1>4, <1>5
  <2> QED
    BY <1>4, <1>5, <2>1
<1>8. Len(n) = Len(p) + Len(fs)
  BY <1>4, <1>5
<1> QED
  BY <1>3, <1>5, <1>6, <1>7, <1>8 DEF Grown

(* The relay moves a frame from the link to c's queue, or passes it by.    *)
LEMMA PipeForwarded ==
  ASSUME TypeOK, TypeOK', NEW c \in Clients, wq # <<>>, wq' = Tail(wq)
  PROVE  /\ cq'[c] = Append(cq[c], Head(wq)) => Grown(Pipe(c), <<>>, Pipe(c)')
         /\ cq'[c] = cq[c] =>
              /\ Removed(Pipe(c), Len(cq[c]) + 1, Pipe(c)')
              /\ Pipe(c)[Len(cq[c]) + 1] = Head(wq)
<1>1. PipeShape /\ PipeShape'
  BY PipeShaped, PipeShapedNext
<1>3. PICK q, r, w, x, p, n : /\ q = cq[c] /\ r = cq'[c] /\ w = wq /\ x = wq'
                              /\ p = Pipe(c) /\ n = Pipe(c)'
  OBVIOUS
<1>4. /\ q \in Seq(Frames) /\ w \in Seq(Frames) /\ w # <<>> /\ x = Tail(w)
      /\ Len(q) \in Nat /\ Len(w) \in Nat /\ Len(r) \in Nat /\ Len(x) \in Nat
      /\ Len(p) = Len(q) + Len(w) /\ Len(n) = Len(r) + Len(x)
      /\ \A i \in 1..Len(q) : p[i] = q[i]
      /\ \A i \in 1..Len(r) : n[i] = r[i]
      /\ \A i \in 1..Len(w) : p[Len(q) + i] = w[i]
      /\ \A i \in 1..Len(x) : n[Len(r) + i] = x[i]
  BY <1>1, <1>3 DEF PipeShape
<1>5. /\ Len(x) = Len(w) - 1 /\ Len(w) >= 1 /\ Head(w) = w[1] /\ Head(w) \in Frames
      /\ \A i \in 1..Len(x) : i + 1 \in 1..Len(w) /\ x[i] = w[i + 1]
  BY <1>4
<1>6. ASSUME r = Append(q, Head(w)) PROVE Grown(p, <<>>, n)
  <2>1. /\ Len(r) = Len(q) + 1 /\ r[Len(q) + 1] = w[1]
        /\ \A i \in 1..Len(q) : r[i] = q[i]
    <3>1. PICK f \in Frames : f = Head(w)
      BY <1>5
    <3> QED
      BY <1>4, <1>5, <1>6, <3>1
  <2>2. ASSUME NEW i \in 1..Len(p) PROVE n[i] = p[i]
    <3>1. CASE i <= Len(q)
      BY <1>4, <2>1, <3>1
    <3>2. CASE i = Len(q) + 1
      <4>1. 1 \in 1..Len(w) /\ i \in 1..Len(r)
        BY <1>4, <1>5, <2>1, <3>2
      <4> QED
        BY <1>4, <2>1, <3>2, <4>1
    <3>3. CASE i > Len(q) + 1
      <4>1. PICK j \in 1..Len(x) : i = Len(r) + j /\ i = Len(q) + (j + 1)
        <5>1. /\ i - Len(r) \in 1..Len(x) /\ i = Len(r) + (i - Len(r))
              /\ i = Len(q) + ((i - Len(r)) + 1)
          BY <1>4, <1>5, <2>1, <3>3
        <5> QED
          BY <5>1, Zenon
      <4>2. j + 1 \in 1..Len(w) /\ x[j] = w[j + 1]
        BY <1>5
      <4>3. n[Len(r) + j] = x[j] /\ p[Len(q) + (j + 1)] = w[j + 1]
        BY <1>4, <4>2
      <4> QED
        BY <4>1, <4>2, <4>3
    <3>4. i \in Nat /\ Len(q) \in Nat
      BY <1>4
    <3> QED
      BY <3>1, <3>2, <3>3, <3>4
  <2>3. Len(n) = Len(p)
    BY <1>4, <1>5, <2>1
  <2>4. Len(n) = Len(p) + Len(<<>>) /\ \A i \in 1..Len(<<>>) : FALSE
    <3>1. Len(p) \in Nat /\ Len(<<>>) = 0
      BY <1>4
    <3> QED
      BY <2>3, <3>1
  <2> QED
    BY <2>2, <2>4 DEF Grown
<1>7. ASSUME r = q PROVE Removed(p, Len(q) + 1, n) /\ p[Len(q) + 1] = Head(w)
  <2>1. ASSUME NEW i \in 1..Len(n)
        PROVE  n[i] = p[IF i < Len(q) + 1 THEN i ELSE i + 1]
    <3>1. CASE i < Len(q) + 1
      <4>1. i \in 1..Len(q)
        BY <1>4, <3>1
      <4> QED
        BY <1>4, <1>7, <3>1, <4>1
    <3>2. CASE ~(i < Len(q) + 1)
      <4>1. PICK j \in 1..Len(x) : i = Len(r) + j /\ i + 1 = Len(q) + (j + 1)
        <5>1. /\ i - Len(r) \in 1..Len(x) /\ i = Len(r) + (i - Len(r))
              /\ i + 1 = Len(q) + ((i - Len(r)) + 1)
          BY <1>4, <1>5, <1>7, <3>2
        <5> QED
          BY <5>1, Zenon
      <4>2. j + 1 \in 1..Len(w) /\ x[j] = w[j + 1]
        BY <1>5
      <4>3. n[Len(r) + j] = x[j] /\ p[Len(q) + (j + 1)] = w[j + 1]
        BY <1>4, <4>2
      <4> QED
        BY <3>2, <4>1, <4>2, <4>3
    <3> QED
      BY <3>1, <3>2
  <2>2. Len(q) + 1 \in 1..Len(p) /\ Len(n) = Len(p) - 1
    BY <1>4, <1>5, <1>7
  <2>3. p[Len(q) + 1] = Head(w)
    <3>1. 1 \in 1..Len(w)
      BY <1>4, <1>5
    <3> QED
      BY <1>4, <1>5, <3>1
  <2> QED
    BY <2>1, <2>2, <2>3 DEF Removed
<1> QED
  BY <1>3, <1>6, <1>7

-----------------------------------------------------------------------------
(* What the frames of a pipe are to c depends on the generation, the       *)
(* incarnation and c's connection alone.                                   *)
Openers == {f \in Frames : f.type \in {"start", "snapshot"}}

LEMMA SetsKept ==
  ASSUME NEW c, life' = life, gen' = gen, route'[c] = route[c]
  PROVE  /\ Mine(c)' = Mine(c) /\ Ours(c)' = Ours(c) /\ Strays(c)' = Strays(c)
         /\ Renews(c)' = Renews(c) /\ Closes(c)' = Closes(c)
         /\ Rebuilding(c)' = Rebuilding(c)
         /\ \A s : /\ Live(s)' = Live(s) /\ Below(s)' = Below(s)
                   /\ Gives(c, s)' = Gives(c, s) /\ Saving(c, s)' = Saving(c, s)
         /\ \A g : Continues(c, g)' = Continues(c, g) /\ Snapshots(c, g)' = Snapshots(c, g)
<1>1. Mine(c)' = Mine(c) /\ Ours(c)' = Ours(c)
  BY DEF Mine, Ours
<1>2. Strays(c)' = Strays(c)
  BY <1>1 DEF Strays
<1>3. /\ Renews(c)' = Renews(c) /\ Closes(c)' = Closes(c)
      /\ Rebuilding(c)' = Rebuilding(c)
  BY <1>1 DEF Renews, Closes, Rebuilding
<1>4. \A s : Live(s)' = Live(s) /\ Below(s)' = Below(s) /\ Gives(c, s)' = Gives(c, s)
  BY <1>1 DEF Live, Below, Gives
<1>5. \A s : Saving(c, s)' = Saving(c, s)
  BY <1>2, <1>4 DEF Saving
<1>6. \A g : Continues(c, g)' = Continues(c, g) /\ Snapshots(c, g)' = Snapshots(c, g)
  BY <1>1 DEF Continues, Snapshots
<1> QED
  BY <1>1, <1>2, <1>3, <1>4, <1>5, <1>6

LEMMA SetFacts ==
  ASSUME NEW c \in Clients
  PROVE  /\ Calls \subseteq Mine(c) /\ Ours(c) \subseteq Mine(c)
         /\ Renews(c) \subseteq Mine(c) /\ Closes(c) \subseteq Mine(c)
         /\ Rebuilding(c) \subseteq Openers
         /\ \A s : /\ Live(s) \subseteq Mine(c) /\ Below(s) \subseteq Openers
                   /\ Live(s) \subseteq Gives(c, s) /\ Saving(c, s) \subseteq Mine(c)
         /\ \A g : Continues(c, g) \subseteq Openers /\ Snapshots(c, g) \subseteq Mine(c)
<1>1. Calls \subseteq Mine(c) /\ Ours(c) \subseteq Mine(c)
  BY DEF Calls, Mine, Ours
<1>2. \A s : Live(s) \subseteq Mine(c) /\ Live(s) \subseteq Gives(c, s)
  BY DEF Live, Mine, Gives
<1>3. /\ Renews(c) \subseteq Mine(c) /\ Closes(c) \subseteq Mine(c)
  BY DEF Renews, Closes
<1>4. Mine(c) \subseteq Frames /\ Ours(c) \subseteq Frames
  BY DEF Mine, Ours
<1>5. /\ Rebuilding(c) \subseteq Openers /\ \A s : Below(s) \subseteq Openers
      /\ \A g : Continues(c, g) \subseteq Openers
  BY <1>4 DEF Rebuilding, Openers, Below, Continues
<1>6. \A g : Snapshots(c, g) \subseteq Mine(c)
  BY <1>1 DEF Snapshots
<1>7. \A s : Saving(c, s) \subseteq Mine(c)
  BY <1>1 DEF Saving, Gives, Strays
<1> QED
  BY <1>1, <1>2, <1>3, <1>5, <1>6, <1>7

(* Q keeps what P promised with frames of M.                               *)
Keeps(P, Q, M) ==
  /\ \A Y \in SUBSET M : Has(P, Y) => Has(Q, Y)
  /\ \A X \in SUBSET Openers, Y \in SUBSET M :
       /\ Behind(P, X, Y) => Behind(Q, X, Y)
       /\ Ahead(P, X, Y) => Ahead(Q, X, Y)

(* A step that touches c only by what it adds behind what is on its way,   *)
(* or by passing c by.                                                     *)
LEMMA Onwards ==
  ASSUME TypeOK, TypeOK', NEW c \in Clients, CatchingUp(c),
         UNCHANGED <<gen, life, resident, up>>,
         route'[c] = route[c], cursor'[c] = cursor[c], cgen'[c] = cgen[c],
         rebuilding'[c] = rebuilding[c], orphan'[c] = orphan[c], seen'[c] = seen[c],
         Keeps(Pipe(c), Pipe(c)', Mine(c)), ring.tail <= ring'.tail,
         up /\ resident =>
           \A s \in 1..ring'.tail : s > ring.tail =>
             Has(Pipe(c)', Live(s)) /\ Behind(Pipe(c)', Openers, Live(s)),
         Len(inbox) <= Len(inbox'),
         \A i \in 1..Len(inbox) : inbox'[i] = inbox[i],
         \A i \in 1..Len(inbox') : i > Len(inbox) => inbox'[i].client # c,
         Addressed(c)'
  PROVE  CatchingUp(c)'
<1>0. /\ ring.tail \in Nat /\ ring'.tail \in Nat /\ Len(inbox) \in Nat /\ Len(inbox') \in Nat
      /\ \A s \in 1..ring'.tail : s \in 1..ring.tail \/ s > ring.tail
  <2>1. ring.tail \in Nat /\ ring'.tail \in Nat
    BY Numbers, NumbersNext DEF Numeric
  <2>2. inbox \in Seq(Hellos) /\ inbox' \in Seq(Hellos)
    BY DEF TypeOK
  <2> QED
    BY <2>1, <2>2
<1>1. PICK P, Q : P = Pipe(c) /\ Q = Pipe(c)'
  OBVIOUS
<1>2. /\ Mine(c)' = Mine(c) /\ Ours(c)' = Ours(c) /\ Strays(c)' = Strays(c)
      /\ Renews(c)' = Renews(c) /\ Closes(c)' = Closes(c)
      /\ Rebuilding(c)' = Rebuilding(c)
      /\ \A s : /\ Live(s)' = Live(s) /\ Below(s)' = Below(s)
                /\ Gives(c, s)' = Gives(c, s) /\ Saving(c, s)' = Saving(c, s)
      /\ \A g : Continues(c, g)' = Continues(c, g) /\ Snapshots(c, g)' = Snapshots(c, g)
  BY SetsKept
<1>3. \A i \in 1..Len(inbox') : Calling(c, i)' <=> i \in 1..Len(inbox) /\ Calling(c, i)
  BY <1>0 DEF Calling
<1>4. Called(c)' <=> Called(c)
  BY <1>0, <1>3 DEF Called
<1>5. Served(c)' <=> Served(c)
  BY DEF Served
<1>6. \A s \in 1..ring'.tail : up /\ resident /\ s > ring.tail => Has(Q, Saving(c, s))
  <2> SUFFICES ASSUME NEW s \in 1..ring'.tail, up, resident, s > ring.tail
               PROVE  Has(Q, Saving(c, s))
    OBVIOUS
  <2>1. Has(Q, Live(s)) /\ Live(s) \subseteq Saving(c, s)
    BY <1>1, SetFacts DEF Saving
  <2> QED
    BY <2>1 DEF Has
<1>7. \A s : Has(P, Saving(c, s)) => Has(Q, Saving(c, s))
  BY <1>1, SetFacts DEF Keeps
<1>8. \A s \in 1..ring'.tail :
        /\ Safe(c, s) => Safe(c, s)'
        /\ up /\ resident /\ s > ring.tail => Safe(c, s)'
  BY <1>1, <1>2, <1>6, <1>7 DEF Safe
<1>9. Followed(c)'
  <2> SUFFICES ASSUME up, resident, NEW s \in 1..ring'.tail
               PROVE  Behind(Q, Below(s), Live(s) \cup Calls)
    BY <1>1, <1>2 DEF Followed
  <2>1. CASE s \in 1..ring.tail
    <3>1. Behind(P, Below(s), Live(s) \cup Calls)
      BY <1>1, <2>1 DEF CatchingUp, Followed
    <3>2. Below(s) \in SUBSET Openers /\ Live(s) \cup Calls \in SUBSET Mine(c)
      BY SetFacts
    <3> QED
      BY <1>1, <3>1, <3>2 DEF Keeps
  <2>2. CASE s > ring.tail
    <3>1. Behind(Q, Openers, Live(s)) /\ Below(s) \subseteq Openers
      BY <1>1, <2>2, SetFacts
    <3> QED
      BY <3>1, Zenon DEF Behind
  <2> QED
    BY <1>0, <2>1, <2>2
<1>10. Reached(c)'
  <2> SUFFICES ASSUME Served(c)', ~Called(c)', NEW s \in 1..ring'.tail
               PROVE  Safe(c, s)'
    BY DEF Reached
  <2>1. Served(c) /\ ~Called(c)
    BY <1>4, <1>5
  <2> QED
    BY <1>0, <1>8, <2>1 DEF CatchingUp, Reached, Served
<1>11. Asked(c)'
  <2> SUFFICES ASSUME Served(c)', NEW i \in 1..Len(inbox'), NEW s \in 1..ring'.tail,
                      Calling(c, i)', s <= inbox'[i].cursor
               PROVE  \/ Safe(c, s)'
                      \/ \E j \in 1..Len(inbox') : i < j /\ Calling(c, j)'
    BY DEF Asked
  <2>1. /\ Served(c) /\ i \in 1..Len(inbox) /\ Calling(c, i)
        /\ s <= inbox[i].cursor
    BY <1>3, <1>5
  <2>2. CASE s \in 1..ring.tail
    <3>1. Safe(c, s) \/ \E j \in 1..Len(inbox) : i < j /\ Calling(c, j)
      BY <2>1, <2>2 DEF CatchingUp, Asked
    <3>2. \A j \in 1..Len(inbox) : Calling(c, j) => j \in 1..Len(inbox') /\ Calling(c, j)'
      BY <1>0, <1>3
    <3> QED
      BY <1>8, <3>1, <3>2
  <2> QED
    BY <1>0, <1>8, <2>1, <2>2 DEF Served
<1>12. Informed(c)'
  <2>1. Has(P, Renews(c) \cup Calls) => Has(Q, Renews(c) \cup Calls)
    BY <1>1, SetFacts DEF Keeps
  <2> QED
    BY <1>1, <1>2, <1>4, <1>5, <2>1 DEF CatchingUp, Informed
<1>13. RebuildEnds(c)'
  <2>1. Closes(c) \cup Calls \in SUBSET Mine(c) /\ Rebuilding(c) \in SUBSET Openers
    BY SetFacts
  <2>2. /\ Has(P, Closes(c) \cup Calls) => Has(Q, Closes(c) \cup Calls)
        /\ Behind(P, Rebuilding(c), Closes(c) \cup Calls)
             => Behind(Q, Rebuilding(c), Closes(c) \cup Calls)
    BY <1>1, <2>1 DEF Keeps
  <2> QED
    BY <1>1, <1>2, <1>4, <1>5, <2>2 DEF CatchingUp, RebuildEnds
<1>14. Continued(c)'
  <2>1. \A g : Ahead(P, Continues(c, g), Snapshots(c, g))
                 => Ahead(Q, Continues(c, g), Snapshots(c, g))
    BY <1>1, SetFacts DEF Keeps
  <2> QED
    BY <1>1, <1>2, <2>1 DEF CatchingUp, Continued
<1>15. Resumed(c)'
  BY <1>0, <1>3 DEF CatchingUp, Resumed
<1> QED
  BY <1>9, <1>10, <1>11, <1>12, <1>13, <1>14, <1>15 DEF CatchingUp

(* Nothing changes for c but that another browser says hello.              *)
LEMMA KeepsGrown ==
  ASSUME NEW P, NEW Q, NEW fs, NEW M, Grown(P, fs, Q), Len(P) \in Nat, Len(fs) \in Nat,
         \A i \in 1..Len(fs) : fs[i] \notin Openers
  PROVE  Keeps(P, Q, M)
<1>1. \A X \in SUBSET Openers : \A Y : Behind(fs, X, Y) /\ Ahead(fs, X, Y)
  BY Zenon DEF Behind, Ahead
<1> QED
  BY <1>1, GrownFacts DEF Keeps

LEMMA KeepsRemoved ==
  ASSUME NEW P, NEW Q, NEW k, NEW M, Removed(P, k, Q), Len(P) \in Nat, P[k] \notin M
  PROVE  Keeps(P, Q, M)
<1>1. \A Y \in SUBSET M : P[k] \notin Y
  OBVIOUS
<1> QED
  BY <1>1, RemovedFacts DEF Keeps

-----------------------------------------------------------------------------
(* The wrapper's steps.                                                    *)
LEMMA CatchingEmit ==
  ASSUME ReplayInv, ReplayInv', NEW kind, NEW from, EmitEvent(kind, from),
         turnFrom' <= ring.tail + 1, NEW c \in Clients, CatchingUp(c)
  PROVE  CatchingUp(c)'
<1>1. TypeOK /\ TypeOK' /\ Numeric /\ PipeShape
  BY Numbers, PipeShaped DEF ReplayInv
<1>2. /\ UNCHANGED <<gen, life, resident, up, inbox>> /\ resident
      /\ UNCHANGED <<route, cq, cursor, cgen, rebuilding, seen, orphan>>
  BY DEF EmitEvent, relay, browser
<1>3. ring'.tail = ring.tail + 1 /\ ring'.tail \in 0..MaxSeq
  BY EmitFacts2
<1>4. PICK f \in Frames : f = Frame("event", ring.tail + 1)
  BY <1>1, <1>3, FrameIsFrame
<1>5. /\ f.type = "event" /\ f.to = Nobody /\ f.seq = ring.tail + 1 /\ f.life = life
  BY <1>4, FrameFields
<1>6. PICK fs : fs = IF up THEN <<f>> ELSE <<>>
  OBVIOUS
<1>7. wq \in Seq(Frames) /\ fs \in Seq(Frames) /\ wq' = wq \o fs
  <2>1. wq \in Seq(Frames)
    BY <1>1 DEF TypeOK
  <2>2. wq' = IF up THEN wq \o <<f>> ELSE wq
    BY <1>4 DEF EmitEvent, Send
  <2>3. wq \o <<>> = wq
    BY <2>1
  <2> QED
    BY <1>6, <2>1, <2>2, <2>3
<1>8. /\ Len(fs) \in Nat /\ \A k \in 1..Len(fs) : fs[k] = f
      /\ up => 1 \in 1..Len(fs)
  BY <1>6
<1>9. PICK P, Q : P = Pipe(c) /\ Q = Pipe(c)'
  OBVIOUS
<1>10. Grown(P, fs, Q) /\ Len(P) \in Nat
  BY <1>1, <1>2, <1>7, <1>9, PipeSent DEF PipeShape
<1>11. Keeps(P, Q, Mine(c))
  BY <1>5, <1>8, <1>10, KeepsGrown DEF Openers
<1>12. ASSUME up PROVE Has(Q, Live(ring.tail + 1)) /\ Behind(Q, Openers, Live(ring.tail + 1))
  <2>1. f \in Live(ring.tail + 1)
    BY <1>5 DEF Live
  <2>2. Has(fs, Live(ring.tail + 1))
    BY <1>8, <1>12, <2>1 DEF Has
  <2>3. Behind(fs, Openers, Live(ring.tail + 1))
    BY <1>5, <1>8 DEF Behind, Openers
  <2> QED
    BY <1>8, <1>10, <2>2, <2>3, GrownFacts
<1>13. \A s \in 1..ring'.tail : s > ring.tail => s = ring.tail + 1
  BY <1>1, <1>3 DEF Numeric
<1>14. Addressed(c)'
  <2>1. Mine(c)' = Mine(c)
    BY <1>2 DEF Mine
  <2> QED
    BY <1>2, <2>1 DEF CatchingUp, Addressed
<1>15. /\ Len(inbox) <= Len(inbox')
       /\ \A i \in 1..Len(inbox) : inbox'[i] = inbox[i]
       /\ \A i \in 1..Len(inbox') : ~(i > Len(inbox))
  <2>1. Len(inbox) \in Nat
    BY <1>1 DEF TypeOK
  <2> QED
    BY <1>2, <2>1
<1>16. ring.tail <= ring'.tail
  BY <1>1, <1>3 DEF Numeric
<1> QED
  BY <1>1, <1>2, <1>9, <1>11, <1>12, <1>13, <1>14, <1>15, <1>16, Onwards

(* What happens to other browsers does not touch c.                        *)
LEMMA CatchingStill ==
  ASSUME TypeOK, TypeOK', NEW c \in Clients, CatchingUp(c),
         UNCHANGED <<gen, life, resident, up, ring, wq>>, cq'[c] = cq[c],
         route'[c] = route[c], cursor'[c] = cursor[c], cgen'[c] = cgen[c],
         rebuilding'[c] = rebuilding[c], orphan'[c] = orphan[c], seen'[c] = seen[c],
         \/ inbox' = inbox
         \/ \E h : inbox' = Append(inbox, h) /\ h.client # c
  PROVE  CatchingUp(c)'
<1>1. Pipe(c)' = Pipe(c)
  BY DEF Pipe
<1>2. Keeps(Pipe(c), Pipe(c)', Mine(c))
  BY <1>1 DEF Keeps
<1>3. /\ ring.tail <= ring'.tail
      /\ \A s \in 1..ring'.tail : ~(s > ring.tail)
  <2>1. ring.tail \in Nat
    BY Numbers DEF Numeric
  <2> QED
    BY <2>1
<1>4. Addressed(c)'
  <2>1. Mine(c)' = Mine(c)
    BY DEF Mine
  <2> QED
    BY <2>1 DEF CatchingUp, Addressed
<1>5. /\ Len(inbox) <= Len(inbox')
      /\ \A i \in 1..Len(inbox) : inbox'[i] = inbox[i]
      /\ \A i \in 1..Len(inbox') : i > Len(inbox) => inbox'[i].client # c
  <2>1. inbox \in Seq(Hellos) /\ Len(inbox) \in Nat
    BY DEF TypeOK
  <2>2. CASE inbox' = inbox
    BY <2>1, <2>2
  <2>3. ASSUME NEW h, inbox' = Append(inbox, h), h.client # c
        PROVE  /\ Len(inbox) <= Len(inbox')
               /\ \A i \in 1..Len(inbox) : inbox'[i] = inbox[i]
               /\ \A i \in 1..Len(inbox') : i > Len(inbox) => inbox'[i].client # c
    <3>1. /\ Len(inbox') = Len(inbox) + 1 /\ inbox'[Len(inbox) + 1] = h
          /\ \A i \in 1..Len(inbox) : inbox'[i] = inbox[i]
      BY <2>1, <2>3
    <3>2. \A i \in 1..Len(inbox') : i > Len(inbox) => i = Len(inbox) + 1
      BY <2>1, <3>1
    <3> QED
      BY <2>1, <2>3, <3>1, <3>2
  <2> QED
    BY <2>2, <2>3
<1> QED
  BY <1>2, <1>3, <1>4, <1>5, Onwards

(* A hello leaves the wrapper's inbox.                                     *)
LEMMA CallTaken ==
  ASSUME TypeOK, NEW c \in Clients, inbox # <<>>, inbox' = Tail(inbox), route'[c] = route[c]
  PROVE  /\ inbox[1] = Head(inbox) /\ inbox[1] \in Hellos /\ 1 \in 1..Len(inbox)
         /\ \A i \in 1..Len(inbox') : /\ i + 1 \in 1..Len(inbox)
                                      /\ inbox'[i] = inbox[i + 1]
                                      /\ Calling(c, i)' <=> Calling(c, i + 1)
         /\ \A i \in 1..Len(inbox) :
              i = 1 \/ (i - 1 \in 1..Len(inbox') /\ (i - 1) + 1 = i)
         /\ Called(c) <=> Calling(c, 1) \/ Called(c)'
<1>1. inbox \in Seq(Hellos)
  BY DEF TypeOK
<1>2. /\ Len(inbox) \in Nat /\ Len(inbox) >= 1 /\ Len(inbox') = Len(inbox) - 1
      /\ inbox[1] = Head(inbox) /\ inbox[1] \in Hellos /\ 1 \in 1..Len(inbox)
      /\ \A i \in 1..Len(inbox') : i + 1 \in 1..Len(inbox) /\ inbox'[i] = inbox[i + 1]
      /\ \A i \in 1..Len(inbox) : i = 1 \/ (i - 1 \in 1..Len(inbox') /\ (i - 1) + 1 = i)
  BY <1>1
<1>3. \A i \in 1..Len(inbox') : Calling(c, i)' <=> Calling(c, i + 1)
  BY <1>2 DEF Calling
<1>4. Called(c)' => Called(c)
  BY <1>2, <1>3 DEF Called
<1>5. Called(c) => Calling(c, 1) \/ Called(c)'
  <2> SUFFICES ASSUME NEW i \in 1..Len(inbox), Calling(c, i), i # 1 PROVE Called(c)'
    BY DEF Called
  <2>1. i - 1 \in 1..Len(inbox') /\ (i - 1) + 1 = i
    BY <1>2
  <2>2. Calling(c, i - 1)'
    BY <1>3, <2>1
  <2> QED
    BY <2>1, <2>2 DEF Called
<1>6. Calling(c, 1) => Called(c)
  BY <1>2 DEF Called
<1> QED
  BY <1>2, <1>3, <1>4, <1>5, <1>6

(* What the answer to h is to a browser whose connection sent it.          *)
LEMMA OwnReply ==
  ASSUME TypeOK, PoolInv, NEW c \in Clients, NEW h \in Hellos, NEW rs, ReplyTo(rs, h),
         h.client = c, h.conn = route[c]
  PROVE  /\ \A k \in 1..Len(rs) : rs[k] \in Ours(c)
         /\ 1 \in 1..Len(rs) /\ rs[1] \in Renews(c)
         /\ Len(rs) \in 1..Len(rs) /\ rs[Len(rs)] \in Closes(c)
         /\ \A s \in 1..ring.tail :
              \/ Has(rs, Gives(c, s))
              \/ h.cursor # NoCursor /\ ~Resets(rs[1]) /\ s <= h.cursor
<1>0. ring.tail \in Nat /\ h.conn >= 1 /\ h.cursor \in Int
  <2>1. h.conn \in 1..MaxRoute /\ h.cursor \in NoCursor..MaxSeq
    BY DEF Hellos
  <2> QED
    BY <2>1, Numbers, ReplayAssumption DEF Numeric, NoCursor
<1>1. rs \in Seq(Frames) /\ rs # <<>> /\ \A k \in 1..Len(rs) : Answering(rs[k], h)
  BY DEF ReplyTo, AnswerTo
<1>2. Len(rs) \in Nat /\ 1 \in 1..Len(rs) /\ Len(rs) \in 1..Len(rs)
  BY <1>1
<1>3. \A k \in 1..Len(rs) : rs[k] \in Ours(c)
  BY <1>0, <1>1 DEF Answering, Ours
<1>4. \A k \in 1..Len(rs) : rs[k] \in Mine(c)
  BY <1>3, SetFacts
<1>5. rs[1].type \in {"start", "snapshot"} /\ rs[Len(rs)].type \in {"end", "snapshot"}
      /\ (h.cursor = NoCursor => rs[1].type = "snapshot")
      /\ (rs[1].type # "event" => rs[1].seq = ring.tail)
  BY <1>2 DEF ReplyTo
<1>6. rs[1] \in Renews(c) /\ rs[Len(rs)] \in Closes(c)
  BY <1>1, <1>2, <1>4, <1>5 DEF Renews, Closes, Answering
<1>7. ASSUME NEW s \in 1..ring.tail, h.cursor = NoCursor \/ Resets(rs[1])
      PROVE  Has(rs, Gives(c, s))
  <2>1. rs[1].type = "snapshot" \/ Resets(rs[1])
    BY <1>5, <1>7
  <2>2. rs[1].life = life /\ rs[1].seq >= s
    BY <1>0, <1>1, <1>2, <1>5, <1>7
       DEF Answering
  <2> QED
    BY <1>2, <1>4, <2>1, <2>2 DEF Has, Gives
<1>8. ASSUME NEW s \in 1..ring.tail, h.cursor # NoCursor, ~Resets(rs[1]), s > h.cursor
      PROVE  Has(rs, Gives(c, s))
  <2>1. PICK k \in 1..Len(rs) : rs[k].type = "event" /\ rs[k].seq = s
    BY <1>8 DEF ReplyTo
  <2>2. rs[k].life = life /\ rs[k] \in Mine(c)
    BY <1>1, <1>4 DEF Answering
  <2> QED
    BY <2>1, <2>2 DEF Has, Gives
<1>9. \A s \in 1..ring.tail : s > h.cursor \/ s <= h.cursor
  BY <1>0
<1> QED
  BY <1>2, <1>3, <1>6, <1>7, <1>8, <1>9

LEMMA CatchingHello ==
  ASSUME ReplayInv, ReplayInv', HandleHello, NEW c \in Clients, CatchingUp(c)
  PROVE  CatchingUp(c)'
<1>1. TypeOK /\ TypeOK' /\ PoolInv /\ Numeric /\ PipeShape
  BY Numbers, PipeShaped DEF ReplayInv
<1>2. /\ UNCHANGED <<gen, life, resident, ring, turnFrom, evicted, up, route, cq,
                     cursor, cgen, rebuilding, seen, orphan>>
      /\ inbox # <<>> /\ inbox' = Tail(inbox)
  BY DEF HandleHello, wrapper, relay, browser
<1>3. PICK h \in Hellos : h = Head(inbox)
  BY <1>1, <1>2, CallTaken
<1>4. /\ inbox[1] = h /\ 1 \in 1..Len(inbox)
      /\ \A i \in 1..Len(inbox') : /\ i + 1 \in 1..Len(inbox)
                                   /\ inbox'[i] = inbox[i + 1]
                                   /\ Calling(c, i)' <=> Calling(c, i + 1)
      /\ \A i \in 1..Len(inbox) : i = 1 \/ (i - 1 \in 1..Len(inbox') /\ (i - 1) + 1 = i)
      /\ Called(c) <=> Calling(c, 1) \/ Called(c)'
  BY <1>1, <1>2, <1>3, CallTaken
<1>5. PICK rs : ReplyTo(rs, h) /\ wq' = IF up /\ resident THEN wq \o rs ELSE wq
  <2>1. ReplyTo(HelloReply(h), h)
    BY <1>1, HelloReplyContents
  <2>2. wq \o <<>> = wq
    BY <1>1 DEF TypeOK
  <2> QED
    BY <2>1, <2>2, <1>3 DEF HandleHello, Send
<1>6. PICK fs : fs = IF up /\ resident THEN rs ELSE <<>>
  OBVIOUS
<1>7. fs \in Seq(Frames) /\ wq' = wq \o fs
  <2>1. wq \o <<>> = wq /\ rs \in Seq(Frames)
    BY <1>1, <1>5 DEF TypeOK, ReplyTo, AnswerTo
  <2>2. CASE up /\ resident
    BY <1>5, <1>6, <2>1, <2>2
  <2>3. CASE ~(up /\ resident)
    <3>1. fs = <<>> /\ wq' = wq
      BY <1>5, <1>6, <2>3
    <3> QED
      BY <2>1, <3>1
  <2> QED
    BY <2>2, <2>3
<1>8. PICK P, Q : P = Pipe(c) /\ Q = Pipe(c)'
  OBVIOUS
<1>9. Grown(P, fs, Q) /\ Len(P) \in Nat /\ Len(fs) \in Nat
  BY <1>1, <1>2, <1>7, <1>8, PipeSent DEF PipeShape
<1>10. /\ \A Y : Has(P, Y) \/ Has(fs, Y) => Has(Q, Y)
       /\ \A X, Y : Behind(P, X, Y) /\ Behind(fs, X, Y) => Behind(Q, X, Y)
       /\ \A X, Y : Has(fs, Y) /\ Behind(fs, X, Y) => Behind(Q, X, Y)
       /\ \A X, Y : Ahead(P, X, Y) /\ Ahead(fs, X, Y) => Ahead(Q, X, Y)
  BY <1>9, GrownFacts
<1>11. /\ Mine(c)' = Mine(c) /\ Ours(c)' = Ours(c) /\ Strays(c)' = Strays(c)
       /\ Renews(c)' = Renews(c) /\ Closes(c)' = Closes(c)
       /\ Rebuilding(c)' = Rebuilding(c)
       /\ \A s : /\ Live(s)' = Live(s) /\ Below(s)' = Below(s)
                 /\ Gives(c, s)' = Gives(c, s) /\ Saving(c, s)' = Saving(c, s)
       /\ \A g : Continues(c, g)' = Continues(c, g) /\ Snapshots(c, g)' = Snapshots(c, g)
  BY <1>2, SetsKept
<1>12. Served(c)' <=> Served(c)
  BY <1>2 DEF Served
<1>13. \A s : Safe(c, s) => Safe(c, s)'
  BY <1>2, <1>8, <1>10, <1>11 DEF Safe
<1>14. /\ \A k \in 1..Len(fs) : fs = rs /\ up /\ resident
       /\ \A k \in 1..Len(rs) : Answering(rs[k], h)
  BY <1>5, <1>6 DEF ReplyTo, AnswerTo
<1>15. Calling(c, 1) <=> h.client = c /\ h.conn = route[c]
  BY <1>4 DEF Calling
<1>16. ASSUME Served(c), Calling(c, 1)
       PROVE  /\ fs = rs
              /\ Has(fs, Renews(c)) /\ Has(fs, Closes(c))
              /\ \A s \in 1..ring.tail :
                   Has(fs, Gives(c, s)) \/ (h.cursor # NoCursor /\ s <= h.cursor)
  <2>1. fs = rs
    BY <1>6, <1>16 DEF Served
  <2> QED
    BY <1>1, <1>5, <1>15, <1>16, <2>1, OwnReply DEF Has
<1>17. Followed(c)'
  <2> SUFFICES ASSUME up, resident, NEW s \in 1..ring.tail
               PROVE  Behind(Q, Below(s), Live(s) \cup Calls)
    BY <1>2, <1>8, <1>11 DEF Followed
  <2>1. Behind(P, Below(s), Live(s) \cup Calls)
    BY <1>8 DEF CatchingUp, Followed
  <2>2. \A k \in 1..Len(fs) : fs[k] \notin Below(s)
    <3> SUFFICES ASSUME NEW k \in 1..Len(fs), fs[k] \in Below(s) PROVE FALSE
      OBVIOUS
    <3>1. /\ k \in 1..Len(rs) /\ fs[k] = rs[k] /\ Answering(rs[k], h)
          /\ rs[k].type # "event" => rs[k].seq = ring.tail
      BY <1>5, <1>14 DEF ReplyTo
    <3> QED
      BY <1>1, <3>1 DEF Below, Answering, Numeric
  <2>3. Behind(fs, Below(s), Live(s) \cup Calls)
    BY <2>2 DEF Behind
  <2> QED
    BY <1>10, <2>1, <2>3
<1>18. Reached(c)'
  <2> SUFFICES ASSUME Served(c), ~Called(c)', NEW s \in 1..ring.tail
               PROVE  Safe(c, s)'
    BY <1>2, <1>12 DEF Reached
  <2>1. CASE Calling(c, 1)
    <3>1. CASE Has(fs, Gives(c, s))
      <4>1. Has(fs, Saving(c, s))
        BY <3>1 DEF Has, Saving
      <4> QED
        BY <1>8, <1>10, <1>11, <4>1 DEF Safe
    <3>2. CASE s <= h.cursor
      <4>1. Safe(c, s) \/ \E j \in 1..Len(inbox) : 1 < j /\ Calling(c, j)
        BY <1>4, <2>1, <3>2 DEF CatchingUp, Asked
      <4>2. ASSUME NEW j \in 1..Len(inbox), 1 < j, Calling(c, j) PROVE FALSE
        <5>1. j - 1 \in 1..Len(inbox') /\ (j - 1) + 1 = j
          BY <1>4, <4>2
        <5> QED
          BY <1>4, <4>2, <5>1 DEF Called
      <4> QED
        BY <1>13, <4>1, <4>2
    <3> QED
      BY <1>16, <2>1, <3>1, <3>2
  <2>2. CASE ~Calling(c, 1)
    BY <1>4, <1>13, <2>2 DEF CatchingUp, Reached
  <2> QED
    BY <2>1, <2>2
<1>19. Asked(c)'
  <2> SUFFICES ASSUME Served(c), NEW i \in 1..Len(inbox'), NEW s \in 1..ring.tail,
                      Calling(c, i)', s <= inbox'[i].cursor
               PROVE  \/ Safe(c, s)'
                      \/ \E j \in 1..Len(inbox') : i < j /\ Calling(c, j)'
    BY <1>2, <1>12 DEF Asked
  <2>1. Safe(c, s) \/ \E j \in 1..Len(inbox) : i + 1 < j /\ Calling(c, j)
    BY <1>4 DEF CatchingUp, Asked
  <2>2. ASSUME NEW j \in 1..Len(inbox), i + 1 < j, Calling(c, j)
        PROVE  \E k \in 1..Len(inbox') : i < k /\ Calling(c, k)'
    <3>1. j - 1 \in 1..Len(inbox') /\ (j - 1) + 1 = j /\ i < j - 1
      BY <1>4, <2>2
    <3>2. Calling(c, j - 1)'
      BY <1>4, <2>2, <3>1
    <3> QED
      BY <3>1, <3>2
  <2> QED
    BY <1>13, <2>1, <2>2
<1>20. Informed(c)'
  <2> SUFFICES ASSUME Served(c), ~Called(c)'
               PROVE  cgen[c] = gen \/ Has(Q, Renews(c) \cup Calls)
    BY <1>2, <1>8, <1>11, <1>12 DEF Informed
  <2>1. CASE Calling(c, 1)
    <3>1. Has(fs, Renews(c) \cup Calls)
      BY <1>16, <2>1 DEF Has
    <3> QED
      BY <1>10, <3>1
  <2>2. CASE ~Calling(c, 1)
    BY <1>4, <1>8, <1>10, <2>2 DEF CatchingUp, Informed
  <2> QED
    BY <2>1, <2>2
<1>21. Behind(fs, Rebuilding(c), Closes(c) \cup Calls)
  <2> SUFFICES ASSUME NEW k \in 1..Len(fs), fs[k] \in Rebuilding(c)
               PROVE  \E q \in 1..Len(fs) : k < q /\ fs[q] \in Closes(c) \cup Calls
    BY DEF Behind
  <2>1. fs = rs /\ rs \in Seq(Frames)
    BY <1>5, <1>14 DEF ReplyTo, AnswerTo
  <2>2. /\ Len(rs) \in Nat /\ Len(rs) \in 1..Len(rs) /\ k \in 1..Len(rs)
        /\ rs[k].type = "start" /\ rs[k] \in Mine(c)
        /\ rs[Len(rs)].type \in {"end", "snapshot"}
    BY <1>5, <2>1 DEF ReplyTo, Rebuilding
  <2>3. k < Len(rs)
    BY <2>2
  <2>4. Answering(rs[k], h) /\ Answering(rs[Len(rs)], h)
    BY <1>14, <2>2
  <2>5. rs[Len(rs)] \in Mine(c)
    BY <2>2, <2>4 DEF Answering, Mine
  <2>6. rs[Len(rs)] \in Closes(c)
    BY <2>2, <2>5 DEF Closes
  <2> QED
    BY <2>1, <2>2, <2>3, <2>6
<1>22. RebuildEnds(c)'
  <2> SUFFICES ASSUME Served(c), ~Called(c)'
               PROVE  /\ rebuilding[c] => Has(Q, Closes(c) \cup Calls)
                      /\ Behind(Q, Rebuilding(c), Closes(c) \cup Calls)
    BY <1>2, <1>8, <1>11, <1>12 DEF RebuildEnds
  <2>1. CASE Calling(c, 1)
    <3>1. Has(fs, Closes(c) \cup Calls)
      BY <1>16, <2>1 DEF Has
    <3> QED
      BY <1>10, <1>21, <3>1
  <2>2. CASE ~Calling(c, 1)
    BY <1>4, <1>8, <1>10, <1>21, <2>2 DEF CatchingUp, RebuildEnds
  <2> QED
    BY <2>1, <2>2
<1>23. Continued(c)'
  <2> SUFFICES ASSUME NEW g \in 1..MaxGen, g # cgen[c]
               PROVE  Ahead(Q, Continues(c, g), Snapshots(c, g))
    BY <1>2, <1>8, <1>11 DEF Continued
  <2>1. Ahead(P, Continues(c, g), Snapshots(c, g))
    BY <1>8 DEF CatchingUp, Continued
  <2>2. ASSUME NEW k \in 1..Len(fs), fs[k] \in Continues(c, g)
        PROVE  \E q \in 1..Len(fs) : q < k /\ fs[q] \in Snapshots(c, g)
    <3>1. /\ fs = rs /\ Answering(rs[k], h) /\ rs[k] \in Ours(c)
          /\ rs[k].type = "start" /\ ~rs[k].rebuild /\ rs[k].gen = g
      BY <1>14, <2>2 DEF Continues
    <3>2. Calling(c, 1) /\ g = gen
      BY <1>15, <3>1 DEF Answering, Ours
    <3>3. /\ \A q \in 1..Len(rs) : rs[q] \in Ours(c)
          /\ 1 \in 1..Len(rs)
      BY <1>1, <1>5, <1>15, <3>2, OwnReply
    <3>4. h.cursor = NoCursor
      <4> SUFFICES ASSUME h.cursor # NoCursor PROVE FALSE
        OBVIOUS
      <4>1. k = 1 /\ (h.gen # gen => rs[1].rebuild)
        BY <1>5, <2>2, <3>1 DEF ReplyTo
      <4>2. h.gen = gen
        BY <3>1, <4>1
      <4> QED
        BY <1>4, <3>2, <4>2 DEF CatchingUp, Resumed
    <3>5. rs[1].type = "snapshot" /\ rs[1].gen = gen
      BY <1>5, <1>14, <3>3, <3>4 DEF ReplyTo, Answering
    <3>6. 1 < k /\ rs[1] \in Snapshots(c, g)
      BY <2>2, <3>1, <3>2, <3>3, <3>5 DEF Snapshots
    <3> QED
      BY <3>1, <3>3, <3>6
  <2>3. Ahead(fs, Continues(c, g), Snapshots(c, g))
    BY <2>2 DEF Ahead
  <2> QED
    BY <1>10, <2>1, <2>3
<1>24. Resumed(c)'
  BY <1>2, <1>4 DEF CatchingUp, Resumed
<1>25. Addressed(c)'
  BY <1>2, <1>11 DEF CatchingUp, Addressed
<1> QED
  BY <1>17, <1>18, <1>19, <1>20, <1>22, <1>23, <1>24, <1>25 DEF CatchingUp

LEMMA SetsOfRoute ==
  ASSUME NEW c, route'[c] = route[c]
  PROVE  /\ Mine(c)' = Mine(c) /\ Ours(c)' = Ours(c) /\ Closes(c)' = Closes(c)
         /\ Rebuilding(c)' = Rebuilding(c)
         /\ \A g : Continues(c, g)' = Continues(c, g) /\ Snapshots(c, g)' = Snapshots(c, g)
<1>1. Mine(c)' = Mine(c) /\ Ours(c)' = Ours(c)
  BY DEF Mine, Ours
<1> QED
  BY <1>1 DEF Closes, Rebuilding, Continues, Snapshots

(* A fresh session's Snapshot reaches everyone; it has no events yet.      *)
LEMMA CatchingRespawn ==
  ASSUME ReplayInv, ReplayInv', Respawn, NEW c \in Clients, CatchingUp(c)
  PROVE  CatchingUp(c)'
<1>1. TypeOK /\ TypeOK' /\ PoolInv /\ PipeShape
  BY PipeShaped DEF ReplayInv
<1>2. /\ UNCHANGED <<gen, up, inbox, route, cq, cgen, rebuilding, ring>>
      /\ ~resident /\ life' = life + 1
  BY DEF Respawn, relay, browser
<1>3. \A s : s \notin 1..ring'.tail
  BY <1>1, <1>2, EmptyRingFacts DEF PoolInv
<1>4. PICK f : f = [Frame("snapshot", 0) EXCEPT !.life = life + 1]
  OBVIOUS
<1>5. /\ f.type = "snapshot" /\ f.to = Nobody /\ f.gen = gen
      /\ wq' = IF up THEN Append(wq, f) ELSE wq
  BY <1>4 DEF Respawn, Frame
<1>6. f \in Frames
  <2>1. life + 1 \in 1..MaxLife
    BY <1>1, <1>2 DEF TypeOK
  <2>2. gen \in 1..MaxGen /\ 0 \in 0..MaxRoute /\ 0 \in 0..MaxSeq
    BY <1>1, ReplayAssumption DEF TypeOK
  <2> QED
    BY <1>4, <2>1, <2>2 DEF Frame, Frames
<1>7. PICK fs : fs = IF up THEN <<f>> ELSE <<>>
  OBVIOUS
<1>8. /\ fs \in Seq(Frames) /\ wq' = wq \o fs
      /\ Len(fs) \in Nat /\ (\A k \in 1..Len(fs) : fs[k] = f)
      /\ (up => 1 \in 1..Len(fs))
  <2>1. wq \in Seq(Frames)
    BY <1>1 DEF TypeOK
  <2>2. CASE up
    <3>1. fs = <<f>> /\ wq' = Append(wq, f)
      BY <1>5, <1>7, <2>2
    <3> QED
      BY <1>6, <2>1, <3>1
  <2>3. CASE ~up
    <3>1. fs = <<>> /\ wq' = wq
      BY <1>5, <1>7, <2>3
    <3> QED
      BY <2>1, <2>3, <3>1
  <2> QED
    BY <2>2, <2>3
<1>9. PICK P, Q : P = Pipe(c) /\ Q = Pipe(c)'
  OBVIOUS
<1>10. Grown(P, fs, Q) /\ Len(P) \in Nat
  BY <1>1, <1>2, <1>8, <1>9, PipeSent DEF PipeShape
<1>11. /\ \A Y : Has(P, Y) \/ Has(fs, Y) => Has(Q, Y)
       /\ \A X, Y : Has(fs, Y) /\ Behind(fs, X, Y) => Behind(Q, X, Y)
       /\ \A X, Y : Ahead(P, X, Y) /\ Ahead(fs, X, Y) => Ahead(Q, X, Y)
  BY <1>8, <1>10, GrownFacts
<1>12. /\ Mine(c)' = Mine(c) /\ Closes(c)' = Closes(c) /\ Rebuilding(c)' = Rebuilding(c)
       /\ \A g : Continues(c, g)' = Continues(c, g) /\ Snapshots(c, g)' = Snapshots(c, g)
  BY <1>2, SetsOfRoute
<1>13. Renews(c)' = Renews(c)
  BY <1>2, <1>12 DEF Renews
<1>14. up => Has(fs, Renews(c) \cup Calls) /\ Has(fs, Closes(c) \cup Calls)
  <2>1. f \in Renews(c) /\ f \in Closes(c)
    BY <1>5, <1>6 DEF Renews, Closes, Mine
  <2> QED
    BY <1>8, <2>1 DEF Has
<1>15. Followed(c)' /\ Reached(c)' /\ Asked(c)'
  BY <1>3 DEF Followed, Reached, Asked
<1>16. Informed(c)'
  BY <1>2, <1>9, <1>11, <1>13, <1>14 DEF Informed, Served
<1>17. RebuildEnds(c)'
  <2>1. Behind(fs, Rebuilding(c), Closes(c) \cup Calls)
    BY <1>5, <1>8 DEF Behind, Rebuilding
  <2> QED
    BY <1>2, <1>9, <1>11, <1>12, <1>14, <2>1 DEF RebuildEnds, Served
<1>18. Continued(c)'
  <2>1. \A g : Ahead(fs, Continues(c, g), Snapshots(c, g))
    BY <1>5, <1>8 DEF Ahead, Continues
  <2> QED
    BY <1>2, <1>9, <1>11, <1>12, <2>1 DEF CatchingUp, Continued
<1>19. Resumed(c)'
  BY <1>2 DEF CatchingUp, Resumed, Calling
<1>20. Addressed(c)'
  BY <1>2, <1>12 DEF CatchingUp, Addressed
<1> QED
  BY <1>15, <1>16, <1>17, <1>18, <1>19, <1>20 DEF CatchingUp

(* A new link begins with the announcement that makes everyone say hello.  *)
LEMMA CatchingLinkUp ==
  ASSUME ReplayInv, ReplayInv', LinkUp, NEW c \in Clients, CatchingUp(c)
  PROVE  CatchingUp(c)'
<1>1. TypeOK /\ TypeOK' /\ LinkInv /\ PipeShape
  BY PipeShaped DEF ReplayInv
<1>2. /\ UNCHANGED <<gen, life, resident, ring, inbox, route, cq, cgen, rebuilding>>
      /\ ~up
  BY DEF LinkUp, wrapper, relay, browser
<1>3. 0 \in 0..MaxSeq
  BY ReplayAssumption
<1>4. PICK f \in Frames : f = Frame("hello", 0)
  BY <1>1, <1>3, FrameIsFrame
<1>5. f.type = "hello" /\ f.to = Nobody
  BY <1>4, FrameFields
<1>6. PICK fs : fs = <<f>>
  OBVIOUS
<1>7. /\ fs \in Seq(Frames) /\ wq' = wq \o fs
      /\ Len(fs) \in Nat /\ (\A k \in 1..Len(fs) : fs[k] = f) /\ 1 \in 1..Len(fs)
  <2>1. wq = <<>> /\ wq' = fs
    BY <1>1, <1>2, <1>4, <1>6 DEF LinkInv, LinkUp
  <2>2. fs \in Seq(Frames)
    BY <1>6
  <2> QED
    BY <1>6, <2>1, <2>2
<1>8. PICK P, Q : P = Pipe(c) /\ Q = Pipe(c)'
  OBVIOUS
<1>9. Grown(P, fs, Q) /\ Len(P) \in Nat
  BY <1>1, <1>2, <1>7, <1>8, PipeSent DEF PipeShape
<1>10. \A Y : Has(fs, Y \cup Calls) /\ Has(Q, Y \cup Calls)
  <2>1. \A Y : Has(fs, Y \cup Calls)
    BY <1>5, <1>7 DEF Has, Calls
  <2> QED
    BY <1>7, <1>9, <2>1, GrownFacts
<1>11. \A X \in SUBSET Openers : \A Y : Behind(Q, X, Y \cup Calls)
  <2>1. \A X \in SUBSET Openers : \A Y : Behind(fs, X, Y)
    BY <1>5, <1>7 DEF Behind, Openers
  <2> QED
    BY <1>7, <1>9, <1>10, <2>1, GrownFacts
<1>12. Keeps(P, Q, Mine(c))
  BY <1>5, <1>7, <1>9, KeepsGrown DEF Openers
<1>13. /\ Mine(c)' = Mine(c) /\ Renews(c)' = Renews(c) /\ Closes(c)' = Closes(c)
       /\ Rebuilding(c)' = Rebuilding(c)
       /\ \A s : /\ Live(s)' = Live(s) /\ Below(s)' = Below(s)
                 /\ Saving(c, s)' = Saving(c, s)
       /\ \A g : Continues(c, g)' = Continues(c, g) /\ Snapshots(c, g)' = Snapshots(c, g)
  BY <1>2, SetsKept
<1>14. Followed(c)'
  <2>1. \A s : Below(s) \in SUBSET Openers
    BY SetFacts
  <2> QED
    BY <1>2, <1>8, <1>11, <1>13, <2>1 DEF Followed
<1>15. \A s : Safe(c, s)'
  <2>1. \A s : Has(Q, Saving(c, s))
    BY <1>10 DEF Saving
  <2> QED
    BY <1>8, <1>13, <2>1 DEF Safe
<1>16. Reached(c)' /\ Asked(c)'
  BY <1>15 DEF Reached, Asked
<1>17. Informed(c)'
  BY <1>8, <1>10, <1>13 DEF Informed
<1>18. RebuildEnds(c)'
  BY <1>8, <1>10, <1>11, <1>13, SetFacts DEF RebuildEnds
<1>19. Continued(c)'
  <2>1. \A g : Ahead(P, Continues(c, g), Snapshots(c, g))
                 => Ahead(Q, Continues(c, g), Snapshots(c, g))
    BY <1>12, SetFacts DEF Keeps
  <2> QED
    BY <1>2, <1>8, <1>13, <2>1 DEF CatchingUp, Continued
<1>20. Resumed(c)'
  BY <1>2 DEF CatchingUp, Resumed, Calling
<1>21. Addressed(c)'
  BY <1>2, <1>13 DEF CatchingUp, Addressed
<1> QED
  BY <1>14, <1>16, <1>17, <1>18, <1>19, <1>20, <1>21 DEF CatchingUp

(* The wrapper without its session or its link owes nobody anything; what  *)
(* the relay has is still delivered.                                       *)
LEMMA CatchingCut ==
  ASSUME TypeOK, TypeOK', NEW c \in Clients, CatchingUp(c), UNCHANGED <<relay, browser>>,
         ~(up' /\ resident'), wq' = wq \/ wq' = <<>>, Resumed(c)'
  PROVE  CatchingUp(c)'
<1>1. PipeShape /\ PipeShape' /\ UNCHANGED <<route, cq, cgen>>
  BY PipeShaped, PipeShapedNext DEF relay, browser
<1>2. PICK P, Q : P = Pipe(c) /\ Q = Pipe(c)'
  OBVIOUS
<1>3. \A i \in 1..Len(Q) : i \in 1..Len(P) /\ Q[i] = P[i]
  <2>1. CASE wq' = wq
    <3>1. Q = P
      BY <1>1, <1>2, <2>1 DEF Pipe
    <3> QED
      BY <3>1
  <2>2. CASE wq' = <<>>
    <3>1. /\ Len(Q) = Len(cq'[c]) + Len(wq') /\ Len(cq'[c]) \in Nat
          /\ \A i \in 1..Len(cq'[c]) : Q[i] = cq'[c][i]
      BY <1>1, <1>2 DEF PipeShape
    <3>2. \A i \in 1..Len(cq[c]) : i \in 1..Len(P) /\ P[i] = cq[c][i]
      BY <1>1, <1>2 DEF PipeShape
    <3>3. cq'[c] = cq[c] /\ Len(wq') = 0
      BY <1>1, <2>2
    <3> QED
      BY <3>1, <3>2, <3>3
  <2> QED
    BY <2>1, <2>2
<1>4. Followed(c)' /\ Reached(c)' /\ Asked(c)' /\ Informed(c)' /\ RebuildEnds(c)'
  BY DEF Followed, Reached, Asked, Informed, RebuildEnds, Served
<1>5. \A g : Continues(c, g)' = Continues(c, g) /\ Snapshots(c, g)' = Snapshots(c, g)
  BY <1>1, SetsOfRoute
<1>6. Continued(c)'
  <2> SUFFICES ASSUME NEW g \in 1..MaxGen, g # cgen[c],
                      NEW p \in 1..Len(Q), Q[p] \in Continues(c, g)
               PROVE  \E q \in 1..Len(Q) : q < p /\ Q[q] \in Snapshots(c, g)
    BY <1>1, <1>2, <1>5 DEF Continued, Ahead
  <2>1. PICK q \in 1..Len(P) : q < p /\ P[q] \in Snapshots(c, g)
    BY <1>2, <1>3 DEF CatchingUp, Continued, Ahead
  <2>2. q \in 1..Len(Q)
    <3>1. Len(P) \in Nat /\ Len(Q) \in Nat
      BY <1>1, <1>2 DEF PipeShape
    <3> QED
      BY <2>1, <3>1
  <2> QED
    BY <1>3, <2>1, <2>2
<1>7. Addressed(c)'
  BY <1>1 DEF CatchingUp, Addressed, Mine
<1> QED
  BY <1>4, <1>6, <1>7 DEF CatchingUp

LEMMA CatchingEvict ==
  ASSUME ReplayInv, ReplayInv', Evict, NEW c \in Clients, CatchingUp(c)
  PROVE  CatchingUp(c)'
<1>1. TypeOK /\ TypeOK'
  BY DEF ReplayInv
<1>2. /\ UNCHANGED <<relay, browser, inbox, gen>> /\ ~resident' /\ wq' = wq
      /\ UNCHANGED <<route, cgen>>
  BY DEF Evict, link, relay, browser
<1>3. Resumed(c)'
  BY <1>2 DEF CatchingUp, Resumed, Calling
<1> QED
  BY <1>1, <1>2, <1>3, CatchingCut

LEMMA CatchingRestart ==
  ASSUME ReplayInv, ReplayInv', WrapperRestart, NEW c \in Clients, CatchingUp(c)
  PROVE  CatchingUp(c)'
<1>1. TypeOK /\ TypeOK'
  BY DEF ReplayInv
<1>2. UNCHANGED <<relay, browser>> /\ ~resident' /\ wq' = <<>> /\ inbox' = <<>>
  BY DEF WrapperRestart
<1>3. Resumed(c)'
  BY <1>2 DEF Resumed
<1> QED
  BY <1>1, <1>2, <1>3, CatchingCut

LEMMA CatchingLinkDown ==
  ASSUME ReplayInv, ReplayInv', LinkDown, NEW c \in Clients, CatchingUp(c)
  PROVE  CatchingUp(c)'
<1>1. TypeOK /\ TypeOK'
  BY DEF ReplayInv
<1>2. /\ UNCHANGED <<relay, browser, gen>> /\ ~up' /\ wq' = <<>>
      /\ UNCHANGED <<route, cgen>>
  BY DEF LinkDown, wrapper, relay, browser
<1>3. PICK n \in 0..Len(inbox) : inbox' = SubSeq(inbox, 1, n)
  BY DEF LinkDown
<1>4. \A i \in 1..Len(inbox') : i \in 1..Len(inbox) /\ inbox'[i] = inbox[i]
  <2>1. inbox \in Seq(Hellos) /\ Len(inbox) \in Nat
    BY <1>1 DEF TypeOK
  <2> QED
    BY <1>3, <2>1
<1>5. Resumed(c)'
  BY <1>2, <1>4 DEF CatchingUp, Resumed, Calling
<1> QED
  BY <1>1, <1>2, <1>5, CatchingCut

(* A connection's queue is gone; what is left is a part of the link.       *)
LEMMA PipeLeft ==
  ASSUME TypeOK, TypeOK', NEW c \in Clients, cq'[c] = <<>>,
         wq' = wq \/ (wq # <<>> /\ wq' = Tail(wq))
  PROVE  Len(Pipe(c)) \in Nat /\ \E k : CutAt(Pipe(c), k, Pipe(c)')
<1>1. PipeShape /\ PipeShape'
  BY PipeShaped, PipeShapedNext
<1>2. PICK P, Q, n : P = Pipe(c) /\ Q = Pipe(c)' /\ n = Len(cq[c])
  OBVIOUS
<1>3. /\ Len(P) \in Nat /\ n \in Nat /\ Len(P) = n + Len(wq) /\ Len(wq) \in Nat
      /\ \A i \in 1..Len(wq) : P[n + i] = wq[i]
  BY <1>1, <1>2 DEF PipeShape
<1>4. Len(Q) = Len(wq') /\ Len(wq') \in Nat /\ \A i \in 1..Len(wq') : Q[i] = wq'[i]
  <2>1. /\ Len(Q) = Len(cq'[c]) + Len(wq') /\ Len(wq') \in Nat
        /\ \A i \in 1..Len(wq') : Q[Len(cq'[c]) + i] = wq'[i]
    BY <1>1, <1>2 DEF PipeShape
  <2>2. Len(cq'[c]) = 0
    OBVIOUS
  <2> QED
    BY <2>1, <2>2
<1>5. \E k : CutAt(P, k, Q)
  <2>1. CASE wq' = wq
    <3>1. /\ n \in 0..Len(P) /\ Len(Q) = Len(P) - n
          /\ \A i \in 1..Len(Q) : Q[i] = P[n + i] /\ n + i = i + n
      BY <1>3, <1>4, <2>1
    <3>2. CutAt(P, n, Q)
      BY <3>1 DEF CutAt
    <3> QED
      BY <3>2
  <2>2. CASE wq # <<>> /\ wq' = Tail(wq)
    <3>1. wq \in Seq(Frames)
      BY DEF TypeOK
    <3>2. /\ Len(wq') = Len(wq) - 1 /\ Len(wq) >= 1
          /\ \A i \in 1..Len(wq') : i + 1 \in 1..Len(wq) /\ wq'[i] = wq[i + 1]
      BY <2>2, <3>1
    <3>3. n + 1 \in 0..Len(P) /\ Len(Q) = Len(P) - (n + 1)
      BY <1>3, <1>4, <3>2
    <3>4. ASSUME NEW i \in 1..Len(Q) PROVE Q[i] = P[i + (n + 1)]
      <4>1. i \in 1..Len(wq') /\ n + (i + 1) = i + (n + 1)
        BY <1>3, <1>4
      <4> QED
        BY <1>3, <1>4, <3>2, <4>1
    <3>5. CutAt(P, n + 1, Q)
      BY <3>3, <3>4 DEF CutAt
    <3> QED
      BY <3>5
  <2> QED
    BY <2>1, <2>2
<1> QED
  BY <1>2, <1>3, <1>5

(* A browser without a connection asked for nothing; what it will find on  *)
(* the link when it returns is what was behind its queue.                  *)
LEMMA CatchingLeave ==
  ASSUME ReplayInv, ReplayInv', NEW c \in Clients, CatchingUp(c),
         UNCHANGED <<gen, life, resident, ring, up, inbox>>,
         route'[c] = 0, cq'[c] = <<>>,
         wq' = wq \/ (wq # <<>> /\ wq' = Tail(wq))
  PROVE  CatchingUp(c)'
<1>1. TypeOK /\ TypeOK'
  BY DEF ReplayInv
<1>2. PICK P, Q : P = Pipe(c) /\ Q = Pipe(c)'
  OBVIOUS
<1>3. Len(P) \in Nat /\ \E k : CutAt(P, k, Q)
  BY <1>1, <1>2, PipeLeft
<1>4. \A X, Y : Behind(P, X, Y) => Behind(Q, X, Y)
  BY <1>3, CutFacts
<1>5. Followed(c)'
  <2>1. \A s : Live(s)' = Live(s) /\ Below(s)' = Below(s)
    BY DEF Live, Below
  <2> QED
    BY <1>2, <1>4, <2>1 DEF CatchingUp, Followed
<1>6. Reached(c)' /\ Asked(c)' /\ Informed(c)' /\ RebuildEnds(c)'
  BY DEF Reached, Asked, Informed, RebuildEnds, Served
<1>7. Continued(c)'
  BY DEF Continued, Ahead, Continues, Ours
<1>8. \A i \in 1..Len(inbox') : ~Calling(c, i)'
  <2>1. inbox \in Seq(Hellos) /\ \A h \in Hellos : h.conn # 0
    <3>1. \A h \in Hellos : h.conn \in 1..MaxRoute
      BY DEF Hellos
    <3>2. \A n \in 1..MaxRoute : n # 0
      BY ReplayAssumption
    <3> QED
      BY <1>1, <3>1, <3>2 DEF TypeOK
  <2>2. \A i \in 1..Len(inbox) : inbox[i].conn # 0
    BY <2>1
  <2> QED
    BY <2>2 DEF Calling
<1>9. Resumed(c)' /\ Addressed(c)'
  <2>1. Len(cq'[c]) = 0
    OBVIOUS
  <2> QED
    BY <1>8, <2>1 DEF Resumed, Addressed
<1> QED
  BY <1>5, <1>6, <1>7, <1>9 DEF CatchingUp

(* The relay drops a full queue with its connection, passes a frame on or  *)
(* passes by whom it is not for.                                           *)
LEMMA CatchingForward ==
  ASSUME ReplayInv, ReplayInv', OnWrapperMsg, NEW c \in Clients, CatchingUp(c)
  PROVE  CatchingUp(c)'
<1>1. TypeOK /\ TypeOK' /\ ClientInv(c) /\ Numeric /\ PipeShape
  BY Numbers, PipeShaped DEF ReplayInv
<1>2. /\ UNCHANGED <<gen, life, resident, ring, up, inbox, cursor, cgen, rebuilding,
                     seen, orphan>>
      /\ wq # <<>> /\ wq' = Tail(wq)
  BY DEF OnWrapperMsg, wrapper, browser
<1>3. PICK f \in Frames : f = Head(wq)
  <2>1. wq \in Seq(Frames) /\ wq # <<>>
    BY <1>1, <1>2 DEF TypeOK
  <2>2. Head(wq) \in Frames
    BY <2>1
  <2> QED
    BY <2>2
<1>4. /\ route'[c] = IF c \in Slow(f) THEN 0 ELSE route[c]
      /\ cq'[c] = IF c \in Slow(f) THEN <<>>
                  ELSE IF Receives(f, c) THEN Append(cq[c], f) ELSE cq[c]
  BY <1>3 DEF OnWrapperMsg
<1>5. CASE route'[c] = 0
  <2>1. cq'[c] = <<>>
    BY <1>1, <1>4, <1>5 DEF ClientInv, Receives
  <2> QED
    BY <1>2, <1>5, <2>1, CatchingLeave
<1>6. CASE route'[c] # 0
  <2>1. c \notin Slow(f) /\ route'[c] = route[c]
    BY <1>4, <1>6
  <2>2. Mine(c)' = Mine(c)
    BY <2>1 DEF Mine
  <2>3. Receives(f, c) <=> f \in Mine(c)
    BY <1>6, <2>1 DEF Receives, Mine
  <2>4. Keeps(Pipe(c), Pipe(c)', Mine(c)) /\ Addressed(c)'
    <3>1. CASE Receives(f, c)
      <4>1. cq'[c] = Append(cq[c], f)
        BY <1>4, <2>1, <3>1
      <4>2. Grown(Pipe(c), <<>>, Pipe(c)') /\ Len(Pipe(c)) \in Nat
        BY <1>1, <1>2, <1>3, <4>1, PipeForwarded DEF PipeShape
      <4>3. Keeps(Pipe(c), Pipe(c)', Mine(c))
        <5>1. Len(<<>>) \in Nat /\ \A i \in 1..Len(<<>>) : FALSE
          OBVIOUS
        <5> QED
          BY <4>2, <5>1, KeepsGrown
      <4>4. \A i \in 1..Len(cq'[c]) : cq'[c][i] \in Mine(c)
        <5>1. cq[c] \in Seq(Frames) /\ \A i \in 1..Len(cq[c]) : cq[c][i] \in Mine(c)
          BY <1>1 DEF TypeOK, CatchingUp, Addressed
        <5> QED
          BY <2>3, <3>1, <4>1, <5>1
      <4> QED
        BY <2>2, <4>3, <4>4 DEF Addressed
    <3>2. CASE ~Receives(f, c)
      <4>1. cq'[c] = cq[c]
        BY <1>4, <2>1, <3>2
      <4>2. /\ Removed(Pipe(c), Len(cq[c]) + 1, Pipe(c)')
            /\ Pipe(c)[Len(cq[c]) + 1] = f /\ Len(Pipe(c)) \in Nat
        BY <1>1, <1>2, <1>3, <4>1, PipeForwarded DEF PipeShape
      <4>3. Keeps(Pipe(c), Pipe(c)', Mine(c))
        BY <2>3, <3>2, <4>2, KeepsRemoved
      <4> QED
        BY <2>2, <4>1, <4>3 DEF CatchingUp, Addressed
    <3> QED
      BY <3>1, <3>2
  <2>5. ring.tail <= ring'.tail /\ \A s \in 1..ring'.tail : ~(s > ring.tail)
    BY <1>1, <1>2 DEF Numeric
  <2>6. /\ Len(inbox) <= Len(inbox') /\ \A i \in 1..Len(inbox) : inbox'[i] = inbox[i]
        /\ \A i \in 1..Len(inbox') : ~(i > Len(inbox))
    <3>1. Len(inbox) \in Nat
      BY <1>1 DEF TypeOK
    <3> QED
      BY <1>2, <3>1
  <2> QED
    BY <1>1, <1>2, <2>1, <2>4, <2>5, <2>6, Onwards
<1> QED
  BY <1>5, <1>6

LEMMA CatchingConnect ==
  ASSUME ReplayInv, ReplayInv', NEW c \in Clients, Connect(c), CatchingUp(c)
  PROVE  CatchingUp(c)'
<1>1. TypeOK /\ TypeOK' /\ ClientInv(c) /\ LinkInv /\ Numeric /\ Numeric'
  BY Numbers, NumbersNext DEF ReplayInv
<1>2. /\ UNCHANGED <<gen, life, resident, ring, up, wq, cursor, cgen, rebuilding, seen,
                     orphan>>
      /\ route[c] = 0 /\ route'[c] = routes + 1 /\ cq'[c] = <<>>
  BY <1>1 DEF Connect, Hello, wrapper, TypeOK
<1>3. Pipe(c)' = Pipe(c)
  BY <1>1, <1>2 DEF Pipe, ClientInv
<1>4. PICK h : /\ h.client = c /\ h.conn = routes + 1 /\ h.cursor = cursor[c]
               /\ h.gen = cgen[c]
               /\ inbox' = IF up THEN Append(inbox, h) ELSE inbox
  BY <1>2 DEF Connect, Hello
<1>5. /\ \A i \in 1..Len(inbox') : Calling(c, i)' => up /\ inbox'[i] = h
      /\ up => Called(c)'
  <2>1. inbox \in Seq(Hellos) /\ Len(inbox) \in Nat
        /\ \A i \in 1..Len(inbox) : inbox[i].conn \in Nat /\ inbox[i].conn <= routes
    <3>1. \A x \in Hellos : x.conn \in Nat
      BY ReplayAssumption DEF Hellos
    <3>2. inbox \in Seq(Hellos) /\ \A i \in 1..Len(inbox) : inbox[i].conn <= routes
      BY <1>1 DEF TypeOK, LinkInv
    <3> QED
      BY <3>1, <3>2
  <2>2. \A i \in 1..Len(inbox) : inbox[i].conn # routes + 1
    BY <1>1, <2>1 DEF Numeric
  <2>3. CASE up
    <3>1. /\ Len(inbox') = Len(inbox) + 1 /\ inbox'[Len(inbox) + 1] = h
          /\ \A i \in 1..Len(inbox) : inbox'[i] = inbox[i]
      BY <1>4, <2>1, <2>3
    <3>2. \A i \in 1..Len(inbox') : i \in 1..Len(inbox) \/ i = Len(inbox) + 1
      BY <2>1, <3>1
    <3>3. Len(inbox) + 1 \in 1..Len(inbox')
      BY <2>1, <3>1
    <3> QED
      BY <1>2, <1>4, <2>2, <2>3, <3>1, <3>2, <3>3 DEF Calling, Called
  <2>4. CASE ~up
    BY <1>2, <1>4, <2>2, <2>4 DEF Calling
  <2> QED
    BY <2>3, <2>4
<1>6. Followed(c)'
  <2>1. \A s : Live(s)' = Live(s) /\ Below(s)' = Below(s)
    BY <1>2 DEF Live, Below
  <2> QED
    BY <1>2, <1>3, <2>1 DEF CatchingUp, Followed
<1>7. Reached(c)' /\ Informed(c)' /\ RebuildEnds(c)'
  BY <1>2, <1>5 DEF Reached, Informed, RebuildEnds, Served
<1>8. Asked(c)'
  BY <1>2, <1>4, <1>5 DEF Asked, Safe
<1>9. Continued(c)'
  <2>1. \A i \in 1..Len(Pipe(c)) : Pipe(c)[i] \notin Ours(c)'
    <3> SUFFICES ASSUME NEW i \in 1..Len(Pipe(c)), Pipe(c)[i] \in Ours(c)' PROVE FALSE
      OBVIOUS
    <3>1. Pipe(c)[i].conn <= routes /\ Pipe(c)[i] \in Frames
      BY PipeKnown DEF Known
    <3>2. Pipe(c)[i].conn = routes + 1 /\ routes \in Nat
      BY <1>1, <1>2 DEF Ours, Numeric
    <3> QED
      BY <3>1, <3>2
  <2>2. \A g : Continues(c, g)' \subseteq Ours(c)'
    BY DEF Continues
  <2> QED
    BY <1>3, <2>1, <2>2 DEF Continued, Ahead
<1>10. Resumed(c)'
  BY <1>2, <1>4, <1>5 DEF Resumed
<1>11. Addressed(c)'
  <2>1. Len(cq'[c]) = 0
    BY <1>2
  <2> QED
    BY <2>1 DEF Addressed
<1> QED
  BY <1>6, <1>7, <1>8, <1>9, <1>10, <1>11 DEF CatchingUp

(* A browser takes a frame that is no announcement.                        *)
LEMMA CatchingTaken ==
  ASSUME ReplayInv, ReplayInv', NEW c \in Clients, CatchingUp(c),
         NEW type, Take(c, type), type # "hello", NEW f, f = Head(cq[c]),
         inbox' = inbox,
         \A s \in 1..ring.tail : Served(c) /\ Safe(c, s) => Safe(c, s)',
         \/ type \in {"start", "snapshot"} /\ cgen'[c] = f.gen
         \/ type \in {"event", "end"} /\ cgen'[c] = cgen[c],
         rebuilding'[c] => \/ rebuilding[c] /\ type = "event"
                           \/ type = "start" /\ f.rebuild
  PROVE  CatchingUp(c)'
<1>1. TypeOK /\ TypeOK' /\ Numeric /\ PipeShape /\ PipeShape'
  BY Numbers, PipeShaped, PipeShapedNext DEF ReplayInv
<1>2. UNCHANGED <<gen, life, resident, ring, up, route>>
  BY DEF Take, wrapper
<1>3. PICK P, Q : P = Pipe(c) /\ Q = Pipe(c)'
  OBVIOUS
<1>4. /\ Removed(P, 1, Q) /\ P[1] = f /\ 1 \in 1..Len(P)
      /\ 1 \in 1..Len(cq[c]) /\ cq[c][1] = f
      /\ \A i \in 1..Len(cq'[c]) : i + 1 \in 1..Len(cq[c]) /\ cq'[c][i] = cq[c][i + 1]
  BY <1>1, <1>3, PipeTaken
<1>5. Len(P) \in Nat /\ Len(Q) \in Nat
  BY <1>1, <1>3 DEF PipeShape
<1>6. /\ f \in Frames /\ Known(f) /\ Coming(f, c) /\ f.type = type /\ f \in Mine(c)
      /\ f.gen \in Nat
  <2>1. f \in Frames /\ Known(f) /\ Coming(f, c)
    BY <1>3, <1>4, PipeKnown
  <2>2. f.type = type /\ f \in Mine(c)
    BY <1>4 DEF Take, CatchingUp, Addressed
  <2> QED
    BY <2>1, <2>2, FrameType
<1>7. f \notin Calls
  BY <1>6 DEF Calls
<1>8. /\ \A Y : f \notin Y /\ Has(P, Y) => Has(Q, Y)
      /\ \A X, Y : Behind(P, X, Y) => Behind(Q, X, Y)
      /\ \A X, Y : f \in X /\ Behind(P, X, Y) => Has(Q, Y)
      /\ \A X, Y : f \notin Y /\ Ahead(P, X, Y) => Ahead(Q, X, Y)
  BY <1>4, <1>5, RemovedFacts
<1>9. /\ Mine(c)' = Mine(c)
      /\ Renews(c)' = Renews(c) /\ Closes(c)' = Closes(c) /\ Rebuilding(c)' = Rebuilding(c)
      /\ \A s : Live(s)' = Live(s) /\ Below(s)' = Below(s)
      /\ \A g : Continues(c, g)' = Continues(c, g) /\ Snapshots(c, g)' = Snapshots(c, g)
  BY <1>2, SetsKept
<1>10. /\ \A i : Calling(c, i)' <=> Calling(c, i)
       /\ Called(c)' <=> Called(c)
       /\ Served(c)' <=> Served(c)
  BY <1>2 DEF Calling, Called, Served
<1>11. cgen[c] = gen => cgen'[c] = gen
  BY <1>1, <1>6 DEF Known, Coming, Numeric
<1>12. Followed(c)'
  BY <1>2, <1>3, <1>8, <1>9 DEF CatchingUp, Followed
<1>13. Reached(c)' /\ Asked(c)'
  <2>1. Reached(c)'
    BY <1>2, <1>10 DEF CatchingUp, Reached
  <2>2. Asked(c)'
    BY <1>2, <1>10 DEF CatchingUp, Asked
  <2> QED
    BY <2>1, <2>2
<1>14. Informed(c)'
  <2> SUFFICES ASSUME Served(c), ~Called(c), cgen'[c] # gen
               PROVE  Has(Q, Renews(c) \cup Calls)
    BY <1>2, <1>3, <1>9, <1>10 DEF Informed
  <2>1. Has(P, Renews(c) \cup Calls)
    BY <1>3, <1>11 DEF CatchingUp, Informed
  <2>2. f \notin Renews(c)
    BY <1>6 DEF Renews
  <2> QED
    BY <1>7, <1>8, <2>1, <2>2
<1>15. RebuildEnds(c)'
  <2> SUFFICES ASSUME Served(c), ~Called(c)
               PROVE  /\ rebuilding'[c] => Has(Q, Closes(c) \cup Calls)
                      /\ Behind(Q, Rebuilding(c), Closes(c) \cup Calls)
    BY <1>3, <1>9, <1>10 DEF RebuildEnds
  <2>1. /\ rebuilding[c] => Has(P, Closes(c) \cup Calls)
        /\ Behind(P, Rebuilding(c), Closes(c) \cup Calls)
    BY <1>3 DEF CatchingUp, RebuildEnds
  <2>2. CASE rebuilding[c] /\ type = "event"
    <3>1. f \notin Closes(c) \cup Calls
      BY <1>6, <1>7, <2>2 DEF Closes
    <3> QED
      BY <1>8, <2>1, <2>2, <3>1
  <2>3. CASE type = "start" /\ f.rebuild
    <3>1. f \in Rebuilding(c)
      BY <1>6, <2>3 DEF Rebuilding
    <3> QED
      BY <1>8, <2>1, <3>1
  <2>4. CASE ~rebuilding'[c]
    BY <1>8, <2>1, <2>4
  <2> QED
    BY <2>2, <2>3, <2>4
<1>16. Continued(c)'
  <2> SUFFICES ASSUME NEW g \in 1..MaxGen, g # cgen'[c]
               PROVE  Ahead(Q, Continues(c, g), Snapshots(c, g))
    BY <1>3, <1>9 DEF Continued
  <2>1. CASE g # cgen[c]
    <3>1. Ahead(P, Continues(c, g), Snapshots(c, g))
      BY <1>3, <2>1 DEF CatchingUp, Continued
    <3>2. f \notin Snapshots(c, g)
      BY <1>6 DEF Snapshots
    <3> QED
      BY <1>8, <3>1, <3>2
  <2>2. CASE g = cgen[c]
    <3>1. cgen[c] < f.gen /\ type # "hello"
      BY <1>1, <1>6, <2>2 DEF Coming, Numeric
    <3>2. \A i \in 1..Len(Q) : Before(f, Q[i]) /\ Q[i] \in Frames
      <4>1. Sorted(P) /\ \A i \in 1..Len(P) : P[i] \in Frames
        BY <1>3, PipeKnown
      <4>2. \A i \in 1..Len(Q) : i + 1 \in 1..Len(P) /\ 1 < i + 1 /\ Q[i] = P[i + 1]
        BY <1>4, <1>5 DEF Removed
      <4> QED
        BY <1>4, <4>1, <4>2 DEF Sorted
    <3>3. \A i \in 1..Len(Q) : Q[i] \notin Continues(c, g)
      <4> SUFFICES ASSUME NEW i \in 1..Len(Q), Q[i] \in Continues(c, g) PROVE FALSE
        OBVIOUS
      <4>1. Q[i].type = "start" /\ Q[i].gen = g
        BY DEF Continues
      <4>2. f.gen <= Q[i].gen
        BY <1>6, <3>1, <3>2, <4>1, FrameType DEF Before
      <4> QED
        BY <1>1, <1>6, <2>2, <3>1, <4>1, <4>2 DEF Numeric
    <3> QED
      BY <3>3 DEF Ahead
  <2> QED
    BY <2>1, <2>2
<1>17. Resumed(c)'
  BY <1>2, <1>10, <1>11 DEF CatchingUp, Resumed
<1>18. Addressed(c)'
  BY <1>4, <1>9 DEF CatchingUp, Addressed
<1> QED
  BY <1>12, <1>13, <1>14, <1>15, <1>16, <1>17, <1>18 DEF CatchingUp

(* What c takes does not save s, or it becomes safe otherwise.             *)
LEMMA SafeTaken ==
  ASSUME ReplayInv, ReplayInv', NEW c \in Clients, CatchingUp(c),
         NEW type, Take(c, type), NEW f, f = Head(cq[c]), NEW s \in 1..ring.tail
  PROVE  /\ f \in Frames /\ f.type = type /\ f.life \in Nat /\ f.seq \in Nat /\ s \in Nat
         /\ f \in Mine(c) /\ f.life <= life
         /\ f \notin Saving(c, s) /\ Has(Pipe(c), Saving(c, s)) => Safe(c, s)'
         /\ f \in Below(s) /\ up /\ resident => Safe(c, s)'
         /\ \A g \in 1..MaxGen : f \in Continues(c, g) => g = cgen[c]
<1>1. TypeOK /\ TypeOK' /\ Numeric /\ PipeShape /\ PipeShape'
  BY Numbers, PipeShaped, PipeShapedNext DEF ReplayInv
<1>2. UNCHANGED <<gen, life, route>>
  BY DEF Take, wrapper
<1>3. PICK P, Q : P = Pipe(c) /\ Q = Pipe(c)'
  OBVIOUS
<1>4. /\ Removed(P, 1, Q) /\ P[1] = f /\ 1 \in 1..Len(P) /\ Len(P) \in Nat
      /\ 1 \in 1..Len(cq[c]) /\ cq[c][1] = f
  BY <1>1, <1>3, PipeTaken DEF PipeShape
<1>5. f \in Frames /\ f.type = type /\ f \in Mine(c) /\ f.life <= life
      /\ f.life \in Nat /\ f.seq \in Nat
  <2>1. f \in Frames /\ Known(f) /\ f.life \in Nat
    BY <1>3, <1>4, PipeKnown, FrameType
  <2>2. f.seq \in Nat
    BY <2>1, FrameType
  <2>3. f.type = type /\ f \in Mine(c)
    BY <1>4 DEF Take, CatchingUp, Addressed
  <2> QED
    BY <1>1, <2>1, <2>2, <2>3 DEF Known, Numeric
<1>6. /\ \A Y : f \notin Y /\ Has(P, Y) => Has(Q, Y)
      /\ \A X, Y : f \in X /\ Behind(P, X, Y) => Has(Q, Y)
  BY <1>4, RemovedFacts
<1>7. Saving(c, s)' = Saving(c, s)
  BY <1>2, SetsKept
<1>8. f \notin Saving(c, s) /\ Has(P, Saving(c, s)) => Safe(c, s)'
  BY <1>3, <1>6, <1>7 DEF Safe
<1>9. ASSUME f \in Below(s), up, resident PROVE Safe(c, s)'
  <2>1. Has(Q, Live(s) \cup Calls)
    BY <1>3, <1>6, <1>9 DEF CatchingUp, Followed
  <2>2. Live(s) \cup Calls \subseteq Saving(c, s)
    BY SetFacts DEF Saving
  <2> QED
    BY <1>3, <1>7, <2>1, <2>2 DEF Safe, Has
<1>10. ASSUME NEW g \in 1..MaxGen, f \in Continues(c, g), g # cgen[c] PROVE FALSE
  <2>1. Ahead(P, Continues(c, g), Snapshots(c, g))
    BY <1>3, <1>10 DEF CatchingUp, Continued
  <2>2. \E q \in 1..Len(P) : q < 1
    BY <1>4, <1>10, <2>1 DEF Ahead
  <2> QED
    BY <1>4, <2>2
<1>11. s \in Nat
  BY <1>1 DEF Numeric
<1> QED
  BY <1>3, <1>5, <1>8, <1>9, <1>10, <1>11

(* A frame with a History covers the event or is followed by it.           *)
LEMMA SafeCovered ==
  ASSUME ReplayInv, ReplayInv', NEW c \in Clients, CatchingUp(c),
         NEW type, Take(c, type), NEW f, f = Head(cq[c]), type \in {"start", "snapshot"},
         Covers(f) \subseteq seen'[c], up, resident, NEW s \in 1..ring.tail
  PROVE  Safe(c, s)'
<1>1. /\ f \in Frames /\ f.type = type /\ f.life \in Nat /\ f.seq \in Nat /\ s \in Nat
      /\ f.life <= life /\ (f \in Below(s) => Safe(c, s)') /\ s >= 1 /\ life \in Nat
      /\ life' = life
  <2>1. s >= 1 /\ life \in Nat /\ life' = life
    BY Numbers DEF ReplayInv, Numeric, Take, wrapper
  <2> QED
    BY <2>1, SafeTaken
<1>2. CASE f.life = life /\ f.seq >= s
  <2>1. s \in 1..f.seq
    BY <1>1, <1>2
  <2>2. <<life, s>> \in Covers(f)
    BY <1>2, <2>1 DEF Covers
  <2> QED
    BY <1>1, <2>2 DEF Safe
<1>3. CASE f.life < life \/ f.seq < s
  <2>1. f \in Below(s)
    BY <1>1, <1>3 DEF Below
  <2> QED
    BY <1>1, <2>1
<1> QED
  BY <1>1, <1>2, <1>3

LEMMA CatchingSnapshot ==
  ASSUME ReplayInv, ReplayInv', NEW c \in Clients, TakeSnapshot(c), CatchingUp(c)
  PROVE  CatchingUp(c)'
<1>1. TypeOK
  BY DEF ReplayInv
<1>2. PICK f : f = Head(cq[c])
  OBVIOUS
<1>3. /\ Take(c, "snapshot") /\ inbox' = inbox /\ cgen'[c] = f.gen /\ ~rebuilding'[c]
      /\ Covers(f) \subseteq seen'[c]
  BY <1>1, <1>2 DEF TakeSnapshot, TypeOK
<1>4. \A s \in 1..ring.tail : Served(c) => Safe(c, s)'
  BY <1>2, <1>3, SafeCovered DEF Served
<1> QED
  BY <1>2, <1>3, <1>4, CatchingTaken

LEMMA CatchingStart ==
  ASSUME ReplayInv, ReplayInv', NEW c \in Clients, TakeStart(c), CatchingUp(c)
  PROVE  CatchingUp(c)'
<1>1. TypeOK
  BY DEF ReplayInv
<1>2. PICK f : f = Head(cq[c])
  OBVIOUS
<1>3. /\ Take(c, "start") /\ inbox' = inbox /\ cgen'[c] = f.gen
      /\ rebuilding'[c] = f.rebuild
      /\ UNCHANGED <<life, route>>
      /\ cursor'[c] = IF f.rebuild THEN 0 ELSE CursorIn(c, f.gen)
      /\ seen'[c] = IF f.truncated \/ f.rebuild THEN seen[c] \cup Covers(f) ELSE seen[c]
      /\ orphan'[c] = (~Answers(f, c) \/ ((orphan[c] \/ f.stray) /\ ~f.rebuild))
  BY <1>1, <1>2 DEF TakeStart, Take, wrapper, TypeOK
<1>4. ASSUME NEW s \in 1..ring.tail, Served(c), Safe(c, s) PROVE Safe(c, s)'
  <2>0. up /\ resident /\ route[c] # 0
    BY <1>4 DEF Served
  <2>1. CASE f.truncated \/ f.rebuild
    <3>1. Covers(f) \subseteq seen'[c]
      BY <1>3, <2>1
    <3> QED
      BY <1>2, <1>3, <2>0, <3>1, SafeCovered
  <2>2. CASE ~(f.truncated \/ f.rebuild) /\ (~Answers(f, c) \/ f.stray \/ orphan[c])
    BY <1>3, <2>2 DEF Safe
  <2>3. CASE ~(f.truncated \/ f.rebuild) /\ Answers(f, c) /\ ~f.stray /\ ~orphan[c]
    <3>1. /\ f \in Frames /\ f.type = "start"
          /\ f \notin Saving(c, s) /\ Has(Pipe(c), Saving(c, s)) => Safe(c, s)'
          /\ \A g \in 1..MaxGen : f \in Continues(c, g) => g = cgen[c]
      BY <1>2, <1>3, SafeTaken
    <3>2. f \in Ours(c)
      BY <2>0, <2>3, <3>1 DEF Answers, Ours
    <3>3. f.gen \in 1..MaxGen /\ f \in Continues(c, f.gen)
      BY <2>3, <3>1, <3>2 DEF Continues, Frames
    <3>4. cursor'[c] = cursor[c] /\ seen'[c] = seen[c]
      BY <1>3, <2>3, <3>1, <3>3 DEF CursorIn
    <3>5. f \notin Saving(c, s)
      BY <2>3, <3>1, <3>2 DEF Saving, Gives, Strays, Calls, Resets
    <3> QED
      BY <1>3, <1>4, <2>3, <3>1, <3>4, <3>5 DEF Safe
  <2> QED
    BY <2>1, <2>2, <2>3
<1> QED
  BY <1>2, <1>3, <1>4, CatchingTaken

LEMMA CatchingEvent ==
  ASSUME ReplayInv, ReplayInv', NEW c \in Clients, TakeEvent(c), CatchingUp(c)
  PROVE  CatchingUp(c)'
<1>1. TypeOK /\ Numeric
  BY Numbers DEF ReplayInv
<1>2. PICK f : f = Head(cq[c])
  OBVIOUS
<1>3. /\ Take(c, "event") /\ inbox' = inbox /\ cgen' = cgen /\ rebuilding' = rebuilding
      /\ UNCHANGED <<life, route>>
  BY DEF TakeEvent, Take, wrapper, browser
<1>4. \/ Stale(c, f) /\ UNCHANGED <<cursor, seen, orphan>>
      \/ /\ cursor'[c] = Bigger(cursor[c], f.seq) /\ (orphan[c] => orphan'[c])
         /\ seen'[c] = seen[c] \cup {<<f.life, f.seq>>}
  BY <1>1, <1>2 DEF TakeEvent, NoteSeq, TypeOK, browser
<1>5. ASSUME NEW s \in 1..ring.tail, Safe(c, s) PROVE Safe(c, s)'
  <2>1. /\ f \in Frames /\ f.type = "event" /\ f.seq \in Nat /\ s \in Nat /\ s >= 1
        /\ (f \notin Saving(c, s) /\ Has(Pipe(c), Saving(c, s)) => Safe(c, s)')
        /\ cursor[c] \in Int
    <3>1. s >= 1 /\ cursor[c] \in Int
      BY <1>1 DEF Numeric
    <3> QED
      BY <1>2, <1>3, <3>1, SafeTaken
  <2>2. f \in Saving(c, s) => f.life = life /\ f.seq = s
    BY <2>1 DEF Saving, Gives, Strays, Calls, Resets
  <2>3. CASE f \in Saving(c, s)
    <3>1. CASE Stale(c, f) /\ UNCHANGED <<cursor, seen, orphan>>
      <4>1. s <= cursor[c]
        BY <2>1, <2>2, <2>3, <3>1 DEF Stale, Bigger
      <4> QED
        BY <3>1, <4>1 DEF Safe
    <3>2. CASE seen'[c] = seen[c] \cup {<<f.life, f.seq>>}
      BY <1>3, <2>2, <2>3, <3>2 DEF Safe
    <3> QED
      BY <1>4, <3>1, <3>2
  <2>4. CASE f \notin Saving(c, s)
    <3>1. /\ orphan[c] => orphan'[c]
          /\ <<life, s>> \in seen[c] => <<life', s>> \in seen'[c]
          /\ s <= cursor[c] => s <= cursor'[c]
      BY <1>3, <1>4, <2>1 DEF Bigger
    <3> QED
      BY <1>5, <2>1, <2>4, <3>1 DEF Safe
  <2> QED
    BY <2>3, <2>4
<1> QED
  BY <1>2, <1>3, <1>5, CatchingTaken

LEMMA CatchingEnd ==
  ASSUME ReplayInv, ReplayInv', NEW c \in Clients, TakeEnd(c), CatchingUp(c)
  PROVE  CatchingUp(c)'
<1>1. TypeOK /\ Numeric
  BY Numbers DEF ReplayInv
<1>2. PICK f : f = Head(cq[c])
  OBVIOUS
<1>3. /\ Take(c, "end") /\ inbox' = inbox /\ cgen' = cgen /\ ~rebuilding'[c]
      /\ UNCHANGED <<life, route, seen>>
      /\ cursor'[c] = Bigger(cursor[c], f.seq) /\ (orphan[c] => orphan'[c])
  BY <1>1, <1>2 DEF TakeEnd, Take, NoteSeq, wrapper, TypeOK
<1>4. ASSUME NEW s \in 1..ring.tail, Safe(c, s) PROVE Safe(c, s)'
  <2>1. /\ f \in Frames /\ f.type = "end" /\ f.seq \in Nat /\ s \in Nat
        /\ (f \notin Saving(c, s) /\ Has(Pipe(c), Saving(c, s)) => Safe(c, s)')
        /\ cursor[c] \in Int
    <3>1. cursor[c] \in Int
      BY <1>1 DEF Numeric
    <3> QED
      BY <1>2, <1>3, <3>1, SafeTaken
  <2>2. f \notin Saving(c, s)
    BY <2>1 DEF Saving, Gives, Strays, Calls, Resets
  <2>3. s <= cursor[c] => s <= cursor'[c]
    BY <1>3, <2>1 DEF Bigger
  <2> QED
    BY <1>3, <1>4, <2>1, <2>2, <2>3 DEF Safe
<1> QED
  BY <1>2, <1>3, <1>4, CatchingTaken

(* The announcement makes c say hello again.                               *)
LEMMA CatchingReconnected ==
  ASSUME ReplayInv, ReplayInv', NEW c \in Clients, TakeReconnected(c), CatchingUp(c)
  PROVE  CatchingUp(c)'
<1>1. TypeOK /\ TypeOK' /\ Numeric /\ PipeShape /\ PipeShape'
  BY Numbers, PipeShaped, PipeShapedNext DEF ReplayInv
<1>2. /\ Take(c, "hello")
      /\ UNCHANGED <<gen, life, resident, ring, up, route>>
      /\ UNCHANGED <<cursor, cgen, rebuilding, seen, orphan>>
  BY DEF TakeReconnected, Take, Hello, wrapper
<1>3. PICK P, Q, f : P = Pipe(c) /\ Q = Pipe(c)' /\ f = Head(cq[c])
  OBVIOUS
<1>4. /\ Removed(P, 1, Q) /\ P[1] = f /\ 1 \in 1..Len(P) /\ Len(P) \in Nat
      /\ \A i \in 1..Len(cq'[c]) : i + 1 \in 1..Len(cq[c]) /\ cq'[c][i] = cq[c][i + 1]
      /\ f.type = "hello"
  BY <1>1, <1>2, <1>3, PipeTaken DEF PipeShape, Take
<1>5. /\ \A X, Y : Behind(P, X, Y) => Behind(Q, X, Y)
      /\ \A X, Y : f \notin Y /\ Ahead(P, X, Y) => Ahead(Q, X, Y)
  BY <1>4, RemovedFacts
<1>6. /\ Mine(c)' = Mine(c) /\ \A s : Live(s)' = Live(s) /\ Below(s)' = Below(s)
      /\ \A g : Continues(c, g)' = Continues(c, g) /\ Snapshots(c, g)' = Snapshots(c, g)
  BY <1>2, SetsKept
<1>7. PICK h : /\ h.client = c /\ h.conn = route[c] /\ h.cursor = cursor[c]
               /\ h.gen = cgen[c]
               /\ inbox' = IF up THEN Append(inbox, h) ELSE inbox
  BY <1>2 DEF TakeReconnected, Hello
<1>8. inbox \in Seq(Hellos) /\ Len(inbox) \in Nat
  BY <1>1 DEF TypeOK
<1>9. ASSUME up
      PROVE  Reached(c)' /\ Asked(c)' /\ Informed(c)' /\ RebuildEnds(c)' /\ Resumed(c)'
  <2>1. PICK n : n = Len(inbox) + 1
    OBVIOUS
  <2>2. /\ n \in 1..Len(inbox') /\ inbox'[n] = h /\ Calling(c, n)'
        /\ \A i \in 1..Len(inbox') :
             i = n \/ (i < n /\ i \in 1..Len(inbox) /\ inbox'[i] = inbox[i]
                       /\ (Calling(c, i)' <=> Calling(c, i)))
    <3>1. /\ n \in 1..Len(inbox') /\ inbox'[n] = h
          /\ \A i \in 1..Len(inbox') :
               i = n \/ (i < n /\ i \in 1..Len(inbox) /\ inbox'[i] = inbox[i])
      BY <1>7, <1>8, <1>9, <2>1
    <3> QED
      BY <1>2, <1>7, <3>1 DEF Calling
  <2>3. Called(c)'
    BY <2>2 DEF Called
  <2>4. Reached(c)' /\ Informed(c)' /\ RebuildEnds(c)'
    BY <2>3 DEF Reached, Informed, RebuildEnds
  <2>5. Asked(c)'
    <3> SUFFICES ASSUME NEW i \in 1..Len(inbox'), NEW s \in 1..ring'.tail,
                        s <= inbox'[i].cursor
                 PROVE  \/ Safe(c, s)'
                        \/ \E j \in 1..Len(inbox') : i < j /\ Calling(c, j)'
      BY DEF Asked
    <3>1. CASE i = n
      BY <1>2, <1>7, <2>2, <3>1 DEF Safe
    <3>2. CASE i < n
      BY <2>2, <3>2
    <3> QED
      BY <2>2, <3>1, <3>2
  <2>6. Resumed(c)'
    BY <1>2, <1>7, <2>2 DEF CatchingUp, Resumed
  <2> QED
    BY <2>4, <2>5, <2>6
<1>10. ASSUME ~up
       PROVE  Reached(c)' /\ Asked(c)' /\ Informed(c)' /\ RebuildEnds(c)' /\ Resumed(c)'
  <2>1. inbox' = inbox /\ ~Served(c)'
    BY <1>2, <1>7, <1>10 DEF Served
  <2>2. Resumed(c)'
    BY <1>2, <2>1 DEF CatchingUp, Resumed, Calling
  <2> QED
    BY <2>1, <2>2 DEF Reached, Asked, Informed, RebuildEnds
<1>11. Followed(c)'
  BY <1>2, <1>3, <1>5, <1>6 DEF CatchingUp, Followed
<1>12. Continued(c)'
  <2>1. \A g : f \notin Snapshots(c, g)
    BY <1>4 DEF Snapshots
  <2> QED
    BY <1>2, <1>3, <1>5, <1>6, <2>1 DEF CatchingUp, Continued
<1>13. Addressed(c)'
  BY <1>4, <1>6 DEF CatchingUp, Addressed
<1> QED
  BY <1>9, <1>10, <1>11, <1>12, <1>13 DEF CatchingUp

(* Another browser's step: nothing of c changes, and c says nothing.       *)
Untouched(c) ==
  /\ UNCHANGED <<gen, life, resident, up, ring, wq, evicted>> /\ cq'[c] = cq[c]
  /\ route'[c] = route[c] /\ cursor'[c] = cursor[c] /\ cgen'[c] = cgen[c]
  /\ rebuilding'[c] = rebuilding[c] /\ orphan'[c] = orphan[c] /\ seen'[c] = seen[c]
  /\ overlap'[c] = overlap[c] /\ owed'[c] = owed[c]
  /\ \/ inbox' = inbox
     \/ \E h : inbox' = Append(inbox, h) /\ h.client # c

LEMMA OthersUntouched ==
  ASSUME TypeOK, NEW d \in Clients, ClientNext(d), NEW c \in Clients, c # d
  PROVE  Untouched(c)
<1>1. TypeOK
  OBVIOUS
<1>2. ASSUME NEW routed, Hello(d, routed)
      PROVE  /\ \/ inbox' = inbox
                \/ \E h : inbox' = Append(inbox, h) /\ h.client # c
             /\ UNCHANGED <<cursor, cgen, rebuilding, seen, orphan, overlap>>
             /\ owed'[c] = owed[c]
  <2>1. PICK h : /\ h.client = d
                 /\ inbox' = IF up THEN Append(inbox, h) ELSE inbox
    BY <1>2 DEF Hello
  <2>2. UNCHANGED <<cursor, cgen, rebuilding, seen, orphan, overlap>>
    BY <1>2 DEF Hello
  <2>3. owed'[c] = owed[c]
    BY <1>1, <1>2 DEF Hello, TypeOK
  <2> QED
    BY <2>1, <2>2, <2>3
<1>3. CASE Connect(d)
  <2>1. /\ UNCHANGED <<gen, life, resident, up, ring, wq, evicted>> /\ cq'[c] = cq[c]
        /\ route'[c] = route[c] /\ Hello(d, TRUE)
    BY <1>1, <1>3 DEF Connect, wrapper, TypeOK
  <2> QED
    BY <1>2, <2>1 DEF Untouched
<1>4. CASE Disconnect(d)
  BY <1>1, <1>4 DEF Untouched, Disconnect, wrapper, link, browser, TypeOK
<1>5. CASE Reload(d)
  BY <1>1, <1>5 DEF Untouched, Reload, wrapper, link, relay, TypeOK
<1>6. CASE TakeReconnected(d)
  <2>1. /\ UNCHANGED <<gen, life, resident, up, ring, wq, evicted>> /\ cq'[c] = cq[c]
        /\ route'[c] = route[c] /\ Hello(d, FALSE)
    BY <1>1, <1>6 DEF TakeReconnected, Take, wrapper, TypeOK
  <2> QED
    BY <1>2, <2>1 DEF Untouched
<1>7. CASE TakeSnapshot(d)
  BY <1>1, <1>7 DEF Untouched, TakeSnapshot, Take, wrapper, TypeOK
<1>8. CASE TakeStart(d)
  BY <1>1, <1>8 DEF Untouched, TakeStart, Take, wrapper, TypeOK
<1>9. CASE TakeEvent(d)
  <2>1. /\ UNCHANGED <<gen, life, resident, up, ring, wq, evicted, inbox>>
        /\ cq'[c] = cq[c] /\ route'[c] = route[c] /\ cgen'[c] = cgen[c]
        /\ rebuilding'[c] = rebuilding[c] /\ owed'[c] = owed[c]
    BY <1>1, <1>9 DEF TakeEvent, Take, wrapper, browser, TypeOK
  <2>2. /\ cursor'[c] = cursor[c] /\ orphan'[c] = orphan[c] /\ seen'[c] = seen[c]
        /\ overlap'[c] = overlap[c]
    <3>1. CASE Stale(d, Head(cq[d]))
      BY <1>9, <3>1 DEF TakeEvent, browser
    <3>2. CASE ~Stale(d, Head(cq[d]))
      BY <1>1, <1>9, <3>2 DEF TakeEvent, NoteSeq, TypeOK
    <3> QED
      BY <3>1, <3>2
  <2> QED
    BY <2>1, <2>2 DEF Untouched
<1>10. CASE TakeEnd(d)
  BY <1>1, <1>10 DEF Untouched, TakeEnd, Take, NoteSeq, wrapper, TypeOK
<1> QED
  BY <1>3, <1>4, <1>5, <1>6, <1>7, <1>8, <1>9, <1>10 DEF ClientNext

LEMMA CatchingOther ==
  ASSUME ReplayInv, ReplayInv', NEW d \in Clients, ClientNext(d),
         NEW c \in Clients, c # d, CatchingUp(c)
  PROVE  CatchingUp(c)'
<1>1. TypeOK /\ TypeOK'
  BY DEF ReplayInv
<1>2. Untouched(c)
  BY <1>1, OthersUntouched
<1> QED
  BY <1>1, <1>2, CatchingStill DEF Untouched

LEMMA CatchingOwn ==
  ASSUME ReplayInv, ReplayInv', NEW c \in Clients, ClientNext(c), CatchingUp(c)
  PROVE  CatchingUp(c)'
<1>1. TypeOK /\ ClientInv(c)
  BY DEF ReplayInv
<1>2. CASE Disconnect(c)
  <2>1. /\ UNCHANGED <<gen, life, resident, ring, up, inbox, wq>>
        /\ route'[c] = 0 /\ cq'[c] = <<>>
    BY <1>1, <1>2 DEF Disconnect, wrapper, link, TypeOK
  <2> QED
    BY <2>1, CatchingLeave
<1>3. CASE Reload(c)
  <2>1. /\ UNCHANGED <<gen, life, resident, ring, up, inbox, wq>>
        /\ route'[c] = 0 /\ cq'[c] = <<>>
    BY <1>1, <1>3 DEF Reload, wrapper, link, relay, ClientInv
  <2> QED
    BY <2>1, CatchingLeave
<1> QED
  BY <1>2, <1>3, CatchingConnect, CatchingReconnected, CatchingSnapshot, CatchingStart,
     CatchingEvent, CatchingEnd DEF ClientNext

LEMMA InitCatching == Init => \A c \in Clients : CatchingUp(c)
<1> SUFFICES ASSUME Init, NEW c \in Clients PROVE CatchingUp(c)
  OBVIOUS
<1>1. /\ wq = <<>> /\ inbox = <<>> /\ cq[c] = <<>> /\ route[c] = 0
      /\ Len(inbox) = 0 /\ Len(cq[c]) = 0
  BY DEF Init
<1>2. Len(Pipe(c)) = 0
  <2>1. <<>> \o <<>> = <<>>
    OBVIOUS
  <2> QED
    BY <1>1, <2>1 DEF Pipe
<1>3. \A X, Y : Behind(Pipe(c), X, Y) /\ Ahead(Pipe(c), X, Y)
  BY <1>2 DEF Behind, Ahead
<1>4. Followed(c) /\ Continued(c)
  BY <1>3 DEF Followed, Continued
<1>5. Reached(c) /\ Asked(c) /\ Informed(c) /\ RebuildEnds(c)
  BY <1>1 DEF Reached, Asked, Informed, RebuildEnds, Served
<1>6. Resumed(c) /\ Addressed(c)
  BY <1>1 DEF Resumed, Addressed
<1> QED
  BY <1>4, <1>5, <1>6 DEF CatchingUp

LEMMA StepCatching ==
  ReplayInv /\ ReplayInv' /\ (\A c \in Clients : CatchingUp(c)) /\ [Next]_vars
    => \A c \in Clients : CatchingUp(c)'
<1> SUFFICES ASSUME ReplayInv, ReplayInv', [Next]_vars, NEW c \in Clients, CatchingUp(c)
             PROVE  CatchingUp(c)'
  OBVIOUS
<1>1. TypeOK /\ TypeOK' /\ PoolInv /\ Numeric
  BY Numbers DEF ReplayInv
<1>2. CASE EmitUser \/ EmitDelta \/ EmitTurnEnd
  <2>1. PICK kind, from : EmitEvent(kind, from)
    BY <1>2, Zenon DEF EmitUser, EmitDelta, EmitTurnEnd
  <2>2. turnFrom' <= ring.tail + 1
    <3>1. CASE EmitUser
      BY <1>1, <3>1 DEF EmitUser, Numeric
    <3>2. CASE EmitDelta
      BY <1>1, <3>2 DEF EmitDelta, Numeric, PoolInv
    <3>3. CASE EmitTurnEnd
      BY <1>1, <3>3 DEF EmitTurnEnd, Numeric
    <3> QED
      BY <1>2, <3>1, <3>2, <3>3
  <2> QED
    BY <2>1, <2>2, CatchingEmit
<1>3. CASE WrapperNext
  BY <1>2, <1>3, CatchingHello, CatchingEvict, CatchingRespawn, CatchingRestart
     DEF WrapperNext
<1>4. CASE LinkNext
  BY <1>4, CatchingLinkDown, CatchingLinkUp, CatchingForward DEF LinkNext
<1>5. CASE \E d \in Clients : ClientNext(d)
  BY <1>5, CatchingOwn, CatchingOther
<1>6. CASE UNCHANGED vars
  <2>1. UNCHANGED <<gen, life, resident, up, ring, wq, inbox>>
    BY <1>6 DEF vars, wrapper, link
  <2>2. UNCHANGED <<route, cq, cursor, cgen, rebuilding, seen, orphan>>
    BY <1>6 DEF vars, relay, browser
  <2> QED
    BY <1>1, <2>1, <2>2, CatchingStill
<1> QED
  BY <1>3, <1>4, <1>5, <1>6 DEF Next

(* Whatever a browser has not got, and every rebuild it has not finished,  *)
(* is behind a frame or a hello on its way.                                *)
THEOREM CatchUpInvariance == Spec => [](\A c \in Clients : CatchingUp(c))
<1>1. Init => \A c \in Clients : CatchingUp(c)
  BY InitCatching
<1>2. ReplayInv /\ ReplayInv' /\ (\A c \in Clients : CatchingUp(c)) /\ [Next]_vars
        => (\A c \in Clients : CatchingUp(c))'
  BY StepCatching
<1> QED
  BY <1>1, <1>2, ReplayInvariance, PTL DEF Spec

(* Once nothing is on its way, a connected browser knows the wrapper's     *)
(* generation, has no rebuild open, and unless it took an orphan event it  *)
(* has every event beyond its cursor (web/src/ws.ts, wrapper/machine.py).  *)
THEOREM ReplayCaughtUp == Spec => []CaughtUp
<1>1. ReplayInv /\ (\A c \in Clients : CatchingUp(c)) => CaughtUp
  <2> SUFFICES ASSUME ReplayInv, NEW c \in Clients, CatchingUp(c), Quiet(c)
               PROVE  cgen[c] = gen /\ ~rebuilding[c] /\ (~orphan[c] => UpToDate(c))
    BY DEF CaughtUp
  <2>1. Served(c) /\ ~Called(c)
    <3>1. inbox = <<>> /\ Len(inbox) = 0
      BY DEF Quiet
    <3> QED
      BY <3>1 DEF Served, Called, Quiet
  <2>2. \A Y : ~Has(Pipe(c), Y)
    <3>1. Len(Pipe(c)) = 0
      <4>1. <<>> \o <<>> = <<>> /\ Len(<<>>) = 0
        OBVIOUS
      <4> QED
        BY <4>1 DEF Quiet, Pipe
    <3> QED
      BY <3>1 DEF Has
  <2>3. cgen[c] = gen /\ ~rebuilding[c]
    BY <2>1, <2>2 DEF CatchingUp, Informed, RebuildEnds
  <2>4. \A s \in 1..ring.tail : orphan[c] \/ <<life, s>> \in seen[c] \/ s <= cursor[c]
    BY <2>1, <2>2 DEF CatchingUp, Reached, Safe
  <2>5. ~orphan[c] => UpToDate(c)
    <3> SUFFICES ASSUME ~orphan[c], NEW s \in Bigger(cursor[c], 0) + 1 .. ring.tail
                 PROVE  <<life, s>> \in seen[c]
      BY DEF UpToDate
    <3>1. cursor[c] \in Int /\ ring.tail \in Nat
      BY Numbers DEF ReplayInv, Numeric
    <3>2. s \in 1..ring.tail /\ ~(s <= cursor[c])
      BY <3>1 DEF Bigger
    <3> QED
      BY <2>4, <3>2
  <2> QED
    BY <2>3, <2>5
<1> QED
  BY <1>1, ReplayInvariance, CatchUpInvariance, PTL

-----------------------------------------------------------------------------
(***************************************************************************)
(* SessionReplay: why an event below the cursor of a browser was seen,     *)
(* while the session was not evicted in this generation.                   *)
(*                                                                         *)
(* Since(P, p, b, Y, Z): when c will have taken the frames of P in front   *)
(* of the pth, a flag is set that is b now, that every frame of Y sets and *)
(* that only a frame of Z clears.                                          *)
(***************************************************************************)
Active == resident /\ ~evicted

Since(P, p, b, Y, Z) ==
  \/ b /\ \A k \in 1..(p - 1) : P[k] \notin Z
  \/ \E q \in 1..(p - 1) : P[q] \in Y /\ \A k \in (q + 1)..(p - 1) : P[k] \notin Z

(* What clears overlap, orphan and owed.                                   *)
OwnResets(c) == {f \in Ours(c) : Resets(f)}
OwnRebuilds(c) == {f \in Ours(c) : f.type = "start" /\ f.rebuild}
OwnCloses(c) == {f \in Ours(c) : f.type \in {"end", "snapshot"}}

(* In front of the pth frame c will have event s, or will be an orphan, or *)
(* have an overlap, or not know the generation; or it will owe itself the  *)
(* answer to a hello.                                                      *)
Explained(c, p, s) ==
  \/ Since(Pipe(c), p, <<life, s>> \in seen[c], Gives(c, s), {})
  \/ Since(Pipe(c), p, orphan[c], Strays(c), OwnRebuilds(c))
  \/ Since(Pipe(c), p, overlap[c], {}, OwnResets(c))
  \/ Since(Pipe(c), p, cgen[c] # gen, {}, Renews(c))

Pending(c, p) == Since(Pipe(c), p, owed[c], Calls, OwnCloses(c))

(* The events that f moves the cursor past without giving them.            *)
Under(f) == {s \in 1..f.seq : s < f.seq \/ f.type = "end"}

(* Every event is explained behind all that is on its way, and in front of *)
(* a frame that moves the cursor past it.                                  *)
Accounted(c) ==
  Active /\ up /\ route[c] # 0 =>
    \A s \in 1..ring.tail :
      Explained(c, Len(Pipe(c)) + 1, s) \/ Pending(c, Len(Pipe(c)) + 1)

CountedAt(c, p) ==
  \A s \in Under(Pipe(c)[p]) :
    /\ Pipe(c)[p] \in Ours(c) => Explained(c, p, s)
    /\ Pipe(c)[p].to = Nobody => Explained(c, p, s) \/ Pending(c, p)

Counted(c) ==
  Active /\ route[c] # 0 =>
    \A p \in 1..Len(Pipe(c)) :
      Pipe(c)[p].type \in {"event", "end"} /\ Pipe(c)[p].life = life => CountedAt(c, p)

(* A frame that names the ring's tail does not fall behind those ahead.    *)
Rising(P) ==
  \A q, p \in 1..Len(P) :
    /\ q < p /\ P[q].type # "hello" /\ P[p].type \in {"start", "snapshot", "end"}
    /\ P[q].life = P[p].life
    => P[q].seq <= P[p].seq

(* One generation has one incarnation, as long as nothing was evicted.     *)
Native(c) ==
  ~evicted =>
    /\ \A p \in 1..Len(Pipe(c)) :
         Pipe(c)[p].type # "hello" /\ Pipe(c)[p].gen = gen =>
           resident /\ Pipe(c)[p].life = life
    /\ cgen[c] = gen => resident

(* A browser that knows no generation has no cursor.                       *)
Undated(c) == cgen[c] = 0 => cursor[c] <= 0 \/ orphan[c]

(* The cursor n is not ahead of the ring, nor of a replay_start to come.   *)
Within(c, n) ==
  /\ n <= ring.tail
  /\ \A p \in 1..Len(Pipe(c)) :
       Pipe(c)[p].type = "start" /\ Pipe(c)[p].life = life => n <= Pipe(c)[p].seq

Bounded(c) == Active /\ ~orphan[c] /\ cgen[c] = gen => Within(c, cursor[c])

Filled(c) ==
  Active /\ ~orphan[c] /\ ~overlap[c] /\ cgen[c] = gen =>
    \A s \in 1..cursor[c] : <<life, s>> \in seen[c]

(* The same of the cursor that a hello names.                              *)
Recalled(c) ==
  Active =>
    \A i \in 1..Len(inbox) :
      Calling(c, i) /\ ~inbox[i].stray /\ inbox[i].gen = gen =>
        /\ Within(c, inbox[i].cursor)
        /\ \A s \in 1..inbox[i].cursor : <<life, s>> \in seen[c] \/ orphan[c] \/ overlap[c]

(* The parts that need nothing of the frames but what they name.           *)
Consistent(c) ==
  /\ Rising(Pipe(c)) /\ Native(c) /\ Undated(c) /\ Bounded(c) /\ Filled(c) /\ Recalled(c)

Completing(c) == Consistent(c) /\ Accounted(c) /\ Counted(c)

-----------------------------------------------------------------------------
(* What sequences do to Since.                                             *)
LEMMA SinceAgrees ==
  ASSUME NEW P, NEW Q, NEW p \in Nat, \A i \in 1..(p - 1) : Q[i] = P[i],
         NEW b, NEW Y, NEW Z
  PROVE  Since(P, p, b, Y, Z) => Since(Q, p, b, Y, Z)
<1>1. \A q \in 1..(p - 1) : \A k \in (q + 1)..(p - 1) : k \in 1..(p - 1)
  OBVIOUS
<1> QED
  BY <1>1 DEF Since

(* Nothing in front of r clears it.                                        *)
LEMMA SinceLonger ==
  ASSUME NEW P, NEW p \in Nat, NEW r \in Nat, p <= r, NEW b, NEW Y, NEW Z,
         \A k \in p..(r - 1) : P[k] \notin Z, Since(P, p, b, Y, Z)
  PROVE  Since(P, r, b, Y, Z)
<1>1. \A k \in 1..(r - 1) : k \in 1..(p - 1) \/ k \in p..(r - 1)
  OBVIOUS
<1>2. CASE b /\ \A k \in 1..(p - 1) : P[k] \notin Z
  BY <1>1, <1>2 DEF Since
<1>3. ASSUME NEW q \in 1..(p - 1), P[q] \in Y, \A k \in (q + 1)..(p - 1) : P[k] \notin Z
      PROVE  Since(P, r, b, Y, Z)
  <2>1. q \in 1..(r - 1)
    OBVIOUS
  <2>2. \A k \in (q + 1)..(r - 1) : k \in (q + 1)..(p - 1) \/ k \in p..(r - 1)
    OBVIOUS
  <2> QED
    BY <1>3, <2>1, <2>2 DEF Since
<1> QED
  BY <1>2, <1>3 DEF Since

(* The first frame is taken.                                               *)
LEMMA SinceTaken ==
  ASSUME NEW P, NEW Q, Removed(P, 1, Q), Len(P) \in Nat,
         NEW p \in 2..(Len(P) + 1), NEW b, NEW n, NEW Y, NEW Z,
         b /\ P[1] \notin Z => n, P[1] \in Y => n, Since(P, p, b, Y, Z)
  PROVE  Since(Q, p - 1, n, Y, Z)
<1>1. /\ p \in Nat /\ p - 1 \in Nat
      /\ \A k \in 1..((p - 1) - 1) : k + 1 \in 2..(p - 1) /\ k + 1 \in 1..(p - 1)
                                     /\ Q[k] = P[k + 1]
  <2>1. Len(Q) = Len(P) - 1 /\ p \in Nat /\ p >= 2 /\ p <= Len(P) + 1
    BY DEF Removed
  <2>2. \A k \in 1..((p - 1) - 1) : /\ k \in 1..Len(Q) /\ ~(k < 1)
                                  /\ k + 1 \in 2..(p - 1) /\ k + 1 \in 1..(p - 1)
    BY <2>1
  <2>3. \A k \in 1..Len(Q) : ~(k < 1) => Q[k] = P[k + 1]
    BY DEF Removed
  <2> QED
    BY <2>1, <2>2, <2>3
<1>2. CASE b /\ \A k \in 1..(p - 1) : P[k] \notin Z
  <2>1. 1 \in 1..(p - 1)
    OBVIOUS
  <2> QED
    BY <1>1, <1>2, <2>1 DEF Since
<1>3. ASSUME NEW q \in 1..(p - 1), P[q] \in Y, \A k \in (q + 1)..(p - 1) : P[k] \notin Z
      PROVE  Since(Q, p - 1, n, Y, Z)
  <2>1. CASE q = 1
    <3>1. \A k \in 1..((p - 1) - 1) : Q[k] \notin Z
      BY <1>1, <1>3, <2>1
    <3> QED
      BY <1>3, <2>1, <3>1 DEF Since
  <2>2. CASE q # 1
    <3>1. q - 1 \in 1..((p - 1) - 1) /\ (q - 1) + 1 = q
      BY <2>2
    <3>2. Q[q - 1] \in Y
      BY <1>1, <1>3, <3>1
    <3>3. \A k \in ((q - 1) + 1)..((p - 1) - 1) : k + 1 \in (q + 1)..(p - 1)
                                               /\ k \in 1..((p - 1) - 1)
      BY <1>1
    <3>4. \A k \in ((q - 1) + 1)..((p - 1) - 1) : Q[k] \notin Z
      BY <1>1, <1>3, <3>3
    <3> QED
      BY <3>1, <3>2, <3>4 DEF Since
  <2> QED
    BY <2>1, <2>2
<1> QED
  BY <1>2, <1>3 DEF Since

(* A frame that does not matter leaves from in front of the pth.           *)
LEMMA SincePassed ==
  ASSUME NEW P, NEW Q, NEW j, Removed(P, j, Q), Len(P) \in Nat,
         NEW p \in 1..(Len(P) + 1), j < p, NEW b, NEW Y, NEW Z,
         P[j] \notin Y, Since(P, p, b, Y, Z)
  PROVE  Since(Q, p - 1, b, Y, Z)
<1>1. /\ p \in Nat /\ p - 1 \in Nat /\ j \in Nat /\ j >= 1
      /\ \A k \in 1..((p - 1) - 1) : /\ k < j => Q[k] = P[k]
                                     /\ ~(k < j) => Q[k] = P[k + 1]
  <2>1. j \in 1..Len(P) /\ Len(Q) = Len(P) - 1
    BY DEF Removed
  <2>2. \A i \in 1..Len(Q) : (i < j => Q[i] = P[i]) /\ (~(i < j) => Q[i] = P[i + 1])
    BY DEF Removed
  <2>3. p \in Nat /\ p - 1 \in Nat /\ j \in Nat /\ j >= 1
    BY <2>1
  <2>4. \A k \in 1..((p - 1) - 1) : k \in 1..Len(Q)
    BY <2>1
  <2> QED
    BY <2>2, <2>3, <2>4
<1>2. CASE b /\ \A k \in 1..(p - 1) : P[k] \notin Z
  <2>1. \A k \in 1..((p - 1) - 1) : k \in 1..(p - 1) /\ k + 1 \in 1..(p - 1)
    BY <1>1
  <2> QED
    BY <1>1, <1>2, <2>1 DEF Since
<1>3. ASSUME NEW q \in 1..(p - 1), P[q] \in Y, \A k \in (q + 1)..(p - 1) : P[k] \notin Z
      PROVE  Since(Q, p - 1, b, Y, Z)
  <2>1. CASE q < j
    <3>1. q \in 1..((p - 1) - 1) /\ Q[q] \in Y
      BY <1>1, <1>3, <2>1
    <3>2. \A k \in (q + 1)..((p - 1) - 1) : /\ k \in (q + 1)..(p - 1)
                                           /\ k + 1 \in (q + 1)..(p - 1)
                                           /\ k \in 1..((p - 1) - 1)
      BY <1>1
    <3>3. \A k \in (q + 1)..((p - 1) - 1) : Q[k] \notin Z
      BY <1>1, <1>3, <3>2
    <3> QED
      BY <3>1, <3>3 DEF Since
  <2>2. CASE q > j
    <3>1. q - 1 \in 1..((p - 1) - 1) /\ (q - 1) + 1 = q /\ ~(q - 1 < j)
      BY <1>1, <2>2
    <3>2. Q[q - 1] \in Y
      BY <1>1, <1>3, <3>1
    <3>3. \A k \in ((q - 1) + 1)..((p - 1) - 1) : /\ k + 1 \in (q + 1)..(p - 1)
                                               /\ k \in 1..((p - 1) - 1)
                                               /\ ~(k < j)
      BY <1>1, <2>2
    <3>4. \A k \in ((q - 1) + 1)..((p - 1) - 1) : Q[k] \notin Z
      BY <1>1, <1>3, <3>3
    <3> QED
      BY <3>1, <3>2, <3>4 DEF Since
  <2>3. q < j \/ q > j
    BY <1>1, <1>3
  <2> QED
    BY <2>1, <2>2, <2>3
<1> QED
  BY <1>2, <1>3 DEF Since

(* Q holds some of the frames of P in their order.                         *)
Thins(P, Q) ==
  /\ \A i \in 1..Len(Q) : \E k \in 1..Len(P) : Q[i] = P[k]
  /\ \A i, j \in 1..Len(Q) :
       i < j => \E k, m \in 1..Len(P) : k < m /\ Q[i] = P[k] /\ Q[j] = P[m]

LEMMA ThinsRemoved ==
  ASSUME NEW P, NEW Q, NEW k, Removed(P, k, Q), Len(P) \in Nat
  PROVE  Thins(P, Q)
<1>1. \A i \in 1..Len(Q) : \/ i < k /\ i \in 1..Len(P) /\ Q[i] = P[i]
                           \/ ~(i < k) /\ i + 1 \in 1..Len(P) /\ Q[i] = P[i + 1]
  BY DEF Removed
<1>2. \A i \in 1..Len(Q) : \E m \in 1..Len(P) : Q[i] = P[m]
  BY <1>1
<1>3. ASSUME NEW i \in 1..Len(Q), NEW j \in 1..Len(Q), i < j
      PROVE  \E m, n \in 1..Len(P) : m < n /\ Q[i] = P[m] /\ Q[j] = P[n]
  <2>0. k \in Nat
    BY DEF Removed
  <2>1. CASE j < k
    <3>1. i < k
      BY <1>3, <2>0, <2>1
    <3> QED
      BY <1>1, <1>3, <2>1, <3>1
  <2>2. CASE ~(j < k) /\ i < k
    <3>1. i < j + 1
      BY <1>3
    <3> QED
      BY <1>1, <2>2, <3>1
  <2>3. CASE ~(i < k)
    <3>1. ~(j < k) /\ i + 1 < j + 1
      BY <1>3, <2>0, <2>3
    <3> QED
      BY <1>1, <2>3, <3>1
  <2> QED
    BY <2>1, <2>2, <2>3
<1> QED
  BY <1>2, <1>3 DEF Thins

LEMMA ThinsCut ==
  ASSUME NEW P, NEW Q, NEW k, CutAt(P, k, Q), Len(P) \in Nat
  PROVE  Thins(P, Q)
<1>1. \A i \in 1..Len(Q) : i + k \in 1..Len(P) /\ Q[i] = P[i + k]
  BY DEF CutAt
<1>2. \A i, j \in 1..Len(Q) : i < j => i + k < j + k
  BY DEF CutAt
<1> QED
  BY <1>1, <1>2 DEF Thins

LEMMA ThinsStart ==
  ASSUME NEW P, NEW Q, \A i \in 1..Len(Q) : i \in 1..Len(P) /\ Q[i] = P[i]
  PROVE  Thins(P, Q)
BY DEF Thins

LEMMA ThinsRising ==
  ASSUME NEW P, NEW Q, Thins(P, Q), Rising(P)
  PROVE  Rising(Q)
<1> SUFFICES ASSUME NEW q \in 1..Len(Q), NEW p \in 1..Len(Q), q < p,
                    Q[q].type # "hello", Q[p].type \in {"start", "snapshot", "end"},
                    Q[q].life = Q[p].life
             PROVE  Q[q].seq <= Q[p].seq
  BY DEF Rising
<1>1. PICK k \in 1..Len(P), m \in 1..Len(P) : k < m /\ Q[q] = P[k] /\ Q[p] = P[m]
  BY DEF Thins
<1> QED
  BY <1>1 DEF Rising

LEMMA OwnSetsKept ==
  ASSUME NEW c, life' = life, gen' = gen, route'[c] = route[c]
  PROVE  /\ OwnResets(c)' = OwnResets(c) /\ OwnRebuilds(c)' = OwnRebuilds(c)
         /\ OwnCloses(c)' = OwnCloses(c)
<1>1. Ours(c)' = Ours(c)
  BY SetsKept
<1> QED
  BY <1>1 DEF OwnResets, OwnRebuilds, OwnCloses

LEMMA OwnSetsMine ==
  ASSUME NEW c \in Clients
  PROVE  /\ OwnResets(c) \subseteq Mine(c) /\ OwnRebuilds(c) \subseteq OwnResets(c)
         /\ OwnCloses(c) \subseteq Mine(c) /\ Strays(c) \subseteq Mine(c)
         /\ \A s : Gives(c, s) \subseteq Mine(c)
<1>1. Ours(c) \subseteq Mine(c)
  BY SetFacts
<1> QED
  BY <1>1 DEF OwnResets, OwnRebuilds, OwnCloses, Strays, Gives, Resets

(* If every frame that could undo what excuses c has the event itself, the *)
(* event is explained.                                                     *)
LEMMA Recover ==
  ASSUME TypeOK, NEW c \in Clients, CatchingUp(c), NEW s \in Nat,
         NEW p \in 1..(Len(Pipe(c)) + 1),
         \A k \in 1..(p - 1) :
           /\ Pipe(c)[k] \in Mine(c)
           /\ \/ Pipe(c)[k].type = "start"
              \/ Pipe(c)[k].type = "snapshot" /\ cgen[c] # gen
           => Pipe(c)[k].life = life /\ Pipe(c)[k].seq >= s,
         <<life, s>> \in seen[c] \/ orphan[c] \/ overlap[c] \/ cgen[c] # gen
  PROVE  Explained(c, p, s)
<1>1. PICK P : P = Pipe(c)
  OBVIOUS
<1>2. /\ p \in Nat /\ \A k \in 1..(p - 1) : k \in Nat /\ k \in 1..Len(P)
      /\ gen \in 1..MaxGen
  BY <1>1, PipeShaped DEF PipeShape, TypeOK
<1>3. ASSUME NEW q \in 1..(p - 1), P[q] \in Gives(c, s) PROVE Explained(c, p, s)
  <2>1. Since(P, p, <<life, s>> \in seen[c], Gives(c, s), {})
    BY <1>3 DEF Since
  <2> QED
    BY <1>1, <2>1 DEF Explained
<1>4. ASSUME \A q \in 1..(p - 1) : P[q] \notin Gives(c, s) PROVE Explained(c, p, s)
  <2>1. \A k \in 1..(p - 1) : P[k] \notin OwnResets(c)
    <3> SUFFICES ASSUME NEW k \in 1..(p - 1), P[k] \in OwnResets(c) PROVE FALSE
      OBVIOUS
    <3>1. P[k] \in Mine(c) /\ Resets(P[k]) /\ P[k].type = "start"
      BY OwnSetsMine DEF OwnResets, Resets
    <3>2. P[k].life = life /\ P[k].seq >= s
      BY <1>1, <3>1
    <3> QED
      BY <1>4, <3>1, <3>2 DEF Gives
  <2>2. \A k \in 1..(p - 1) : P[k] \notin OwnRebuilds(c)
    BY <2>1, OwnSetsMine
  <2>3. CASE <<life, s>> \in seen[c]
    BY <1>1, <2>3 DEF Explained, Since
  <2>4. CASE orphan[c]
    BY <1>1, <2>2, <2>4 DEF Explained, Since
  <2>5. CASE overlap[c]
    BY <1>1, <2>1, <2>5 DEF Explained, Since
  <2>6. CASE cgen[c] # gen
    <3>1. CASE \A k \in 1..(p - 1) : P[k] \notin Renews(c)
      BY <1>1, <2>6, <3>1 DEF Explained, Since
    <3>2. ASSUME NEW k \in 1..(p - 1), P[k] \in Renews(c) PROVE Explained(c, p, s)
      <4>1. P[k] \in Mine(c) /\ P[k].type \in {"start", "snapshot"} /\ P[k].gen = gen
        BY <3>2 DEF Renews
      <4>2. P[k].life = life /\ P[k].seq >= s
        BY <1>1, <2>6, <4>1
      <4>3. P[k].type = "start" /\ ~Resets(P[k])
        BY <1>4, <4>1, <4>2 DEF Gives
      <4>4. CASE P[k] \in Strays(c)
        <5>1. \A m \in (k + 1)..(p - 1) : m \in 1..(p - 1)
          BY <1>2
        <5>2. Since(P, p, orphan[c], Strays(c), OwnRebuilds(c))
          BY <2>2, <4>4, <5>1 DEF Since
        <5> QED
          BY <1>1, <5>2 DEF Explained
      <4>5. CASE P[k] \notin Strays(c)
        <5>1. P[k] \in Continues(c, gen)
          BY <4>1, <4>3, <4>5 DEF Strays, Continues, Resets
        <5>2. PICK q \in 1..Len(P) : q < k /\ P[q] \in Snapshots(c, gen)
          BY <1>1, <1>2, <2>6, <5>1 DEF CatchingUp, Continued, Ahead
        <5>3. q \in 1..(p - 1)
          BY <1>2, <5>2
        <5>4. P[q] \in Mine(c) /\ P[q].type = "snapshot"
          BY <5>2, SetFacts DEF Snapshots
        <5>5. P[q].life = life /\ P[q].seq >= s
          BY <1>1, <2>6, <5>3, <5>4
        <5>6. P[q] \in Gives(c, s)
          BY <5>4, <5>5 DEF Gives
        <5> QED
          BY <1>4, <5>3, <5>6
      <4> QED
        BY <4>4, <4>5
    <3> QED
      BY <3>1, <3>2
  <2> QED
    BY <2>3, <2>4, <2>5, <2>6
<1> QED
  BY <1>3, <1>4

(* The browser and its connection are as before.                           *)
Unmoved(c) ==
  /\ UNCHANGED <<gen, life>>
  /\ route'[c] = route[c] /\ cursor'[c] = cursor[c] /\ cgen'[c] = cgen[c]
  /\ seen'[c] = seen[c] /\ orphan'[c] = orphan[c] /\ overlap'[c] = overlap[c]
  /\ owed'[c] = owed[c]

LEMMA ExplainedAgrees ==
  ASSUME NEW c \in Clients, Unmoved(c), NEW p \in Nat,
         \A i \in 1..(p - 1) : Pipe(c)'[i] = Pipe(c)[i]
  PROVE  /\ \A s : Explained(c, p, s) => Explained(c, p, s)'
         /\ Pending(c, p) => Pending(c, p)'
<1>1. PICK P, Q : P = Pipe(c) /\ Q = Pipe(c)'
  OBVIOUS
<1>2. \A b, Y, Z : Since(P, p, b, Y, Z) => Since(Q, p, b, Y, Z)
  BY <1>1, SinceAgrees
<1>3. /\ \A s : Gives(c, s)' = Gives(c, s)
      /\ Strays(c)' = Strays(c) /\ Renews(c)' = Renews(c)
      /\ OwnResets(c)' = OwnResets(c) /\ OwnRebuilds(c)' = OwnRebuilds(c)
      /\ OwnCloses(c)' = OwnCloses(c)
  BY SetsKept, OwnSetsKept DEF Unmoved
<1>4. ASSUME NEW s, Explained(c, p, s) PROVE Explained(c, p, s)'
  <2>1. \/ Since(P, p, <<life, s>> \in seen[c], Gives(c, s), {})
        \/ Since(P, p, orphan[c], Strays(c), OwnRebuilds(c))
        \/ Since(P, p, overlap[c], {}, OwnResets(c))
        \/ Since(P, p, cgen[c] # gen, {}, Renews(c))
    BY <1>1, <1>4 DEF Explained
  <2>2. \/ Since(Q, p, <<life, s>> \in seen[c], Gives(c, s), {})
        \/ Since(Q, p, orphan[c], Strays(c), OwnRebuilds(c))
        \/ Since(Q, p, overlap[c], {}, OwnResets(c))
        \/ Since(Q, p, cgen[c] # gen, {}, Renews(c))
    BY <1>2, <2>1
  <2>3. \/ Since(Q, p, (<<life, s>> \in seen[c])', Gives(c, s)', {})
        \/ Since(Q, p, orphan'[c], Strays(c)', OwnRebuilds(c)')
        \/ Since(Q, p, overlap'[c], {}, OwnResets(c)')
        \/ Since(Q, p, (cgen[c] # gen)', {}, Renews(c)')
    BY <1>3, <2>2 DEF Unmoved
  <2> QED
    BY <1>1, <2>3 DEF Explained
<1>5. ASSUME Pending(c, p) PROVE Pending(c, p)'
  <2>1. Since(P, p, owed[c], Calls, OwnCloses(c))
    BY <1>1, <1>5 DEF Pending
  <2>2. Since(Q, p, owed'[c], Calls, OwnCloses(c)')
    BY <1>2, <1>3, <2>1 DEF Unmoved
  <2> QED
    BY <1>1, <2>2 DEF Pending
<1> QED
  BY <1>4, <1>5

PipesKnown ==
  \A c \in Clients : \A i \in 1..Len(Pipe(c)) : Pipe(c)[i] \in Frames /\ Known(Pipe(c)[i])

LEMMA PipesAreKnown == ReplayInv => PipesKnown
BY PipeKnown DEF PipesKnown

LEMMA PipesKnownNext == ReplayInv' => PipesKnown'
BY PipesAreKnown, PTL

(* Frames leave the pipe, and c may say hello.                             *)
LEMMA ConsistentThin ==
  ASSUME NEW c \in Clients, Consistent(c), Thins(Pipe(c), Pipe(c)'),
         UNCHANGED <<gen, life, resident, ring, evicted>>,
         cursor'[c] = cursor[c], cgen'[c] = cgen[c], seen'[c] = seen[c],
         orphan'[c] = orphan[c], overlap'[c] = overlap[c],
         \A i \in 1..Len(inbox') : Calling(c, i)' =>
           \/ \E j \in 1..Len(inbox) : Calling(c, j) /\ inbox'[i] = inbox[j]
           \/ /\ inbox'[i].stray = orphan[c] /\ inbox'[i].cursor = cursor[c]
              /\ inbox'[i].gen = cgen[c]
  PROVE  Consistent(c)'
<1>1. PICK P, Q : P = Pipe(c) /\ Q = Pipe(c)'
  OBVIOUS
<1>2. \A i \in 1..Len(Q) : \E k \in 1..Len(P) : Q[i] = P[k]
  BY <1>1 DEF Thins
<1>3. Rising(Q)
  BY <1>1, ThinsRising DEF Consistent
<1>4. Native(c)' /\ Undated(c)' /\ (Active' <=> Active)
  BY <1>1, <1>2 DEF Consistent, Native, Undated, Active
<1>5. \A n : Within(c, n) => Within(c, n)'
  BY <1>1, <1>2 DEF Within
<1>6. Bounded(c)' /\ Filled(c)'
  BY <1>4, <1>5 DEF Consistent, Bounded, Filled
<1>7. Recalled(c)'
  <2> SUFFICES ASSUME Active, NEW i \in 1..Len(inbox'), Calling(c, i)', ~inbox'[i].stray,
                      inbox'[i].gen = gen
               PROVE  /\ Within(c, inbox'[i].cursor)
                      /\ \A s \in 1..inbox'[i].cursor :
                           <<life, s>> \in seen[c] \/ orphan[c] \/ overlap[c]
    BY <1>4, <1>5 DEF Recalled
  <2>1. CASE \E j \in 1..Len(inbox) : Calling(c, j) /\ inbox'[i] = inbox[j]
    BY <2>1 DEF Consistent, Recalled
  <2>2. CASE /\ inbox'[i].stray = orphan[c] /\ inbox'[i].cursor = cursor[c]
             /\ inbox'[i].gen = cgen[c]
    BY <2>2 DEF Consistent, Bounded, Filled
  <2> QED
    BY <2>1, <2>2
<1> QED
  BY <1>1, <1>3, <1>4, <1>6, <1>7 DEF Consistent

(* The wrapper sends frames of the present incarnation.                    *)
LEMMA ConsistentGrown ==
  ASSUME ReplayInv, ReplayInv', NEW c \in Clients, Consistent(c), NEW fs,
         Grown(Pipe(c), fs, Pipe(c)'), Len(fs) \in Nat,
         UNCHANGED <<gen, life, resident, evicted>>, ring.tail <= ring'.tail,
         \A k \in 1..Len(fs) : fs[k].type # "hello" =>
           /\ resident /\ fs[k].life = life
           /\ fs[k].type # "event" => fs[k].seq = ring'.tail,
         cursor'[c] = cursor[c], cgen'[c] = cgen[c], seen'[c] = seen[c],
         orphan'[c] = orphan[c], overlap'[c] = overlap[c],
         \A i \in 1..Len(inbox') : Calling(c, i)' =>
           \E j \in 1..Len(inbox) : Calling(c, j) /\ inbox'[i] = inbox[j]
  PROVE  Consistent(c)'
<1>1. PICK P, Q : P = Pipe(c) /\ Q = Pipe(c)'
  OBVIOUS
<1>2. /\ TypeOK /\ TypeOK' /\ Numeric /\ Numeric' /\ PipeShape
      /\ Len(P) \in Nat
  BY <1>1, Numbers, NumbersNext, PipeShaped DEF ReplayInv, PipeShape
<1>3. /\ Len(Q) = Len(P) + Len(fs) /\ \A i \in 1..Len(P) : Q[i] = P[i]
      /\ \A i \in 1..Len(fs) : Q[Len(P) + i] = fs[i]
  BY <1>1 DEF Grown
<1>4. ASSUME NEW i \in 1..Len(Q)
      PROVE  \/ i \in 1..Len(P) /\ Q[i] = P[i]
             \/ i > Len(P) /\ \E k \in 1..Len(fs) : Q[i] = fs[k]
  <2>1. CASE i <= Len(P)
    BY <1>2, <1>3, <2>1
  <2>2. CASE ~(i <= Len(P))
    <3>1. i - Len(P) \in 1..Len(fs) /\ Len(P) + (i - Len(P)) = i /\ i > Len(P)
      BY <1>2, <1>3, <2>2
    <3>2. Q[i] = fs[i - Len(P)]
      BY <1>3, <3>1
    <3> QED
      BY <3>1, <3>2
  <2> QED
    BY <2>1, <2>2
<1>k. \A i \in 1..Len(Q) : Q[i] \in Frames /\ Known(Q[i])'
  BY <1>1, PipesKnownNext DEF PipesKnown
<1>5. Rising(Q)
  <2> SUFFICES ASSUME NEW q \in 1..Len(Q), NEW p \in 1..Len(Q), q < p,
                      Q[q].type # "hello", Q[p].type \in {"start", "snapshot", "end"},
                      Q[q].life = Q[p].life
               PROVE  Q[q].seq <= Q[p].seq
    BY DEF Rising
  <2>1. CASE p \in 1..Len(P)
    <3>1. q \in 1..Len(P) /\ Q[q] = P[q] /\ Q[p] = P[p]
      BY <1>2, <1>3, <2>1
    <3> QED
      BY <1>1, <2>1, <3>1 DEF Consistent, Rising
  <2>2. ASSUME NEW k \in 1..Len(fs), Q[p] = fs[k] PROVE Q[q].seq <= Q[p].seq
    <3>1. resident' /\ Q[p].life = life' /\ Q[p].seq = ring'.tail
      BY <2>2
    <3>2. Known(Q[q])'
      BY <1>k
    <3> QED
      BY <3>1, <3>2 DEF Known
  <2> QED
    BY <1>4, <2>1, <2>2
<1>6. Native(c)' /\ Undated(c)' /\ (Active' <=> Active)
  BY <1>1, <1>4 DEF Consistent, Native, Undated, Active
<1>7. ASSUME NEW n \in Int, Within(c, n) PROVE Within(c, n)'
  <2>1. n <= ring.tail /\ n <= ring'.tail
    BY <1>2, <1>7 DEF Within, Numeric
  <2>2. ASSUME NEW p \in 1..Len(Q), Q[p].type = "start", Q[p].life = life
        PROVE  n <= Q[p].seq
    BY <1>1, <1>4, <1>7, <2>1, <2>2 DEF Within
  <2> QED
    BY <1>1, <2>1, <2>2 DEF Within
<1>8. Bounded(c)' /\ Filled(c)'
  <2>1. cursor[c] \in Int
    BY <1>2, ReplayAssumption DEF TypeOK, NoCursor
  <2> QED
    BY <1>6, <1>7, <2>1 DEF Consistent, Bounded, Filled
<1>9. Recalled(c)'
  <2> SUFFICES ASSUME Active, NEW i \in 1..Len(inbox'), Calling(c, i)', ~inbox'[i].stray,
                      inbox'[i].gen = gen
               PROVE  /\ Within(c, inbox[i].cursor)'
                      /\ \A s \in 1..inbox'[i].cursor :
                           <<life, s>> \in seen[c] \/ orphan[c] \/ overlap[c]
    BY <1>6 DEF Recalled
  <2>1. PICK j \in 1..Len(inbox) : Calling(c, j) /\ inbox'[i] = inbox[j]
    OBVIOUS
  <2>2. inbox[j].cursor \in Int
    <3>1. inbox \in Seq(Hellos) /\ \A x \in Hellos : x.cursor \in Int
      BY <1>2, ReplayAssumption DEF TypeOK, Hellos, NoCursor
    <3> QED
      BY <3>1
  <2>3. PICK n : n = inbox[j].cursor
    OBVIOUS
  <2>4. Within(c, n) /\ \A s \in 1..n : <<life, s>> \in seen[c] \/ orphan[c] \/ overlap[c]
    BY <2>1, <2>3 DEF Consistent, Recalled
  <2>5. Within(c, n)'
    BY <1>7, <2>2, <2>3, <2>4
  <2>6. inbox'[i].cursor = n
    BY <2>1, <2>3
  <2>7. Within(c, inbox[i].cursor)'
    BY <2>5, <2>6 DEF Within
  <2> QED
    BY <2>4, <2>6, <2>7
<1> QED
  BY <1>1, <1>5, <1>6, <1>8, <1>9 DEF Consistent

(* What is explained in front of the pth frame stays so while nothing      *)
(* between it and the rth takes it back.                                   *)
LEMMA ExplainedFurther ==
  ASSUME TypeOK, NEW c \in Clients, NEW p \in Nat, NEW r \in Nat, p <= r,
         \A k \in p..(r - 1) : Pipe(c)[k] \notin OwnResets(c),
         cgen[c] = gen \/ \A k \in p..(r - 1) : Pipe(c)[k] \notin Renews(c),
         NEW s, Explained(c, p, s)
  PROVE  Explained(c, r, s)
<1>1. \A k \in p..(r - 1) : Pipe(c)[k] \notin OwnRebuilds(c)
  BY OwnSetsMine
<1>2. CASE Since(Pipe(c), p, <<life, s>> \in seen[c], Gives(c, s), {})
  BY <1>2, SinceLonger DEF Explained
<1>3. CASE Since(Pipe(c), p, orphan[c], Strays(c), OwnRebuilds(c))
  BY <1>1, <1>3, SinceLonger DEF Explained
<1>4. CASE Since(Pipe(c), p, overlap[c], {}, OwnResets(c))
  BY <1>4, SinceLonger DEF Explained
<1>5. CASE Since(Pipe(c), p, cgen[c] # gen, {}, Renews(c))
  <2>1. cgen[c] # gen
    BY <1>5 DEF Since
  <2>2. Since(Pipe(c), r, cgen[c] # gen, {}, Renews(c))
    BY <1>5, <2>1, SinceLonger
  <2> QED
    BY <2>2 DEF Explained
<1> QED
  BY <1>2, <1>3, <1>4, <1>5 DEF Explained

LEMMA PendingFurther ==
  ASSUME NEW c \in Clients, NEW p \in Nat, NEW r \in Nat, p <= r,
         \A k \in p..(r - 1) : Pipe(c)[k] \notin OwnCloses(c),
         Pending(c, p)
  PROVE  Pending(c, r)
BY SinceLonger DEF Pending

(* The next state's, stated of the next state.                             *)
Furthers ==
  \A c \in Clients : \A p, r \in Nat : p <= r =>
    /\ \A s :
         /\ \A k \in p..(r - 1) : Pipe(c)[k] \notin OwnResets(c)
         /\ cgen[c] = gen \/ \A k \in p..(r - 1) : Pipe(c)[k] \notin Renews(c)
         /\ Explained(c, p, s)
         => Explained(c, r, s)
    /\ /\ \A k \in p..(r - 1) : Pipe(c)[k] \notin OwnCloses(c)
       /\ Pending(c, p)
       => Pending(c, r)

LEMMA FurthersHold == TypeOK => Furthers
BY ExplainedFurther, PendingFurther DEF Furthers

LEMMA FurthersNext == TypeOK' => Furthers'
BY FurthersHold, PTL

(* The frames of the pipe up to the pth are as before.                     *)
LEMMA CountedAgrees ==
  ASSUME TypeOK, NEW c \in Clients, Unmoved(c), Active, route[c] # 0, Counted(c),
         NEW p \in 1..Len(Pipe(c)), \A i \in 1..p : Pipe(c)'[i] = Pipe(c)[i],
         Pipe(c)[p].type \in {"event", "end"}, Pipe(c)[p].life = life
  PROVE  CountedAt(c, p)'
<1>1. p \in Nat /\ \A i \in 1..(p - 1) : i \in 1..p
  BY PipeShaped DEF PipeShape
<1>2. /\ \A s : Explained(c, p, s) => Explained(c, p, s)'
      /\ Pending(c, p) => Pending(c, p)'
  BY <1>1, ExplainedAgrees
<1>3. Pipe(c)'[p] = Pipe(c)[p] /\ Ours(c)' = Ours(c)
  <2>1. p \in 1..p
    BY <1>1
  <2> QED
    BY <2>1, SetsKept DEF Unmoved
<1>4. CountedAt(c, p)
  BY DEF Counted
<1> QED
  BY <1>2, <1>3, <1>4 DEF CountedAt, Under

(* The pipe, the session and the browser are as before.                    *)
LEMMA CompletingStill ==
  ASSUME TypeOK, TypeOK', NEW c \in Clients, Completing(c), Unmoved(c),
         UNCHANGED <<resident, ring, evicted>>, up' => up,
         Len(Pipe(c)') <= Len(Pipe(c)),
         \A i \in 1..Len(Pipe(c)') : Pipe(c)'[i] = Pipe(c)[i],
         up' => Len(Pipe(c)') = Len(Pipe(c)),
         \A i \in 1..Len(inbox') : Calling(c, i)' =>
           \E j \in 1..Len(inbox) : Calling(c, j) /\ inbox'[i] = inbox[j]
  PROVE  Completing(c)'
<1>1. Len(Pipe(c)) \in Nat /\ Len(Pipe(c)') \in Nat
      /\ \A i \in 1..Len(Pipe(c)') : i \in 1..Len(Pipe(c))
  <2>1. Len(Pipe(c)) \in Nat /\ Len(Pipe(c)') \in Nat
    BY PipeShaped, PipeShapedNext DEF PipeShape
  <2> QED
    BY <2>1
<1>2. Thins(Pipe(c), Pipe(c)')
  BY <1>1, ThinsStart
<1>3. Consistent(c)'
  BY <1>2, ConsistentThin DEF Completing, Unmoved
<1>4. Active' = Active /\ route'[c] = route[c] /\ life' = life
  BY DEF Active, Unmoved
<1>5. Accounted(c)'
  <2> SUFFICES ASSUME Active, up', route[c] # 0, NEW s \in 1..ring.tail
               PROVE  Explained(c, Len(Pipe(c)) + 1, s)' \/ Pending(c, Len(Pipe(c)) + 1)'
    BY <1>4 DEF Accounted
  <2>1. PICK n \in Nat : n = Len(Pipe(c)) + 1 /\ n = Len(Pipe(c)') + 1
                         /\ \A i \in 1..(n - 1) : i \in 1..Len(Pipe(c)')
    BY <1>1
  <2>2. Explained(c, n, s) \/ Pending(c, n)
    BY <2>1 DEF Completing, Accounted
  <2>3. Explained(c, n, s)' \/ Pending(c, n)'
    BY <2>1, <2>2, ExplainedAgrees
  <2> QED
    BY <2>1, <2>3 DEF Explained, Pending
<1>6. Counted(c)'
  <2> SUFFICES ASSUME Active, route[c] # 0, NEW p \in 1..Len(Pipe(c)'),
                      Pipe(c)'[p].type \in {"event", "end"}, Pipe(c)'[p].life = life
               PROVE  CountedAt(c, p)'
    BY <1>4 DEF Counted
  <2>1. p \in 1..Len(Pipe(c)) /\ \A i \in 1..p : i \in 1..Len(Pipe(c)')
    BY <1>1
  <2> QED
    BY <2>1, CountedAgrees DEF Completing
<1> QED
  BY <1>3, <1>5, <1>6 DEF Completing

(* c has no connection.                                                    *)
LEMMA CompletingLeave ==
  ASSUME TypeOK, TypeOK', NEW c \in Clients, Completing(c),
         UNCHANGED <<gen, life, resident, ring, evicted, inbox>>,
         cursor'[c] = cursor[c], cgen'[c] = cgen[c], seen'[c] = seen[c],
         orphan'[c] = orphan[c], overlap'[c] = overlap[c],
         route'[c] = 0, cq'[c] = <<>>,
         wq' = wq \/ (wq # <<>> /\ wq' = Tail(wq))
  PROVE  Completing(c)'
<1>1. Thins(Pipe(c), Pipe(c)')
  BY PipeLeft, ThinsCut
<1>2. \A i \in 1..Len(inbox') : ~Calling(c, i)'
  <2>1. \A h \in Hellos : h.conn # 0
    <3>1. \A h \in Hellos : h.conn \in 1..MaxRoute
      BY DEF Hellos
    <3>2. \A n \in 1..MaxRoute : n # 0
      BY ReplayAssumption
    <3> QED
      BY <3>1, <3>2
  <2>2. \A i \in 1..Len(inbox) : inbox[i].conn # 0
    <3>1. inbox \in Seq(Hellos)
      BY DEF TypeOK
    <3> QED
      BY <2>1, <3>1
  <2> QED
    BY <2>2 DEF Calling
<1>3. Consistent(c)'
  BY <1>1, <1>2, ConsistentThin DEF Completing
<1>4. Accounted(c)' /\ Counted(c)'
  BY DEF Accounted, Counted
<1> QED
  BY <1>3, <1>4 DEF Completing

LEMMA GrownIndex ==
  ASSUME NEW P, NEW Q, NEW fs, Grown(P, fs, Q), Len(P) \in Nat, Len(fs) \in Nat,
         NEW i \in 1..Len(Q)
  PROVE  \/ i \in 1..Len(P) /\ Q[i] = P[i]
         \/ \E k \in 1..Len(fs) : i = Len(P) + k /\ Q[i] = fs[k]
<1>1. /\ Len(Q) = Len(P) + Len(fs) /\ \A j \in 1..Len(P) : Q[j] = P[j]
      /\ \A j \in 1..Len(fs) : Q[Len(P) + j] = fs[j]
  BY DEF Grown
<1>2. CASE i <= Len(P)
  BY <1>1, <1>2
<1>3. CASE ~(i <= Len(P))
  <2>1. i - Len(P) \in 1..Len(fs) /\ Len(P) + (i - Len(P)) = i
    BY <1>1, <1>3
  <2> QED
    BY <1>1, <2>1
<1> QED
  BY <1>2, <1>3

(* What was explained behind the whole pipe still is, in front of fs.      *)
LEMMA AccountedAgrees ==
  ASSUME TypeOK, NEW c \in Clients, Unmoved(c), Accounted(c), Active, up, route[c] # 0,
         NEW fs, Grown(Pipe(c), fs, Pipe(c)'), NEW n, n = Len(Pipe(c)),
         NEW s \in 1..ring.tail
  PROVE  Explained(c, n + 1, s)' \/ Pending(c, n + 1)'
<1>1. n + 1 \in Nat /\ \A i \in 1..((n + 1) - 1) : i \in 1..Len(Pipe(c))
  <2>1. n \in Nat
    BY PipeShaped DEF PipeShape
  <2> QED
    BY <2>1
<1>2. \A i \in 1..((n + 1) - 1) : Pipe(c)'[i] = Pipe(c)[i]
  BY <1>1 DEF Grown
<1>3. Explained(c, n + 1, s) \/ Pending(c, n + 1)
  BY DEF Accounted
<1> QED
  BY <1>1, <1>2, <1>3, ExplainedAgrees

(* The wrapper sends fs.                                                   *)
LEMMA CompletingGrown ==
  ASSUME ReplayInv, ReplayInv', NEW c \in Clients, Completing(c), Unmoved(c), NEW fs,
         Grown(Pipe(c), fs, Pipe(c)'), Len(fs) \in Nat,
         UNCHANGED <<resident, evicted>>, ring.tail <= ring'.tail,
         \A k \in 1..Len(fs) : fs[k].type # "hello" =>
           /\ resident /\ fs[k].life = life
           /\ fs[k].type # "event" => fs[k].seq = ring'.tail,
         \A i \in 1..Len(inbox') : Calling(c, i)' =>
           \E j \in 1..Len(inbox) : Calling(c, j) /\ inbox'[i] = inbox[j],
         NEW n, n = Len(Pipe(c)),
         Active /\ route[c] # 0 =>
           /\ \A k \in 1..Len(fs) :
                fs[k].type \in {"event", "end"} /\ fs[k].life = life => CountedAt(c, n + k)'
           /\ up' => \A s \in 1..ring'.tail :
                Explained(c, n + Len(fs) + 1, s)' \/ Pending(c, n + Len(fs) + 1)'
  PROVE  Completing(c)'
<1>1. Consistent(c)'
  BY ConsistentGrown DEF Completing, Unmoved
<1>2. Active' = Active /\ route'[c] = route[c] /\ life' = life
  BY DEF Active, Unmoved
<1>3. n \in Nat /\ Len(Pipe(c)') = n + Len(fs) /\ TypeOK
  <2>1. Len(Pipe(c)) \in Nat
    BY PipeShaped DEF PipeShape, ReplayInv
  <2> QED
    BY <2>1 DEF Grown, ReplayInv
<1>4. Accounted(c)'
  <2> SUFFICES ASSUME Active, up', route[c] # 0, NEW s \in 1..ring'.tail
               PROVE  Explained(c, Len(Pipe(c)) + 1, s)' \/ Pending(c, Len(Pipe(c)) + 1)'
    BY <1>2 DEF Accounted
  <2>1. Explained(c, n + Len(fs) + 1, s)' \/ Pending(c, n + Len(fs) + 1)'
    OBVIOUS
  <2>2. (Len(Pipe(c)) + 1)' = n + Len(fs) + 1
    BY <1>3
  <2> QED
    BY <2>1, <2>2 DEF Explained, Pending
<1>5. Counted(c)'
  <2> SUFFICES ASSUME Active, route[c] # 0, NEW p \in 1..Len(Pipe(c)'),
                      Pipe(c)'[p].type \in {"event", "end"}, Pipe(c)'[p].life = life
               PROVE  CountedAt(c, p)'
    BY <1>2 DEF Counted
  <2>1. \/ p \in 1..Len(Pipe(c)) /\ Pipe(c)'[p] = Pipe(c)[p]
        \/ \E k \in 1..Len(fs) : p = n + k /\ Pipe(c)'[p] = fs[k]
    <3>1. PICK P, Q : P = Pipe(c) /\ Q = Pipe(c)'
      OBVIOUS
    <3>2. Grown(P, fs, Q) /\ Len(P) \in Nat /\ p \in 1..Len(Q) /\ n = Len(P)
      BY <1>3, <3>1
    <3>3. \/ p \in 1..Len(P) /\ Q[p] = P[p]
          \/ \E k \in 1..Len(fs) : p = Len(P) + k /\ Q[p] = fs[k]
      BY <3>2, GrownIndex
    <3> QED
      BY <3>1, <3>2, <3>3
  <2>2. CASE p \in 1..Len(Pipe(c)) /\ Pipe(c)'[p] = Pipe(c)[p]
    <3>1. \A i \in 1..p : i \in 1..Len(Pipe(c))
      BY <1>3, <2>2
    <3>2. \A i \in 1..p : Pipe(c)'[i] = Pipe(c)[i]
      BY <3>1 DEF Grown
    <3> QED
      BY <1>3, <2>2, <3>2, CountedAgrees DEF Completing
  <2>3. CASE \E k \in 1..Len(fs) : p = n + k /\ Pipe(c)'[p] = fs[k]
    BY <2>3
  <2> QED
    BY <2>1, <2>2, <2>3
<1> QED
  BY <1>1, <1>4, <1>5 DEF Completing

LEMMA CompletingEmit ==
  ASSUME ReplayInv, ReplayInv', NEW kind, NEW from, EmitEvent(kind, from),
         turnFrom' <= ring.tail + 1, NEW c \in Clients, Completing(c)
  PROVE  Completing(c)'
<1>1. TypeOK /\ TypeOK' /\ Numeric /\ PipeShape /\ PipeShape'
  BY Numbers, PipeShaped, PipeShapedNext DEF ReplayInv
<1>2. /\ UNCHANGED <<gen, life, resident, up, inbox, evicted>> /\ resident
      /\ UNCHANGED <<route, cq, cursor, cgen, seen, orphan, overlap, owed>>
  BY DEF EmitEvent, relay, browser
<1>3. ring'.tail = ring.tail + 1 /\ ring'.tail \in 0..MaxSeq
  BY EmitFacts2
<1>4. PICK f \in Frames : f = Frame("event", ring.tail + 1)
  BY <1>1, <1>3, FrameIsFrame
<1>5. /\ f.type = "event" /\ f.to = Nobody /\ f.seq = ring.tail + 1 /\ f.life = life
  BY <1>4, FrameFields
<1>6. PICK fs : fs = IF up THEN <<f>> ELSE <<>>
  OBVIOUS
<1>7. wq \in Seq(Frames) /\ fs \in Seq(Frames) /\ wq' = wq \o fs
  <2>1. wq \in Seq(Frames)
    BY <1>1 DEF TypeOK
  <2>2. wq' = IF up THEN wq \o <<f>> ELSE wq
    BY <1>4 DEF EmitEvent, Send
  <2>3. wq \o <<>> = wq
    BY <2>1
  <2> QED
    BY <1>6, <2>1, <2>2, <2>3
<1>8. /\ Len(fs) \in Nat /\ \A k \in 1..Len(fs) : fs[k] = f /\ k = 1 /\ up
      /\ up => Len(fs) = 1
  BY <1>6
<1>9. PICK n : n = Len(Pipe(c))
  OBVIOUS
<1>10. Grown(Pipe(c), fs, Pipe(c)') /\ n \in Nat
  BY <1>1, <1>2, <1>7, <1>9, PipeSent DEF PipeShape
<1>11. Unmoved(c)
  BY <1>2 DEF Unmoved
<1>12. ring.tail <= ring'.tail /\ ring.tail \in Nat
  BY <1>1, <1>3 DEF Numeric
<1>13. /\ f \in Mine(c) /\ f \notin Ours(c) /\ ~Resets(f) /\ f \notin Renews(c)
       /\ f \in Gives(c, ring.tail + 1)
  <2>1. f \in Mine(c) /\ f \notin Ours(c) /\ ~Resets(f) /\ f \notin Renews(c)
    BY <1>5, ReplayAssumption DEF Mine, Ours, Resets, Renews
  <2> QED
    BY <1>5, <2>1 DEF Gives
<1>14. /\ f \notin Ours(c)' /\ f \notin Renews(c)' /\ f \notin OwnResets(c)'
       /\ f \notin OwnCloses(c)' /\ \A s : s = ring.tail + 1 => f \in Gives(c, s)'
  <2>1. f \notin OwnResets(c) /\ f \notin OwnCloses(c)
    BY <1>13 DEF OwnResets, OwnCloses
  <2> QED
    BY <1>11, <1>13, <2>1, SetsKept, OwnSetsKept DEF Unmoved
<1>15. ASSUME Active, route[c] # 0, up, NEW s \in 1..ring.tail
       PROVE  Explained(c, n + 1, s)' \/ Pending(c, n + 1)'
  BY <1>1, <1>9, <1>10, <1>11, <1>15, AccountedAgrees DEF Completing
<1>16. ASSUME up PROVE Pipe(c)'[n + 1] = f /\ \A k \in (n + 1)..((n + 2) - 1) : k = n + 1
  <2>1. 1 \in 1..Len(fs) /\ fs[1] = f
    BY <1>6, <1>16
  <2> QED
    BY <1>9, <1>10, <2>1 DEF Grown
<1>17. ASSUME Active, route[c] # 0, NEW k \in 1..Len(fs)
       PROVE  CountedAt(c, n + k)'
  <2>1. k = 1 /\ up /\ Pipe(c)'[n + k] = f
    BY <1>8, <1>16, <1>17
  <2>2. \A s \in Under(f) : s \in 1..ring.tail
    BY <1>5, <1>12 DEF Under
  <2>3. \A s \in Under(f) : Explained(c, n + k, s)' \/ Pending(c, n + k)'
    BY <1>15, <1>17, <2>1, <2>2
  <2> QED
    BY <1>14, <2>1, <2>3 DEF CountedAt, Under
<1>18. ASSUME Active, route[c] # 0, up', NEW s \in 1..ring'.tail
       PROVE  Explained(c, n + Len(fs) + 1, s)' \/ Pending(c, n + Len(fs) + 1)'
  <2>0. up /\ n + Len(fs) + 1 = n + 2 /\ n + 1 \in Nat /\ n + 2 \in Nat /\ n + 1 <= n + 2
    <3>1. up /\ Len(fs) = 1
      BY <1>2, <1>8, <1>18
    <3> QED
      BY <1>10, <3>1
  <2>1. CASE s \in 1..ring.tail
    <3>1. Explained(c, n + 1, s)' \/ Pending(c, n + 1)'
      BY <1>15, <1>18, <2>0, <2>1
    <3>2. Furthers'
      BY <1>1, FurthersNext
    <3>3. \A k \in (n + 1)..((n + 2) - 1) :
            /\ Pipe(c)'[k] \notin OwnResets(c)' /\ Pipe(c)'[k] \notin Renews(c)'
            /\ Pipe(c)'[k] \notin OwnCloses(c)'
      BY <1>16, <1>14, <2>0
    <3>4. Explained(c, n + 2, s)' \/ Pending(c, n + 2)'
      BY <2>0, <3>1, <3>2, <3>3 DEF Furthers
    <3> QED
      BY <2>0, <3>4
  <2>2. CASE s = ring.tail + 1
    <3>1. n + 1 \in 1..((n + 2) - 1)
      BY <1>10
    <3>3. Pipe(c)'[n + 1] \in Gives(c, s)'
      BY <1>16, <1>14, <2>0, <2>2
    <3>2. Since(Pipe(c)', n + 2, (<<life, s>> \in seen[c])', Gives(c, s)', {})
      BY <3>1, <3>3 DEF Since
    <3> QED
      BY <2>0, <3>2 DEF Explained
  <2> QED
    BY <1>3, <1>12, <2>1, <2>2
<1>19. \A i \in 1..Len(inbox') : Calling(c, i)' =>
         \E j \in 1..Len(inbox) : Calling(c, j) /\ inbox'[i] = inbox[j]
  BY <1>2 DEF Calling
<1>20. \A k \in 1..Len(fs) : fs[k].type # "hello" =>
         /\ resident /\ fs[k].life = life
         /\ fs[k].type # "event" => fs[k].seq = ring'.tail
  BY <1>2, <1>5, <1>8
<1> QED
  BY <1>2, <1>8, <1>9, <1>10, <1>11, <1>12, <1>17, <1>18, <1>19, <1>20, CompletingGrown

(* Below the cursor that c's hello names, everything is explained behind   *)
(* what is on its way.                                                     *)
LEMMA RecalledExplained ==
  ASSUME ReplayInv, NEW c \in Clients, CatchingUp(c), Completing(c), Active, route[c] # 0,
         1 \in 1..Len(inbox), Calling(c, 1), ~inbox[1].stray, inbox[1].gen = gen,
         inbox[1].cursor # NoCursor, NEW n, n = Len(Pipe(c)),
         NEW s \in 1..ring.tail, s <= inbox[1].cursor
  PROVE  cgen[c] = gen /\ Explained(c, n + 1, s)
<1>1. TypeOK /\ Numeric /\ n \in Nat /\ s \in Nat
  <2>1. TypeOK /\ Numeric /\ Len(Pipe(c)) \in Nat
    BY Numbers, PipeShaped DEF ReplayInv, PipeShape
  <2> QED
    BY <2>1 DEF Numeric
<1>2. cgen[c] = gen
  BY DEF CatchingUp, Resumed
<1>3. PICK m : m = inbox[1].cursor
  OBVIOUS
<1>4. m \in Int
  <2>1. inbox \in Seq(Hellos) /\ \A x \in Hellos : x.cursor \in Int
    BY <1>1, ReplayAssumption DEF TypeOK, Hellos, NoCursor
  <2> QED
    BY <1>3, <2>1
<1>5. Within(c, m) /\ (<<life, s>> \in seen[c] \/ orphan[c] \/ overlap[c])
  BY <1>1, <1>3, <1>4 DEF Completing, Consistent, Recalled
<1>6. ASSUME NEW k \in 1..((n + 1) - 1), Pipe(c)[k].type = "start"
      PROVE  Pipe(c)[k].life = life /\ Pipe(c)[k].seq >= s
  <2>1. PICK f : f = Pipe(c)[k]
    OBVIOUS
  <2>2. k \in 1..Len(Pipe(c))
    BY <1>1
  <2>3. Coming(f, c) /\ Known(f) /\ f \in Frames
    BY <2>1, <2>2, PipeKnown
  <2>4. f.gen \in 1..MaxGen /\ f.seq \in Nat
    BY <2>3, ReplayAssumption DEF Frames
  <2>5. f.gen = gen
    BY <1>1, <1>2, <1>6, <2>1, <2>3, <2>4 DEF Coming, Known, Numeric
  <2>6. f.life = life
    BY <1>6, <2>1, <2>2, <2>5 DEF Completing, Consistent, Native, Active
  <2>7. m <= f.seq
    BY <1>5, <1>6, <2>1, <2>2, <2>6 DEF Within
  <2> QED
    BY <1>1, <1>3, <1>4, <2>1, <2>4, <2>6, <2>7
<1>7. n + 1 \in 1..(Len(Pipe(c)) + 1)
  BY <1>1
<1>8. Explained(c, n + 1, s)
  BY <1>1, <1>2, <1>5, <1>6, <1>7, Recover
<1> QED
  BY <1>2, <1>8

(* The answer to c's hello explains every event in front of its kth frame  *)
(* that comes only later.                                                  *)
LEMMA AnswerExplains ==
  ASSUME ReplayInv, TypeOK', NEW c \in Clients, CatchingUp(c), Completing(c), Unmoved(c),
         Active, route[c] # 0,
         1 \in 1..Len(inbox), Calling(c, 1), NEW h \in Hellos, h = inbox[1],
         NEW rs, ReplyTo(rs, h), NEW n, n = Len(Pipe(c)),
         Grown(Pipe(c), rs, Pipe(c)'),
         NEW k \in 2..(Len(rs) + 1), NEW s \in 1..ring.tail,
         \/ k = Len(rs) + 1
         \/ rs[k].type = "end"
         \/ rs[k].type = "event" /\ s < rs[k].seq
  PROVE  Explained(c, n + k, s)'
<1>1. /\ TypeOK /\ PoolInv /\ Numeric /\ n \in Nat /\ s \in Nat /\ ring.tail \in Nat
      /\ Len(rs) \in Nat
  <2>1. TypeOK /\ PoolInv /\ Numeric /\ Len(Pipe(c)) \in Nat
    BY Numbers, PipeShaped DEF ReplayInv, PipeShape
  <2>2. rs \in Seq(Frames)
    BY DEF ReplyTo, AnswerTo
  <2> QED
    BY <2>1, <2>2 DEF Numeric
<1>2. PICK Q : Q = Pipe(c)' /\ \A j \in 1..Len(rs) : Q[n + j] = rs[j]
  BY DEF Grown
<1>3. /\ Ours(c)' = Ours(c) /\ Strays(c)' = Strays(c) /\ Renews(c)' = Renews(c)
      /\ OwnResets(c)' = OwnResets(c) /\ OwnRebuilds(c)' = OwnRebuilds(c)
      /\ Gives(c, s)' = Gives(c, s)
  BY SetsKept, OwnSetsKept DEF Unmoved
<1>4. /\ \A j \in 1..Len(rs) : rs[j] \in Ours(c)
      /\ 1 \in 1..Len(rs) /\ rs[1] \in Renews(c)
  BY <1>1, OwnReply DEF Calling
<1>5. /\ \A j \in 1..Len(rs) : rs[j] \in Mine(c) /\ rs[j].life = life
      /\ rs[1].type # "event" => rs[1].seq = ring.tail
  <2>1. \A j \in 1..Len(rs) : rs[j].life = life
    BY DEF ReplyTo, AnswerTo, Answering
  <2>2. \A j \in 1..Len(rs) : rs[j] \in Mine(c)
    BY <1>4, SetFacts
  <2>3. rs[1].type # "event" => rs[1].seq = ring.tail
    BY <1>4 DEF ReplyTo
  <2> QED
    BY <2>1, <2>2, <2>3
<1>6. ASSUME NEW j \in 1..Len(rs), j < k, rs[j] \in Gives(c, s)
      PROVE  Explained(c, n + k, s)'
  <2>1. n + j \in 1..((n + k) - 1) /\ Q[n + j] \in Gives(c, s)'
    <3>1. k \in Nat /\ j \in Nat /\ j >= 1
      BY <1>1
    <3>2. n + j \in 1..((n + k) - 1)
      BY <1>1, <1>6, <3>1
    <3>3. Q[n + j] = rs[j]
      BY <1>2
    <3> QED
      BY <1>3, <1>6, <3>2, <3>3
  <2>2. Since(Q, n + k, (<<life, s>> \in seen[c])', Gives(c, s)', {})
    BY <2>1 DEF Since
  <2> QED
    BY <1>2, <2>2 DEF Explained
<1>7. CASE rs[1].type = "snapshot" \/ Resets(rs[1])
  <2>1. rs[1].seq = ring.tail
    BY <1>5, <1>7 DEF Resets
  <2>2. rs[1] \in Gives(c, s)
    BY <1>1, <1>4, <1>5, <1>7, <2>1 DEF Gives
  <2>3. 1 < k
    BY <1>1
  <2> QED
    BY <1>4, <1>6, <2>2, <2>3
<1>8. CASE ~(rs[1].type = "snapshot" \/ Resets(rs[1]))
  <2>1. /\ h.cursor # NoCursor /\ rs[1].type = "start" /\ ~rs[1].rebuild /\ h.gen = gen
        /\ \A j \in 1..Len(rs) : j = 1 \/ rs[j].type \in {"event", "end"}
        /\ \A x \in 1..ring.tail : x > h.cursor =>
             \E j \in 1..Len(rs) : rs[j].type = "event" /\ rs[j].seq = x
    BY <1>8 DEF ReplyTo, Resets
  <2>2. ASSUME NEW i \in (n + 1)..((n + k) - 1), Q[i].type = "start"
        PROVE  i = n + 1
    <3>1. i - n \in 1..Len(rs) /\ n + (i - n) = i
      BY <1>1
    <3>2. Q[i] = rs[i - n]
      BY <1>2, <3>1
    <3>3. i - n = 1
      BY <2>1, <2>2, <3>1, <3>2
    <3> QED
      BY <1>1, <3>3
  <2>3. \A i \in (n + 1)..((n + k) - 1) : Q[i] \notin OwnResets(c)
    <3>1. Q[n + 1] = rs[1]
      BY <1>2, <1>4
    <3> QED
      BY <1>8, <2>2, <3>1 DEF OwnResets, Resets
  <2>4. CASE h.stray
    <3>1. rs[1] \in Strays(c)
      <4>1. rs[1].stray = h.stray
        BY <1>4 DEF ReplyTo
      <4> QED
        BY <1>4, <1>5, <2>1, <2>4, <4>1 DEF Strays
    <3>2. n + 1 \in 1..((n + k) - 1) /\ Q[n + 1] = rs[1]
      BY <1>1, <1>2, <1>4
    <3>3. \A i \in ((n + 1) + 1)..((n + k) - 1) : i \in (n + 1)..((n + k) - 1)
      BY <1>1
    <3>4. \A i \in ((n + 1) + 1)..((n + k) - 1) : Q[i] \notin OwnRebuilds(c)
      BY <2>3, <3>3, OwnSetsMine
    <3>5. Since(Q, n + k, orphan'[c], Strays(c)', OwnRebuilds(c)')
      BY <1>3, <3>1, <3>2, <3>4 DEF Since
    <3> QED
      BY <1>2, <3>5 DEF Explained
  <2>5. CASE ~h.stray /\ s > h.cursor
    <3>1. PICK j \in 1..Len(rs) : rs[j].type = "event" /\ rs[j].seq = s
      BY <2>1, <2>5
    <3>2. j < k
      <4>1. CASE k = Len(rs) + 1
        BY <1>1, <4>1
      <4>2. CASE k # Len(rs) + 1
        <5>1. k \in 1..Len(rs)
          BY <1>1, <4>2
        <5>2. CASE rs[k].type = "end"
          <6>1. k = Len(rs) /\ j # k
            BY <3>1, <5>1, <5>2 DEF ReplyTo
          <6> QED
            BY <1>1, <6>1
        <5>3. CASE rs[k].type = "event" /\ s < rs[k].seq
          <6>1. k < j => rs[k].seq < rs[j].seq
            BY <3>1, <5>1, <5>3 DEF ReplyTo
          <6>2. rs[k].seq \in Nat
            <7>1. rs[k] \in Frames
              BY <5>1 DEF ReplyTo, AnswerTo, Answering
            <7> QED
              BY <7>1, ReplayAssumption DEF Frames
          <6>3. ~(k < j) /\ j # k
            BY <1>1, <3>1, <5>3, <6>1, <6>2
          <6> QED
            BY <1>1, <6>3
        <5> QED
          BY <4>2, <5>2, <5>3
      <4> QED
        BY <4>1, <4>2
    <3>3. rs[j] \in Gives(c, s)
      BY <1>5, <3>1 DEF Gives
    <3> QED
      BY <1>6, <3>2, <3>3
  <2>6. CASE ~h.stray /\ s <= h.cursor
    <3>1. cgen[c] = gen /\ Explained(c, n + 1, s)
      BY <2>1, <2>6, RecalledExplained
    <3>2. n + 1 \in Nat /\ \A i \in 1..((n + 1) - 1) : i \in 1..Len(Pipe(c))
      BY <1>1
    <3>3. Explained(c, n + 1, s)'
      <4>1. \A i \in 1..((n + 1) - 1) : Pipe(c)'[i] = Pipe(c)[i]
        BY <3>2 DEF Grown
      <4> QED
        BY <3>1, <3>2, <4>1, ExplainedAgrees
    <3>4. Furthers' /\ n + k \in Nat /\ n + 1 <= n + k
      BY <1>1, FurthersNext
    <3>5. \A i \in (n + 1)..((n + k) - 1) : Pipe(c)'[i] \notin OwnResets(c)'
      BY <1>2, <1>3, <2>3
    <3>6. cgen'[c] = gen'
      BY <3>1 DEF Unmoved
    <3> QED
      BY <3>2, <3>3, <3>4, <3>5, <3>6 DEF Furthers
  <2>7. s > h.cursor \/ s <= h.cursor
    <3>1. h.cursor \in Int
      BY ReplayAssumption DEF Hellos, NoCursor
    <3> QED
      BY <1>1, <3>1
  <2> QED
    BY <2>4, <2>5, <2>6, <2>7
<1> QED
  BY <1>7, <1>8

(* The answer to another hello leaves explained what was.                  *)
LEMMA AnswerLeaves ==
  ASSUME ReplayInv, TypeOK', NEW c \in Clients, Completing(c), Unmoved(c),
         Active, up, route[c] # 0,
         NEW h \in Hellos, ~(h.client = c /\ h.conn = route[c]),
         NEW rs, ReplyTo(rs, h), NEW n, n = Len(Pipe(c)),
         Grown(Pipe(c), rs, Pipe(c)'), NEW s \in 1..ring.tail
  PROVE  Explained(c, n + Len(rs) + 1, s)' \/ Pending(c, n + Len(rs) + 1)'
<1>1. /\ TypeOK /\ Numeric /\ n \in Nat /\ s \in Nat /\ ring.tail \in Nat
      /\ Len(rs) \in Nat
  <2>1. TypeOK /\ Numeric /\ Len(Pipe(c)) \in Nat
    BY Numbers, PipeShaped DEF ReplayInv, PipeShape
  <2>2. rs \in Seq(Frames)
    BY DEF ReplyTo, AnswerTo
  <2> QED
    BY <2>1, <2>2 DEF Numeric
<1>2. PICK Q : Q = Pipe(c)' /\ \A j \in 1..Len(rs) : Q[n + j] = rs[j]
  BY DEF Grown
<1>3. PICK r : r = n + Len(rs) + 1
  OBVIOUS
<1>4. /\ Ours(c)' = Ours(c) /\ Strays(c)' = Strays(c) /\ Renews(c)' = Renews(c)
      /\ OwnResets(c)' = OwnResets(c) /\ OwnRebuilds(c)' = OwnRebuilds(c)
      /\ OwnCloses(c)' = OwnCloses(c) /\ Gives(c, s)' = Gives(c, s)
  BY SetsKept, OwnSetsKept DEF Unmoved
<1>5. ASSUME NEW i \in (n + 1)..(r - 1)
      PROVE  \E j \in 1..Len(rs) : Q[i] = rs[j]
  <2>1. i - n \in 1..Len(rs) /\ n + (i - n) = i
    BY <1>1, <1>3
  <2> QED
    BY <1>2, <2>1
<1>6. \A j \in 1..Len(rs) : rs[j] \notin Ours(c)
  <2>1. \A j \in 1..Len(rs) : rs[j].to = h.client /\ rs[j].conn = h.conn
    BY DEF ReplyTo, AnswerTo, Answering
  <2> QED
    BY <2>1 DEF Ours
<1>7. \A i \in (n + 1)..(r - 1) :
        Q[i] \notin OwnResets(c) /\ Q[i] \notin OwnCloses(c) /\ Q[i] \notin OwnRebuilds(c)
  BY <1>5, <1>6 DEF OwnResets, OwnCloses, OwnRebuilds
<1>8. Explained(c, n + 1, s)' \/ Pending(c, n + 1)'
  BY <1>1, AccountedAgrees DEF Completing
<1>9. Furthers' /\ n + 1 \in Nat /\ r \in Nat /\ n + 1 <= r
  BY <1>1, <1>3, FurthersNext
<1>10. CASE Pending(c, n + 1)'
  <2>1. \A i \in (n + 1)..(r - 1) : Pipe(c)'[i] \notin OwnCloses(c)'
    BY <1>2, <1>4, <1>7
  <2>2. Pending(c, r)'
    BY <1>9, <1>10, <2>1 DEF Furthers
  <2> QED
    BY <1>3, <2>2
<1>11. CASE Explained(c, n + 1, s)' /\ \A i \in (n + 1)..(r - 1) : Q[i] \notin Renews(c)
  <2>1. \A i \in (n + 1)..(r - 1) :
          Pipe(c)'[i] \notin OwnResets(c)' /\ Pipe(c)'[i] \notin Renews(c)'
    BY <1>2, <1>4, <1>7, <1>11
  <2>2. Explained(c, r, s)'
    BY <1>9, <1>11, <2>1 DEF Furthers
  <2> QED
    BY <1>3, <2>2
<1>12. ASSUME NEW i \in (n + 1)..(r - 1), Q[i] \in Renews(c)
       PROVE  Explained(c, r, s)'
  <2>1. PICK j \in 1..Len(rs) : Q[i] = rs[j]
    BY <1>5
  <2>2. Q[i] \in Mine(c) /\ Q[i].type \in {"start", "snapshot"}
    BY <1>12 DEF Renews
  <2>3. i \in 1..(r - 1) /\ \A m \in (i + 1)..(r - 1) : m \in (n + 1)..(r - 1)
    BY <1>1, <1>3
  <2>4. CASE Q[i].type = "start"
    <3>1. Q[i] \in Strays(c)
      BY <1>6, <2>1, <2>2, <2>4 DEF Strays
    <3>2. Since(Q, r, orphan'[c], Strays(c)', OwnRebuilds(c)')
      BY <1>4, <1>7, <2>3, <3>1 DEF Since
    <3> QED
      BY <1>2, <3>2 DEF Explained
  <2>5. CASE Q[i].type = "snapshot"
    <3>1. Q[i].life = life /\ Q[i].seq = ring.tail
      <4>1. Answering(rs[j], h) /\ (rs[j].type # "event" => rs[j].seq = ring.tail)
        BY DEF ReplyTo, AnswerTo
      <4> QED
        BY <2>1, <2>5, <4>1 DEF Answering
    <3>2. Q[i] \in Gives(c, s)
      BY <1>1, <2>2, <2>5, <3>1 DEF Gives
    <3>3. Since(Q, r, (<<life, s>> \in seen[c])', Gives(c, s)', {})
      BY <1>4, <2>3, <3>2 DEF Since
    <3> QED
      BY <1>2, <3>3 DEF Explained
  <2> QED
    BY <2>2, <2>4, <2>5
<1> QED
  BY <1>3, <1>8, <1>10, <1>11, <1>12

LEMMA CompletingHello ==
  ASSUME ReplayInv, ReplayInv', HandleHello, NEW c \in Clients, CatchingUp(c), Completing(c)
  PROVE  Completing(c)'
<1>1. TypeOK /\ TypeOK' /\ PoolInv /\ Numeric /\ PipeShape
  BY Numbers, PipeShaped DEF ReplayInv
<1>2. /\ UNCHANGED <<gen, life, resident, ring, turnFrom, evicted, up, route, cq,
                     cursor, cgen, rebuilding, seen, orphan, overlap, owed>>
      /\ inbox # <<>> /\ inbox' = Tail(inbox)
  BY DEF HandleHello, wrapper, relay, browser
<1>3. PICK h \in Hellos : h = Head(inbox)
  BY <1>1, <1>2, CallTaken
<1>4. /\ inbox[1] = h /\ 1 \in 1..Len(inbox)
      /\ \A i \in 1..Len(inbox') : /\ i + 1 \in 1..Len(inbox)
                                   /\ inbox'[i] = inbox[i + 1]
                                   /\ Calling(c, i)' <=> Calling(c, i + 1)
  BY <1>1, <1>2, <1>3, CallTaken
<1>5. PICK rs : ReplyTo(rs, h) /\ wq' = IF up /\ resident THEN wq \o rs ELSE wq
  <2>1. ReplyTo(HelloReply(h), h)
    BY <1>1, HelloReplyContents
  <2>2. wq \o <<>> = wq
    BY <1>1 DEF TypeOK
  <2> QED
    BY <2>1, <2>2, <1>3 DEF HandleHello, Send
<1>6. PICK fs : fs = IF up /\ resident THEN rs ELSE <<>>
  OBVIOUS
<1>7. wq \in Seq(Frames) /\ rs \in Seq(Frames) /\ fs \in Seq(Frames) /\ wq' = wq \o fs
  <2>1. wq \in Seq(Frames) /\ rs \in Seq(Frames)
    BY <1>1, <1>5 DEF TypeOK, ReplyTo, AnswerTo
  <2>2. wq \o <<>> = wq
    BY <2>1
  <2> QED
    BY <1>5, <1>6, <2>1, <2>2
<1>8. PICK n : n = Len(Pipe(c))
  OBVIOUS
<1>9. Grown(Pipe(c), fs, Pipe(c)') /\ n \in Nat /\ Len(fs) \in Nat
  BY <1>1, <1>2, <1>7, <1>8, PipeSent DEF PipeShape
<1>10. Unmoved(c)
  BY <1>2 DEF Unmoved
<1>11. /\ \A k \in 1..Len(fs) : fs = rs /\ up /\ resident
       /\ \A k \in 1..Len(rs) : /\ Answering(rs[k], h)
                                /\ rs[k].type # "event" => rs[k].seq = ring.tail
  BY <1>5, <1>6 DEF ReplyTo, AnswerTo
<1>12. Calling(c, 1) <=> h.client = c /\ h.conn = route[c]
  BY <1>4 DEF Calling
<1>13. ASSUME Active, route[c] # 0, NEW k \in 1..Len(fs), fs[k].type \in {"event", "end"}
       PROVE  CountedAt(c, n + k)'
  <2>1. fs = rs /\ k \in 1..Len(rs) /\ Answering(rs[k], h) /\ Pipe(c)'[n + k] = rs[k]
    BY <1>8, <1>9, <1>11, <1>13 DEF Grown
  <2>2. rs[k].to # Nobody /\ (rs[k] \in Ours(c)' => Calling(c, 1))
    <3>1. h.client # Nobody
      BY ReplayAssumption DEF Hellos
    <3> QED
      BY <1>2, <1>12, <2>1, <3>1 DEF Answering, Ours
  <2>3. ASSUME Calling(c, 1), NEW s \in Under(rs[k]) PROVE Explained(c, n + k, s)'
    <3>1. k \in 2..(Len(rs) + 1)
      <4>1. rs[1].type \in {"start", "snapshot"}
        BY <1>5 DEF ReplyTo
      <4>2. k # 1 /\ Len(rs) \in Nat
        BY <1>7, <1>13, <2>1, <4>1
      <4> QED
        BY <2>1, <4>2
    <3>2. /\ s \in 1..ring.tail
          /\ rs[k].type = "end" \/ (rs[k].type = "event" /\ s < rs[k].seq)
      <4>1. rs[k].seq <= ring.tail /\ ring.tail \in Nat /\ rs[k].seq \in Nat
        <5>1. rs[k] \in Frames /\ rs[k].seq <= ring.tail
          BY <2>1 DEF Answering
        <5> QED
          BY <1>1, <5>1, ReplayAssumption DEF Frames, Numeric
      <4> QED
        BY <1>13, <2>1, <2>3, <4>1 DEF Under
    <3> QED
      BY <1>1, <1>4, <1>5, <1>8, <1>9, <1>10, <1>13, <2>1, <2>3, <3>1, <3>2, AnswerExplains
  <2> QED
    BY <2>1, <2>2, <2>3 DEF CountedAt, Under
<1>14. ASSUME Active, route[c] # 0, up', NEW s \in 1..ring'.tail
       PROVE  Explained(c, n + Len(fs) + 1, s)' \/ Pending(c, n + Len(fs) + 1)'
  <2>1. fs = rs /\ up /\ s \in 1..ring.tail /\ Grown(Pipe(c), rs, Pipe(c)')
    BY <1>2, <1>6, <1>9, <1>14 DEF Active
  <2>2. CASE Calling(c, 1)
    <3>1. Len(rs) + 1 \in 2..(Len(rs) + 1) /\ n + (Len(rs) + 1) = n + Len(rs) + 1
      <4>1. rs # <<>>
        BY <1>5 DEF ReplyTo
      <4> QED
        BY <1>7, <1>9, <4>1
    <3>2. Explained(c, n + (Len(rs) + 1), s)'
      BY <1>1, <1>4, <1>5, <1>8, <1>10, <1>14, <2>1, <2>2, <3>1, AnswerExplains
    <3> QED
      BY <2>1, <3>1, <3>2
  <2>3. CASE ~Calling(c, 1)
    BY <1>1, <1>5, <1>8, <1>10, <1>12, <1>14, <2>1, <2>3, AnswerLeaves
  <2> QED
    BY <2>2, <2>3
<1>15. \A i \in 1..Len(inbox') : Calling(c, i)' =>
         \E j \in 1..Len(inbox) : Calling(c, j) /\ inbox'[i] = inbox[j]
  BY <1>4
<1>16. \A k \in 1..Len(fs) : fs[k].type # "hello" =>
         /\ resident /\ fs[k].life = life
         /\ fs[k].type # "event" => fs[k].seq = ring'.tail
  BY <1>2, <1>11 DEF Answering
<1>17. ring.tail <= ring'.tail
  BY <1>1, <1>2 DEF Numeric
<1> QED
  BY <1>2, <1>8, <1>9, <1>10, <1>13, <1>14, <1>15, <1>16, <1>17, CompletingGrown

(* What the other browsers do.                                             *)
LEMMA CompletingOther ==
  ASSUME ReplayInv, ReplayInv', NEW d \in Clients, ClientNext(d),
         NEW c \in Clients, c # d, Completing(c)
  PROVE  Completing(c)'
<1>1. TypeOK /\ TypeOK'
  BY DEF ReplayInv
<1>2. Untouched(c)
  BY <1>1, OthersUntouched
<1>3. Pipe(c)' = Pipe(c) /\ Len(Pipe(c)) \in Nat
  BY <1>1, <1>2, PipeShaped DEF Untouched, Pipe, PipeShape
<1>4. Unmoved(c) /\ UNCHANGED <<resident, ring, evicted, up>>
  BY <1>2 DEF Untouched, Unmoved
<1>5. \A i \in 1..Len(inbox') : Calling(c, i)' =>
        \E j \in 1..Len(inbox) : Calling(c, j) /\ inbox'[i] = inbox[j]
  <2>1. inbox \in Seq(Hellos) /\ Len(inbox) \in Nat /\ route'[c] = route[c]
    BY <1>1, <1>2 DEF TypeOK, Untouched
  <2>2. CASE inbox' = inbox
    BY <2>1, <2>2 DEF Calling
  <2>3. ASSUME NEW h, inbox' = Append(inbox, h), h.client # c,
               NEW i \in 1..Len(inbox'), Calling(c, i)'
        PROVE  \E j \in 1..Len(inbox) : Calling(c, j) /\ inbox'[i] = inbox[j]
    <3>1. i \in 1..Len(inbox) \/ i = Len(inbox) + 1
      BY <2>1, <2>3
    <3>2. i # Len(inbox) + 1
      BY <2>1, <2>3 DEF Calling
    <3>3. inbox'[i] = inbox[i] /\ i \in 1..Len(inbox)
      BY <2>1, <2>3, <3>1, <3>2
    <3> QED
      BY <2>1, <2>3, <3>3 DEF Calling
  <2> QED
    BY <1>2, <2>2, <2>3 DEF Untouched
<1> QED
  BY <1>1, <1>3, <1>4, <1>5, CompletingStill

(* The relay passes by a browser that a frame is not for.                  *)
LEMMA CompletingPassed ==
  ASSUME TypeOK, TypeOK', NEW c \in Clients, Completing(c), Unmoved(c),
         UNCHANGED <<resident, ring, evicted, up, inbox>>,
         NEW j, Removed(Pipe(c), j, Pipe(c)'), Pipe(c)[j] \notin Mine(c)
  PROVE  Completing(c)'
<1>1. PICK P, Q : P = Pipe(c) /\ Q = Pipe(c)'
  OBVIOUS
<1>2. Len(P) \in Nat /\ j \in 1..Len(P) /\ Len(Q) = Len(P) - 1 /\ Len(P) >= 1
  <2>1. Len(P) \in Nat
    BY <1>1, PipeShaped DEF PipeShape
  <2>2. j \in 1..Len(P) /\ Len(Q) = Len(P) - 1
    BY <1>1 DEF Removed
  <2> QED
    BY <2>1, <2>2
<1>3. Consistent(c)'
  <2>1. Thins(Pipe(c), Pipe(c)')
    BY <1>1, <1>2, ThinsRemoved
  <2>2. \A i \in 1..Len(inbox') : Calling(c, i)' =>
          \E k \in 1..Len(inbox) : Calling(c, k) /\ inbox'[i] = inbox[k]
    BY DEF Calling, Unmoved
  <2> QED
    BY <2>1, <2>2, ConsistentThin DEF Completing, Unmoved
<1>4. Active' = Active /\ route'[c] = route[c] /\ life' = life
  BY DEF Active, Unmoved
<1>5. /\ \A s : Gives(c, s)' = Gives(c, s) /\ P[j] \notin Gives(c, s)
      /\ Strays(c)' = Strays(c) /\ P[j] \notin Strays(c)
      /\ Renews(c)' = Renews(c) /\ P[j] \notin Calls
      /\ OwnResets(c)' = OwnResets(c) /\ OwnRebuilds(c)' = OwnRebuilds(c)
      /\ OwnCloses(c)' = OwnCloses(c) /\ Ours(c)' = Ours(c)
  BY <1>1, SetsKept, OwnSetsKept, OwnSetsMine, SetFacts DEF Unmoved
<1>6. ASSUME NEW p \in 1..(Len(P) + 1), j < p
      PROVE  /\ \A s : Explained(c, p, s) => Explained(c, p - 1, s)'
             /\ Pending(c, p) => Pending(c, p - 1)'
  <2>1. \A b, Y, Z : P[j] \notin Y /\ Since(P, p, b, Y, Z) => Since(Q, p - 1, b, Y, Z)
    BY <1>1, <1>2, <1>6, SincePassed
  <2>2. ASSUME NEW s, Explained(c, p, s) PROVE Explained(c, p - 1, s)'
    <3>1. \/ Since(P, p, <<life, s>> \in seen[c], Gives(c, s), {})
          \/ Since(P, p, orphan[c], Strays(c), OwnRebuilds(c))
          \/ Since(P, p, overlap[c], {}, OwnResets(c))
          \/ Since(P, p, cgen[c] # gen, {}, Renews(c))
      BY <1>1, <2>2 DEF Explained
    <3>2. \/ Since(Q, p - 1, <<life, s>> \in seen[c], Gives(c, s), {})
          \/ Since(Q, p - 1, orphan[c], Strays(c), OwnRebuilds(c))
          \/ Since(Q, p - 1, overlap[c], {}, OwnResets(c))
          \/ Since(Q, p - 1, cgen[c] # gen, {}, Renews(c))
      BY <1>5, <2>1, <3>1
    <3>3. \/ Since(Q, p - 1, (<<life, s>> \in seen[c])', Gives(c, s)', {})
          \/ Since(Q, p - 1, orphan'[c], Strays(c)', OwnRebuilds(c)')
          \/ Since(Q, p - 1, overlap'[c], {}, OwnResets(c)')
          \/ Since(Q, p - 1, (cgen[c] # gen)', {}, Renews(c)')
      BY <1>5, <3>2 DEF Unmoved
    <3> QED
      BY <1>1, <3>3 DEF Explained
  <2>3. ASSUME Pending(c, p) PROVE Pending(c, p - 1)'
    <3>1. Since(P, p, owed[c], Calls, OwnCloses(c))
      BY <1>1, <2>3 DEF Pending
    <3>2. Since(Q, p - 1, owed'[c], Calls, OwnCloses(c)')
      BY <1>5, <2>1, <3>1 DEF Unmoved
    <3> QED
      BY <1>1, <3>2 DEF Pending
  <2> QED
    BY <2>2, <2>3
<1>7. Accounted(c)'
  <2> SUFFICES ASSUME Active, up, route[c] # 0, NEW s \in 1..ring.tail
               PROVE  Explained(c, Len(Pipe(c)) + 1, s)' \/ Pending(c, Len(Pipe(c)) + 1)'
    BY <1>4 DEF Accounted
  <2>1. PICK p : p = Len(P) + 1
    OBVIOUS
  <2>2. p \in 1..(Len(P) + 1) /\ j < p /\ p - 1 = Len(Q) + 1
    BY <1>2, <2>1
  <2>3. Explained(c, p, s) \/ Pending(c, p)
    BY <1>1, <2>1 DEF Completing, Accounted
  <2>4. Explained(c, p - 1, s)' \/ Pending(c, p - 1)'
    BY <1>6, <2>2, <2>3
  <2>5. (Len(Pipe(c)) + 1)' = p - 1
    BY <1>1, <2>2
  <2> QED
    BY <2>4, <2>5 DEF Explained, Pending
<1>8. Counted(c)'
  <2> SUFFICES ASSUME Active, route[c] # 0, NEW p \in 1..Len(Q),
                      Q[p].type \in {"event", "end"}, Q[p].life = life
               PROVE  CountedAt(c, p)'
    BY <1>1, <1>4 DEF Counted
  <2>1. CASE p < j
    <3>1. p \in 1..Len(P) /\ \A i \in 1..p : i \in 1..Len(Q) /\ i < j
      BY <1>2, <2>1
    <3>2. \A i \in 1..p : Pipe(c)'[i] = Pipe(c)[i]
      BY <1>1, <3>1 DEF Removed
    <3>3. Q[p] = P[p]
      BY <1>1, <3>1, <3>2, <1>2
    <3> QED
      BY <1>1, <3>1, <3>2, <3>3, CountedAgrees DEF Completing
  <2>2. CASE ~(p < j)
    <3>1. PICK r : r = p + 1
      OBVIOUS
    <3>2. r \in 1..Len(P) /\ r \in 1..(Len(P) + 1) /\ j < r /\ r - 1 = p
      BY <1>2, <2>2, <3>1
    <3>3. Q[p] = P[r]
      BY <1>1, <2>2, <3>1 DEF Removed
    <3>4. CountedAt(c, r)
      BY <1>1, <3>2, <3>3 DEF Completing, Counted
    <3>5. \A s \in Under(P[r]) :
            /\ P[r] \in Ours(c) => Explained(c, p, s)'
            /\ P[r].to = Nobody => Explained(c, p, s)' \/ Pending(c, p)'
      BY <1>1, <1>6, <3>2, <3>4 DEF CountedAt
    <3> QED
      BY <1>1, <1>5, <3>3, <3>5 DEF CountedAt, Under
  <2> QED
    BY <2>1, <2>2
<1> QED
  BY <1>3, <1>7, <1>8 DEF Completing

LEMMA CompletingForward ==
  ASSUME ReplayInv, ReplayInv', OnWrapperMsg, NEW c \in Clients, Completing(c)
  PROVE  Completing(c)'
<1>1. TypeOK /\ TypeOK' /\ ClientInv(c) /\ PipeShape
  BY PipeShaped DEF ReplayInv
<1>2. /\ UNCHANGED <<gen, life, resident, ring, evicted, up, inbox, cursor, cgen, seen,
                     orphan, overlap, owed>>
      /\ wq # <<>> /\ wq' = Tail(wq)
  BY DEF OnWrapperMsg, wrapper, browser
<1>3. PICK f \in Frames : f = Head(wq)
  <2>1. wq \in Seq(Frames) /\ wq # <<>>
    BY <1>1, <1>2 DEF TypeOK
  <2>2. Head(wq) \in Frames
    BY <2>1
  <2> QED
    BY <2>2
<1>4. /\ route'[c] = IF c \in Slow(f) THEN 0 ELSE route[c]
      /\ cq'[c] = IF c \in Slow(f) THEN <<>>
                  ELSE IF Receives(f, c) THEN Append(cq[c], f) ELSE cq[c]
  BY <1>3 DEF OnWrapperMsg
<1>5. CASE route'[c] = 0
  <2>1. cq'[c] = <<>>
    BY <1>1, <1>4, <1>5 DEF ClientInv, Receives
  <2> QED
    BY <1>1, <1>2, <1>5, <2>1, CompletingLeave
<1>6. CASE route'[c] # 0
  <2>1. c \notin Slow(f) /\ route'[c] = route[c]
    BY <1>4, <1>6
  <2>2. Receives(f, c) <=> f \in Mine(c)
    BY <1>6, <2>1 DEF Receives, Mine
  <2>3. Unmoved(c)
    BY <1>2, <2>1 DEF Unmoved
  <2>4. CASE Receives(f, c)
    <3>1. cq'[c] = Append(cq[c], f)
      BY <1>4, <2>1, <2>4
    <3>2. Grown(Pipe(c), <<>>, Pipe(c)') /\ Len(Pipe(c)) \in Nat
      BY <1>1, <1>2, <1>3, <3>1, PipeForwarded DEF PipeShape
    <3>3. /\ Len(Pipe(c)') = Len(Pipe(c))
          /\ \A i \in 1..Len(Pipe(c)') : Pipe(c)'[i] = Pipe(c)[i]
      BY <3>2 DEF Grown
    <3>4. \A i \in 1..Len(inbox') : Calling(c, i)' =>
            \E j \in 1..Len(inbox) : Calling(c, j) /\ inbox'[i] = inbox[j]
      BY <1>2, <2>1 DEF Calling
    <3> QED
      BY <1>1, <1>2, <2>3, <3>2, <3>3, <3>4, CompletingStill
  <2>5. CASE ~Receives(f, c)
    <3>1. cq'[c] = cq[c]
      BY <1>4, <2>1, <2>5
    <3>2. /\ Removed(Pipe(c), Len(cq[c]) + 1, Pipe(c)')
          /\ Pipe(c)[Len(cq[c]) + 1] = f
      BY <1>1, <1>2, <1>3, <3>1, PipeForwarded
    <3> QED
      BY <1>1, <1>2, <2>2, <2>3, <2>5, <3>2, CompletingPassed
  <2> QED
    BY <2>4, <2>5
<1> QED
  BY <1>5, <1>6

(* The session is not there, or was evicted.                               *)
LEMMA CompletingAway ==
  ASSUME NEW c \in Clients, Completing(c), ~Active',
         Thins(Pipe(c), Pipe(c)'), Native(c)',
         cursor'[c] = cursor[c], cgen'[c] = cgen[c], orphan'[c] = orphan[c]
  PROVE  Completing(c)'
<1>1. PICK P, Q : P = Pipe(c) /\ Q = Pipe(c)'
  OBVIOUS
<1>2. Rising(Q) /\ Undated(c)'
  BY <1>1, ThinsRising DEF Completing, Consistent, Undated
<1>3. Bounded(c)' /\ Filled(c)' /\ Recalled(c)' /\ Accounted(c)' /\ Counted(c)'
  BY DEF Bounded, Filled, Recalled, Accounted, Counted
<1> QED
  BY <1>1, <1>2, <1>3 DEF Completing, Consistent

LEMMA CompletingEvict ==
  ASSUME ReplayInv, Evict, NEW c \in Clients, Completing(c)
  PROVE  Completing(c)'
<1>1. /\ UNCHANGED <<cq, wq, cursor, cgen, orphan>> /\ ~resident' /\ evicted'
  BY DEF Evict, link, relay, browser
<1>2. ~Active' /\ Native(c)'
  BY <1>1 DEF Active, Native
<1>3. Pipe(c)' = Pipe(c)
  BY <1>1 DEF Pipe
<1>4. Thins(Pipe(c), Pipe(c)')
  BY <1>3, ThinsStart
<1> QED
  BY <1>1, <1>2, <1>4, CompletingAway

(* The link carries nothing any more.                                      *)
LEMMA PipeCleared ==
  ASSUME TypeOK, TypeOK', NEW c \in Clients, cq'[c] = cq[c], wq' = <<>>
  PROVE  /\ Len(Pipe(c)') <= Len(Pipe(c))
         /\ \A i \in 1..Len(Pipe(c)') : /\ i \in 1..Len(Pipe(c))
                                        /\ Pipe(c)'[i] = Pipe(c)[i]
<1>1. PICK P, Q, n : P = Pipe(c) /\ Q = Pipe(c)' /\ n = Len(cq[c])
  OBVIOUS
<1>2. /\ n \in Nat /\ Len(wq) \in Nat /\ Len(P) = n + Len(wq)
      /\ \A i \in 1..n : P[i] = cq[c][i]
  BY <1>1, PipeShaped DEF PipeShape
<1>3. Len(Q) = n + Len(wq') /\ \A i \in 1..n : Q[i] = cq[c][i]
  BY <1>1, PipeShapedNext DEF PipeShape
<1>4. Len(wq') = 0
  OBVIOUS
<1>5. Len(Q) = n /\ Len(Q) <= Len(P) /\ \A i \in 1..Len(Q) : i \in 1..Len(P)
  BY <1>2, <1>3, <1>4
<1>6. \A i \in 1..Len(Q) : Q[i] = P[i]
  BY <1>2, <1>3, <1>5
<1> QED
  BY <1>1, <1>5, <1>6

LEMMA CompletingRestart ==
  ASSUME ReplayInv, ReplayInv', WrapperRestart, NEW c \in Clients, Completing(c)
  PROVE  Completing(c)'
<1>1. TypeOK /\ TypeOK' /\ Numeric /\ ClientInv(c)
  BY Numbers DEF ReplayInv
<1>2. /\ UNCHANGED <<cq, cursor, cgen, orphan>> /\ ~resident' /\ wq' = <<>>
      /\ gen' = gen + 1
  BY DEF WrapperRestart, relay, browser
<1>3. /\ Len(Pipe(c)') <= Len(Pipe(c))
      /\ \A i \in 1..Len(Pipe(c)') : i \in 1..Len(Pipe(c)) /\ Pipe(c)'[i] = Pipe(c)[i]
  BY <1>1, <1>2, PipeCleared
<1>4. Thins(Pipe(c), Pipe(c)')
  BY <1>3, ThinsStart
<1>5. Native(c)'
  <2>1. ASSUME NEW i \in 1..Len(Pipe(c)') PROVE Pipe(c)'[i].gen # gen'
    <3>1. Pipe(c)[i] \in Frames /\ Pipe(c)[i].gen <= gen
      BY <1>3, <2>1, PipeKnown DEF Known
    <3>2. Pipe(c)[i].gen \in Nat
      BY <3>1, ReplayAssumption DEF Frames
    <3> QED
      BY <1>1, <1>2, <1>3, <3>1, <3>2 DEF Numeric
  <2>2. cgen'[c] # gen'
    <3>1. cgen[c] <= gen /\ cgen[c] \in Nat
      BY <1>1, ReplayAssumption DEF ClientInv, Present, TypeOK
    <3> QED
      BY <1>1, <1>2, <3>1 DEF Numeric
  <2> QED
    BY <2>1, <2>2 DEF Native
<1>6. ~Active'
  BY <1>2 DEF Active
<1> QED
  BY <1>2, <1>4, <1>5, <1>6, CompletingAway

LEMMA CompletingLinkDown ==
  ASSUME ReplayInv, ReplayInv', LinkDown, NEW c \in Clients, Completing(c)
  PROVE  Completing(c)'
<1>1. TypeOK /\ TypeOK'
  BY DEF ReplayInv
<1>2. /\ UNCHANGED <<gen, life, resident, ring, evicted, route, cq, cursor, cgen, seen,
                     orphan, overlap, owed>> /\ ~up' /\ wq' = <<>>
  BY DEF LinkDown, wrapper, relay, browser
<1>3. /\ Len(Pipe(c)') <= Len(Pipe(c))
      /\ \A i \in 1..Len(Pipe(c)') : i \in 1..Len(Pipe(c)) /\ Pipe(c)'[i] = Pipe(c)[i]
  BY <1>1, <1>2, PipeCleared
<1>4. Unmoved(c)
  BY <1>2 DEF Unmoved
<1>5. \A i \in 1..Len(inbox') : i \in 1..Len(inbox) /\ inbox'[i] = inbox[i]
  <2>1. inbox \in Seq(Hellos) /\ Len(inbox) \in Nat
    BY <1>1 DEF TypeOK
  <2>2. PICK n \in 0..Len(inbox) : inbox' = SubSeq(inbox, 1, n)
    BY DEF LinkDown
  <2> QED
    BY <2>1, <2>2
<1>6. \A i \in 1..Len(inbox') : Calling(c, i)' =>
        \E j \in 1..Len(inbox) : Calling(c, j) /\ inbox'[i] = inbox[j]
  BY <1>2, <1>5 DEF Calling
<1> QED
  BY <1>1, <1>2, <1>3, <1>4, <1>6, CompletingStill

(* Everybody will owe itself an answer.                                    *)
LEMMA CompletingLinkUp ==
  ASSUME ReplayInv, ReplayInv', LinkUp, NEW c \in Clients, Completing(c)
  PROVE  Completing(c)'
<1>1. TypeOK /\ TypeOK' /\ LinkInv /\ PipeShape /\ Numeric
  BY PipeShaped, Numbers DEF ReplayInv
<1>2. /\ UNCHANGED <<gen, life, resident, ring, evicted, inbox, route, cq, cursor, cgen,
                     seen, orphan, overlap, owed>>
  BY DEF LinkUp, wrapper, relay, browser
<1>3. 0 \in 0..MaxSeq
  BY ReplayAssumption
<1>4. PICK f \in Frames : f = Frame("hello", 0)
  BY <1>1, <1>3, FrameIsFrame
<1>5. f.type = "hello" /\ f.to = Nobody
  BY <1>4, FrameFields
<1>6. PICK fs : fs = <<f>>
  OBVIOUS
<1>7. /\ fs \in Seq(Frames) /\ wq' = wq \o fs
      /\ Len(fs) = 1 /\ (\A k \in 1..Len(fs) : fs[k] = f) /\ 1 \in 1..Len(fs)
  <2>1. wq = <<>> /\ wq' = fs
    BY <1>1, <1>4, <1>6 DEF LinkInv, LinkUp
  <2>2. fs \in Seq(Frames)
    BY <1>6
  <2> QED
    BY <1>6, <2>1, <2>2
<1>8. PICK n : n = Len(Pipe(c))
  OBVIOUS
<1>9. Grown(Pipe(c), fs, Pipe(c)') /\ n \in Nat
  BY <1>1, <1>2, <1>7, <1>8, PipeSent DEF PipeShape
<1>10. Unmoved(c)
  BY <1>2 DEF Unmoved
<1>11. Pending(c, n + Len(fs) + 1)'
  <2>1. Pipe(c)'[n + 1] = f
    BY <1>7, <1>8, <1>9 DEF Grown
  <2>2. f \in Calls
    BY <1>5 DEF Calls
  <2>3. /\ n + 1 \in 1..((n + Len(fs) + 1) - 1)
        /\ \A k \in ((n + 1) + 1)..((n + Len(fs) + 1) - 1) : FALSE
    BY <1>7, <1>9
  <2>4. Since(Pipe(c)', n + Len(fs) + 1, owed'[c], Calls, OwnCloses(c)')
    BY <2>1, <2>2, <2>3 DEF Since
  <2> QED
    BY <2>4 DEF Pending
<1>12. \A i \in 1..Len(inbox') : Calling(c, i)' =>
         \E j \in 1..Len(inbox) : Calling(c, j) /\ inbox'[i] = inbox[j]
  BY <1>2 DEF Calling
<1>13. ring.tail <= ring'.tail /\ Len(fs) \in Nat
  BY <1>1, <1>2, <1>7 DEF Numeric
<1>14. \A k \in 1..Len(fs) : fs[k].type = "hello"
  BY <1>5, <1>7
<1> QED
  BY <1>2, <1>8, <1>9, <1>10, <1>11, <1>12, <1>13, <1>14, CompletingGrown

(* The connection is new: nothing on its way answers its hello.            *)
LEMMA CompletingConnect ==
  ASSUME ReplayInv, ReplayInv', NEW c \in Clients, Connect(c), Completing(c)
  PROVE  Completing(c)'
<1>1. TypeOK /\ TypeOK' /\ ClientInv(c) /\ LinkInv /\ Numeric
  BY Numbers DEF ReplayInv
<1>2. /\ UNCHANGED <<gen, life, resident, ring, evicted, up, wq, cursor, cgen, seen,
                     orphan, overlap>>
      /\ route[c] = 0 /\ route'[c] = routes + 1 /\ cq'[c] = <<>> /\ owed'[c]
  BY <1>1 DEF Connect, Hello, wrapper, TypeOK
<1>3. Pipe(c)' = Pipe(c)
  BY <1>1, <1>2 DEF Pipe, ClientInv
<1>4. PICK h : /\ h.client = c /\ h.conn = routes + 1 /\ h.cursor = cursor[c]
               /\ h.gen = cgen[c] /\ h.stray = orphan[c]
               /\ inbox' = IF up THEN Append(inbox, h) ELSE inbox
  BY <1>2 DEF Connect, Hello
<1>5. \A i \in 1..Len(inbox') : Calling(c, i)' => inbox'[i] = h
  <2>1. inbox \in Seq(Hellos) /\ Len(inbox) \in Nat
        /\ \A i \in 1..Len(inbox) : inbox[i].conn \in Nat /\ inbox[i].conn <= routes
    <3>1. \A x \in Hellos : x.conn \in Nat
      BY ReplayAssumption DEF Hellos
    <3>2. inbox \in Seq(Hellos) /\ \A i \in 1..Len(inbox) : inbox[i].conn <= routes
      BY <1>1 DEF TypeOK, LinkInv
    <3> QED
      BY <3>1, <3>2
  <2>2. \A i \in 1..Len(inbox) : inbox[i].conn # routes + 1
    BY <1>1, <2>1 DEF Numeric
  <2>3. CASE up
    <3>1. /\ Len(inbox') = Len(inbox) + 1 /\ inbox'[Len(inbox) + 1] = h
          /\ \A i \in 1..Len(inbox) : inbox'[i] = inbox[i]
      BY <1>4, <2>1, <2>3
    <3>2. \A i \in 1..Len(inbox') : i \in 1..Len(inbox) \/ i = Len(inbox) + 1
      BY <2>1, <3>1
    <3> QED
      BY <1>2, <2>2, <3>1, <3>2 DEF Calling
  <2>4. CASE ~up
    BY <1>2, <1>4, <2>2, <2>4 DEF Calling
  <2> QED
    BY <2>3, <2>4
<1>6. Consistent(c)'
  <2>1. Thins(Pipe(c), Pipe(c)')
    BY <1>3, ThinsStart
  <2> QED
    BY <1>2, <1>4, <1>5, <2>1, ConsistentThin DEF Completing
<1>7. \A i \in 1..Len(Pipe(c)) : Pipe(c)[i] \notin Ours(c)'
  <2> SUFFICES ASSUME NEW i \in 1..Len(Pipe(c)), Pipe(c)[i] \in Ours(c)' PROVE FALSE
    OBVIOUS
  <2>1. Pipe(c)[i].conn <= routes
    BY PipeKnown DEF Known
  <2>2. Pipe(c)[i].conn = routes + 1 /\ routes \in Nat
    BY <1>1, <1>2 DEF Ours, Numeric
  <2> QED
    BY <2>1, <2>2
<1>8. ASSUME NEW p \in 1..(Len(Pipe(c)) + 1) PROVE Pending(c, p)'
  <2>1. \A i \in 1..(p - 1) : i \in 1..Len(Pipe(c))
    BY <1>1, PipeShaped DEF PipeShape
  <2>2. \A i \in 1..(p - 1) : Pipe(c)'[i] \notin OwnCloses(c)'
    BY <1>3, <1>7, <2>1 DEF OwnCloses
  <2>3. Since(Pipe(c)', p, owed'[c], Calls, OwnCloses(c)')
    BY <1>2, <2>2 DEF Since
  <2> QED
    BY <2>3 DEF Pending
<1>9. Len(Pipe(c)) \in Nat
  BY <1>1, PipeShaped DEF PipeShape
<1>10. Accounted(c)'
  <2>1. PICK p : p = Len(Pipe(c)) + 1
    OBVIOUS
  <2>2. Pending(c, p)'
    BY <1>8, <1>9, <2>1
  <2>3. Pending(c, Len(Pipe(c)) + 1)'
    BY <1>3, <2>1, <2>2 DEF Pending
  <2> QED
    BY <2>3 DEF Accounted
<1>11. Counted(c)'
  <2>1. ASSUME NEW p \in 1..Len(Pipe(c)) PROVE CountedAt(c, p)'
    <3>1. Pending(c, p)'
      BY <1>8, <1>9
    <3> QED
      BY <1>3, <1>7, <3>1 DEF CountedAt
  <2> QED
    BY <1>3, <2>1 DEF Counted
<1> QED
  BY <1>6, <1>10, <1>11 DEF Completing

LEMMA CompletingDisconnect ==
  ASSUME ReplayInv, ReplayInv', NEW c \in Clients, Disconnect(c), Completing(c)
  PROVE  Completing(c)'
<1>1. TypeOK /\ TypeOK'
  BY DEF ReplayInv
<1>2. /\ UNCHANGED <<gen, life, resident, ring, evicted, inbox, wq, cursor, cgen, seen,
                     orphan, overlap>>
      /\ route'[c] = 0 /\ cq'[c] = <<>>
  BY <1>1 DEF Disconnect, wrapper, link, browser, TypeOK
<1> QED
  BY <1>1, <1>2, CompletingLeave

LEMMA CompletingReload ==
  ASSUME ReplayInv, ReplayInv', NEW c \in Clients, Reload(c), Completing(c)
  PROVE  Completing(c)'
<1>1. TypeOK /\ TypeOK' /\ Numeric
  BY Numbers DEF ReplayInv
<1>2. /\ UNCHANGED <<gen, life, resident, ring, evicted, inbox, wq, cq, route>>
      /\ route[c] = 0 /\ cursor'[c] = NoCursor /\ cgen'[c] = 0
  BY <1>1 DEF Reload, wrapper, link, relay, TypeOK
<1>3. Pipe(c)' = Pipe(c)
  BY <1>2 DEF Pipe
<1>4. gen' # 0 /\ NoCursor <= 0
  BY <1>1, <1>2 DEF TypeOK, NoCursor
<1>5. \A i \in 1..Len(inbox') : ~Calling(c, i)'
  <2>1. \A h \in Hellos : h.conn # 0
    <3>1. \A h \in Hellos : h.conn \in 1..MaxRoute
      BY DEF Hellos
    <3>2. \A n \in 1..MaxRoute : n # 0
      BY ReplayAssumption
    <3> QED
      BY <3>1, <3>2
  <2>2. \A i \in 1..Len(inbox) : inbox[i].conn # 0
    <3>1. inbox \in Seq(Hellos)
      BY <1>1 DEF TypeOK
    <3> QED
      BY <2>1, <3>1
  <2> QED
    BY <1>2, <2>2 DEF Calling
<1>6. Rising(Pipe(c))'
  BY <1>3 DEF Completing, Consistent, Rising
<1>7. Native(c)' /\ Undated(c)'
  BY <1>2, <1>3, <1>4 DEF Completing, Consistent, Native, Undated
<1>8. Bounded(c)' /\ Filled(c)'
  BY <1>2, <1>4 DEF Bounded, Filled
<1>9. Recalled(c)'
  BY <1>5 DEF Recalled
<1>10. Accounted(c)' /\ Counted(c)'
  BY <1>2 DEF Accounted, Counted
<1> QED
  BY <1>6, <1>7, <1>8, <1>9, <1>10 DEF Completing, Consistent

(* A new incarnation has no events yet, and no browser that has its        *)
(* generation, unless the session was evicted.                             *)
LEMMA CompletingRespawn ==
  ASSUME ReplayInv, ReplayInv', Respawn, NEW c \in Clients, CatchingUp(c), Completing(c)
  PROVE  Completing(c)'
<1>1. TypeOK /\ TypeOK' /\ PoolInv /\ PipeShape /\ Numeric
  BY PipeShaped, Numbers DEF ReplayInv
<1>2. /\ UNCHANGED <<gen, up, inbox, route, cq, cgen, cursor, orphan, evicted, ring>>
      /\ ~resident /\ life' = life + 1 /\ resident'
  BY DEF Respawn, relay, browser
<1>3. ring'.tail = 0 /\ \A s : s \notin 1..ring'.tail
  BY <1>1, <1>2, EmptyRingFacts DEF PoolInv
<1>4. PICK f : f = [Frame("snapshot", 0) EXCEPT !.life = life + 1]
  OBVIOUS
<1>5. /\ f.type = "snapshot" /\ f.life = life + 1
      /\ wq' = IF up THEN Append(wq, f) ELSE wq
  BY <1>4 DEF Respawn, Frame
<1>6. f \in Frames
  <2>1. life + 1 \in 1..MaxLife
    BY <1>1, <1>2 DEF TypeOK
  <2>2. gen \in 1..MaxGen /\ 0 \in 0..MaxRoute /\ 0 \in 0..MaxSeq
    BY <1>1, ReplayAssumption DEF TypeOK
  <2> QED
    BY <1>4, <2>1, <2>2 DEF Frame, Frames
<1>7. PICK fs : fs = IF up THEN <<f>> ELSE <<>>
  OBVIOUS
<1>8. /\ fs \in Seq(Frames) /\ wq' = wq \o fs
      /\ Len(fs) \in Nat /\ (\A k \in 1..Len(fs) : fs[k] = f /\ k = 1) /\ Len(fs) <= 1
  <2>1. wq \in Seq(Frames)
    BY <1>1 DEF TypeOK
  <2>2. CASE up
    <3>1. fs = <<f>> /\ wq' = Append(wq, f)
      BY <1>5, <1>7, <2>2
    <3> QED
      BY <1>6, <2>1, <3>1
  <2>3. CASE ~up
    <3>1. fs = <<>> /\ wq' = wq
      BY <1>5, <1>7, <2>3
    <3> QED
      BY <2>1, <2>3, <3>1
  <2> QED
    BY <2>2, <2>3
<1>9. PICK P, Q : P = Pipe(c) /\ Q = Pipe(c)'
  OBVIOUS
<1>10. Grown(P, fs, Q) /\ Len(P) \in Nat
  BY <1>1, <1>2, <1>8, <1>9, PipeSent DEF PipeShape
<1>11. ASSUME NEW i \in 1..Len(Q)
       PROVE  \/ i \in 1..Len(P) /\ Q[i] = P[i] /\ P[i].life <= life /\ P[i].life \in Nat
              \/ i = Len(P) + 1 /\ Q[i] = f
  <2>1. \/ i \in 1..Len(P) /\ Q[i] = P[i]
        \/ \E k \in 1..Len(fs) : i = Len(P) + k /\ Q[i] = fs[k]
    BY <1>8, <1>10, GrownIndex
  <2>2. CASE i \in 1..Len(P) /\ Q[i] = P[i]
    <3>1. P[i].life \in 1..life
      BY <1>9, <2>2, PipeKnown DEF Known
    <3> QED
      BY <1>1, <2>2, <3>1 DEF Numeric
  <2>3. CASE \E k \in 1..Len(fs) : i = Len(P) + k /\ Q[i] = fs[k]
    BY <1>8, <2>3
  <2> QED
    BY <2>1, <2>2, <2>3
<1>12. Rising(Q)
  <2> SUFFICES ASSUME NEW q \in 1..Len(Q), NEW p \in 1..Len(Q), q < p,
                      Q[q].type # "hello", Q[p].type \in {"start", "snapshot", "end"},
                      Q[q].life = Q[p].life
               PROVE  Q[q].seq <= Q[p].seq
    BY DEF Rising
  <2>1. q \in 1..Len(P) /\ Q[q] = P[q] /\ P[q].life <= life /\ P[q].life \in Nat
    <3>1. p <= Len(P) + 1 /\ q # Len(P) + 1
      BY <1>10, <1>11
    <3> QED
      BY <1>11, <3>1
  <2>2. Q[p] # f
    BY <1>1, <1>5, <2>1 DEF Numeric
  <2>3. p \in 1..Len(P) /\ Q[p] = P[p]
    BY <1>11, <2>2
  <2> QED
    BY <1>9, <2>1, <2>3 DEF Completing, Consistent, Rising
<1>13. ~evicted => cgen[c] # gen
  BY <1>2 DEF Completing, Consistent, Native
<1>14. Native(c)'
  <2> SUFFICES ASSUME ~evicted, NEW p \in 1..Len(Q), Q[p].type # "hello", Q[p].gen = gen
               PROVE  Q[p].life = life'
    BY <1>2, <1>9, <1>13 DEF Native
  <2>1. CASE p \in 1..Len(P) /\ Q[p] = P[p]
    BY <1>2, <1>9, <2>1 DEF Completing, Consistent, Native
  <2>2. CASE Q[p] = f
    BY <1>2, <1>5, <2>2
  <2> QED
    BY <1>11, <2>1, <2>2
<1>15. Undated(c)'
  BY <1>2 DEF Completing, Consistent, Undated
<1>16. Bounded(c)' /\ Filled(c)'
  BY <1>2, <1>13 DEF Bounded, Filled, Active
<1>17. Recalled(c)'
  <2> SUFFICES ASSUME ~evicted, NEW i \in 1..Len(inbox), Calling(c, i), inbox[i].gen = gen
               PROVE  Within(c, inbox[i].cursor)' /\ \A s \in 1..inbox[i].cursor : FALSE
    BY <1>2 DEF Recalled, Calling, Active
  <2>1. inbox[i].cursor = -1
    BY <1>13 DEF CatchingUp, Resumed, NoCursor
  <2>2. ASSUME NEW p \in 1..Len(Q) PROVE -1 <= Q[p].seq
    <3>1. Q[p] \in Frames
      BY <1>9, PipesKnownNext DEF PipesKnown
    <3> QED
      BY <3>1, ReplayAssumption DEF Frames
  <2>3. Within(c, inbox[i].cursor)'
    BY <1>2, <1>3, <1>9, <2>1, <2>2 DEF Within
  <2> QED
    BY <2>1, <2>3
<1>18. Accounted(c)'
  BY <1>3 DEF Accounted
<1>19. Counted(c)'
  <2> SUFFICES ASSUME NEW p \in 1..Len(Q), Q[p].type \in {"event", "end"}, Q[p].life = life'
               PROVE  FALSE
    BY <1>9 DEF Counted
  <2>1. Q[p] # f
    BY <1>5
  <2>2. Q[p].life <= life /\ Q[p].life \in Nat
    BY <1>11, <2>1
  <2> QED
    BY <1>1, <1>2, <2>2 DEF Numeric
<1> QED
  BY <1>9, <1>12, <1>14, <1>15, <1>16, <1>17, <1>18, <1>19 DEF Completing, Consistent

LEMMA InitCompleting == Init => \A c \in Clients : Completing(c)
<1> SUFFICES ASSUME Init, NEW c \in Clients PROVE Completing(c)
  OBVIOUS
<1>1. /\ cq[c] = <<>> /\ wq = <<>> /\ inbox = <<>> /\ gen = 1 /\ resident
      /\ route[c] = 0 /\ cursor[c] = -1 /\ cgen[c] = 0
  BY DEF Init, NoCursor
<1>2. Len(Pipe(c)) = 0 /\ Len(inbox) = 0
  BY <1>1 DEF Pipe
<1>3. Rising(Pipe(c)) /\ Native(c) /\ Undated(c)
  BY <1>1, <1>2 DEF Rising, Native, Undated
<1>4. Bounded(c) /\ Filled(c) /\ Recalled(c)
  BY <1>1, <1>2 DEF Bounded, Filled, Recalled
<1>5. Accounted(c) /\ Counted(c)
  BY <1>1 DEF Accounted, Counted
<1> QED
  BY <1>3, <1>4, <1>5 DEF Completing, Consistent

(* Recover, stated of the next state.                                      *)
Recovers ==
  \A c \in Clients : CatchingUp(c) =>
    \A s \in Nat : \A p \in 1..(Len(Pipe(c)) + 1) :
      /\ \A k \in 1..(p - 1) :
           /\ Pipe(c)[k] \in Mine(c)
           /\ \/ Pipe(c)[k].type = "start"
              \/ Pipe(c)[k].type = "snapshot" /\ cgen[c] # gen
           => Pipe(c)[k].life = life /\ Pipe(c)[k].seq >= s
      /\ <<life, s>> \in seen[c] \/ orphan[c] \/ overlap[c] \/ cgen[c] # gen
      => Explained(c, p, s)

LEMMA RecoversHold == TypeOK => Recovers
BY Recover DEF Recovers

LEMMA RecoversNext == TypeOK' => Recovers'
BY RecoversHold, PTL

(* c takes a frame: what explained an event in front of a frame that       *)
(* remains still does.                                                     *)
LEMMA AccountedTaken ==
  ASSUME ReplayInv, ReplayInv', NEW c \in Clients, Completing(c),
         NEW type, Take(c, type), NEW f, f = Head(cq[c]),
         seen[c] \subseteq seen'[c],
         orphan[c] /\ f \notin OwnRebuilds(c) => orphan'[c],
         f \in Strays(c) => orphan'[c],
         overlap[c] /\ f \notin OwnResets(c) => overlap'[c] \/ orphan'[c],
         cgen[c] # gen /\ f \notin Renews(c) => cgen'[c] # gen,
         owed[c] /\ f \notin OwnCloses(c) => owed'[c],
         f \in Calls => owed'[c],
         \A s \in 1..ring.tail : Active /\ f \in Gives(c, s) =>
           \/ <<life, s>> \in seen'[c]
           \/ \A p \in 1..(Len(Pipe(c)') + 1) : Explained(c, p, s)'
  PROVE  Accounted(c)' /\ Counted(c)'
<1>1. PICK P, Q : P = Pipe(c) /\ Q = Pipe(c)'
  OBVIOUS
<1>2. TypeOK /\ TypeOK' /\ Numeric
  BY Numbers DEF ReplayInv
<1>3. /\ Removed(P, 1, Q) /\ P[1] = f /\ Len(P) \in Nat /\ Len(P) >= 1
      /\ Len(Q) = Len(P) - 1
  <2>1. Removed(P, 1, Q) /\ P[1] = f /\ Len(P) \in Nat /\ 1 \in 1..Len(P)
    BY <1>1, <1>2, PipeTaken, PipeShaped DEF PipeShape
  <2> QED
    BY <2>1 DEF Removed
<1>4. UNCHANGED <<gen, life, resident, evicted, ring, up, route>>
  BY DEF Take, wrapper
<1>5. Active' = Active
  BY <1>4 DEF Active
<1>6. /\ \A s : Gives(c, s)' = Gives(c, s)
      /\ Strays(c)' = Strays(c) /\ Renews(c)' = Renews(c)
      /\ OwnResets(c)' = OwnResets(c) /\ OwnRebuilds(c)' = OwnRebuilds(c)
      /\ OwnCloses(c)' = OwnCloses(c) /\ Ours(c)' = Ours(c)
  BY <1>4, SetsKept, OwnSetsKept
<1>7. ASSUME NEW p \in 2..(Len(P) + 1), NEW b, NEW n, NEW Y, NEW Z,
             b /\ f \notin Z => n, f \in Y => n, Since(P, p, b, Y, Z)
      PROVE  Since(Q, p - 1, n, Y, Z)
  BY <1>3, <1>7, SinceTaken
<1>8. ASSUME NEW p \in 2..(Len(P) + 1), NEW s \in 1..ring.tail, Active, Explained(c, p, s)
      PROVE  Explained(c, p - 1, s)'
  <2>1. CASE Since(P, p, <<life, s>> \in seen[c], Gives(c, s), {})
    <3>1. CASE <<life, s>> \in seen'[c]
      <4>1. Since(Q, p - 1, (<<life, s>> \in seen[c])', Gives(c, s)', {})
        BY <1>4, <3>1 DEF Since
      <4> QED
        BY <1>1, <4>1 DEF Explained
    <3>2. CASE <<life, s>> \notin seen'[c] /\ f \notin Gives(c, s)
      <4>1. Since(Q, p - 1, <<life, s>> \in seen'[c], Gives(c, s), {})
        BY <1>7, <2>1, <3>2
      <4>2. Since(Q, p - 1, (<<life, s>> \in seen[c])', Gives(c, s)', {})
        BY <1>4, <1>6, <4>1
      <4> QED
        BY <1>1, <4>2 DEF Explained
    <3>3. CASE <<life, s>> \notin seen'[c] /\ f \in Gives(c, s)
      <4>1. p - 1 \in 1..(Len(Q) + 1)
        BY <1>3
      <4> QED
        BY <1>1, <1>8, <3>3, <4>1
    <3> QED
      BY <3>1, <3>2, <3>3
  <2>2. CASE Since(P, p, orphan[c], Strays(c), OwnRebuilds(c))
    <3>1. Since(Q, p - 1, orphan'[c], Strays(c), OwnRebuilds(c))
      BY <1>7, <2>2
    <3>2. Since(Q, p - 1, orphan'[c], Strays(c)', OwnRebuilds(c)')
      BY <1>6, <3>1
    <3> QED
      BY <1>1, <3>2 DEF Explained
  <2>3. CASE Since(P, p, overlap[c], {}, OwnResets(c))
    <3>1. Since(Q, p - 1, overlap'[c] \/ orphan'[c], {}, OwnResets(c))
      BY <1>7, <2>3
    <3>2. /\ overlap'[c] \/ orphan'[c]
          /\ \A k \in 1..((p - 1) - 1) : Q[k] \notin OwnResets(c)
      BY <3>1 DEF Since
    <3>3. CASE overlap'[c]
      <4>1. Since(Q, p - 1, overlap'[c], {}, OwnResets(c)')
        BY <1>6, <3>2, <3>3 DEF Since
      <4> QED
        BY <1>1, <4>1 DEF Explained
    <3>4. CASE orphan'[c]
      <4>1. \A k \in 1..((p - 1) - 1) : Q[k] \notin OwnRebuilds(c)
        BY <3>2, OwnSetsMine
      <4>2. Since(Q, p - 1, orphan'[c], Strays(c)', OwnRebuilds(c)')
        BY <1>6, <3>4, <4>1 DEF Since
      <4> QED
        BY <1>1, <4>2 DEF Explained
    <3> QED
      BY <3>2, <3>3, <3>4
  <2>4. CASE Since(P, p, cgen[c] # gen, {}, Renews(c))
    <3>1. Since(Q, p - 1, cgen'[c] # gen, {}, Renews(c))
      BY <1>7, <2>4
    <3>2. Since(Q, p - 1, (cgen[c] # gen)', {}, Renews(c)')
      BY <1>4, <1>6, <3>1
    <3> QED
      BY <1>1, <3>2 DEF Explained
  <2> QED
    BY <1>1, <1>8, <2>1, <2>2, <2>3, <2>4 DEF Explained
<1>9. ASSUME NEW p \in 2..(Len(P) + 1), Pending(c, p) PROVE Pending(c, p - 1)'
  <2>1. Since(P, p, owed[c], Calls, OwnCloses(c))
    BY <1>1, <1>9 DEF Pending
  <2>2. Since(Q, p - 1, owed'[c], Calls, OwnCloses(c))
    BY <1>7, <2>1
  <2>3. Since(Q, p - 1, owed'[c], Calls, OwnCloses(c)')
    BY <1>6, <2>2
  <2> QED
    BY <1>1, <2>3 DEF Pending
<1>10. Accounted(c)'
  <2> SUFFICES ASSUME Active, up, route[c] # 0, NEW s \in 1..ring.tail
               PROVE  Explained(c, Len(Pipe(c)) + 1, s)' \/ Pending(c, Len(Pipe(c)) + 1)'
    BY <1>4, <1>5 DEF Accounted
  <2>1. PICK p : p = Len(P) + 1
    OBVIOUS
  <2>2. p \in 2..(Len(P) + 1) /\ p - 1 = Len(Q) + 1
    BY <1>3, <2>1
  <2>3. Explained(c, p, s) \/ Pending(c, p)
    BY <1>1, <2>1 DEF Completing, Accounted
  <2>4. Explained(c, p - 1, s)' \/ Pending(c, p - 1)'
    BY <1>8, <1>9, <2>2, <2>3
  <2>5. (Len(Pipe(c)) + 1)' = p - 1
    BY <1>1, <2>2
  <2> QED
    BY <2>4, <2>5 DEF Explained, Pending
<1>11. Counted(c)'
  <2> SUFFICES ASSUME Active, route[c] # 0, NEW p \in 1..Len(Q),
                      Q[p].type \in {"event", "end"}, Q[p].life = life
               PROVE  CountedAt(c, p)'
    BY <1>1, <1>4, <1>5 DEF Counted
  <2>1. PICK r : r = p + 1
    OBVIOUS
  <2>2. r \in 1..Len(P) /\ r \in 2..(Len(P) + 1) /\ r - 1 = p /\ ~(p < 1)
    BY <1>3, <2>1
  <2>3. Q[p] = P[r]
    BY <1>3, <2>1, <2>2 DEF Removed
  <2>4. CountedAt(c, r)
    BY <1>1, <2>2, <2>3 DEF Completing, Counted
  <2>5. \A s \in Under(P[r]) : s \in 1..ring.tail
    <3>1. P[r] \in Frames /\ P[r].seq <= ring.tail
      BY <1>1, <2>2, <2>3, PipeKnown DEF Known, Active
    <3>2. P[r].seq \in Nat /\ ring.tail \in Nat
      BY <1>2, <3>1, FrameType DEF Numeric
    <3> QED
      BY <3>1, <3>2 DEF Under
  <2>6. \A s \in Under(P[r]) :
          /\ P[r] \in Ours(c) => Explained(c, p, s)'
          /\ P[r].to = Nobody => Explained(c, p, s)' \/ Pending(c, p)'
    <3> SUFFICES ASSUME NEW s \in Under(P[r])
                 PROVE  /\ P[r] \in Ours(c) => Explained(c, p, s)'
                        /\ P[r].to = Nobody => Explained(c, p, s)' \/ Pending(c, p)'
      OBVIOUS
    <3>1. /\ P[r] \in Ours(c) => Explained(c, r, s)
          /\ P[r].to = Nobody => Explained(c, r, s) \/ Pending(c, r)
      BY <1>1, <2>4 DEF CountedAt
    <3>2. /\ Explained(c, r, s) => Explained(c, r - 1, s)'
          /\ Pending(c, r) => Pending(c, r - 1)'
      BY <1>8, <1>9, <2>2, <2>5
    <3> QED
      BY <2>2, <3>1, <3>2
  <2> QED
    BY <1>1, <1>6, <2>3, <2>6 DEF CountedAt, Under
<1> QED
  BY <1>10, <1>11

(* What c takes.                                                           *)
LEMMA TakenFrom ==
  ASSUME ReplayInv, ReplayInv', NEW c \in Clients, Consistent(c), CatchingUp(c),
         NEW type, Take(c, type), NEW f, f = Head(cq[c])
  PROVE  /\ UNCHANGED <<gen, life, resident, evicted, ring, up>> /\ route'[c] = route[c]
         /\ route[c] # 0 /\ route[c] \in Nat
         /\ f \in Frames /\ f.type = type /\ f \in Mine(c) /\ f.to \in {Nobody, c}
         /\ f.gen \in 1..gen /\ f.life \in 1..life /\ f.seq \in Nat
         /\ 1 \in 1..Len(Pipe(c)) /\ Pipe(c)[1] = f
         /\ type # "hello" => cgen[c] <= f.gen
         /\ Active /\ type # "hello" /\ f.life = life => f.seq <= ring.tail
         /\ ~evicted /\ type # "hello" /\ f.gen = gen => resident /\ f.life = life
<1>1. TypeOK /\ TypeOK' /\ Numeric /\ ClientInv(c)
  BY Numbers DEF ReplayInv
<1>2. /\ Pipe(c)[1] = f /\ 1 \in 1..Len(Pipe(c)) /\ 1 \in 1..Len(cq[c]) /\ cq[c][1] = f
  BY <1>1, PipeTaken
<1>3. UNCHANGED <<gen, life, resident, evicted, ring, up>> /\ route'[c] = route[c]
  BY DEF Take, wrapper
<1>4. cq[c] # <<>> /\ f.type = type /\ route[c] # 0 /\ route[c] \in Nat
  BY <1>1 DEF Take, ClientInv, Numeric
<1>5. /\ f \in Frames /\ f \in Mine(c) /\ f.to \in {Nobody, c} /\ Known(f) /\ Coming(f, c)
  <2>1. f \in Frames /\ Known(f) /\ Coming(f, c)
    BY <1>2, PipeKnown
  <2>2. f \in Mine(c) /\ f.to \in {Nobody, c}
    BY <1>1, <1>2 DEF CatchingUp, Addressed, ClientInv
  <2> QED
    BY <2>1, <2>2
<1>6. f.gen \in 1..gen /\ f.life \in 1..life /\ f.seq \in Nat
  <2>1. f.gen \in 1..MaxGen /\ f.gen <= gen /\ f.life \in 1..life /\ f.seq \in Nat
    BY <1>5, FrameType DEF Known, Frames
  <2> QED
    BY <1>1, <2>1, ReplayAssumption DEF Numeric
<1>7. /\ Active /\ type # "hello" /\ f.life = life => f.seq <= ring.tail
      /\ type # "hello" => cgen[c] <= f.gen
  BY <1>4, <1>5 DEF Known, Active, Coming
<1>8. ~evicted /\ type # "hello" /\ f.gen = gen => resident /\ f.life = life
  BY <1>2, <1>4 DEF Consistent, Native
<1> QED
  BY <1>2, <1>3, <1>4, <1>5, <1>6, <1>7, <1>8

(* What remains behind it.                                                 *)
LEMMA BehindTaken ==
  ASSUME ReplayInv, ReplayInv', NEW c \in Clients, Consistent(c), CatchingUp(c),
         NEW type, Take(c, type), NEW f, f = Head(cq[c])
  PROVE  /\ Thins(Pipe(c), Pipe(c)')
         /\ \A n : Within(c, n) => Within(c, n)'
         /\ \A n : type = "start" /\ Within(c, n) /\ f.life = life => n <= f.seq
<1>1. TypeOK /\ TypeOK'
  BY DEF ReplayInv
<1>2. PICK P, Q : P = Pipe(c) /\ Q = Pipe(c)'
  OBVIOUS
<1>3. /\ Removed(P, 1, Q) /\ Len(P) \in Nat /\ 1 \in 1..Len(P) /\ P[1] = f
  BY <1>1, <1>2, PipeTaken, PipeShaped DEF PipeShape
<1>4. UNCHANGED <<life, ring>> /\ f.type = type
  BY DEF Take, wrapper
<1>5. Thins(P, Q)
  BY <1>3, ThinsRemoved
<1>6. \A i \in 1..Len(Q) : \E k \in 1..Len(P) : Q[i] = P[k]
  BY <1>5 DEF Thins
<1>7. \A n : Within(c, n) => Within(c, n)'
  BY <1>2, <1>4, <1>6 DEF Within
<1>8. \A n : type = "start" /\ Within(c, n) /\ f.life = life => n <= f.seq
  BY <1>2, <1>3, <1>4 DEF Within
<1> QED
  BY <1>2, <1>5, <1>7, <1>8

LEMMA LaterFrames ==
  ASSUME ReplayInv, ReplayInv', NEW c \in Clients, Consistent(c), CatchingUp(c),
         NEW type, Take(c, type), type # "hello", NEW f, f = Head(cq[c]),
         NEW k \in 1..Len(Pipe(c)')
  PROVE  /\ Pipe(c)'[k].type # "hello" =>
              f.life <= Pipe(c)'[k].life /\ Pipe(c)'[k].life <= life
         /\ Pipe(c)'[k].type \in {"start", "snapshot", "end"}
              /\ Pipe(c)'[k].life = f.life => f.seq <= Pipe(c)'[k].seq
<1>1. TypeOK /\ TypeOK' /\ Numeric
  BY Numbers DEF ReplayInv
<1>2. PICK P, Q : P = Pipe(c) /\ Q = Pipe(c)'
  OBVIOUS
<1>3. /\ Removed(P, 1, Q) /\ Len(P) \in Nat /\ 1 \in 1..Len(P) /\ P[1] = f
  BY <1>1, <1>2, PipeTaken, PipeShaped DEF PipeShape
<1>4. f.type # "hello" /\ f.life \in Nat
  <2>1. f.type # "hello" /\ f \in Frames
    BY <1>2, <1>3, PipeKnown DEF Take
  <2> QED
    BY <2>1, FrameType
<1>5. PICK m \in 1..Len(P) : 1 < m /\ Q[k] = P[m]
  <2>1. k + 1 \in 1..Len(P) /\ 1 < k + 1 /\ Q[k] = P[k + 1]
    BY <1>2, <1>3 DEF Removed
  <2> QED
    BY <2>1
<1>6. Before(f, P[m]) /\ P[m].life \in 1..life
  BY <1>2, <1>3, <1>5, PipeKnown DEF Sorted, Known
<1>7. P[m].type \in {"start", "snapshot", "end"} /\ P[m].life = f.life => f.seq <= P[m].seq
  BY <1>2, <1>3, <1>4, <1>5 DEF Consistent, Rising
<1>8. P[m].life <= life /\ P[m].life \in Nat
  BY <1>1, <1>6 DEF Numeric
<1>9. P[m].type # "hello" => f.life < P[m].life \/ f.life = P[m].life
  BY <1>4, <1>6 DEF Before
<1>10. P[m].type # "hello" => f.life <= P[m].life
  BY <1>4, <1>8, <1>9
<1> QED
  BY <1>2, <1>5, <1>7, <1>8, <1>10

(* A frame that carries a generation.                                      *)
LEMMA ConsistentOpened ==
  ASSUME ReplayInv, ReplayInv', NEW c \in Clients, Consistent(c), CatchingUp(c),
         NEW type \in {"start", "snapshot"}, Take(c, type), NEW f, f = Head(cq[c]),
         inbox' = inbox, cgen'[c] = f.gen,
         \/ cursor'[c] = 0
         \/ cursor'[c] = CursorIn(c, f.gen) /\ (orphan[c] => orphan'[c]),
         seen[c] \subseteq seen'[c],
         orphan[c] \/ overlap[c] =>
           orphan'[c] \/ overlap'[c] \/ (type = "start" /\ Covers(f) \subseteq seen'[c])
  PROVE  Consistent(c)'
<1>1. TypeOK /\ TypeOK' /\ Numeric
  BY Numbers DEF ReplayInv
<1>2. /\ UNCHANGED <<gen, life, resident, evicted, ring>> /\ route'[c] = route[c]
      /\ f \in Frames /\ f.type = type
      /\ f.gen \in 1..gen /\ f.life \in 1..life /\ f.seq \in Nat
      /\ Thins(Pipe(c), Pipe(c)')
      /\ ~evicted /\ f.gen = gen => resident /\ f.life = life
      /\ \A n : Within(c, n) => Within(c, n)'
      /\ \A n : type = "start" /\ Within(c, n) /\ f.life = life => n <= f.seq
      /\ cgen[c] <= f.gen
  BY TakenFrom, BehindTaken
<1>3. Rising(Pipe(c)')
  BY <1>2, ThinsRising DEF Consistent
<1>4. Native(c)' /\ Undated(c)'
  <2>1. \A i \in 1..Len(Pipe(c)') : \E k \in 1..Len(Pipe(c)) : Pipe(c)'[i] = Pipe(c)[k]
    BY <1>2 DEF Thins
  <2>2. Native(c)'
    BY <1>2, <2>1 DEF Consistent, Native
  <2>3. f.gen # 0
    BY <1>1, <1>2 DEF Numeric
  <2> QED
    BY <2>2, <2>3 DEF Undated
<1>5. ASSUME NEW n \in Int, n <= 0 PROVE Within(c, n)'
  <2>1. n <= ring.tail
    BY <1>1, <1>5 DEF Numeric
  <2>2. \A p \in 1..Len(Pipe(c)') : Pipe(c)'[p].seq \in Nat
    BY FrameType, PipesKnownNext DEF PipesKnown
  <2>3. \A p \in 1..Len(Pipe(c)') : n <= Pipe(c)'[p].seq
    BY <1>5, <2>2
  <2> QED
    BY <1>2, <2>1, <2>3 DEF Within
<1>6. Active' = Active
  BY <1>2 DEF Active
<1>7. ASSUME Active, ~orphan'[c], cgen'[c] = gen, cursor'[c] \notin {n \in Int : n <= 0}
      PROVE  /\ cgen[c] = gen /\ cursor'[c] = cursor[c] /\ ~orphan[c] /\ f.life = life
  <2>1. cursor'[c] = CursorIn(c, f.gen) /\ ~orphan[c]
    BY <1>7
  <2>2. f.gen = gen /\ f.life = life
    BY <1>2, <1>7 DEF Active
  <2>3. CASE cgen[c] = gen
    BY <2>1, <2>2, <2>3 DEF CursorIn
  <2>4. CASE cgen[c] # gen /\ cgen[c] # 0
    BY <1>7, <2>1, <2>2, <2>4 DEF CursorIn
  <2>5. CASE cgen[c] = 0
    <3>1. cursor[c] <= 0 /\ cursor[c] \in Int
      BY <1>1, <2>1, <2>5 DEF Consistent, Undated, Numeric
    <3> QED
      BY <1>7, <2>1, <2>5, <3>1 DEF CursorIn
  <2> QED
    BY <2>3, <2>4, <2>5
<1>8. Bounded(c)'
  <2> SUFFICES ASSUME Active, ~orphan'[c], cgen'[c] = gen
               PROVE  Within(c, cursor[c])'
    BY <1>2, <1>6 DEF Bounded
  <2>1. PICK n : n = cursor'[c]
    OBVIOUS
  <2>2. CASE n \in Int /\ n <= 0
    BY <1>5, <2>1, <2>2 DEF Within
  <2>3. CASE ~(n \in Int /\ n <= 0)
    <3>1. cgen[c] = gen /\ n = cursor[c] /\ ~orphan[c]
      BY <1>7, <2>1, <2>3
    <3>2. Within(c, n)
      BY <3>1 DEF Consistent, Bounded
    <3>3. Within(c, n)'
      BY <1>2, <3>2
    <3> QED
      BY <2>1, <3>3 DEF Within
  <2> QED
    BY <2>2, <2>3
<1>9. Filled(c)'
  <2> SUFFICES ASSUME Active, ~orphan'[c], ~overlap'[c], cgen'[c] = gen,
                      NEW s \in 1..cursor'[c]
               PROVE  <<life, s>> \in seen'[c]
    BY <1>2, <1>6 DEF Filled
  <2>1. cursor'[c] \notin {n \in Int : n <= 0}
    OBVIOUS
  <2>2. cgen[c] = gen /\ cursor'[c] = cursor[c] /\ ~orphan[c] /\ f.life = life
    BY <1>7, <2>1
  <2>3. CASE ~overlap[c]
    BY <2>2, <2>3 DEF Consistent, Filled
  <2>4. CASE overlap[c]
    <3>1. type = "start" /\ Covers(f) \subseteq seen'[c]
      BY <2>4
    <3>2. cursor[c] <= f.seq /\ cursor[c] \in Int
      BY <1>1, <1>2, <2>2, <3>1 DEF Consistent, Bounded, Numeric
    <3>3. s \in 1..f.seq
      BY <1>2, <2>2, <3>2
    <3> QED
      BY <2>2, <3>1, <3>3 DEF Covers
  <2> QED
    BY <2>3, <2>4
<1>10. Recalled(c)'
  <2> SUFFICES ASSUME Active, NEW i \in 1..Len(inbox), Calling(c, i), ~inbox[i].stray,
                      inbox[i].gen = gen
               PROVE  /\ Within(c, inbox[i].cursor)'
                      /\ \A s \in 1..inbox[i].cursor :
                           <<life, s>> \in seen'[c] \/ orphan'[c] \/ overlap'[c]
    BY <1>2, <1>6 DEF Recalled, Calling
  <2>1. PICK m : m = inbox[i].cursor
    OBVIOUS
  <2>2. /\ Within(c, m)
        /\ \A s \in 1..m : <<life, s>> \in seen[c] \/ orphan[c] \/ overlap[c]
    BY <2>1 DEF Consistent, Recalled
  <2>3. Within(c, m)'
    BY <1>2, <2>2
  <2>4. Within(c, inbox[i].cursor)'
    BY <2>1, <2>3 DEF Within
  <2>5. ASSUME NEW s \in 1..m PROVE <<life, s>> \in seen'[c] \/ orphan'[c] \/ overlap'[c]
    <3>1. CASE ~(type = "start" /\ Covers(f) \subseteq seen'[c])
      BY <2>2, <3>1
    <3>2. CASE type = "start" /\ Covers(f) \subseteq seen'[c]
      <4>0. m \in Int
        <5>1. inbox \in Seq(Hellos) /\ \A x \in Hellos : x.cursor \in Int
          BY <1>1, ReplayAssumption DEF TypeOK, Hellos, NoCursor
        <5> QED
          BY <2>1, <5>1
      <4>1. m # NoCursor
        BY <4>0 DEF NoCursor
      <4>2. cgen[c] = gen
        BY <2>1, <4>1 DEF CatchingUp, Resumed
      <4>3. f.gen = gen
        BY <1>1, <1>2, <4>2 DEF Numeric
      <4>4. f.life = life /\ m <= f.seq
        BY <1>2, <2>2, <3>2, <4>3 DEF Active
      <4>5. s \in 1..f.seq
        BY <1>2, <4>0, <4>4
      <4> QED
        BY <3>2, <4>4, <4>5 DEF Covers
    <3> QED
      BY <3>1, <3>2
  <2> QED
    BY <2>1, <2>4, <2>5
<1> QED
  BY <1>3, <1>4, <1>8, <1>9, <1>10 DEF Consistent

(* A frame that moves the cursor and names no generation.                  *)
LEMMA ConsistentNoted ==
  ASSUME ReplayInv, ReplayInv', NEW c \in Clients, Consistent(c), Counted(c), CatchingUp(c),
         NEW type \in {"event", "end"}, Take(c, type), NEW f, f = Head(cq[c]),
         inbox' = inbox, cgen'[c] = cgen[c], cursor'[c] = Bigger(cursor[c], f.seq),
         seen[c] \subseteq seen'[c],
         type = "event" => <<f.life, f.seq>> \in seen'[c],
         overlap'[c] = (overlap[c] \/ (owed[c] /\ f.to = Nobody)),
         orphan'[c] = (orphan[c] \/ cgen[c] # f.gen \/ (f.to = c /\ ~Answers(f, c)))
  PROVE  Consistent(c)'
<1>1. TypeOK /\ TypeOK' /\ Numeric
  BY Numbers DEF ReplayInv
<1>2. /\ UNCHANGED <<gen, life, resident, evicted, ring>> /\ route'[c] = route[c]
      /\ route[c] # 0
      /\ f \in Frames /\ f.type = type /\ f.to \in {Nobody, c}
      /\ f.gen \in 1..gen /\ f.life \in 1..life /\ f.seq \in Nat
      /\ 1 \in 1..Len(Pipe(c)) /\ Pipe(c)[1] = f
      /\ Active /\ f.life = life => f.seq <= ring.tail
      /\ ~evicted /\ f.gen = gen => resident /\ f.life = life
  BY TakenFrom
<1>3. /\ Thins(Pipe(c), Pipe(c)')
      /\ \A n : Within(c, n) => Within(c, n)'
  BY BehindTaken
<1>4. Active' = Active /\ cursor[c] \in Int
  BY <1>1, <1>2 DEF Active, Numeric
<1>5. Rising(Pipe(c)')
  BY <1>3, ThinsRising DEF Consistent
<1>6. Native(c)'
  <2>1. \A i \in 1..Len(Pipe(c)') : \E k \in 1..Len(Pipe(c)) : Pipe(c)'[i] = Pipe(c)[k]
    BY <1>3 DEF Thins
  <2> QED
    BY <1>2, <2>1 DEF Consistent, Native
<1>7. Undated(c)'
  <2>1. f.gen # 0
    BY <1>1, <1>2 DEF Numeric
  <2> QED
    BY <2>1 DEF Undated
<1>8. ASSUME Active, ~orphan'[c], cgen[c] = gen
      PROVE  /\ f.life = life /\ ~orphan[c] /\ (f.to = c => f \in Ours(c))
  <2>1. f.gen = gen /\ ~orphan[c] /\ (f.to = c => Answers(f, c))
    BY <1>8
  <2>2. f.to = c => f \in Ours(c)
    BY <1>2, <2>1 DEF Answers, Ours
  <2> QED
    BY <1>2, <1>8, <2>1, <2>2 DEF Active
<1>9. Bounded(c)'
  <2> SUFFICES ASSUME Active, ~orphan'[c], cgen[c] = gen
               PROVE  Within(c, cursor[c])'
    BY <1>2, <1>4 DEF Bounded
  <2>1. PICK n : n = cursor[c]
    OBVIOUS
  <2>2. f.life = life /\ f.seq <= ring.tail
    BY <1>2, <1>8
  <2>3. Within(c, n) /\ Within(c, n)'
    BY <1>3, <1>8, <2>1 DEF Consistent, Bounded
  <2>4. \A k \in 1..Len(Pipe(c)') :
          Pipe(c)'[k].type = "start" /\ Pipe(c)'[k].life = life => f.seq <= Pipe(c)'[k].seq
    BY <2>2, LaterFrames
  <2>5. Within(c, f.seq)'
    BY <1>2, <2>2, <2>4 DEF Within
  <2>6. cursor'[c] = n \/ cursor'[c] = f.seq
    BY <2>1 DEF Bigger
  <2>7. CASE cursor'[c] = n
    BY <2>3, <2>7 DEF Within
  <2>8. CASE cursor'[c] = f.seq
    BY <2>5, <2>8 DEF Within
  <2> QED
    BY <2>6, <2>7, <2>8
<1>10. Filled(c)'
  <2> SUFFICES ASSUME Active, ~orphan'[c], ~overlap'[c], cgen[c] = gen,
                      NEW s \in 1..cursor'[c], <<life, s>> \notin seen[c]
               PROVE  <<life, s>> \in seen'[c]
    BY <1>2, <1>4 DEF Filled
  <2>1. f.life = life /\ ~orphan[c] /\ (f.to = c => f \in Ours(c)) /\ ~overlap[c]
    BY <1>8
  <2>2. ~(s <= cursor[c]) /\ s \in Nat /\ s >= 1
    <3>1. s \in Nat /\ s >= 1
      BY <1>2, <1>4 DEF Bigger
    <3>2. s \notin 1..cursor[c]
      BY <2>1 DEF Consistent, Filled
    <3> QED
      BY <1>4, <3>1, <3>2
  <2>3. s \in 1..f.seq
    BY <1>2, <1>4, <2>2 DEF Bigger
  <2>4. CASE s = f.seq /\ type = "event"
    BY <2>1, <2>4
  <2>5. CASE ~(s = f.seq /\ type = "event")
    <3>1. s \in Under(f)
      BY <1>2, <2>3, <2>5 DEF Under
    <3>2. CountedAt(c, 1)
      BY <1>2, <2>1 DEF Counted
    <3>3. Explained(c, 1, s) \/ (f.to = Nobody /\ Pending(c, 1))
      BY <1>2, <2>1, <3>1, <3>2 DEF CountedAt
    <3>4. \A q : q \notin 1..(1 - 1)
      OBVIOUS
    <3>5. CASE Explained(c, 1, s)
      <4>1. <<life, s>> \in seen[c] \/ orphan[c] \/ overlap[c] \/ cgen[c] # gen
        BY <3>4, <3>5 DEF Explained, Since
      <4> QED
        BY <2>1, <4>1
    <3>6. CASE f.to = Nobody /\ Pending(c, 1)
      <4>1. owed[c]
        BY <3>4, <3>6 DEF Pending, Since
      <4> QED
        BY <3>6, <4>1
    <3> QED
      BY <3>3, <3>5, <3>6
  <2> QED
    BY <2>4, <2>5
<1>11. Recalled(c)'
  <2> SUFFICES ASSUME Active, NEW i \in 1..Len(inbox), Calling(c, i), ~inbox[i].stray,
                      inbox[i].gen = gen
               PROVE  /\ Within(c, inbox[i].cursor)'
                      /\ \A s \in 1..inbox[i].cursor :
                           <<life, s>> \in seen'[c] \/ orphan'[c] \/ overlap'[c]
    BY <1>2, <1>4 DEF Recalled, Calling
  <2>1. PICK m : m = inbox[i].cursor
    OBVIOUS
  <2>2. /\ Within(c, m)
        /\ \A s \in 1..m : <<life, s>> \in seen[c] \/ orphan[c] \/ overlap[c]
    BY <2>1 DEF Consistent, Recalled
  <2>3. Within(c, m)'
    BY <1>3, <2>2
  <2>4. Within(c, inbox[i].cursor)'
    BY <2>1, <2>3 DEF Within
  <2> QED
    BY <2>1, <2>2, <2>4
<1> QED
  BY <1>5, <1>6, <1>7, <1>9, <1>10, <1>11 DEF Consistent

(* A dropped event is below the cursor, so it was seen, or what excuses c  *)
(* lasts: the frames behind it that could end it cover the event.          *)
LEMMA StaleExplained ==
  ASSUME ReplayInv, ReplayInv', NEW c \in Clients, Completing(c), CatchingUp(c), CatchingUp(c)',
         Take(c, "event"), NEW f, f = Head(cq[c]), Stale(c, f),
         cursor'[c] = cursor[c], cgen'[c] = cgen[c], seen'[c] = seen[c],
         orphan'[c] = orphan[c], overlap'[c] = overlap[c],
         NEW s \in 1..ring.tail, Active, f \in Gives(c, s),
         NEW p \in 1..(Len(Pipe(c)') + 1)
  PROVE  Explained(c, p, s)'
<1>1. TypeOK /\ TypeOK' /\ Numeric
  BY Numbers DEF ReplayInv
<1>2. Consistent(c)
  BY DEF Completing
<1>3. /\ UNCHANGED <<gen, life, resident, evicted, ring>> /\ route'[c] = route[c]
      /\ f \in Frames /\ f.type = "event" /\ f.seq \in Nat
  BY <1>2, TakenFrom
<1>4. f.life = life /\ f.seq = s
  BY <1>3 DEF Gives, Resets
<1>5. s <= cursor[c] /\ cursor[c] \in Int /\ s \in Nat /\ s >= 1
  <2>1. cursor[c] \in Int /\ s \in Nat /\ s >= 1
    BY <1>1 DEF Numeric
  <2> QED
    BY <1>4, <2>1 DEF Stale, Bigger
<1>6. <<life, s>> \in seen[c] \/ orphan[c] \/ overlap[c] \/ cgen[c] # gen
  <2>1. s \in 1..cursor[c]
    BY <1>5
  <2> QED
    BY <1>2, <2>1 DEF Consistent, Filled
<1>7. (<<life, s>> \in seen[c] \/ orphan[c] \/ overlap[c] \/ cgen[c] # gen)'
  BY <1>3, <1>6
<1>8. ASSUME NEW k \in 1..(p - 1), Pipe(c)'[k].type \in {"start", "snapshot"}
      PROVE  Pipe(c)'[k].life = life' /\ Pipe(c)'[k].seq >= s
  <2>1. k \in 1..Len(Pipe(c)')
    BY <1>1, PipeShapedNext DEF PipeShape
  <2>2. Pipe(c)'[k] \in Frames /\ f.life \in Nat /\ life \in Nat
    BY <1>1, <1>4, <2>1, PipesKnownNext DEF PipesKnown, Numeric
  <2>3. Pipe(c)'[k].life \in Nat /\ Pipe(c)'[k].seq \in Nat
    BY <2>2, FrameType
  <2>4. f.life <= Pipe(c)'[k].life /\ Pipe(c)'[k].life <= life
    BY <1>2, <1>8, <2>1, LaterFrames
  <2>5. Pipe(c)'[k].life = life
    BY <1>4, <2>2, <2>3, <2>4
  <2>6. f.seq <= Pipe(c)'[k].seq
    BY <1>2, <1>4, <1>8, <2>1, <2>5, LaterFrames
  <2> QED
    BY <1>3, <1>4, <1>5, <2>3, <2>5, <2>6
<1>9. Recovers'
  BY <1>1, RecoversNext
<1>10. \A k \in 1..(p - 1) :
         /\ Pipe(c)'[k] \in Mine(c)'
         /\ \/ Pipe(c)'[k].type = "start"
            \/ Pipe(c)'[k].type = "snapshot" /\ cgen'[c] # gen'
         => Pipe(c)'[k].life = life' /\ Pipe(c)'[k].seq >= s
  BY <1>8
<1> QED
  BY <1>5, <1>7, <1>9, <1>10 DEF Recovers

LEMMA CompletingSnapshot ==
  ASSUME ReplayInv, ReplayInv', NEW c \in Clients, TakeSnapshot(c), Completing(c), CatchingUp(c)
  PROVE  Completing(c)'
<1>1. TypeOK /\ Consistent(c)
  BY DEF ReplayInv, Completing
<1>2. PICK f : f = Head(cq[c])
  OBVIOUS
<1>3. /\ Take(c, "snapshot") /\ inbox' = inbox /\ cgen'[c] = f.gen
      /\ cursor'[c] = CursorIn(c, f.gen) /\ seen'[c] = seen[c] \cup Covers(f)
      /\ overlap'[c] = overlap[c] /\ orphan'[c] = orphan[c]
      /\ owed'[c] = (owed[c] /\ ~Answers(f, c))
  BY <1>1, <1>2 DEF TakeSnapshot, TypeOK
<1>4. f \in Frames /\ f.type = "snapshot" /\ f \in Mine(c) /\ route[c] # 0
  BY <1>1, <1>2, <1>3, TakenFrom
<1>5. Consistent(c)'
  BY <1>1, <1>2, <1>3, ConsistentOpened
<1>6. /\ f \notin Strays(c) /\ f \notin Calls
      /\ cgen[c] # gen /\ f \notin Renews(c) => cgen'[c] # gen
  BY <1>3, <1>4 DEF Strays, Calls, Renews
<1>7. owed[c] /\ f \notin OwnCloses(c) => owed'[c]
  BY <1>3, <1>4 DEF OwnCloses, Ours, Answers
<1>8. ASSUME NEW s \in 1..ring.tail, f \in Gives(c, s) PROVE <<life, s>> \in seen'[c]
  <2>1. f.life = life /\ f.seq >= s /\ s \in Nat /\ s >= 1 /\ f.seq \in Nat
    BY <1>1, <1>4, <1>8, FrameType, Numbers DEF Gives, Resets, Numeric
  <2>2. s \in 1..f.seq
    BY <2>1
  <2> QED
    BY <1>3, <2>1, <2>2 DEF Covers
<1>9. Accounted(c)' /\ Counted(c)'
  <2>1. seen[c] \subseteq seen'[c]
    BY <1>3
  <2> QED
    BY <1>2, <1>3, <1>6, <1>7, <1>8, <2>1, AccountedTaken
<1> QED
  BY <1>5, <1>9 DEF Completing

LEMMA CompletingStart ==
  ASSUME ReplayInv, ReplayInv', NEW c \in Clients, TakeStart(c), Completing(c), CatchingUp(c)
  PROVE  Completing(c)'
<1>1. TypeOK /\ Consistent(c)
  BY DEF ReplayInv, Completing
<1>2. PICK f : f = Head(cq[c])
  OBVIOUS
<1>3. /\ Take(c, "start") /\ inbox' = inbox /\ cgen'[c] = f.gen
      /\ cursor'[c] = IF f.rebuild THEN 0 ELSE CursorIn(c, f.gen)
      /\ seen'[c] = IF f.truncated \/ f.rebuild THEN seen[c] \cup Covers(f) ELSE seen[c]
      /\ overlap'[c] = (overlap[c] /\ ~(f.truncated \/ f.rebuild))
      /\ orphan'[c] = (~Answers(f, c) \/ ((orphan[c] \/ f.stray) /\ ~f.rebuild))
      /\ owed'[c] = owed[c]
  BY <1>1, <1>2 DEF TakeStart, TypeOK
<1>4. f \in Frames /\ f.type = "start" /\ f \in Mine(c) /\ route[c] # 0
  BY <1>1, <1>2, <1>3, TakenFrom
<1>5. seen[c] \subseteq seen'[c]
  BY <1>3
<1>6. Consistent(c)'
  <2>1. \/ cursor'[c] = 0
        \/ cursor'[c] = CursorIn(c, f.gen) /\ (orphan[c] => orphan'[c])
    BY <1>3
  <2>2. orphan[c] \/ overlap[c] => orphan'[c] \/ overlap'[c] \/ Covers(f) \subseteq seen'[c]
    <3>1. CASE f.truncated \/ f.rebuild
      BY <1>3, <3>1
    <3>2. CASE ~(f.truncated \/ f.rebuild)
      BY <1>3, <3>2
    <3> QED
      BY <3>1, <3>2
  <2> QED
    BY <1>1, <1>2, <1>3, <1>5, <2>1, <2>2, ConsistentOpened
<1>7. f \notin Ours(c) => orphan'[c]
  BY <1>3, <1>4 DEF Ours, Answers
<1>8. /\ orphan[c] /\ f \notin OwnRebuilds(c) => orphan'[c]
      /\ f \in Strays(c) => orphan'[c]
  BY <1>3, <1>4, <1>7 DEF OwnRebuilds, Strays
<1>9. overlap[c] /\ f \notin OwnResets(c) => overlap'[c] \/ orphan'[c]
  BY <1>3, <1>4, <1>7 DEF OwnResets, Resets
<1>10. /\ f \notin Calls /\ (owed[c] => owed'[c])
       /\ cgen[c] # gen /\ f \notin Renews(c) => cgen'[c] # gen
  BY <1>3, <1>4 DEF Calls, Renews
<1>11. ASSUME NEW s \in 1..ring.tail, f \in Gives(c, s) PROVE <<life, s>> \in seen'[c]
  <2>1. /\ f.life = life /\ f.seq >= s /\ s \in Nat /\ s >= 1 /\ f.seq \in Nat
        /\ f.truncated \/ f.rebuild
    BY <1>1, <1>4, <1>11, FrameType, Numbers DEF Gives, Resets, Numeric
  <2>2. s \in 1..f.seq
    BY <2>1
  <2> QED
    BY <1>3, <2>1, <2>2 DEF Covers
<1>12. Accounted(c)' /\ Counted(c)'
  BY <1>2, <1>3, <1>5, <1>8, <1>9, <1>10, <1>11, AccountedTaken
<1> QED
  BY <1>6, <1>12 DEF Completing

(* What an event or a replay_end does not undo.                            *)
LEMMA NotedExcuses ==
  ASSUME NEW c \in Clients, NEW f \in Mine(c), f.type \in {"event", "end"},
         route[c] # 0, cgen'[c] = cgen[c]
  PROVE  /\ f \notin OwnRebuilds(c) /\ f \notin OwnResets(c)
         /\ f \notin Strays(c) /\ f \notin Renews(c) /\ f \notin Calls
         /\ cgen[c] # gen => cgen'[c] # gen
         /\ \A s : f \in Gives(c, s) => f.type = "event" /\ f.life = life /\ f.seq = s
BY DEF OwnRebuilds, OwnResets, Strays, Renews, Calls, Gives, Resets

LEMMA CompletingEvent ==
  ASSUME ReplayInv, ReplayInv', NEW c \in Clients, TakeEvent(c), Completing(c),
         CatchingUp(c), CatchingUp(c)'
  PROVE  Completing(c)'
<1>1. TypeOK /\ Consistent(c)
  BY DEF ReplayInv, Completing
<1>2. PICK f : f = Head(cq[c])
  OBVIOUS
<1>3. /\ Take(c, "event") /\ inbox' = inbox /\ cgen'[c] = cgen[c] /\ owed'[c] = owed[c]
  BY DEF TakeEvent, browser
<1>4. f.type = "event" /\ f \in Mine(c) /\ route[c] # 0
  BY <1>1, <1>2, <1>3, TakenFrom
<1>5. /\ f \notin OwnRebuilds(c) /\ f \notin OwnResets(c)
      /\ f \notin Strays(c) /\ f \notin Renews(c) /\ f \notin Calls
      /\ cgen[c] # gen => cgen'[c] # gen
      /\ \A s : f \in Gives(c, s) => f.life = life /\ f.seq = s
  BY <1>3, <1>4, NotedExcuses
<1>6. CASE Stale(c, f)
  <2>1. UNCHANGED <<cursor, cgen, seen, orphan, overlap, owed>>
    BY <1>2, <1>6 DEF TakeEvent, browser
  <2>2. Consistent(c)'
    <3>1. UNCHANGED <<gen, life, resident, ring, evicted>> /\ route'[c] = route[c]
      BY <1>1, <1>2, <1>3, TakenFrom
    <3>2. Thins(Pipe(c), Pipe(c)')
      BY <1>1, <1>2, <1>3, BehindTaken
    <3>3. \A i \in 1..Len(inbox') : Calling(c, i)' =>
            \E j \in 1..Len(inbox) : Calling(c, j) /\ inbox'[i] = inbox[j]
      BY <1>3, <3>1 DEF Calling
    <3> QED
      BY <1>1, <2>1, <3>1, <3>2, <3>3, ConsistentThin
  <2>3. \A s \in 1..ring.tail : Active /\ f \in Gives(c, s) =>
          \A p \in 1..(Len(Pipe(c)') + 1) : Explained(c, p, s)'
    BY <1>2, <1>3, <1>6, <2>1, StaleExplained
  <2>4. Accounted(c)' /\ Counted(c)'
    BY <1>2, <1>3, <1>5, <2>1, <2>3, AccountedTaken
  <2> QED
    BY <2>2, <2>4 DEF Completing
<1>7. CASE ~Stale(c, f)
  <2>1. /\ cursor'[c] = Bigger(cursor[c], f.seq)
        /\ seen'[c] = seen[c] \cup {<<f.life, f.seq>>}
        /\ overlap'[c] = (overlap[c] \/ (owed[c] /\ f.to = Nobody))
        /\ orphan'[c] = (orphan[c] \/ cgen[c] # f.gen \/ (f.to = c /\ ~Answers(f, c)))
    BY <1>1, <1>2, <1>7 DEF TakeEvent, NoteSeq, TypeOK
  <2>2. Consistent(c)'
    <3>1. seen[c] \subseteq seen'[c] /\ <<f.life, f.seq>> \in seen'[c]
      BY <2>1
    <3>2. "event" \in {"event", "end"} /\ Counted(c)
      BY DEF Completing
    <3> QED
      BY <1>1, <1>2, <1>3, <2>1, <3>1, <3>2, ConsistentNoted
  <2>3. \A s : f \in Gives(c, s) => <<life, s>> \in seen'[c]
    BY <1>5, <2>1
  <2>4. /\ seen[c] \subseteq seen'[c] /\ (orphan[c] => orphan'[c])
        /\ overlap[c] => overlap'[c]
    BY <2>1
  <2>5. Accounted(c)' /\ Counted(c)'
    BY <1>2, <1>3, <1>5, <2>3, <2>4, AccountedTaken
  <2> QED
    BY <2>2, <2>5 DEF Completing
<1> QED
  BY <1>6, <1>7

LEMMA CompletingEnd ==
  ASSUME ReplayInv, ReplayInv', NEW c \in Clients, TakeEnd(c), Completing(c), CatchingUp(c)
  PROVE  Completing(c)'
<1>1. TypeOK /\ Consistent(c)
  BY DEF ReplayInv, Completing
<1>2. PICK f : f = Head(cq[c])
  OBVIOUS
<1>3. /\ Take(c, "end") /\ inbox' = inbox /\ cgen'[c] = cgen[c] /\ seen'[c] = seen[c]
      /\ cursor'[c] = Bigger(cursor[c], f.seq)
      /\ overlap'[c] = (overlap[c] \/ (owed[c] /\ f.to = Nobody))
      /\ orphan'[c] = (orphan[c] \/ cgen[c] # f.gen \/ (f.to = c /\ ~Answers(f, c)))
      /\ owed'[c] = (owed[c] /\ ~Answers(f, c))
  BY <1>1, <1>2 DEF TakeEnd, NoteSeq, TypeOK
<1>4. f \in Frames /\ f.type = "end" /\ f \in Mine(c) /\ route[c] # 0
  BY <1>1, <1>2, <1>3, TakenFrom
<1>5. /\ f \notin OwnRebuilds(c) /\ f \notin OwnResets(c)
      /\ f \notin Strays(c) /\ f \notin Renews(c) /\ f \notin Calls
      /\ cgen[c] # gen => cgen'[c] # gen
      /\ \A s : f \notin Gives(c, s)
  BY <1>3, <1>4, NotedExcuses
<1>6. Consistent(c)'
  <2>1. "end" \in {"event", "end"} /\ Counted(c) /\ seen[c] \subseteq seen'[c]
    BY <1>3 DEF Completing
  <2> QED
    BY <1>1, <1>2, <1>3, <2>1, ConsistentNoted
<1>7. owed[c] /\ f \notin OwnCloses(c) => owed'[c]
  BY <1>3, <1>4 DEF OwnCloses, Ours, Answers
<1>8. Accounted(c)' /\ Counted(c)'
  <2>1. /\ seen[c] \subseteq seen'[c] /\ (orphan[c] => orphan'[c])
        /\ overlap[c] => overlap'[c]
    BY <1>3
  <2> QED
    BY <1>2, <1>3, <1>5, <1>7, <2>1, AccountedTaken
<1> QED
  BY <1>6, <1>8 DEF Completing

LEMMA CompletingReconnected ==
  ASSUME ReplayInv, ReplayInv', NEW c \in Clients, TakeReconnected(c), Completing(c),
         CatchingUp(c)
  PROVE  Completing(c)'
<1>1. TypeOK /\ Consistent(c)
  BY DEF ReplayInv, Completing
<1>2. PICK f : f = Head(cq[c])
  OBVIOUS
<1>3. /\ Take(c, "hello") /\ UNCHANGED <<cursor, cgen, seen, overlap, orphan>> /\ owed'[c]
  BY <1>1 DEF TakeReconnected, Hello, TypeOK
<1>4. /\ UNCHANGED <<gen, life, resident, ring, evicted>> /\ route'[c] = route[c]
      /\ f.type = "hello"
  BY <1>1, <1>2, <1>3, TakenFrom
<1>5. PICK h : /\ h.cursor = cursor[c] /\ h.gen = cgen[c] /\ h.stray = orphan[c]
               /\ inbox' = IF up THEN Append(inbox, h) ELSE inbox
  BY <1>3 DEF TakeReconnected, Hello
<1>6. \A i \in 1..Len(inbox') : Calling(c, i)' =>
        \/ \E j \in 1..Len(inbox) : Calling(c, j) /\ inbox'[i] = inbox[j]
        \/ inbox'[i] = h
  <2>1. inbox \in Seq(Hellos) /\ Len(inbox) \in Nat
    BY <1>1 DEF TypeOK
  <2>2. \A i \in 1..Len(inbox') :
          (i \in 1..Len(inbox) /\ inbox'[i] = inbox[i]) \/ inbox'[i] = h
    BY <1>5, <2>1
  <2> QED
    BY <1>4, <2>2 DEF Calling
<1>7. Consistent(c)'
  <2>1. Thins(Pipe(c), Pipe(c)')
    BY <1>1, <1>2, <1>3, BehindTaken
  <2> QED
    BY <1>1, <1>3, <1>4, <1>5, <1>6, <2>1, ConsistentThin
<1>8. /\ f \notin OwnRebuilds(c) /\ f \notin OwnResets(c) /\ f \notin Strays(c)
      /\ \A s : f \notin Gives(c, s)
  BY <1>4 DEF OwnRebuilds, OwnResets, Strays, Gives, Resets
<1>9. Accounted(c)' /\ Counted(c)'
  BY <1>2, <1>3, <1>4, <1>8, AccountedTaken
<1> QED
  BY <1>7, <1>9 DEF Completing

LEMMA CompletingOwn ==
  ASSUME ReplayInv, ReplayInv', NEW c \in Clients, ClientNext(c), Completing(c),
         CatchingUp(c), CatchingUp(c)'
  PROVE  Completing(c)'
BY CompletingConnect, CompletingDisconnect, CompletingReload, CompletingReconnected,
   CompletingSnapshot, CompletingStart, CompletingEvent, CompletingEnd DEF ClientNext

LEMMA StepCompleting ==
  /\ ReplayInv /\ ReplayInv'
  /\ \A c \in Clients : CatchingUp(c) /\ CatchingUp(c)' /\ Completing(c)
  /\ [Next]_vars
  => \A c \in Clients : Completing(c)'
<1> SUFFICES ASSUME ReplayInv, ReplayInv', [Next]_vars, NEW c \in Clients,
                    CatchingUp(c), CatchingUp(c)', Completing(c)
             PROVE  Completing(c)'
  OBVIOUS
<1>1. TypeOK /\ TypeOK' /\ PoolInv /\ Numeric
  BY Numbers DEF ReplayInv
<1>2. CASE EmitUser \/ EmitDelta \/ EmitTurnEnd
  <2>1. PICK kind, from : EmitEvent(kind, from)
    BY <1>2, Zenon DEF EmitUser, EmitDelta, EmitTurnEnd
  <2>2. turnFrom' <= ring.tail + 1
    <3>1. CASE EmitUser
      BY <1>1, <3>1 DEF EmitUser, Numeric
    <3>2. CASE EmitDelta
      BY <1>1, <3>2 DEF EmitDelta, Numeric, PoolInv
    <3>3. CASE EmitTurnEnd
      BY <1>1, <3>3 DEF EmitTurnEnd, Numeric
    <3> QED
      BY <1>2, <3>1, <3>2, <3>3
  <2> QED
    BY <2>1, <2>2, CompletingEmit
<1>3. CASE WrapperNext
  BY <1>2, <1>3, CompletingHello, CompletingEvict, CompletingRespawn, CompletingRestart
     DEF WrapperNext
<1>4. CASE LinkNext
  BY <1>4, CompletingLinkDown, CompletingLinkUp, CompletingForward DEF LinkNext
<1>5. CASE \E d \in Clients : ClientNext(d)
  BY <1>5, CompletingOwn, CompletingOther
<1>6. CASE UNCHANGED vars
  <2>1. UNCHANGED <<gen, life, resident, ring, evicted, up, wq, inbox>>
    BY <1>6 DEF vars, wrapper, link
  <2>2. UNCHANGED <<route, cq, cursor, cgen, seen, orphan, overlap, owed>>
    BY <1>6 DEF vars, relay, browser
  <2>3. Unmoved(c) /\ Pipe(c)' = Pipe(c) /\ Len(Pipe(c)) \in Nat
    BY <1>1, <2>1, <2>2, PipeShaped DEF Unmoved, Pipe, PipeShape
  <2>4. \A i \in 1..Len(inbox') : Calling(c, i)' =>
          \E j \in 1..Len(inbox) : Calling(c, j) /\ inbox'[i] = inbox[j]
    BY <2>1, <2>2 DEF Calling
  <2> QED
    BY <1>1, <2>1, <2>3, <2>4, CompletingStill
<1> QED
  BY <1>3, <1>4, <1>5, <1>6 DEF Next

(* As long as the session is not evicted, an event that c's cursor is past *)
(* was given to c or counts as given, or c is excused; and so is every     *)
(* event that a frame on its way will move the cursor past, by the time c  *)
(* takes that frame.                                                       *)
THEOREM CompleteInvariance == Spec => [](\A c \in Clients : Completing(c))
<1>1. Init => \A c \in Clients : Completing(c)
  BY InitCompleting
<1>2. /\ ReplayInv /\ ReplayInv'
      /\ \A c \in Clients : CatchingUp(c)
      /\ (\A c \in Clients : CatchingUp(c))'
      /\ (\A c \in Clients : Completing(c)) /\ [Next]_vars
      => (\A c \in Clients : Completing(c))'
  BY StepCompleting
<1> QED
  BY <1>1, <1>2, ReplayInvariance, CatchUpInvariance, PTL DEF Spec

(* A connected browser that took no live event while its hello was open    *)
(* and no orphan event has, once nothing is on its way, every event of a   *)
(* session that was not evicted in this generation, or was told to fetch   *)
(* its History (web/src/ws.ts, wrapper/machine.py).                        *)
THEOREM ReplayComplete == Spec => []CompleteUnlessOverlap
<1>1. TypeOK /\ CaughtUp /\ (\A c \in Clients : Completing(c)) => CompleteUnlessOverlap
  <2> SUFFICES ASSUME TypeOK, CaughtUp, NEW c \in Clients, Completing(c),
                      Quiet(c), ~overlap[c], ~orphan[c], ~evicted,
                      NEW s \in 1..ring.tail
               PROVE  <<life, s>> \in seen[c]
    BY DEF CompleteUnlessOverlap, Missing
  <2>1. cgen[c] = gen /\ UpToDate(c) /\ Active
    BY DEF CaughtUp, Quiet, Active
  <2>2. cursor[c] \in Int /\ ring.tail \in Nat /\ s \in Nat /\ s >= 1 /\ s <= ring.tail
    BY Numbers DEF Numeric
  <2>3. CASE s <= cursor[c]
    <3>1. s \in 1..cursor[c]
      BY <2>2, <2>3
    <3> QED
      BY <2>1, <3>1 DEF Completing, Consistent, Filled
  <2>4. CASE ~(s <= cursor[c])
    <3>1. s \in Bigger(cursor[c], 0) + 1 .. ring.tail
      BY <2>2, <2>4 DEF Bigger
    <3> QED
      BY <2>1, <3>1 DEF UpToDate
  <2> QED
    BY <2>3, <2>4
<1>2. ReplayInv => TypeOK
  BY DEF ReplayInv
<1> QED
  BY <1>1, <1>2, ReplayInvariance, ReplayCaughtUp, CompleteInvariance, PTL
=============================================================================
