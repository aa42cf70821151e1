-------------------------------- MODULE Ring --------------------------------
(***************************************************************************)
(* The replay ring of one session: cc_remote/wrapper/ringbuffer.py.        *)
(*                                                                         *)
(* A ring is a record                                                      *)
(*   buf     the retained events, a set: an event carries its own seq, and *)
(*           the wrapper hands out strictly increasing seqs, so the deque  *)
(*           is the set in the order of seq                                *)
(*   bytes   the incrementally maintained byte counter (_bytes)            *)
(*   tail    the highest seq ever offered (_logical_tail_seq)              *)
(*   dropped the highest seq no longer, or never, retained                 *)
(*           (_dropped_through_seq)                                        *)
(* An event is [seq, size, kind, msg]: kind tells a user marker and a turn *)
(* binding from every other narrative event, msg names the turn's prompt,  *)
(* Unnamed when it names none.                                             *)
(***************************************************************************)
EXTENDS Integers, FiniteSets, FiniteSetsExt

CONSTANTS MaxEvents,   (* ring_max_events *)
          MaxBytes     (* ring_max_bytes  *)

ASSUME RingAssumption == MaxEvents \in Nat \ {0} /\ MaxBytes \in Nat \ {0}

EmptyRing == [buf |-> {}, bytes |-> 0, tail |-> 0, dropped |-> 0]

Seqs(r) == {e.seq : e \in r.buf}
SizeOf(S) == MapThenSumSet(LAMBDA e : e.size, S)
Bigger(a, b) == IF a >= b THEN a ELSE b

HeadSeq(r) == IF r.buf = {} THEN 0 ELSE Min(Seqs(r))

(* last_seq + 1 fell off the front of a non-empty buffer.                  *)
HeadBeyond(r, n) == r.buf # {} /\ \A e \in r.buf : n < e.seq
(* Mutant: the last event offered is never a gap.                          *)
GapBelowTail(r, last) == last < r.dropped /\ r.dropped < r.tail

HasGapAfter(r, last) == last < r.dropped /\ r.dropped <= r.tail

-----------------------------------------------------------------------------
(***************************************************************************)
(* append.  An event larger than the whole budget is never retained.       *)
(* Otherwise the eviction loop pops from the front while a budget is       *)
(* exceeded and more than one event is left.  cut is the seq of the last   *)
(* event it popped, 0 when it popped none.                                 *)
(***************************************************************************)
Popped(b, cut) == {e \in b : e.seq <= cut}
Kept(b, cut) == {e \in b : e.seq > cut}

(* Mutant: the byte budget is forgotten.                                   *)
WithinEvents(b, bytes, cut) == Cardinality(Kept(b, cut)) <= MaxEvents

WithinBudget(b, bytes, cut) ==
  /\ Cardinality(Kept(b, cut)) <= MaxEvents
  /\ bytes - SizeOf(Popped(b, cut)) <= MaxBytes

StopsAt(b, bytes, cut) ==
  /\ \/ WithinBudget(b, bytes, cut)
     \/ Cardinality(Kept(b, cut)) = 1
  /\ Kept(b, cut) # {}
  /\ \A c \in {0} \cup {e.seq : e \in b} :
       c < cut => ~WithinBudget(b, bytes, c)

PopTo(r, b, bytes, cut) ==
  [buf     |-> Kept(b, cut),
   bytes   |-> bytes - SizeOf(Popped(b, cut)),
   tail    |-> r.tail,
   dropped |-> Bigger(r.dropped, cut)]

Offered(r, e) == [r EXCEPT !.tail = Bigger(@, e.seq)]

(* The ring after append(e): a set of one, the loop is deterministic.      *)
Appended(r, e) ==
  IF e.size > MaxBytes
  THEN {[Offered(r, e) EXCEPT !.dropped = Bigger(@, e.seq)]}
  ELSE LET b == r.buf \cup {e}
           bytes == r.bytes + e.size
       IN {PopTo(Offered(r, e), b, bytes, cut) :
             cut \in {c \in {0} \cup {x.seq : x \in b} : StopsAt(b, bytes, c)}}

-----------------------------------------------------------------------------
(***************************************************************************)
(* Replies to a client hello.  An envelope is ReplayStart, the events whose *)
(* seqs are in body, in order, and ReplayEnd, which carries the same to.   *)
(***************************************************************************)
Envelope(from, to, truncated, rebuild, body) ==
  [from |-> from, to |-> to, truncated |-> truncated,
   rebuild |-> rebuild, body |-> body]

(* Mutant: only a missing head counts as truncated.                        *)
WholeFromHead(r) ==
  Envelope(HeadSeq(r), r.tail, HeadSeq(r) > 1, TRUE, Seqs(r))

WholeBuffer(r) == Envelope(HeadSeq(r), r.tail, r.dropped > 0, TRUE, Seqs(r))

Truncated(r, last) == HeadBeyond(r, last + 1) \/ HasGapAfter(r, last)

(* replay_from for a client that names a cursor.                           *)
ReplayFrom(r, last, rebuild) ==
  IF rebuild \/ last > r.tail
  THEN WholeBuffer(r)
  ELSE LET have == {s \in Seqs(r) : s > last}
       IN Envelope(IF have = {} THEN last + 1 ELSE Min(have),
                   r.tail, Truncated(r, last), FALSE, have)

(* Mutant of ReplayBounded: the suffix cut by the request's own budget is  *)
(* not announced.                                                          *)
ReplaySilentlyBounded(r, last, rebuild, eventBudget, byteBudget) ==
  LET whole == rebuild \/ last > r.tail
      have  == {e \in r.buf : whole \/ e.seq > last}
      suffix(n) == {e \in have : e.seq >= n}
      fits(n) == Cardinality(suffix(n)) <= eventBudget
                 /\ SizeOf(suffix(n)) <= byteBudget
      sent  == {e \in have : fits(e.seq)}
  IN Envelope(0, r.tail,
              IF whole THEN r.dropped > 0 ELSE Truncated(r, last),
              whole, {e.seq : e \in sent})

(* replay_from_bounded: the newest suffix of what replay_from would send   *)
(* that fits both budgets of the request.                                  *)
ReplayBounded(r, last, rebuild, eventBudget, byteBudget) ==
  LET whole == rebuild \/ last > r.tail
      have  == {e \in r.buf : whole \/ e.seq > last}
      fits(S) == Cardinality(S) <= eventBudget /\ SizeOf(S) <= byteBudget
      suffix(n) == {e \in have : e.seq >= n}
      sent  == UNION {suffix(n) : n \in {e.seq : e \in {x \in have : fits(suffix(x.seq))}}}
      cutShort == sent # have
  IN Envelope(IF sent = {} THEN r.tail + 1 ELSE Min({e.seq : e \in sent}),
              r.tail,
              cutShort \/ (IF whole THEN r.dropped > 0 ELSE Truncated(r, last)),
              whole, {e.seq : e \in sent})

(***************************************************************************)
(* current_turn_replay, for a client without a cursor while a turn runs.   *)
(* msg is the prompt it asks for, Unnamed (None) when the wrapper has none *)
(* to ask for: then any user marker will do, the newest wins, and without  *)
(* one the reply has no body.  boundary is the seq of the turn binding, 0  *)
(* when there is none.  The reply is a set: empty when nothing is sent,    *)
(* else the one envelope.                                                  *)
(***************************************************************************)
Unnamed == 0

Markers(r, msg) ==
  {e \in r.buf : e.kind = "user" /\ (msg = Unnamed \/ e.msg = msg)}

FromMarker(r, start) ==
  Envelope(start, r.tail, r.dropped >= start, FALSE,
           {s \in Seqs(r) : s >= start})

(* Mutant of CurrentTurn: the newest user marker, whosever it is.          *)
LatestTurn(r, msg, boundary) ==
  LET marks == {e.seq : e \in Markers(r, Unnamed)}
  IN IF marks = {} THEN {} ELSE {FromMarker(r, Max(marks))}

(* Of a turn without a retained marker: the suffix its binding proves.     *)
FromBinding(r, boundary) ==
  LET kept == {s \in Seqs(r) : s >= boundary}
  IN Envelope(IF kept # {} THEN Min(kept)
              ELSE IF HeadSeq(r) # 0 THEN HeadSeq(r)
              ELSE Min({r.tail, boundary + 1}),
              r.tail, TRUE, FALSE, kept)

CurrentTurn(r, msg, boundary) ==
  IF Markers(r, msg) # {}
  THEN {FromMarker(r, Max({e.seq : e \in Markers(r, msg)}))}
  ELSE IF msg = Unnamed
  THEN IF r.tail = 0 THEN {}
       ELSE {Envelope(HeadSeq(r), r.tail, TRUE, FALSE, {})}
  ELSE IF boundary = 0 THEN {} ELSE {FromBinding(r, boundary)}
=============================================================================
