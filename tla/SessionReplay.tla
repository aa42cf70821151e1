--------------------------- MODULE SessionReplay ----------------------------
(***************************************************************************)
(* How one session's events reach the browsers: the wrapper stamps and     *)
(* rings them (machine.py), its transport sends them while connected       *)
(* (wrapper/transport.py), the relay routes them to the registered         *)
(* connections (relay/pairing.py), and each browser applies, drops or      *)
(* re-requests them (web/src/ws.ts).                                       *)
(*                                                                         *)
(* A life is one incarnation of the session inside a wrapper process: its  *)
(* seq starts at 1 again both when the wrapper restarts (a new generation) *)
(* and when the session is evicted from the pool and spawned anew in the   *)
(* same generation.  Lives are history: the code never sees them.          *)
(***************************************************************************)
EXTENDS Ring, Sequences

CONSTANTS Clients,     (* browsers                                         *)
          QueueCap,    (* relay: client_queue_cap                          *)
          MaxSeq,      (* bound: events per life                           *)
          MaxGen,      (* bound: wrapper generations                       *)
          MaxLife,     (* bound: incarnations of the session               *)
          MaxRoute,    (* bound: connections accepted by the relay         *)
          MaxLinkLoss  (* bound: losses of the wrapper's link              *)

Nobody == "nobody"   (* the addressee of a broadcast                       *)

ASSUME ReplayAssumption ==
  /\ Nobody \notin Clients
  /\ QueueCap \in Nat \ {0}
  /\ MaxSeq \in Nat /\ MaxGen \in Nat \ {0} /\ MaxLife \in Nat \ {0}
  /\ MaxRoute \in Nat /\ MaxLinkLoss \in Nat

VARIABLES
  gen,        (* wrapper instance_id                                       *)
  life,       (* history: incarnation of the session                       *)
  resident,   (* is the session in the wrapper's pool                      *)
  ring,       (* ctx.buffer; ring.tail is ctx.seq                          *)
  turnFrom,   (* seq of the running turn's user marker, 0 when idle        *)
  evicted,    (* history: it was evicted in this generation                *)
  up,         (* the wrapper's link: connected, and holding the relay slot *)
  losses,     (* history: link losses so far                               *)
  wq,         (* frames on their way from the wrapper to the relay         *)
  inbox,      (* hellos on their way from the relay to the wrapper         *)
  routes,     (* connections accepted so far                               *)
  route,      (* relay: the connection that owns each client_id, 0 if none *)
  cq,         (* relay: that connection's queue                            *)
  cursor,     (* browser: lastSeqBySession, NoCursor when undefined        *)
  cgen,       (* browser: generationBySession, 0 when undefined            *)
  rebuilding, (* browser: rebuildingSessions                               *)
  seen,       (* history: events given to the reducer, or covered by the   *)
              (* History page the browser was told to fetch                *)
  last,       (* history: the last event given since the reducer was reset *)
  disorder,   (* history: an event was given twice or out of order, no     *)
              (* orphan before it                                          *)
  owed,       (* history: its connection's hello is not answered yet       *)
  overlap,    (* history: a live event was taken while an answer was owed  *)
  orphan      (* history: since the last rebuild the cursor was moved by a *)
              (* frame of a generation the browser did not know, by the    *)
              (* rest of the answer to an earlier connection's hello, or   *)
              (* by the answer to a hello that was sent as an orphan       *)

wrapper == <<gen, life, resident, ring, turnFrom, evicted>>
link    == <<up, losses, wq, inbox>>
relay   == <<routes, route, cq>>
browser == <<cursor, cgen, rebuilding, seen, last, disorder,
             owed, overlap, orphan>>
vars    == <<wrapper, link, relay, browser>>

NoCursor == -1

(* A frame to everyone, and one that answers the hello h.  conn is the      *)
(* connection that sent the hello; the relay sees it only when the hello   *)
(* was routed, the first of its connection.  stray is history: an orphan   *)
(* sent the hello.                                                         *)
Frame(type, s) ==
  [type |-> type, to |-> Nobody, conn |-> 0, routed |-> FALSE,
   stray |-> FALSE, gen |-> gen, life |-> life, seq |-> s,
   truncated |-> FALSE, rebuild |-> FALSE]

Answer(h, type, s) ==
  [Frame(type, s) EXCEPT !.to = h.client, !.conn = h.conn,
                         !.routed = h.routed, !.stray = h.stray]

Init ==
  /\ gen = 1 /\ life = 1 /\ resident = TRUE
  /\ ring = EmptyRing /\ turnFrom = 0 /\ evicted = FALSE
  /\ up = TRUE /\ losses = 0
  /\ wq = <<>> /\ inbox = <<>>
  /\ routes = 0
  /\ route = [c \in Clients |-> 0]
  /\ cq = [c \in Clients |-> <<>>]
  /\ cursor = [c \in Clients |-> NoCursor]
  /\ cgen = [c \in Clients |-> 0]
  /\ rebuilding = [c \in Clients |-> FALSE]
  /\ seen = [c \in Clients |-> {}]
  /\ last = [c \in Clients |-> <<0, 0>>]
  /\ disorder = [c \in Clients |-> FALSE]
  /\ owed = [c \in Clients |-> FALSE]
  /\ overlap = [c \in Clients |-> FALSE]
  /\ orphan = [c \in Clients |-> FALSE]

-----------------------------------------------------------------------------
(* WrapperTransport.send: a frame sent while disconnected is dropped.      *)
Send(frames) == wq' = IF up THEN wq \o frames ELSE wq

(* _emit_locked: next seq, ring append, live copy.  kind is the marker of  *)
(* a turn's first event; msg identifies the turn.                          *)
EmitEvent(kind, from) ==
  /\ resident
  /\ ring.tail < MaxSeq
  /\ ring' \in Appended(ring, [seq  |-> ring.tail + 1, size |-> 1,
                               kind |-> kind, msg |-> from])
  /\ Send(<<Frame("event", ring.tail + 1)>>)
  /\ UNCHANGED <<gen, life, resident, evicted, up, losses, inbox, relay,
                 browser>>

EmitUser ==
  /\ turnFrom = 0
  /\ turnFrom' = ring.tail + 1
  /\ EmitEvent("user", ring.tail + 1)

EmitDelta ==
  /\ turnFrom # 0
  /\ UNCHANGED turnFrom
  /\ EmitEvent("other", turnFrom)

EmitTurnEnd ==
  /\ turnFrom # 0
  /\ turnFrom' = 0
  /\ EmitEvent("other", turnFrom)

(* The numbers of a set in ascending order.                                *)
Ascending(S) ==
  CHOOSE s \in [1..Cardinality(S) -> S] :
    \A i, j \in 1..Cardinality(S) : i < j => s[i] < s[j]

(* The frames of an envelope.                                              *)
Replay(h, e) ==
  <<[Answer(h, "start", e.to) EXCEPT !.truncated = e.truncated,
                                     !.rebuild = e.rebuild]>>
  \o [i \in 1..Cardinality(e.body) |->
        Answer(h, "event", Ascending(e.body)[i])]
  \o <<Answer(h, "end", e.to)>>

(* Mutant of HelloReply: the cursor is trusted in every generation.        *)
HelloReplyAnyGeneration(h) ==
  IF h.cursor # NoCursor
  THEN Replay(h, ReplayFrom(ring, h.cursor, FALSE))
  ELSE <<Answer(h, "snapshot", ring.tail)>>

(* _handle_client_hello for this session: one critical section under       *)
(* emit_lock.  A cursor of another generation asks for a rebuild; without  *)
(* a cursor the browser gets a Snapshot and, during a turn, that turn.     *)
HelloReply(h) ==
  IF h.cursor # NoCursor
  THEN LET same == h.gen = gen
       IN Replay(h, ReplayFrom(ring, IF same THEN h.cursor ELSE 0, ~same))
  ELSE <<Answer(h, "snapshot", ring.tail)>>
       \o IF turnFrom # 0 /\ CurrentTurn(ring, turnFrom, 0) # {}
          THEN Replay(h, CHOOSE e \in CurrentTurn(ring, turnFrom, 0) : TRUE)
          ELSE <<>>

HandleHello ==
  /\ inbox # <<>>
  /\ inbox' = Tail(inbox)
  /\ Send(IF resident THEN HelloReply(Head(inbox)) ELSE <<>>)
  /\ UNCHANGED <<wrapper, up, losses, relay, browser>>

(* _spawn over the concurrency cap evicts an idle session: its context and *)
(* ring are gone.                                                          *)
Evict ==
  /\ resident
  /\ turnFrom = 0
  /\ life < MaxLife
  /\ resident' = FALSE
  /\ ring' = EmptyRing
  /\ evicted' = TRUE
  /\ UNCHANGED <<gen, life, turnFrom, link, relay, browser>>

(* _handle_switch_session on a session that is not resident: _spawn builds *)
(* a fresh SessionContext and its unsequenced Snapshot is broadcast.       *)
Respawn ==
  /\ ~resident
  /\ life < MaxLife
  /\ life' = life + 1
  /\ resident' = TRUE
  /\ wq' = IF up
           THEN Append(wq, [Frame("snapshot", 0) EXCEPT !.life = life + 1])
           ELSE wq
  /\ UNCHANGED <<gen, ring, turnFrom, evicted, up, losses, inbox, relay,
                 browser>>

(* The wrapper process dies and a new instance starts, unconnected.        *)
WrapperRestart ==
  /\ gen < MaxGen /\ life < MaxLife
  /\ gen' = gen + 1
  /\ resident' = FALSE
  /\ ring' = EmptyRing
  /\ turnFrom' = 0
  /\ evicted' = FALSE
  /\ up' = FALSE
  /\ wq' = <<>> /\ inbox' = <<>>
  /\ UNCHANGED <<life, losses, relay, browser>>

-----------------------------------------------------------------------------
(* The link is lost: what it carried is lost with it, the send queue is    *)
(* drained; commands already in the wrapper's inbox stay there.            *)
LinkDown ==
  /\ up
  /\ losses < MaxLinkLoss
  /\ losses' = losses + 1
  /\ up' = FALSE
  /\ wq' = <<>>
  /\ \E n \in 0..Len(inbox) : inbox' = SubSeq(inbox, 1, n)
  /\ UNCHANGED <<wrapper, relay, browser>>

(* _run reconnects and _on_transport_connected announces the wrapper.      *)
LinkUp ==
  /\ ~up
  /\ up' = TRUE
  /\ wq' = <<Frame("hello", 0)>>
  /\ UNCHANGED <<wrapper, losses, inbox, relay, browser>>

(* RelayHub._on_wrapper_msg: a wrapper hello becomes WrapperReconnected    *)
(* for everyone, an addressed frame goes to the connection that owns the   *)
(* client_id if its route matches, everything else is broadcast.  A full   *)
(* queue drops the whole connection (SlowClientError).                     *)
Receives(f, c) ==
  /\ route[c] # 0
  /\ \/ f.to = Nobody
     \/ f.to = c /\ (f.routed => f.conn = route[c])

(* Mutant: one frame too many.                                             *)
SlowTooLate(f) == {c \in Clients : Receives(f, c) /\ Len(cq[c]) > QueueCap}

Slow(f) == {c \in Clients : Receives(f, c) /\ Len(cq[c]) >= QueueCap}

OnWrapperMsg ==
  /\ up
  /\ wq # <<>>
  /\ wq' = Tail(wq)
  /\ LET f == Head(wq)
     IN /\ route' = [c \in Clients |-> IF c \in Slow(f) THEN 0 ELSE route[c]]
        /\ cq' = [c \in Clients |->
                    IF c \in Slow(f) THEN <<>>
                    ELSE IF Receives(f, c) THEN Append(cq[c], f)
                    ELSE cq[c]]
  /\ UNCHANGED <<wrapper, up, losses, inbox, routes, browser>>

-----------------------------------------------------------------------------
(* sendHello names the cursor and generation the browser holds; the relay  *)
(* adds the route of a connection's first hello and forwards it while a    *)
(* wrapper is attached.                                                    *)
Hello(c, first) ==
  /\ inbox' = IF up
              THEN Append(inbox, [client |-> c, conn |-> route'[c],
                                  routed |-> first, stray |-> orphan[c],
                                  cursor |-> cursor[c], gen |-> cgen[c]])
              ELSE inbox
  /\ owed' = [owed EXCEPT ![c] = TRUE]
  /\ UNCHANGED <<cursor, cgen, rebuilding, seen, last, disorder, overlap,
                 orphan>>

(* serve_client: register the connection under its client_id, replacing an *)
(* older one, then forward its hello.                                      *)
Connect(c) ==
  /\ route[c] = 0
  /\ routes < MaxRoute
  /\ routes' = routes + 1
  /\ route' = [route EXCEPT ![c] = routes + 1]
  /\ cq' = [cq EXCEPT ![c] = <<>>]
  /\ Hello(c, TRUE)
  /\ UNCHANGED <<wrapper, up, losses, wq>>

Disconnect(c) ==
  /\ route[c] # 0
  /\ routes < MaxRoute    \* bound: the last connection is left to the relay
  /\ route' = [route EXCEPT ![c] = 0]
  /\ cq' = [cq EXCEPT ![c] = <<>>]
  /\ UNCHANGED <<wrapper, link, routes, browser>>

-----------------------------------------------------------------------------
(* Frames of ws.onmessage, from the head of the connection's queue.        *)
Take(c, type) ==
  /\ cq[c] # <<>>
  /\ Head(cq[c]).type = type
  /\ cq' = [cq EXCEPT ![c] = Tail(@)]
  /\ UNCHANGED <<wrapper, up, losses, wq, routes, route>>

(* Mutant of TakeReconnected: no second hello.                             *)
TakeReconnectedSilently(c) ==
  /\ Take(c, "hello")
  /\ UNCHANGED <<inbox, browser>>

(* wrapper_reconnected: say hello again, without a route.                  *)
TakeReconnected(c) ==
  /\ Take(c, "hello")
  /\ Hello(c, FALSE)

(* noteGeneration: a seq means nothing across generations.                 *)
CursorIn(c, g) ==
  IF cgen[c] # 0 /\ cgen[c] # g THEN 0 ELSE cursor[c]

Covers(f) == {<<f.life, s>> : s \in 1..f.seq}

(* f answers a hello of the connection c has now.                          *)
Answers(f, c) == f.to = c /\ f.conn = route[c]

(* A Snapshot announces the session; its History is fetched separately.    *)
TakeSnapshot(c) ==
  /\ Take(c, "snapshot")
  /\ LET f == Head(cq[c])
     IN /\ cursor' = [cursor EXCEPT ![c] = CursorIn(c, f.gen)]
        /\ cgen' = [cgen EXCEPT ![c] = f.gen]
        /\ seen' = [seen EXCEPT ![c] = @ \cup Covers(f)]
  /\ rebuilding' = [rebuilding EXCEPT ![c] = FALSE]
  /\ owed' = [owed EXCEPT ![c] = @ /\ ~Answers(Head(cq[c]), c)]
  /\ UNCHANGED <<inbox, last, disorder, overlap, orphan>>

(* replay_start: a rebuild restarts the cursor; truncated or rebuild makes *)
(* the reducer clear the session and fetch its authoritative History.      *)
TakeStart(c) ==
  /\ Take(c, "start")
  /\ LET f == Head(cq[c])
         reset == f.truncated \/ f.rebuild
     IN /\ cursor' = [cursor EXCEPT ![c] =
                        IF f.rebuild THEN 0 ELSE CursorIn(c, f.gen)]
        /\ cgen' = [cgen EXCEPT ![c] = f.gen]
        /\ rebuilding' = [rebuilding EXCEPT ![c] = f.rebuild]
        /\ seen' = [seen EXCEPT ![c] = IF reset THEN @ \cup Covers(f) ELSE @]
        /\ last' = [last EXCEPT ![c] = IF reset THEN <<0, 0>> ELSE @]
        /\ overlap' = [overlap EXCEPT ![c] = @ /\ ~reset]
        /\ orphan' = [orphan EXCEPT ![c] =
             ~Answers(f, c) \/ ((@ \/ f.stray) /\ ~f.rebuild)]
  /\ UNCHANGED <<inbox, disorder, owed>>

(* noteSeq.  Neither events nor ReplayEnd name a generation.               *)
NoteSeq(c, f) ==
  /\ cursor' = [cursor EXCEPT ![c] = Bigger(@, f.seq)]
  /\ overlap' = [overlap EXCEPT ![c] = @ \/ (owed[c] /\ f.to = Nobody)]
  /\ orphan' = [orphan EXCEPT ![c] =
       @ \/ cgen[c] # f.gen \/ (f.to = c /\ ~Answers(f, c))]

(* Mutant: off by one.                                                     *)
StaleBelow(c, f) == ~rebuilding[c] /\ f.seq < Bigger(cursor[c], 0)

Stale(c, f) == ~rebuilding[c] /\ f.seq <= Bigger(cursor[c], 0)

After(a, b) == a[1] > b[1] \/ (a[1] = b[1] /\ a[2] > b[2])

(* An event at or below the cursor is dropped unless a rebuild is running. *)
TakeEvent(c) ==
  /\ Take(c, "event")
  /\ LET f  == Head(cq[c])
         id == <<f.life, f.seq>>
     IN IF Stale(c, f)
        THEN UNCHANGED <<inbox, browser>>
        ELSE /\ NoteSeq(c, f)
             /\ seen' = [seen EXCEPT ![c] = @ \cup {id}]
             /\ last' = [last EXCEPT ![c] = id]
             /\ disorder' = [disorder EXCEPT ![c] =
                  @ \/ (~orphan'[c] /\ ~After(id, last[c]))]
             /\ UNCHANGED <<inbox, cgen, rebuilding, owed>>

(* replay_end: the cursor moves to the tail the envelope named.            *)
TakeEnd(c) ==
  /\ Take(c, "end")
  /\ NoteSeq(c, Head(cq[c]))
  /\ rebuilding' = [rebuilding EXCEPT ![c] = FALSE]
  /\ owed' = [owed EXCEPT ![c] = @ /\ ~Answers(Head(cq[c]), c)]
  /\ UNCHANGED <<inbox, cgen, seen, last, disorder>>

(* The page is reloaded without a cached cursor.                           *)
Reload(c) ==
  /\ route[c] = 0
  /\ cursor[c] # NoCursor \/ cgen[c] # 0
  /\ cursor' = [cursor EXCEPT ![c] = NoCursor]
  /\ cgen' = [cgen EXCEPT ![c] = 0]
  /\ rebuilding' = [rebuilding EXCEPT ![c] = FALSE]
  /\ seen' = [seen EXCEPT ![c] = {}]
  /\ last' = [last EXCEPT ![c] = <<0, 0>>]
  /\ overlap' = [overlap EXCEPT ![c] = FALSE]
  /\ orphan' = [orphan EXCEPT ![c] = FALSE]
  /\ UNCHANGED <<wrapper, link, relay, disorder, owed>>

-----------------------------------------------------------------------------
WrapperNext ==
  \/ EmitUser \/ EmitDelta \/ EmitTurnEnd
  \/ HandleHello
  \/ Evict \/ Respawn \/ WrapperRestart

LinkNext == LinkDown \/ LinkUp \/ OnWrapperMsg

ClientNext(c) ==
  \/ Connect(c) \/ Disconnect(c) \/ Reload(c)
  \/ TakeReconnected(c) \/ TakeSnapshot(c)
  \/ TakeStart(c) \/ TakeEvent(c) \/ TakeEnd(c)

Next == WrapperNext \/ LinkNext \/ \E c \in Clients : ClientNext(c)

Spec == Init /\ [][Next]_vars

-----------------------------------------------------------------------------
Frames ==
  [type : {"event", "start", "end", "snapshot", "hello"},
   to : Clients \cup {Nobody}, conn : 0..MaxRoute, routed : BOOLEAN,
   stray : BOOLEAN, gen : 1..MaxGen,
   life : 1..MaxLife, seq : 0..MaxSeq,
   truncated : BOOLEAN, rebuild : BOOLEAN]

Hellos ==
  [client : Clients, conn : 1..MaxRoute, routed : BOOLEAN, stray : BOOLEAN,
   cursor : NoCursor..MaxSeq, gen : 0..MaxGen]

(* Every variable has its type, and no connection's queue exceeds its cap. *)
TypeOK ==
  /\ gen \in 1..MaxGen /\ life \in 1..MaxLife /\ resident \in BOOLEAN
  /\ ring.tail \in 0..MaxSeq /\ turnFrom \in 0..MaxSeq
  /\ evicted \in BOOLEAN
  /\ up \in BOOLEAN /\ losses \in 0..MaxLinkLoss
  /\ wq \in Seq(Frames) /\ inbox \in Seq(Hellos)
  /\ routes \in 0..MaxRoute
  /\ route \in [Clients -> 0..MaxRoute]
  /\ cq \in [Clients -> Seq(Frames)]
  /\ \A c \in Clients : Len(cq[c]) <= QueueCap
  /\ cursor \in [Clients -> NoCursor..MaxSeq]
  /\ cgen \in [Clients -> 0..MaxGen]
  /\ rebuilding \in [Clients -> BOOLEAN]
  /\ seen \in [Clients -> SUBSET (Nat \X Nat)]
  /\ last \in [Clients -> Nat \X Nat]
  /\ disorder \in [Clients -> BOOLEAN]
  /\ owed \in [Clients -> BOOLEAN]
  /\ overlap \in [Clients -> BOOLEAN]
  /\ orphan \in [Clients -> BOOLEAN]

(* Nothing is on its way to or from c, which is connected to the relay     *)
(* while the wrapper is attached and has the session.                      *)
Quiet(c) ==
  /\ up /\ resident /\ route[c] # 0
  /\ wq = <<>> /\ inbox = <<>> /\ cq[c] = <<>>

Missing(c) == {s \in 1..ring.tail : <<life, s>> \notin seen[c]}

(* The reducer is never given an event twice or out of order, whatever     *)
(* overlaps: live frames and replays, repeated hellos, rebuilds cut off by *)
(* a lost connection, wrapper restarts.  (An orphan event may come twice.) *)
InOrderOnce == \A c \in Clients : ~disorder[c]

(* c was given every event beyond its cursor, or was told to fetch the     *)
(* History that covers it.                                                 *)
UpToDate(c) ==
  \A s \in Bigger(cursor[c], 0) + 1 .. ring.tail : <<life, s>> \in seen[c]

(* Whoever lost frames notices: once nothing is on its way, a connected    *)
(* browser knows the wrapper's generation, no rebuild is left open, and it *)
(* is up to date (unless it took an orphan event), after any mix of lost   *)
(* links, dropped connections and restarts.                                *)
CaughtUp ==
  \A c \in Clients : Quiet(c) =>
    /\ cgen[c] = gen
    /\ ~rebuilding[c]
    /\ ~orphan[c] => UpToDate(c)

(* The ring and the replay protocol lose nothing by themselves: a browser  *)
(* that took no live event while its hello was open has every event of a   *)
(* session that was not evicted in this generation, or was told to fetch   *)
(* its History.                                                            *)
CompleteUnlessOverlap ==
  \A c \in Clients :
    Quiet(c) /\ ~overlap[c] /\ ~orphan[c] /\ ~evicted => Missing(c) = {}

(* "the ring buffer + client replay is the source of truth, so nothing is  *)
(* lost" (wrapper/transport.py), as long as the session is not evicted.    *)
NothingLost ==
  \A c \in Clients : Quiet(c) /\ ~evicted /\ ~orphan[c] => Missing(c) = {}

(* An evicted session that is spawned again is rebuilt in the browsers     *)
(* that still hold its old cursor ("switch back to A -- A was evicted, so  *)
(* it re-spawns and catch-up must REBUILD", tests/e2e_multisession.py).    *)
RespawnRebuilds ==
  \A c \in Clients :
    Quiet(c) /\ evicted /\ ~overlap[c] /\ ~orphan[c] => Missing(c) = {}
=============================================================================
