------------------------------ MODULE RelayHub ------------------------------
(***************************************************************************)
(* The relay's hub (relay/pairing.py, relay/forward.py): one coroutine per *)
(* client socket and per wrapper socket, the table of clients by machine   *)
(* and client_id, one slot per machine, a bounded queue per client, and    *)
(* the lock that orders replacing a client with sending its commands.      *)
(*                                                                         *)
(* An action runs from one await that may suspend to the next.  The hub's  *)
(* _lock is never held across one, so it needs no variable.                *)
(***************************************************************************)
EXTENDS Naturals, Sequences, FiniteSets, SequencesExt

CONSTANTS Conns,       (* client sockets, each used once, in this order    *)
          Ids,         (* client_ids                                       *)
          Accounts,    (* owner_ids                                        *)
          Machines,    (* machine_ids, all of them named                   *)
          Wrappers,    (* wrapper sockets, each used once, in this order   *)
          Id, Account, Host,  (* of a client socket                        *)
          Machine,     (* of a wrapper socket                              *)
          None,        (* no client, no wrapper                            *)
          MaxClients,  (* max_clients                                      *)
          MaxNamed,    (* MAX_NAMED_WRAPPERS                               *)
          MaxCommands, (* bound: commands of one socket after its hello    *)
          MaxEvents    (* bound: live frames, lost sockets, bad frames,    *)
                       (* full queues, expiries and revocations, together  *)

ASSUME HubAssumption ==
  /\ Id \in [Conns -> Ids] /\ Account \in [Conns -> Accounts]
  /\ Host \in [Conns -> Machines] /\ Machine \in [Wrappers -> Machines]
  /\ Conns \subseteq Nat /\ Wrappers \subseteq Nat
  /\ None \notin Conns \cup Wrappers
  /\ MaxClients \in Nat \ {0} /\ MaxNamed \in Nat \ {0}
  /\ MaxCommands \in [Conns -> Nat] /\ MaxEvents \in Nat

VARIABLES
  at,         (* client: where its coroutine waits                         *)
  old,        (* client: the connection it replaces                        *)
  via,        (* client: the wrapper its command is being sent to          *)
  sock,       (* client: its socket                                        *)
  closed,     (* client: ClientConn._closed                                *)
  sender,     (* client: its sender task runs                              *)
  clients,    (* _machine_clients: the connection of each machine and id   *)
  slots,      (* _client_slots                                             *)
  line,       (* _wrapper_send_lock: its holder first, then who waits      *)
  wat,        (* wrapper: where its coroutine waits                        *)
  wsock,      (* wrapper: its socket                                       *)
  verdict,    (* wrapper: what authorize_machine read                      *)
  victim,     (* wrapper: the slow client it is stopping                   *)
  dead,       (* wrapper: the slow clients it will stop next               *)
  wrapper,    (* _wrappers: the socket that holds each machine's slot      *)
  device,     (* devices: enrolled, deleted, or also disconnected          *)
  asked,      (* wrapper: the hellos that reached it, unanswered           *)
  issued,     (* client: commands that followed its hello                  *)
  sent,       (* history: commands that reached a wrapper                  *)
  superseded, (* history: connections whose id another one took over       *)
  missed,     (* history: clients that missed a live frame since they      *)
              (* registered                                                *)
  told,       (* history: the last word it got about its wrapper           *)
  count       (* events so far                                             *)

client  == <<at, old, via, sock, closed, sender>>
hub     == <<clients, slots, line, wrapper>>
peer    == <<wat, wsock, verdict, victim, dead>>
history == <<issued, sent, superseded, missed, told, count>>
vars    == <<client, hub, peer, device, asked, history>>

Key(c) == <<Host[c], Id[c]>>
Keys == Machines \X Ids

Init ==
  /\ at = [c \in Conns |-> "new"] /\ old = [c \in Conns |-> None]
  /\ via = [c \in Conns |-> None] /\ sock = [c \in Conns |-> "open"]
  /\ closed = [c \in Conns |-> FALSE] /\ sender = [c \in Conns |-> FALSE]
  /\ clients = [k \in Keys |-> None] /\ slots = {} /\ line = <<>>
  /\ wat = [w \in Wrappers |-> "hello"] /\ wsock = [w \in Wrappers |-> "open"]
  /\ verdict = [w \in Wrappers |-> FALSE]
  /\ victim = [w \in Wrappers |-> None] /\ dead = [w \in Wrappers |-> {}]
  /\ wrapper = [m \in Machines |-> None]
  /\ device = [m \in Machines |-> "enrolled"]
  /\ asked = [w \in Wrappers |-> {}]
  /\ issued = [c \in Conns |-> 0]
  /\ sent = [c \in Conns |-> 0] /\ superseded = {} /\ missed = {}
  /\ told = [c \in Conns |-> "nothing"]
  /\ count = 0

-----------------------------------------------------------------------------
(* Helpers.                                                                *)

(* The mutant asks only whether the client_id is registered.               *)
RegisteredAnyone(c) == clients[Key(c)] # None
Registered(c) == clients[Key(c)] = c

(* Removes the connections D from the table, unless another one has        *)
(* replaced them.  WithoutKey is a mutant: it removes that one, too.       *)
WithoutKey(table, D) ==
  [k \in Keys |-> IF \E c \in D : Key(c) = k THEN None ELSE table[k]]
Without(table, D) ==
  [k \in Keys |-> IF table[k] \in D THEN None ELSE table[k]]

(* ClientConn.send does not raise ConnectionError; that its queue is full  *)
(* is a choice, and counted as an event.                                   *)
Takes(c) == ~closed[c] /\ sender[c]

Goto(c, place) == at' = [at EXCEPT ![c] = place]

Holds(c) == line # <<>> /\ Head(line) = c
LeavesWaiting(c) == IF Holds(c) THEN line ELSE Remove(line, c)
Leaves(c) ==
  IF c \in ToSet(line)
    THEN RemoveAt(line, CHOOSE i \in DOMAIN line : line[i] = c) ELSE line

Events(n) == count + n <= MaxEvents /\ count' = count + n
Event == Events(1)

-----------------------------------------------------------------------------
(* A client's coroutine: serve_client.                                     *)

(* One slot more than max_clients lets a reconnect show its client_id.     *)
Connect(c) ==
  /\ at[c] = "new"
  /\ \A d \in Conns : d < c => at[d] # "new"
  /\ IF Cardinality(slots) >= MaxClients + 1
       THEN /\ Goto(c, "done") /\ UNCHANGED slots
            /\ sock' = [sock EXCEPT ![c] = "shut"]
       ELSE Goto(c, "hello") /\ slots' = slots \cup {c} /\ UNCHANGED sock
  /\ UNCHANGED <<old, via, closed, sender, clients, line, wrapper,
                 peer, device, asked, history>>

(* The hello: the connection starts its sender and waits for the lock.     *)
Hello(c) ==
  /\ at[c] = "hello" /\ sock[c] = "open"
  /\ Goto(c, "register") /\ line' = Append(line, c)
  /\ sender' = [sender EXCEPT ![c] = TRUE]
  /\ UNCHANGED <<old, via, sock, closed, clients, slots, wrapper,
                 peer, device, asked, history>>

(* No hello in time, a bad first frame, or a socket that is gone.          *)
NoHello(c) ==
  /\ at[c] = "hello"
  /\ \/ sock[c] = "shut" /\ UNCHANGED count
     \/ sock[c] = "open" /\ Event
  /\ Goto(c, "finish")
  /\ UNCHANGED <<old, via, sock, closed, sender, hub, peer, device,
                 asked, issued, sent, superseded, missed, told>>

(* The mutant does not count a client that is being replaced.              *)
ActiveServed == {k \in Keys : clients[k] # None /\ ~closed[clients[k]]}
Active == {k \in Keys : clients[k] # None}

(* The connection takes its client_id over, and begins to stop the one it  *)
(* replaces; a new id is refused when max_clients are registered.          *)
Register(c) ==
  /\ at[c] = "register" /\ Holds(c)
  /\ LET before == clients[Key(c)] IN
     IF before = None /\ Cardinality(Active) >= MaxClients
       THEN /\ Goto(c, "stop") /\ line' = Tail(line)
            /\ closed' = [closed EXCEPT ![c] = TRUE]
            /\ sock' = [sock EXCEPT ![c] = IF @ = "open" THEN "closing" ELSE @]
            /\ UNCHANGED <<old, clients, superseded, missed>>
       ELSE /\ clients' = [clients EXCEPT ![Key(c)] = c]
            /\ superseded' = superseded \cup
                 {d \in Conns \ {c} :
                    /\ Key(d) = Key(c)
                    /\ at[d] \notin {"new", "hello", "register", "done"}}
            /\ missed' = missed \ {c}
            /\ IF before = None
                 THEN /\ Goto(c, "forward") /\ line' = Append(Tail(line), c)
                      /\ UNCHANGED <<old, closed, sock>>
                 ELSE /\ Goto(c, "replace") /\ line' = Tail(line)
                      /\ old' = [old EXCEPT ![c] = before]
                      /\ closed' = [closed EXCEPT ![before] = TRUE]
                      /\ sock' = [sock EXCEPT ![before] =
                           IF @ = "open" /\ ~closed[before]
                             THEN "closing" ELSE @]
  /\ UNCHANGED <<via, sender, slots, wrapper, peer, device, asked,
                 issued, sent, told, count>>

(* The replaced socket is closed and its sender cancelled; the hello waits *)
(* for the lock again, to go on to the wrapper.                            *)
Replace(c) ==
  /\ at[c] = "replace" /\ sock[old[c]] # "closing"
  /\ Goto(c, "forward") /\ line' = Append(line, c)
  /\ sender' = [sender EXCEPT ![old[c]] = FALSE]
  /\ old' = [old EXCEPT ![c] = None]
  /\ UNCHANGED <<via, sock, closed, clients, slots, wrapper, peer, device,
                 asked, history>>

(* _forward_client_msg with the lock: only the connection that still owns  *)
(* its id begins to send; without a wrapper it is told so.                 *)
Forward(c) ==
  /\ at[c] = "forward" /\ Holds(c)
  /\ LET w == wrapper[Host[c]] IN
     \/ /\ Registered(c) /\ w # None
        /\ Goto(c, "sending") /\ via' = [via EXCEPT ![c] = w]
        /\ UNCHANGED <<line, count>>
     \/ /\ Registered(c) /\ w = None /\ Takes(c)
        /\ Goto(c, "read") /\ line' = Tail(line)
        /\ UNCHANGED <<via, count>>
     \/ /\ ~Registered(c) \/ (w = None /\ ~Takes(c))
        /\ Goto(c, "finish") /\ line' = Tail(line)
        /\ UNCHANGED <<via, count>>
     \/ /\ Registered(c) /\ w = None /\ Takes(c) /\ Event
        /\ Goto(c, "finish") /\ line' = Tail(line) /\ UNCHANGED via
  /\ UNCHANGED <<old, sock, closed, sender, clients, slots, wrapper, peer,
                 device, asked, issued, sent, superseded, missed, told>>

(* The wrapper's socket took the frame, the first of which is the hello.   *)
Sent(c) ==
  /\ at[c] = "sending" /\ wsock[via[c]] = "open"
  /\ Goto(c, "read") /\ line' = Tail(line)
  /\ sent' = [sent EXCEPT ![c] = @ + 1]
  /\ asked' = IF issued[c] = 0 THEN [asked EXCEPT ![via[c]] = @ \cup {c}]
                             ELSE asked
  /\ via' = [via EXCEPT ![c] = None]
  /\ UNCHANGED <<old, sock, closed, sender, clients, slots, wrapper,
                 peer, device, issued, superseded, missed, told, count>>

(* The wrapper's link is broken: the client is told, or given up.          *)
NotSent(c) ==
  /\ at[c] = "sending" /\ wsock[via[c]] # "open"
  /\ line' = Tail(line) /\ via' = [via EXCEPT ![c] = None]
  /\ \/ Takes(c) /\ Goto(c, "read") /\ UNCHANGED count
     \/ ~Takes(c) /\ Goto(c, "finish") /\ UNCHANGED count
     \/ Takes(c) /\ Goto(c, "finish") /\ Event
  /\ UNCHANGED <<old, sock, closed, sender, clients, slots, wrapper, peer,
                 device, asked, issued, sent, superseded, missed, told>>

(* A command arrives, also on a socket that is being closed.               *)
Command(c) ==
  /\ at[c] = "read" /\ sock[c] # "shut" /\ issued[c] < MaxCommands[c]
  /\ Goto(c, "forward") /\ line' = Append(line, c)
  /\ issued' = [issued EXCEPT ![c] = @ + 1]
  /\ UNCHANGED <<old, via, sock, closed, sender, clients, slots, wrapper, peer,
                 device, asked, sent, superseded, missed, told, count>>

(* A frame that is not a client's: the connection stops itself.            *)
BadFrame(c) ==
  /\ at[c] = "read" /\ sock[c] = "open" /\ Event
  /\ Goto(c, "stop") /\ closed' = [closed EXCEPT ![c] = TRUE]
  /\ sock' = [sock EXCEPT ![c] = "closing"]
  /\ UNCHANGED <<old, via, sender, hub, peer, device, asked, issued, sent,
                 superseded, missed, told>>

Stopped(c) ==
  /\ at[c] = "stop" /\ sock[c] # "closing"
  /\ Goto(c, "finish") /\ sender' = [sender EXCEPT ![c] = FALSE]
  /\ UNCHANGED <<old, via, sock, closed, hub, peer, device, asked,
                 history>>

Disconnected(c) ==
  /\ at[c] = "read" /\ sock[c] = "shut"
  /\ Goto(c, "finish")
  /\ UNCHANGED <<old, via, sock, closed, sender, hub, peer, device,
                 asked, history>>

(* The finally block: the connection leaves the table if it is still the   *)
(* registered one, is stopped, and gives its slot back.                    *)
Finish(c) ==
  /\ at[c] = "finish"
  /\ Goto(c, "done") /\ clients' = Without(clients, {c})
  /\ slots' = slots \ {c}
  /\ closed' = [closed EXCEPT ![c] = TRUE]
  /\ sender' = [sender EXCEPT ![c] = FALSE]
  /\ sock' = [sock EXCEPT ![c] = "shut"]
  /\ asked' = [w \in Wrappers |-> asked[w] \ {c}]
  /\ told' = [told EXCEPT ![c] = "nothing"] /\ missed' = missed \ {c}
  /\ issued' = [issued EXCEPT ![c] = 0] /\ sent' = [sent EXCEPT ![c] = 0]
  /\ superseded' = superseded \ {c}
  /\ UNCHANGED <<old, via, line, wrapper, peer, device, count>>

(* The browser session expires or is revoked: its coroutine is cancelled   *)
(* where it waits.  A frame being sent may have reached the wrapper.       *)
Expire(c) ==
  /\ at[c] \in {"hello", "register", "replace", "forward", "sending", "read",
                "stop"}
  /\ Event
  /\ Goto(c, "finish")
  /\ line' = Leaves(c) /\ via' = [via EXCEPT ![c] = None]
  /\ old' = [old EXCEPT ![c] = None]
  /\ \/ UNCHANGED sent
     \/ at[c] = "sending" /\ sent' = [sent EXCEPT ![c] = @ + 1]
  /\ UNCHANGED <<sock, closed, sender, clients, slots, wrapper, peer, device,
                 asked, issued, superseded, missed, told>>

(* The sender fails to send a frame on a socket that is gone.              *)
SenderFails(c) ==
  /\ sender[c] /\ ~closed[c] /\ sock[c] # "open"
  /\ closed' = [closed EXCEPT ![c] = TRUE]
  /\ sender' = [sender EXCEPT ![c] = FALSE]
  /\ UNCHANGED <<at, old, via, sock, hub, peer, device, asked, history>>

(* The network loses an open socket, and ends a closing handshake.         *)
Lose(c) == /\ sock[c] = "open" /\ at[c] \notin {"new", "done"} /\ Event
           /\ sock' = [sock EXCEPT ![c] = "shut"]
           /\ UNCHANGED <<at, old, via, closed, sender, hub, peer, device,
                          asked, issued, sent, superseded, missed, told>>

Shut(c) == /\ sock[c] = "closing"
           /\ sock' = [sock EXCEPT ![c] = "shut"]
           /\ UNCHANGED <<at, old, via, closed, sender, hub, peer,
                          device, asked, history>>

-----------------------------------------------------------------------------
(* A wrapper's coroutine: serve_wrapper.                                   *)

(* The first client of D is taken out of the table and its close begins,   *)
(* the others wait; without one the wrapper goes on to place.              *)
StopNext(w, D, place) ==
  IF D = {}
    THEN /\ wat' = [wat EXCEPT ![w] = place]
         /\ victim' = [victim EXCEPT ![w] = None]
         /\ dead' = [dead EXCEPT ![w] = {}]
         /\ UNCHANGED <<clients, closed, sock>>
    ELSE \E c \in D :
         /\ wat' = [wat EXCEPT ![w] = "drop"]
         /\ victim' = [victim EXCEPT ![w] = c]
         /\ dead' = [dead EXCEPT ![w] = D \ {c}]
         /\ clients' = Without(clients, {c})
         /\ closed' = [closed EXCEPT ![c] = TRUE]
         /\ sock' = [sock EXCEPT ![c] =
                       IF @ = "open" /\ ~closed[c] THEN "closing" ELSE @]

(* A live frame for the accounts A of w's machine goes to each registered  *)
(* client that can take it and whose queue is not full; the others are     *)
(* stopped.                                                                *)
Addressed(w, A) ==
  {c \in Conns : Registered(c) /\ Host[c] = Machine[w] /\ Account[c] \in A}

Broadcast(w, A, full, word, place) ==
  LET ok == {c \in Addressed(w, A) \ full : Takes(c)}
      failed == Addressed(w, A) \ ok
  IN /\ missed' = missed \cup failed
     /\ told' = [c \in Conns |->
                   IF c \in ok /\ word # "live" THEN word ELSE told[c]]
     /\ StopNext(w, failed, place)

Overflows(full) == IF full = {} THEN 0 ELSE 1

Taken == {m \in Machines : wrapper[m] # None}

(* The hello takes the slot of its machine, unless it is taken or there    *)
(* are too many machines.  The upgrade, some time before, found a valid    *)
(* credential.                                                             *)
Reserve(w) ==
  /\ wat[w] = "hello"
  /\ \A v \in Wrappers : Machine[v] = Machine[w] /\ v < w => wat[v] # "hello"
  /\ LET m == Machine[w] IN
     IF wrapper[m] # None \/ Cardinality(Taken) >= MaxNamed
       THEN wat' = [wat EXCEPT ![w] = "done"] /\ UNCHANGED wrapper
       ELSE /\ wrapper' = [wrapper EXCEPT ![m] = w]
            /\ wat' = [wat EXCEPT ![w] = "authorize"]
  /\ UNCHANGED <<client, clients, slots, line, wsock, verdict, victim, dead,
                 device, asked, history>>

(* authorize_machine reads the devices in a thread; its answer is used     *)
(* when the coroutine runs again.                                          *)
Look(w) ==
  /\ wat[w] = "authorize"
  /\ verdict' = [verdict EXCEPT ![w] = device[Machine[w]] = "enrolled"]
  /\ wat' = [wat EXCEPT ![w] = "looked"]
  /\ UNCHANGED <<client, hub, wsock, victim, dead, device, asked, history>>

(* The wrapper is announced to its clients.                                *)
Announce(w) ==
  /\ wat[w] = "looked" /\ verdict[w]
  /\ \E full \in SUBSET Addressed(w, Accounts) :
       /\ Events(Overflows(full))
       /\ Broadcast(w, Accounts, full, "up", "live")
  /\ UNCHANGED <<at, old, via, sender, slots, line, wrapper, wsock, verdict,
                 device, asked, issued, sent, superseded>>

(* A live frame, for every client of the machine or for one account's.     *)
Live(w) ==
  /\ wat[w] = "live" /\ wsock[w] # "shut"
  /\ \E A \in {Accounts} \cup {{a} : a \in Accounts} :
       \E full \in SUBSET Addressed(w, A) :
         /\ Events(1 + Overflows(full))
         /\ Broadcast(w, A, full, "live", "live")
  /\ UNCHANGED <<at, old, via, sender, slots, line, wrapper, wsock, verdict,
                 device, asked, issued, sent, superseded>>

(* The answer to the hello of connection r goes to the connection that has *)
(* its client_id, if that is r.                                            *)
Answer(w, r) ==
  /\ wat[w] = "live" /\ wsock[w] # "shut" /\ r \in asked[w]
  /\ asked' = [asked EXCEPT ![w] = @ \ {r}]
  /\ \/ /\ Registered(r) => Takes(r)
        /\ UNCHANGED <<wat, victim, dead, clients, closed, sock, count>>
     \/ /\ Registered(r) /\ Events(IF Takes(r) THEN 1 ELSE 0)
        /\ StopNext(w, {r}, "live")
  /\ UNCHANGED <<at, old, via, sender, slots, line, wrapper, wsock, verdict,
                 device, issued, sent, superseded, missed, told>>

(* A slow client is closed, its sender cancelled; the next one follows.    *)
Dropped(w) ==
  /\ wat[w] = "drop" /\ sock[victim[w]] # "closing"
  /\ sender' = [sender EXCEPT ![victim[w]] = FALSE]
  /\ StopNext(w, dead[w],
              IF wrapper[Machine[w]] = w THEN "live" ELSE "done")
  /\ UNCHANGED <<at, old, via, slots, line, wrapper, wsock, verdict,
                 device, asked, history>>

(* The slot is given back and the clients are told: the socket is gone,    *)
(* sent a bad frame, or its credential was revoked.                        *)
Gone(w) ==
  /\ \E bad \in 0..1, full \in SUBSET Addressed(w, Accounts) :
       /\ \/ wat[w] = "live" /\ (wsock[w] = "shut") = (bad = 0)
          \/ wat[w] = "looked" /\ ~verdict[w] /\ bad = 0
       /\ Events(bad + Overflows(full))
       /\ Broadcast(w, Accounts, full, "down", "done")
  /\ wrapper' = [wrapper EXCEPT ![Machine[w]] = IF @ = w THEN None ELSE @]
  /\ wsock' = [wsock EXCEPT ![w] = "shut"]
  /\ UNCHANGED <<at, old, via, sender, slots, line, verdict, device, asked,
                 issued, sent, superseded>>

LoseWrapper(w) ==
  /\ wsock[w] = "open" /\ wat[w] \in {"authorize", "looked", "live", "drop"}
  /\ Event /\ wsock' = [wsock EXCEPT ![w] = "shut"]
  /\ UNCHANGED <<client, hub, wat, verdict, victim, dead, device, asked,
                 issued, sent, superseded, missed, told>>

ShutWrapper(w) ==
  /\ wsock[w] = "closing" /\ wsock' = [wsock EXCEPT ![w] = "shut"]
  /\ UNCHANGED <<client, hub, wat, verdict, victim, dead, device, asked,
                 history>>

(* A device is revoked: deleted first, then its wrapper is disconnected.   *)
Delete(m) ==
  /\ device[m] = "enrolled" /\ Event
  /\ device' = [device EXCEPT ![m] = "deleted"]
  /\ UNCHANGED <<client, hub, peer, asked, issued, sent, superseded, missed,
                 told>>

(* The mutant finds only a wrapper that was announced.                     *)
DisconnectAnnounced(m) ==
  /\ device[m] = "deleted"
  /\ device' = [device EXCEPT ![m] = "disconnected"]
  /\ wsock' = [w \in Wrappers |->
                 IF w = wrapper[m] /\ wsock[w] = "open"
                    /\ wat[w] \in {"live", "drop"} THEN "closing"
                 ELSE wsock[w]]
  /\ UNCHANGED <<client, hub, wat, verdict, victim, dead, asked, history>>

Disconnect(m) ==
  /\ device[m] = "deleted"
  /\ device' = [device EXCEPT ![m] = "disconnected"]
  /\ wsock' = [w \in Wrappers |->
                 IF w = wrapper[m] /\ wsock[w] = "open" THEN "closing"
                 ELSE wsock[w]]
  /\ UNCHANGED <<client, hub, wat, verdict, victim, dead, asked, history>>

-----------------------------------------------------------------------------
ClientSteps(c) ==
  \/ (NoHello(c) /\ sock[c] = "shut")
  \/ Register(c) \/ Replace(c) \/ Forward(c) \/ Sent(c)
  \/ NotSent(c) \/ Stopped(c) \/ Disconnected(c) \/ Finish(c)

WrapperSteps(w) ==
  Look(w) \/ Announce(w) \/ Dropped(w) \/ (UNCHANGED count /\ Gone(w))

ClientNext(c) ==
  \/ ClientSteps(c) \/ Connect(c) \/ Hello(c) \/ NoHello(c) \/ Command(c)
  \/ BadFrame(c) \/ Expire(c) \/ SenderFails(c) \/ Lose(c) \/ Shut(c)

WrapperNext(w) ==
  \/ WrapperSteps(w) \/ Reserve(w) \/ Live(w) \/ Gone(w)
  \/ (\E r \in Conns : Answer(w, r)) \/ LoseWrapper(w) \/ ShutWrapper(w)

Next == \/ \E c \in Conns : ClientNext(c)
        \/ \E w \in Wrappers : WrapperNext(w)
        \/ \E m \in Machines : Delete(m) \/ Disconnect(m)

(* The event loop goes on while a coroutine can run; a send and a closing  *)
(* handshake end, by completion or by the socket library's timeout.        *)
Progress == \/ \E c \in Conns : ClientSteps(c) \/ Shut(c)
            \/ \E w \in Wrappers : WrapperSteps(w) \/ ShutWrapper(w)

Spec == Init /\ [][Next]_vars /\ WF_vars(Progress)

-----------------------------------------------------------------------------
(* Properties.                                                             *)

TypeOK ==
  /\ at \in [Conns -> {"new", "hello", "register", "replace", "forward",
                       "sending", "read", "stop", "finish", "done"}]
  /\ sock \in [Conns -> {"open", "closing", "shut"}]
  /\ slots \subseteq Conns
  /\ clients \in [Keys -> Conns \cup {None}]
  /\ wat \in [Wrappers -> {"hello", "authorize", "looked", "live", "drop",
                           "done"}]
  /\ wrapper \in [Machines -> Wrappers \cup {None}]

(* The table and the coroutines agree at every await: the table holds no   *)
(* more than max_clients connections, each under its own id and with a     *)
(* slot that only the end of its coroutine gives back; the send lock is    *)
(* held or awaited by exactly the coroutines that say so, once each.       *)
Bookkeeping ==
  /\ TypeOK
  /\ Cardinality({k \in Keys : clients[k] # None}) <= MaxClients
  /\ \A c \in Conns, k \in Keys : clients[k] = c => Key(c) = k /\ c \in slots
  /\ ToSet(line) = {c \in Conns : at[c] \in {"register", "forward",
                                             "sending"}}
  /\ IsInjective(line)
  /\ \A c \in Conns : at[c] = "sending" => Holds(c)

(* Once a newer connection has taken a client_id over, no command of an    *)
(* older one reaches the wrapper any more, also not one that was already   *)
(* being sent or waited for the lock (the comment at pairing.py:71-73).    *)
Fenced == [][\A c \in Conns : sent'[c] > sent[c] => c \notin superseded]_vars

(* A connection past its registration, not stopped and not down to be      *)
(* stopped for a frame it could not take.                                  *)
Serving(c) == /\ at[c] \in {"replace", "forward", "sending", "read"}
              /\ ~closed[c] /\ \A w \in Wrappers : c \notin dead[w]

(* A connection that is being served hears its machine: it is registered,  *)
(* whoever replaced or stopped another one of its client_id, and has had   *)
(* every live frame for its account since: a slow one loses the whole      *)
(* connection and never a single frame (forward.py:5-7).                   *)
NoHole == \A c \in Conns : Serving(c) => Registered(c) /\ c \notin missed

(* What a served client last heard of its machine is still true, and a     *)
(* revoked device is not left connected, however its revocation meets the  *)
(* hello and the authorization of a wrapper (the comment at                *)
(* pairing.py:244-247).                                                    *)
WrapperKnown ==
  /\ \A c \in Conns : Serving(c) =>
       LET w == wrapper[Host[c]]
           announced == w # None /\ wat[w] \in {"live", "drop"}
       IN (told[c] = "up" => announced) /\ (told[c] = "down" => ~announced)
  /\ \A w \in Wrappers :
       /\ device[Machine[w]] = "disconnected" /\ wat[w] \in {"live", "drop"}
       => wsock[w] # "open"

(* A client socket that is gone gives its slot back, and a wrapper socket  *)
(* that is gone its machine's, whoever waits for the send lock and however *)
(* many slow clients are being stopped: again and again none is left.      *)
SlotsFreed ==
  []<>(/\ \A c \in Conns : sock[c] = "shut" => c \notin slots
       /\ \A w \in Wrappers : wsock[w] = "shut" => wrapper[Machine[w]] # w)
=============================================================================
