-------------------------- MODULE CommandDelivery ---------------------------
(***************************************************************************)
(* How a browser's commands reach the wrapper and are acknowledged: the    *)
(* outbox (web/src/outbox.ts, ws.ts), the relay's forwarding and routing   *)
(* (relay/pairing.py), the wrapper's link (wrapper/transport.py) and its   *)
(* command lane with the memory of processed ids (wrapper/machine.py).     *)
(***************************************************************************)
EXTENDS Naturals, Sequences, SequencesExt

CONSTANTS Clients,      (* browsers, by client_id                          *)
          Serial,       (* commands handled in the command lane            *)
          Tasks,        (* commands handled in a task of their own         *)
          Safe,         (* serial ones a retry runs again                  *)
          Owner,        (* the client that sends each command              *)
          OutboxCap,    (* OUTBOX_MAX_COMMANDS                             *)
          IdsPerClient, (* COMMAND_IDS_PER_CLIENT                          *)
          MaxConns,     (* bound: sockets of one browser                   *)
          MaxLosses,    (* bound: losses of the wrapper's link             *)
          MaxLives,     (* bound: wrapper processes                        *)
          MaxFailures,  (* bound: handlers that raise                      *)
          MaxTroubles   (* bound: all of these together                    *)

Commands == Serial \cup Tasks

Free == "free"  (* the lane without a command                              *)

ASSUME DeliveryAssumption ==
  /\ Serial \cap Tasks = {} /\ Safe \subseteq Serial /\ Free \notin Commands
  /\ Owner \in [Commands -> Clients]
  /\ OutboxCap \in Nat \ {0} /\ IdsPerClient \in Nat \ {0}
  /\ MaxConns \in Nat \ {0}
  /\ MaxLosses \in Nat /\ MaxLives \in Nat \ {0} /\ MaxFailures \in Nat
  /\ MaxTroubles \in Nat

VARIABLES
  outbox,      (* browser: CommandOutbox.pending                           *)
  open,        (* browser: its socket is open                              *)
  conn,        (* browser: number of that socket                           *)
  toRelay,     (* frames from the browser to the relay                     *)
  toClient,    (* frames from the relay to the browser                     *)
  routed,      (* relay: the socket registered for each client_id          *)
  attached,    (* relay: the wrapper holds its slot                        *)
  up,          (* wrapper: _connected                                      *)
  toWrapper,   (* commands from the relay to the command lane              *)
  fromWrapper, (* frames from the wrapper to the relay                     *)
  known,       (* wrapper: _processed_commands, least recent first         *)
  lane,        (* wrapper: the command in the serial lane                  *)
  again,       (* wrapper: it is a safe one run again                      *)
  running,     (* wrapper: the tasks that run, counted by command          *)
  issued,      (* history: the commands each browser sent, in order        *)
  started,     (* history: serial commands in the order of their first run *)
               (* in this wrapper process                                  *)
  ran,         (* history: completed runs in this wrapper process          *)
  done,        (* history: commands completed in any process               *)
  raised,      (* history: commands whose handler raised                   *)
  count        (* history: closed sockets, losses, processes, failures     *)

browser == <<outbox, open, conn>>
relay   == <<routed, attached>>
frames  == <<toRelay, toClient, toWrapper, fromWrapper>>
work    == <<lane, again, running>>
history == <<issued, started, ran, done, raised, count>>
vars    == <<browser, relay, up, frames, known, work, history>>

Cmd(m)   == <<"cmd", m>>
Hello(k) == <<"hello", k>>
Ack(m)   == <<"ack", m>>
Announcement == <<"announcement">>

Init ==
  /\ outbox = [c \in Clients |-> <<>>]
  /\ open = [c \in Clients |-> FALSE]
  /\ conn = [c \in Clients |-> 0]
  /\ toRelay = [c \in Clients |-> <<>>]
  /\ toClient = [c \in Clients |-> <<>>]
  /\ routed = [c \in Clients |-> 0]
  /\ attached = TRUE /\ up = TRUE
  /\ toWrapper = <<>> /\ fromWrapper = <<>>
  /\ known = [c \in Clients |-> <<>>]
  /\ lane = Free /\ again = FALSE /\ running = [m \in Tasks |-> 0]
  /\ issued = [c \in Clients |-> <<>>]
  /\ started = <<>>
  /\ ran = [m \in Commands |-> 0]
  /\ done = {} /\ raised = {}
  /\ count = [closes |-> 0, losses |-> 0, lives |-> 1, failures |-> 0]

(* What may still go wrong within the bounds.                              *)
Troubles == count.closes + count.losses + (count.lives - 1) + count.failures

MoreTrouble == Troubles < MaxTroubles

(* s without x, which it holds once at most.                               *)
Without(s, x) ==
  IF x \in ToSet(s) THEN RemoveAt(s, CHOOSE i \in DOMAIN s : s[i] = x) ELSE s

-----------------------------------------------------------------------------
(* The browser.                                                            *)

(* Mutant of Room: a full outbox takes one more.                           *)
RoomForOneMore(c) == Len(outbox[c]) <= OutboxCap

Room(c) == Len(outbox[c]) < OutboxCap

(* sendTracked: into the outbox and, while the socket is open, out.        *)
SendTracked(m) ==
  LET c == Owner[m]
  IN /\ m \notin ToSet(issued[c])
     /\ Room(c)
     /\ outbox' = [outbox EXCEPT ![c] = Append(@, m)]
     /\ issued' = [issued EXCEPT ![c] = Append(@, m)]
     /\ toRelay' = IF open[c] THEN [toRelay EXCEPT ![c] = Append(@, Cmd(m))]
                   ELSE toRelay
     /\ UNCHANGED <<open, conn, relay, up, toClient, toWrapper, fromWrapper,
                    known, work, started, ran, done, raised, count>>

(* Mutant of Preamble: the newest command is sent first.                   *)
PreambleReversed(c, k) ==
  <<Hello(k)>> \o [i \in DOMAIN outbox[c] |-> Cmd(Reverse(outbox[c])[i])]

(* sendRecoveryPreamble: hello, then every pending command in order.       *)
Preamble(c, k) ==
  <<Hello(k)>> \o [i \in DOMAIN outbox[c] |-> Cmd(outbox[c][i])]

Open(c) ==
  /\ ~open[c]
  /\ open' = [open EXCEPT ![c] = TRUE]
  /\ conn' = [conn EXCEPT ![c] = @ + 1]
  /\ toRelay' = [toRelay EXCEPT ![c] = @ \o Preamble(c, conn'[c])]
  /\ UNCHANGED <<outbox, relay, up, toClient, toWrapper, fromWrapper, known,
                 work, history>>

(* The socket is lost with what was on it; the relay may still read a part *)
(* of what was sent, until the next socket replaces this one.              *)
Close(c) ==
  /\ open[c]
  /\ conn[c] < MaxConns /\ MoreTrouble
  /\ count' = [count EXCEPT !.closes = @ + 1]
  /\ open' = [open EXCEPT ![c] = FALSE]
  /\ toClient' = [toClient EXCEPT ![c] = <<>>]
  /\ \E n \in 0..Len(toRelay[c]) :
       toRelay' = [toRelay EXCEPT ![c] = SubSeq(@, 1, n)]
  /\ UNCHANGED <<outbox, conn, relay, up, toWrapper, fromWrapper, known, work,
                 issued, started, ran, done, raised>>

(* onmessage: an acknowledged command leaves the outbox.                   *)
TakeAck(c) ==
  /\ \E m \in Commands :
       /\ Head(toClient[c]) = Ack(m)
       /\ outbox' = [outbox EXCEPT ![c] = Without(@, m)]
  /\ UNCHANGED toRelay

(* Mutant of TakeAnnouncement: nothing is sent again.                      *)
TakeAnnouncementSilently(c) ==
  /\ Head(toClient[c]) = Announcement
  /\ UNCHANGED <<toRelay, outbox>>

(* ... and wrapper_reconnected repeats the preamble on the same socket.    *)
TakeAnnouncement(c) ==
  /\ Head(toClient[c]) = Announcement
  /\ toRelay' = [toRelay EXCEPT ![c] = @ \o Preamble(c, conn[c])]
  /\ UNCHANGED outbox

ClientRead(c) ==
  /\ toClient[c] # <<>>
  /\ toClient' = [toClient EXCEPT ![c] = Tail(@)]
  /\ TakeAck(c) \/ TakeAnnouncement(c)
  /\ UNCHANGED <<open, conn, relay, up, toWrapper, fromWrapper, known, work,
                 history>>

-----------------------------------------------------------------------------
(* The relay.                                                              *)

(* serve_client, _forward_client_msg: the first hello of a socket takes    *)
(* over the client_id; a command without a wrapper is answered with an     *)
(* error, which the outbox ignores.                                        *)
RelayRead(c) ==
  /\ toRelay[c] # <<>>
  /\ toRelay' = [toRelay EXCEPT ![c] = Tail(@)]
  /\ \/ \E k \in 1..MaxConns :
          /\ Head(toRelay[c]) = Hello(k)
          /\ routed' = [routed EXCEPT ![c] = k]
          /\ UNCHANGED toWrapper
     \/ \E m \in Commands :
          /\ Head(toRelay[c]) = Cmd(m)
          /\ toWrapper' = IF attached THEN Append(toWrapper, m) ELSE toWrapper
          /\ UNCHANGED routed
  /\ UNCHANGED <<browser, attached, up, toClient, fromWrapper, known, work,
                 history>>

Reaches(c) == open[c] /\ routed[c] = conn[c]

(* serve_wrapper: the wrapper's hello takes the slot ...                   *)
Attach ==
  /\ ~attached
  /\ fromWrapper # <<>>
  /\ attached' = TRUE
  /\ UNCHANGED <<browser, routed, up, frames, known, work, history>>

(* ... and is then announced to every registered browser.                  *)
Announce ==
  /\ attached
  /\ fromWrapper # <<>> /\ Head(fromWrapper) = Announcement
  /\ fromWrapper' = Tail(fromWrapper)
  /\ toClient' = [c \in Clients |-> IF Reaches(c)
                                    THEN Append(toClient[c], Announcement)
                                    ELSE toClient[c]]
  /\ UNCHANGED <<browser, relay, up, toRelay, toWrapper, known, work, history>>

(* _on_wrapper_msg: an acknowledgement goes to its client_id.              *)
RouteAck ==
  /\ attached
  /\ fromWrapper # <<>>
  /\ fromWrapper' = Tail(fromWrapper)
  /\ \E m \in Commands :
       /\ Head(fromWrapper) = Ack(m)
       /\ toClient' = IF Reaches(Owner[m])
                      THEN [toClient EXCEPT ![Owner[m]] = Append(@, Ack(m))]
                      ELSE toClient
  /\ UNCHANGED <<browser, relay, up, toRelay, toWrapper, known, work, history>>

(* The wrapper's link breaks: what was sent to the relay is lost, and of   *)
(* what was sent to the wrapper what its inbox had not received.           *)
LinkDown ==
  /\ up
  /\ count.losses < MaxLosses /\ MoreTrouble
  /\ count' = [count EXCEPT !.losses = @ + 1]
  /\ up' = FALSE /\ attached' = FALSE
  /\ fromWrapper' = <<>>
  /\ \E n \in 0..Len(toWrapper) : toWrapper' = SubSeq(toWrapper, 1, n)
  /\ UNCHANGED <<browser, routed, toRelay, toClient, known, work, issued,
                 started, ran, done, raised>>

(* _on_transport_connected: the hello goes first.                          *)
LinkUp ==
  /\ ~up
  /\ up' = TRUE
  /\ fromWrapper' = <<Announcement>>
  /\ UNCHANGED <<browser, relay, toRelay, toClient, toWrapper, known, work,
                 history>>

-----------------------------------------------------------------------------
(* The wrapper.                                                            *)
SendAck(m) ==
  fromWrapper' = IF up THEN Append(fromWrapper, Ack(m)) ELSE fromWrapper

(* _command_seen: a hit makes the id the most recent of its client.        *)
Seen(m) == m \in ToSet(known[Owner[m]])

Touch(m) ==
  known' = [known EXCEPT ![Owner[m]] = Append(Without(@, m), m)]

(* _remember_command: beyond the cap the least recent id is forgotten.     *)
Remember(m) ==
  LET ids == Append(Without(known[Owner[m]], m), m)
  IN known' = [known EXCEPT ![Owner[m]] =
                 IF Len(ids) > IdsPerClient THEN Tail(ids) ELSE ids]

(* _process_command of a command that was processed before: its responses  *)
(* and the acknowledgement are sent again; a safe one runs again.  (The    *)
(* task of a repeated command only does this, and is not told apart.)      *)
Repeat(m) ==
  /\ Touch(m)
  /\ IF m \in Safe
     THEN lane' = m /\ again' = TRUE /\ UNCHANGED fromWrapper
     ELSE SendAck(m) /\ UNCHANGED <<lane, again>>
  /\ UNCHANGED <<running, started>>

(* The command lane takes the next command.                                *)
TakeSerial(m) ==
  /\ m \in Serial
  /\ IF Seen(m)
     THEN Repeat(m)
     ELSE /\ lane' = m /\ again' = FALSE
          /\ started' = IF m \in ToSet(started) THEN started
                        ELSE Append(started, m)
          /\ UNCHANGED <<running, known, fromWrapper>>

(* Mutant of Coalesced: a retry starts a second task.                      *)
CoalescedNever(m) == m # m

(* _start_interactive_control_command and its like: a retry of a command   *)
(* whose task still runs is dropped.                                       *)
Coalesced(m) == running[m] > 0

TakeTask(m) ==
  /\ m \in Tasks
  /\ IF Coalesced(m)
     THEN UNCHANGED <<work, known, fromWrapper, started>>
     ELSE IF Seen(m)
     THEN Repeat(m)
     ELSE /\ running' = [running EXCEPT ![m] = @ + 1]
          /\ UNCHANGED <<lane, again, known, fromWrapper, started>>

Take ==
  /\ lane = Free
  /\ toWrapper # <<>>
  /\ toWrapper' = Tail(toWrapper)
  /\ TakeSerial(Head(toWrapper)) \/ TakeTask(Head(toWrapper))
  /\ UNCHANGED <<browser, relay, up, toRelay, toClient, issued, ran, done,
                 raised, count>>

InHand(m) == lane = m \/ (m \in Tasks /\ running[m] > 0)

Release(m) ==
  /\ lane' = IF lane = m THEN Free ELSE lane
  /\ again' = (again /\ lane # m)
  /\ running' = IF m \in Tasks THEN [running EXCEPT ![m] = @ - 1]
                 ELSE running

(* The handler returns: the id is remembered and acknowledged.             *)
Finish(m) ==
  /\ InHand(m)
  /\ Release(m)
  /\ IF again /\ lane = m THEN UNCHANGED known ELSE Remember(m)
  /\ SendAck(m)
  /\ ran' = [ran EXCEPT ![m] = @ + 1]
  /\ done' = done \cup {m}
  /\ UNCHANGED <<browser, relay, up, toRelay, toClient, toWrapper, issued,
                 started, raised, count>>

(* Mutant of Fail: the acknowledgement is sent in any case.                *)
FailAcked(m) ==
  /\ InHand(m)
  /\ count.failures < MaxFailures /\ MoreTrouble
  /\ count' = [count EXCEPT !.failures = @ + 1]
  /\ Release(m)
  /\ SendAck(m)
  /\ raised' = raised \cup {m}
  /\ UNCHANGED <<browser, relay, up, toRelay, toClient, toWrapper, known,
                 issued, started, ran, done>>

(* The handler raises: neither remembered nor acknowledged.                *)
Fail(m) ==
  /\ InHand(m)
  /\ count.failures < MaxFailures /\ MoreTrouble
  /\ count' = [count EXCEPT !.failures = @ + 1]
  /\ Release(m)
  /\ raised' = raised \cup {m}
  /\ UNCHANGED <<browser, relay, up, frames, known, issued, started, ran, done>>

(* The process ends, and a new one starts with nothing in memory.          *)
Restart ==
  /\ count.lives < MaxLives /\ MoreTrouble
  /\ count' = [count EXCEPT !.lives = @ + 1]
  /\ up' = FALSE /\ attached' = FALSE
  /\ toWrapper' = <<>> /\ fromWrapper' = <<>>
  /\ known' = [c \in Clients |-> <<>>]
  /\ lane' = Free /\ again' = FALSE /\ running' = [m \in Tasks |-> 0]
  /\ started' = <<>>
  /\ ran' = [m \in Commands |-> 0]
  /\ UNCHANGED <<browser, routed, toRelay, toClient, issued, done, raised>>

-----------------------------------------------------------------------------
Handler(m) == Finish(m) \/ Fail(m)

Next ==
  \/ \E m \in Commands : SendTracked(m) \/ Handler(m)
  \/ \E c \in Clients : Open(c) \/ Close(c) \/ ClientRead(c) \/ RelayRead(c)
  \/ Attach \/ Announce \/ RouteAck
  \/ LinkDown \/ LinkUp
  \/ Take
  \/ Restart

(* Both ends of a broken link connect again, frames are read, and handlers *)
(* return or raise.  Nobody has to send, and nothing has to break.         *)
Fairness ==
  /\ \A c \in Clients :
       WF_vars(Open(c)) /\ WF_vars(ClientRead(c)) /\ WF_vars(RelayRead(c))
  /\ WF_vars(Attach) /\ WF_vars(Announce) /\ WF_vars(RouteAck)
  /\ WF_vars(LinkUp) /\ WF_vars(Take)
  /\ \A m \in Commands : WF_vars(Handler(m))

Spec == Init /\ [][Next]_vars /\ Fairness

-----------------------------------------------------------------------------
Sent == {Cmd(m) : m \in Commands} \cup {Hello(k) : k \in 1..MaxConns}

Told == {Ack(m) : m \in Commands} \cup {Announcement}

(* Every variable has its type; the outbox and the memory keep their caps, *)
(* and no id is kept twice in either.                                      *)
TypeOK ==
  /\ outbox \in [Clients -> Seq(Commands)] /\ open \in [Clients -> BOOLEAN]
  /\ conn \in [Clients -> 0..MaxConns] /\ routed \in [Clients -> 0..MaxConns]
  /\ toRelay \in [Clients -> Seq(Sent)] /\ toClient \in [Clients -> Seq(Told)]
  /\ attached \in BOOLEAN /\ up \in BOOLEAN
  /\ toWrapper \in Seq(Commands) /\ fromWrapper \in Seq(Told)
  /\ known \in [Clients -> Seq(Commands)]
  /\ lane \in Serial \cup {Free} /\ again \in BOOLEAN
  /\ running \in [Tasks -> Nat]
  /\ issued \in [Clients -> Seq(Commands)]
  /\ started \in Seq(Serial) /\ ran \in [Commands -> Nat]
  /\ done \subseteq Commands /\ raised \subseteq Commands
  /\ count \in [closes : Nat, losses : Nat, lives : Nat, failures : Nat]
  /\ \A c \in Clients :
       /\ routed[c] <= conn[c]
       /\ IsInjective(outbox[c]) /\ Len(outbox[c]) <= OutboxCap
       /\ IsInjective(known[c]) /\ Len(known[c]) <= IdsPerClient

(* One wrapper process completes a command at most once, whatever was sent *)
(* again.  It rests on the caps: the memory must not forget a command that *)
(* still waits in the outbox, however often its acknowledgement is lost.   *)
AtMostOnce == \A m \in Commands \ Safe : ran[m] <= 1

(* A command leaves the outbox only after it was completed.                *)
AckedRan ==
  \A c \in Clients : ToSet(issued[c]) \ ToSet(outbox[c]) \subseteq done

(* x occurs in s before y.                                                 *)
Earlier(s, x, y) == \E i, j \in DOMAIN s : i < j /\ s[i] = x /\ s[j] = y

(* While the wrapper and its link live, each browser's serial commands run *)
(* first in the order they were sent, however often its own socket is      *)
(* replaced: none starts before one that was sent earlier.                 *)
InOrder ==
  count.losses = 0 /\ count.lives = 1 =>
    \A c \in Clients : \A m, n \in Serial :
      Earlier(issued[c], m, n) /\ n \in ToSet(started) => Earlier(started, m, n)

(* Every command is acknowledged in the end, or its handler raised.        *)
Acknowledged ==
  \A m \in Commands :
    m \in ToSet(outbox[Owner[m]]) ~>
      m \notin ToSet(outbox[Owner[m]]) \/ m \in raised
=============================================================================
