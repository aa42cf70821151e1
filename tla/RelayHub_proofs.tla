--------------------------- MODULE RelayHub_proofs ---------------------------
(***************************************************************************)
(* Proofs about RelayHub, for every number of client and wrapper sockets,  *)
(* of ids, accounts, machines and commands, and whatever is lost, refused, *)
(* too slow, revoked or expires.                                           *)
(***************************************************************************)
EXTENDS RelayHub, FiniteSetTheorems, SequenceTheorems, TLAPS

-----------------------------------------------------------------------------
(* The inductive invariant.                                                *)

Places == {"new", "hello", "register", "replace", "forward", "sending", "read",
           "stop", "finish", "done"}
InLine == {"register", "forward", "sending"}
(* Where a coroutine is once it may be registered.                         *)
Past == {"replace", "forward", "sending", "read", "stop", "finish"}
WPlaces == {"hello", "authorize", "looked", "live", "drop", "done"}

Types ==
  /\ at \in [Conns -> Places]
  /\ old \in [Conns -> Conns \cup {None}]
  /\ via \in [Conns -> Wrappers \cup {None}]
  /\ sock \in [Conns -> {"open", "closing", "shut"}]
  /\ closed \in [Conns -> BOOLEAN] /\ sender \in [Conns -> BOOLEAN]
  /\ clients \in [Keys -> Conns \cup {None}] /\ slots \subseteq Conns
  /\ line \in Seq(Conns)
  /\ wat \in [Wrappers -> WPlaces]
  /\ wsock \in [Wrappers -> {"open", "closing", "shut"}]
  /\ verdict \in [Wrappers -> BOOLEAN]
  /\ victim \in [Wrappers -> Conns \cup {None}]
  /\ dead \in [Wrappers -> SUBSET Conns]
  /\ wrapper \in [Machines -> Wrappers \cup {None}]
  /\ device \in [Machines -> {"enrolled", "deleted", "disconnected"}]
  /\ asked \in [Wrappers -> SUBSET Conns]
  /\ issued \in [Conns -> Nat] /\ sent \in [Conns -> Nat]
  /\ superseded \subseteq Conns /\ missed \subseteq Conns
  /\ told \in [Conns -> {"nothing", "up", "down"}]
  /\ count \in Nat

(* The send lock: who is in line says so, once, and a sender is its first. *)
Lock ==
  /\ ToSet(line) = {c \in Conns : at[c] \in InLine}
  /\ IsInjective(line)
  /\ \A c \in Conns : at[c] = "sending" => Holds(c)

(* The table of clients.  A connection that was superseded is past its own *)
(* registration, so it never owns its id again, and is not sending.        *)
Table ==
  /\ IsFiniteSet(Active) /\ Cardinality(Active) <= MaxClients
  /\ slots = {c \in Conns : at[c] \notin {"new", "done"}}
  /\ \A c \in Conns, k \in Keys : clients[k] = c => Key(c) = k /\ at[c] \in Past
  /\ \A c \in superseded : at[c] \in Past /\ at[c] # "sending" /\ ~Registered(c)

(* Who is being served, and who waits to be stopped.                       *)
Serves ==
  /\ NoHole
  /\ \A w \in Wrappers : wat[w] # "drop" => dead[w] = {}

Allowed(w) == wat[w] \in {"live", "drop"} \/ (wat[w] = "looked" /\ verdict[w])

(* The slots of the machines.  A device that is disconnected leaves no     *)
(* wrapper that is connected, or that will be because it was looked up     *)
(* before.                                                                 *)
Wired ==
  /\ \A m \in Machines : wrapper[m] # None =>
       /\ Machine[wrapper[m]] = m
       /\ wat[wrapper[m]] \in {"authorize", "looked", "live", "drop"}
  /\ \A w \in Wrappers :
       /\ wat[w] \in {"authorize", "looked", "live"} => wrapper[Machine[w]] = w
       /\ wat[w] = "drop" /\ wrapper[Machine[w]] # w => wsock[w] # "open"
       /\ device[Machine[w]] = "disconnected" /\ Allowed(w) => wsock[w] # "open"

Announced(m) == wrapper[m] # None /\ wat[wrapper[m]] \in {"live", "drop"}

(* What a connection was told before it is registered is nothing.          *)
Heard ==
  /\ \A c \in Conns : at[c] \in {"new", "hello", "register"} => told[c] = "nothing"
  /\ \A c \in Conns : Serving(c) =>
       /\ told[c] = "up" => Announced(Host[c])
       /\ told[c] = "down" => ~Announced(Host[c])

IInv == Types /\ Lock /\ Table /\ Serves /\ Wired /\ Heard

-----------------------------------------------------------------------------
(* Queues without repetition: who joins at the end, who leaves.            *)

LEMMA Joins ==
  ASSUME NEW S, NEW q \in Seq(S), NEW e \in S, IsInjective(q), e \notin ToSet(q)
  PROVE  /\ Append(q, e) \in Seq(S) /\ Append(q, e) # <<>>
         /\ ToSet(Append(q, e)) = ToSet(q) \cup {e}
         /\ IsInjective(Append(q, e))
         /\ q # <<>> => Head(Append(q, e)) = Head(q)
<1>1. /\ Append(q, e) \in Seq(S) /\ Append(q, e) # <<>>
      /\ Len(Append(q, e)) = Len(q) + 1 /\ Len(q) \in Nat
      /\ \A i \in 1..Len(q) : Append(q, e)[i] = q[i]
      /\ Append(q, e)[Len(q) + 1] = e
      /\ DOMAIN q = 1..Len(q) /\ DOMAIN Append(q, e) = 1..(Len(q) + 1)
  BY AppendProperties, LenProperties
<1>2. \A i \in 1..(Len(q) + 1) : i \in 1..Len(q) \/ i = Len(q) + 1
  BY <1>1
<1>3. ToSet(Append(q, e)) = ToSet(q) \cup {e}
  <2>1. 1..Len(q) \subseteq 1..(Len(q) + 1) /\ Len(q) + 1 \in 1..(Len(q) + 1)
    BY <1>1
  <2> QED
    BY <1>1, <1>2, <2>1 DEF ToSet
<1>4. IsInjective(Append(q, e))
  <2> SUFFICES ASSUME NEW i \in 1..(Len(q) + 1), NEW j \in 1..(Len(q) + 1),
                      Append(q, e)[i] = Append(q, e)[j]
               PROVE  i = j
    BY <1>1 DEF IsInjective
  <2> QED
    BY <1>1, <1>2 DEF ToSet, IsInjective
<1>5. q # <<>> => Head(Append(q, e)) = Head(q)
  BY HeadTailAppend
<1> QED
  BY <1>1, <1>3, <1>4, <1>5

LEMMA FirstLeaves ==
  ASSUME NEW S, NEW q \in Seq(S), IsInjective(q), q # <<>>
  PROVE  /\ Tail(q) \in Seq(S) /\ Head(q) \in ToSet(q)
         /\ ToSet(Tail(q)) = ToSet(q) \ {Head(q)}
         /\ IsInjective(Tail(q))
<1>1. /\ Tail(q) \in Seq(S) /\ Len(q) \in Nat /\ Len(q) > 0 /\ Len(Tail(q)) = Len(q) - 1
      /\ \A i \in 1..(Len(q) - 1) : Tail(q)[i] = q[i + 1]
      /\ DOMAIN q = 1..Len(q) /\ DOMAIN Tail(q) = 1..(Len(q) - 1)
      /\ Head(q) = q[1]
  BY HeadTailProperties, LenProperties, EmptySeq
<1>2. \A i \in 1..Len(q) : i = 1 \/ i - 1 \in 1..(Len(q) - 1)
  BY <1>1
<1>3. \A i \in 1..(Len(q) - 1) : i + 1 \in 1..Len(q) /\ i + 1 # 1
  BY <1>1
<1>4. 1 \in 1..Len(q)
  BY <1>1
<1>5. \A i \in 1..Len(q) : i # 1 => Tail(q)[i - 1] = q[i] /\ q[i] # q[1]
  BY <1>1, <1>2, <1>4 DEF IsInjective
<1>6. ToSet(Tail(q)) = ToSet(q) \ {Head(q)}
  <2>1. ASSUME NEW e \in ToSet(Tail(q))
        PROVE  e \in ToSet(q) \ {Head(q)}
    <3>1. PICK i \in 1..(Len(q) - 1) : e = Tail(q)[i]
      BY <1>1, <2>1 DEF ToSet
    <3> QED
      BY <1>1, <1>3, <1>5, <3>1 DEF ToSet
  <2>2. ASSUME NEW e \in ToSet(q) \ {Head(q)}
        PROVE  e \in ToSet(Tail(q))
    <3>1. PICK i \in 1..Len(q) : e = q[i] /\ i # 1
      BY <1>1, <2>2 DEF ToSet
    <3> QED
      BY <1>1, <1>2, <1>5, <3>1 DEF ToSet
  <2> QED
    BY <2>1, <2>2
<1>7. IsInjective(Tail(q))
  <2> SUFFICES ASSUME NEW i \in 1..(Len(q) - 1), NEW j \in 1..(Len(q) - 1),
                      Tail(q)[i] = Tail(q)[j]
               PROVE  i = j
    BY <1>1 DEF IsInjective
  <2>1. i + 1 = j + 1
    BY <1>1, <1>3 DEF IsInjective
  <2> QED
    BY <2>1
<1> QED
  BY <1>1, <1>4, <1>6, <1>7 DEF ToSet

LEMMA OneLeaves ==
  ASSUME NEW S, NEW q \in Seq(S), IsInjective(q), NEW k \in DOMAIN q
  PROVE  /\ RemoveAt(q, k) \in Seq(S)
         /\ ToSet(RemoveAt(q, k)) = ToSet(q) \ {q[k]}
         /\ IsInjective(RemoveAt(q, k))
         /\ k # 1 => RemoveAt(q, k) # <<>> /\ Head(RemoveAt(q, k)) = Head(q)
<1> DEFINE n == Len(q)
           a == SubSeq(q, 1, k - 1)
           b == SubSeq(q, k + 1, n)
           r == RemoveAt(q, k)
<1>1. /\ n \in Nat /\ DOMAIN q = 1..n /\ k \in 1..n /\ \A i \in 1..n : q[i] \in S
  BY LenProperties, ElementOfSeq
<1>2. /\ a \in Seq(S) /\ Len(a) = k - 1
      /\ \A i \in 1..(k - 1) : a[i] = q[i]
  <2>1. 1 \in Int /\ k - 1 \in Int /\ \A i \in 1..(k - 1) : q[i] \in S
    BY <1>1
  <2>2. /\ a \in Seq(S) /\ Len(a) = (IF 1 <= k - 1 THEN k - 1 - 1 + 1 ELSE 0)
        /\ \A i \in 1..(k - 1 - 1 + 1) : a[i] = q[1 + i - 1]
    BY <2>1, SubSeqProperties
  <2> QED
    BY <1>1, <2>2
<1>3. /\ b \in Seq(S) /\ Len(b) = n - k
      /\ \A i \in 1..(n - k) : b[i] = q[k + i]
  <2>1. k + 1 \in Int /\ n \in Int /\ \A i \in (k + 1)..n : q[i] \in S
    BY <1>1
  <2>2. /\ b \in Seq(S) /\ Len(b) = (IF k + 1 <= n THEN n - (k + 1) + 1 ELSE 0)
        /\ \A i \in 1..(n - (k + 1) + 1) : b[i] = q[k + 1 + i - 1]
    BY <2>1, SubSeqProperties
  <2> HIDE DEF b, n
  <2>3. Len(b) = n - k
    BY <1>1, <2>2
  <2>4. ASSUME NEW i \in 1..(n - k)
        PROVE  b[i] = q[k + i]
    <3>1. i \in 1..(n - (k + 1) + 1) /\ k + 1 + i - 1 = k + i
      BY <1>1
    <3> QED
      BY <2>2, <3>1
  <2> QED
    BY <2>2, <2>3, <2>4
<1>4. r = a \o b
  BY DEF RemoveAt
<1> HIDE DEF a, b, n, r
<1>5. /\ r \in Seq(S) /\ Len(r) = n - 1 /\ DOMAIN r = 1..(n - 1)
      /\ \A i \in 1..(n - 1) : r[i] = IF i < k THEN q[i] ELSE q[i + 1]
  <2>1. /\ r \in Seq(S) /\ Len(r) = Len(a) + Len(b)
        /\ \A i \in 1..(Len(a) + Len(b)) : r[i] = IF i <= Len(a) THEN a[i] ELSE b[i - Len(a)]
    BY <1>2, <1>3, <1>4, ConcatProperties
  <2>2. Len(a) + Len(b) = n - 1
    BY <1>1, <1>2, <1>3
  <2>3. ASSUME NEW i \in 1..(n - 1)
        PROVE  r[i] = IF i < k THEN q[i] ELSE q[i + 1]
    <3>1. CASE i < k
      <4>1. i <= Len(a) /\ i \in 1..(k - 1)
        BY <1>1, <1>2, <3>1
      <4> QED
        BY <1>2, <2>1, <2>2, <3>1, <4>1
    <3>2. CASE ~(i < k)
      <4>1. ~(i <= Len(a)) /\ i - Len(a) \in 1..(n - k) /\ k + (i - Len(a)) = i + 1
        BY <1>1, <1>2, <3>2
      <4> QED
        BY <1>3, <2>1, <2>2, <3>2, <4>1
    <3> QED
      BY <3>1, <3>2
  <2> QED
    BY <2>1, <2>2, <2>3, LenProperties
<1>6. ToSet(r) = ToSet(q) \ {q[k]}
  <2>1. ASSUME NEW e \in ToSet(r)
        PROVE  e \in ToSet(q) \ {q[k]}
    <3>1. PICK i \in 1..(n - 1) : e = r[i]
      BY <1>5, <2>1 DEF ToSet
    <3>2. PICK j \in 1..n : e = q[j] /\ j # k
      <4>1. i \in 1..n /\ i + 1 \in 1..n /\ (i < k => i # k) /\ (~(i < k) => i + 1 # k)
        BY <1>1
      <4> QED
        BY <1>5, <3>1, <4>1
    <3> QED
      BY <1>1, <3>2 DEF ToSet, IsInjective
  <2>2. ASSUME NEW e \in ToSet(q) \ {q[k]}
        PROVE  e \in ToSet(r)
    <3>1. PICK j \in 1..n : e = q[j] /\ j # k
      BY <1>1, <2>2 DEF ToSet
    <3>2. CASE j < k
      <4>1. j \in 1..(n - 1)
        BY <1>1, <3>2
      <4> QED
        BY <1>5, <3>1, <3>2, <4>1 DEF ToSet
    <3>3. CASE ~(j < k)
      <4>1. j - 1 \in 1..(n - 1) /\ ~(j - 1 < k) /\ (j - 1) + 1 = j
        BY <1>1, <3>1, <3>3
      <4> QED
        BY <1>5, <3>1, <4>1 DEF ToSet
    <3> QED
      BY <3>2, <3>3
  <2> QED
    BY <2>1, <2>2
<1>7. IsInjective(r)
  <2> SUFFICES ASSUME NEW i \in 1..(n - 1), NEW j \in 1..(n - 1), r[i] = r[j]
               PROVE  i = j
    BY <1>5 DEF IsInjective
  <2> DEFINE ii == IF i < k THEN i ELSE i + 1
             jj == IF j < k THEN j ELSE j + 1
  <2>1. ii \in 1..n /\ jj \in 1..n /\ (ii = jj => i = j)
    BY <1>1
  <2>2. q[ii] = q[jj]
    BY <1>5
  <2> QED
    BY <1>1, <2>1, <2>2 DEF IsInjective
<1>8. k # 1 => r # <<>> /\ Head(r) = Head(q)
  <2> SUFFICES ASSUME k # 1
               PROVE  r # <<>> /\ Head(r) = Head(q)
    OBVIOUS
  <2>1. 1 \in 1..(n - 1) /\ 1 < k
    BY <1>1
  <2>2. r[1] = q[1] /\ r # <<>> /\ q # <<>>
    BY <1>1, <1>5, <2>1, EmptySeq
  <2> QED
    BY <2>2
<1> QED
  BY <1>5, <1>6, <1>7, <1>8 DEF r

-----------------------------------------------------------------------------
(* What a step touches.                                                    *)

LEMMA Constants ==
  /\ \A c \in Conns : Key(c) \in Keys /\ Host[c] \in Machines /\ Account[c] \in Accounts
  /\ \A w \in Wrappers : Machine[w] \in Machines
  /\ None \notin Conns /\ None \notin Wrappers
  /\ MaxClients \in Nat \ {0}
  BY HubAssumption DEF Key, Keys

(* The first of the slow clients is closed and out of the table, the       *)
(* others wait for it.                                                     *)
LEMMA StopNextEffect ==
  ASSUME Types, NEW w \in Wrappers, NEW D \in SUBSET Conns, NEW place \in WPlaces,
         StopNext(w, D, place)
  PROVE  /\ wat' = [wat EXCEPT ![w] = IF D = {} THEN place ELSE "drop"]
         /\ victim' \in [Wrappers -> Conns \cup {None}]
         /\ dead' \in [Wrappers -> SUBSET Conns]
         /\ closed' \in [Conns -> BOOLEAN]
         /\ sock' \in [Conns -> {"open", "closing", "shut"}]
         /\ clients' \in [Keys -> Conns \cup {None}]
         /\ \A v \in Wrappers : v # w => dead'[v] = dead[v]
         /\ dead'[w] \subseteq D
         /\ \A c \in D : c \in dead'[w] \/ closed'[c]
         /\ \A c \in Conns : closed[c] => closed'[c]
         /\ \A k \in Keys : \/ clients'[k] = clients[k]
                            \/ clients'[k] = None /\ clients[k] \in D /\ closed'[clients[k]]
<1>1. CASE D = {}
  <2>1. /\ wat' = [wat EXCEPT ![w] = place] /\ victim' = [victim EXCEPT ![w] = None]
        /\ dead' = [dead EXCEPT ![w] = {}] /\ UNCHANGED <<clients, closed, sock>>
    BY <1>1 DEF StopNext
  <2> QED
    BY <1>1, <2>1 DEF Types
<1>2. CASE D # {}
  <2>1. PICK c \in D :
          /\ wat' = [wat EXCEPT ![w] = "drop"]
          /\ victim' = [victim EXCEPT ![w] = c]
          /\ dead' = [dead EXCEPT ![w] = D \ {c}]
          /\ clients' = Without(clients, {c})
          /\ closed' = [closed EXCEPT ![c] = TRUE]
          /\ sock' = [sock EXCEPT ![c] =
                        IF @ = "open" /\ ~closed[c] THEN "closing" ELSE @]
    BY <1>2 DEF StopNext
  <2>2. \A k \in Keys : clients'[k] = IF clients[k] = c THEN None ELSE clients[k]
    BY <2>1 DEF Without
  <2>3. clients' \in [Keys -> Conns \cup {None}]
    BY <2>1 DEF Without, Types
  <2> QED
    BY <1>2, <2>1, <2>2, <2>3 DEF Types
<1> QED
  BY <1>1, <1>2

(* The wrapper's coroutine goes on, or is busy stopping the first.         *)
LEMMA StopNextMoves ==
  ASSUME NEW w, NEW D, NEW place, StopNext(w, D, place)
  PROVE  wat' = [wat EXCEPT ![w] = IF D = {} THEN place ELSE "drop"]
  BY DEF StopNext

(* The word reaches the clients that are not stopped.                      *)
Tells(w, A, word, D) ==
  \A c \in Conns :
    told'[c] = IF word # "live" /\ c \in Addressed(w, A) \ D THEN word ELSE told[c]

(* Each client of the frame gets it, is closed, or waits to be.            *)
LEMMA BroadcastEffect ==
  ASSUME Types, NEW w \in Wrappers, NEW A, NEW full, NEW word \in {"up", "down", "live"},
         NEW place \in WPlaces, Broadcast(w, A, full, word, place)
  PROVE  \E D \in SUBSET Addressed(w, A) :
           /\ StopNext(w, D, place) /\ missed' = missed \cup D
           /\ told' \in [Conns -> {"nothing", "up", "down"}]
           /\ Tells(w, A, word, D)
<1> DEFINE ok == {c \in Addressed(w, A) \ full : Takes(c)}
           D == Addressed(w, A) \ ok
<1>1. /\ missed' = missed \cup D /\ StopNext(w, D, place)
      /\ told' = [c \in Conns |-> IF c \in ok /\ word # "live" THEN word ELSE told[c]]
  BY DEF Broadcast
<1>2. ok = Addressed(w, A) \ D
  OBVIOUS
<1>3. told' \in [Conns -> {"nothing", "up", "down"}]
  BY <1>1 DEF Types
<1>4. Tells(w, A, word, D)
  BY <1>1, <1>2 DEF Tells
<1> HIDE DEF ok
<1> QED
  BY <1>1, <1>3, <1>4

(* A client's coroutine leaves the wrappers alone, a wrapper's touches the *)
(* clients only to tell and to stop them.                                  *)
LEMMA ClientTouches ==
  ASSUME NEW c \in Conns, ClientNext(c)
  PROVE  UNCHANGED <<wrapper, wat, wsock, verdict, victim, dead, device>>
<1> USE DEF client, hub, peer, history
<1> QED
  BY DEF ClientNext, ClientSteps, Connect, Hello, NoHello, Register, Replace, Forward, Sent,
         NotSent, Command, BadFrame, Stopped, Disconnected, Finish, Expire, SenderFails,
         Lose, Shut

LEMMA WrapperTouches ==
  ASSUME NEW w \in Wrappers, WrapperNext(w)
  PROVE  UNCHANGED <<at, old, via, slots, line, device, issued, sent, superseded>>
<1> USE DEF client, hub, peer, history
<1> QED
  BY DEF WrapperNext, WrapperSteps, Look, Announce, Dropped, Gone, Reserve, Live, Answer,
         LoseWrapper, ShutWrapper

LEMMA DeviceTouches ==
  ASSUME NEW m \in Machines, Delete(m) \/ Disconnect(m)
  PROVE  /\ UNCHANGED <<at, old, via, sock, closed, sender, clients, slots, line, wrapper>>
         /\ UNCHANGED <<wat, verdict, victim, dead, asked, issued, sent, superseded, missed>>
         /\ UNCHANGED told
<1> USE DEF client, hub, peer, history
<1> QED
  BY DEF Delete, Disconnect

-----------------------------------------------------------------------------
(* The send lock.                                                          *)

LEMMA LeavesEffect ==
  ASSUME line \in Seq(Conns), IsInjective(line), NEW c \in Conns
  PROVE  /\ Leaves(c) \in Seq(Conns) /\ ToSet(Leaves(c)) = ToSet(line) \ {c}
         /\ IsInjective(Leaves(c))
         /\ \A d \in Conns : d # c /\ Holds(d) =>
              Leaves(c) # <<>> /\ Head(Leaves(c)) = d
<1>1. CASE c \notin ToSet(line)
  BY <1>1 DEF Leaves, Holds
<1>2. CASE c \in ToSet(line)
  <2> DEFINE k == CHOOSE i \in DOMAIN line : line[i] = c
  <2>1. k \in DOMAIN line /\ line[k] = c
    BY <1>2 DEF ToSet
  <2>2. Leaves(c) = RemoveAt(line, k)
    BY <1>2 DEF Leaves
  <2> HIDE DEF k
  <2>3. /\ Leaves(c) \in Seq(Conns) /\ ToSet(Leaves(c)) = ToSet(line) \ {c}
        /\ IsInjective(Leaves(c))
        /\ k # 1 => Leaves(c) # <<>> /\ Head(Leaves(c)) = Head(line)
    BY <2>1, <2>2, OneLeaves
  <2>4. \A d \in Conns : d # c /\ Holds(d) => k # 1
    BY <2>1 DEF Holds
  <2> QED
    BY <2>3, <2>4 DEF Holds
<1> QED
  BY <1>1, <1>2

LEMMA LockStep ==
  ASSUME Types, Lock, [Next]_vars
  PROVE  line' \in Seq(Conns) /\ Lock'
<1> USE DEF client, hub, peer, history
<1>t. at \in [Conns -> Places] /\ line \in Seq(Conns)
  BY DEF Types
<1>l. /\ ToSet(line) = {c \in Conns : at[c] \in InLine} /\ IsInjective(line)
      /\ \A c \in Conns : at[c] = "sending" => line # <<>> /\ Head(line) = c
  BY DEF Lock, Holds
(* The coroutine moves, and stays in line or out of it.                    *)
<1>q. ASSUME line' = line, NEW c \in Conns, NEW place \in Places, Goto(c, place),
             place \in InLine <=> at[c] \in InLine,
             place = "sending" => Holds(c)
      PROVE  line' \in Seq(Conns) /\ Lock'
  <2>1. at' = [at EXCEPT ![c] = place]
    BY <1>q DEF Goto
  <2>2. {d \in Conns : at'[d] \in InLine} = {d \in Conns : at[d] \in InLine}
    BY <1>t, <1>q, <2>1
  <2> QED
    BY <1>t, <1>l, <1>q, <2>1, <2>2 DEF Lock, Holds
<1>j. ASSUME NEW c \in Conns, at[c] \notin InLine, line' = Append(line, c),
             NEW place \in {"register", "forward"}, Goto(c, place)
      PROVE  line' \in Seq(Conns) /\ Lock'
  <2>1. at' = [at EXCEPT ![c] = place]
    BY <1>j DEF Goto
  <2>2. {d \in Conns : at'[d] \in InLine} = {d \in Conns : at[d] \in InLine} \cup {c}
    BY <1>t, <2>1 DEF InLine
  <2>3. /\ line' \in Seq(Conns) /\ line' # <<>> /\ ToSet(line') = ToSet(line) \cup {c}
        /\ IsInjective(line') /\ (line # <<>> => Head(line') = Head(line))
    BY <1>t, <1>l, <1>j, Joins
  <2>4. \A d \in Conns : at'[d] = "sending" => at[d] = "sending"
    BY <1>t, <2>1
  <2> QED
    BY <1>t, <1>l, <2>2, <2>3, <2>4 DEF Lock, Holds
<1>r. ASSUME NEW c \in Conns, Holds(c), line' = Tail(line), NEW place \in Places \ InLine,
             Goto(c, place)
      PROVE  line' \in Seq(Conns) /\ Lock'
  <2>1. at' = [at EXCEPT ![c] = place]
    BY <1>r DEF Goto
  <2>2. {d \in Conns : at'[d] \in InLine} = {d \in Conns : at[d] \in InLine} \ {c}
    BY <1>t, <2>1
  <2>3. /\ line' \in Seq(Conns) /\ ToSet(line') = ToSet(line) \ {c} /\ IsInjective(line')
    BY <1>t, <1>l, <1>r, FirstLeaves DEF Holds
  <2>4. \A d \in Conns : at'[d] # "sending"
    <3> SUFFICES ASSUME NEW d \in Conns, at'[d] = "sending"
                 PROVE  FALSE
      OBVIOUS
    <3>1. d # c
      BY <1>t, <2>1 DEF InLine
    <3>2. at[d] = "sending"
      BY <1>t, <2>1, <3>1
    <3> QED
      BY <1>l, <1>r, <3>1, <3>2 DEF Holds
  <2> QED
    BY <1>l, <2>2, <2>3, <2>4 DEF Lock
<1>1. CASE \E c \in Conns : ClientNext(c)
  <2> PICK c \in Conns : ClientNext(c)
    BY <1>1
  <2>1. CASE Connect(c)
    <3>1. CASE Goto(c, "done")
      BY <1>q, <2>1, <3>1 DEF Connect, InLine, Places
    <3>2. CASE Goto(c, "hello")
      BY <1>q, <2>1, <3>2 DEF Connect, InLine, Places
    <3> QED
      BY <2>1, <3>1, <3>2 DEF Connect
  <2>2. CASE Hello(c)
    BY <1>j, <2>2 DEF Hello, InLine
  <2>3. CASE NoHello(c)
    BY <1>q, <2>3 DEF NoHello, InLine, Places
  <2>4. CASE Register(c)
    <3>1. at[c] = "register" /\ Holds(c)
      BY <2>4 DEF Register
    <3>2. CASE line' = Tail(line) /\ \E place \in {"stop", "replace"} : Goto(c, place)
      BY <1>r, <3>1, <3>2 DEF InLine, Places
    <3>3. CASE line' = Append(Tail(line), c) /\ Goto(c, "forward")
      <4>1. /\ Tail(line) \in Seq(Conns) /\ ToSet(Tail(line)) = ToSet(line) \ {c}
            /\ IsInjective(Tail(line))
        BY <1>t, <1>l, <3>1, FirstLeaves DEF Holds
      <4>2. line' \in Seq(Conns) /\ IsInjective(line')
            /\ ToSet(line') = (ToSet(line) \ {c}) \cup {c}
        <5> DEFINE q == Tail(line)
        <5>1. q \in Seq(Conns) /\ IsInjective(q) /\ c \notin ToSet(q)
          BY <4>1
        <5> HIDE DEF q
        <5>2. /\ Append(q, c) \in Seq(Conns) /\ IsInjective(Append(q, c))
              /\ ToSet(Append(q, c)) = ToSet(q) \cup {c}
          BY <5>1, Joins
        <5> QED
          BY <3>3, <4>1, <5>2 DEF q
      <4>3. c \in ToSet(line)
        BY <1>l, <3>1 DEF InLine
      <4>4. {d \in Conns : at'[d] \in InLine} = {d \in Conns : at[d] \in InLine}
        BY <1>t, <3>1, <3>3 DEF Goto, InLine
      <4>5. \A d \in Conns : at'[d] # "sending"
        BY <1>t, <1>l, <3>1, <3>3 DEF Goto, Holds
      <4> QED
        BY <1>l, <4>2, <4>3, <4>4, <4>5 DEF Lock
    <3> QED
      BY <2>4, <3>2, <3>3 DEF Register
  <2>5. CASE Replace(c)
    BY <1>j, <2>5 DEF Replace, InLine
  <2>6. CASE Forward(c)
    <3>1. CASE line' = line /\ Goto(c, "sending")
      BY <1>q, <2>6, <3>1 DEF Forward, InLine, Places
    <3>2. CASE line' = Tail(line) /\ \E place \in {"read", "finish"} : Goto(c, place)
      BY <1>r, <2>6, <3>2 DEF Forward, InLine, Places
    <3> QED
      BY <2>6, <3>1, <3>2 DEF Forward
  <2>7. CASE Sent(c) \/ NotSent(c)
    <3>1. Holds(c) /\ line' = Tail(line) /\ \E place \in {"read", "finish"} : Goto(c, place)
      BY <1>l, <2>7 DEF Sent, NotSent, Holds
    <3> QED
      BY <1>r, <3>1 DEF InLine, Places
  <2>8. CASE Command(c)
    BY <1>j, <2>8 DEF Command, InLine
  <2>9. CASE BadFrame(c)
    BY <1>q, <2>9 DEF BadFrame, InLine, Places
  <2>10. CASE Stopped(c) \/ Disconnected(c) \/ Finish(c)
    <3>1. /\ at[c] \in {"stop", "read", "finish"} /\ line' = line
          /\ \E place \in {"finish", "done"} : Goto(c, place)
      BY <2>10 DEF Stopped, Disconnected, Finish
    <3> QED
      BY <1>q, <3>1 DEF InLine, Places
  <2>11. CASE Expire(c)
    <3>1. at' = [at EXCEPT ![c] = "finish"] /\ line' = Leaves(c)
      BY <2>11 DEF Expire, Goto
    <3>2. /\ line' \in Seq(Conns) /\ ToSet(line') = ToSet(line) \ {c} /\ IsInjective(line')
          /\ \A d \in Conns : d # c /\ Holds(d) => line' # <<>> /\ Head(line') = d
      BY <1>t, <1>l, <3>1, LeavesEffect
    <3>3. {d \in Conns : at'[d] \in InLine} = {d \in Conns : at[d] \in InLine} \ {c}
      BY <1>t, <3>1 DEF InLine
    <3>4. \A d \in Conns : at'[d] = "sending" => d # c /\ at[d] = "sending"
      BY <1>t, <3>1
    <3> QED
      BY <1>l, <3>2, <3>3, <3>4 DEF Lock, Holds
  <2>12. CASE SenderFails(c) \/ Lose(c) \/ Shut(c)
    <3>1. line' = line /\ at' = at
      BY <2>12 DEF SenderFails, Lose, Shut
    <3> QED
      BY <1>t, <1>l, <3>1 DEF Lock, Holds
  <2> QED
    BY <2>1, <2>2, <2>3, <2>4, <2>5, <2>6, <2>7, <2>8, <2>9, <2>10, <2>11, <2>12
       DEF ClientNext, ClientSteps
<1>2. CASE line' = line /\ at' = at
  BY <1>2, <1>t, <1>l DEF Lock, Holds
<1> QED
  BY <1>1, <1>2, WrapperTouches, DeviceTouches DEF Next, vars

-----------------------------------------------------------------------------
(* The types.                                                              *)

LEMMA TypesStep ==
  ASSUME Types, Lock, [Next]_vars
  PROVE  Types'
<1> USE DEF client, hub, peer, history, Places, WPlaces
<1>l. line' \in Seq(Conns)
  BY LockStep
<1>t. Types
  OBVIOUS
<1>n. count \in Nat /\ \A n \in Nat : count + n \in Nat
  BY DEF Types
<1>e. Event => count' \in Nat
  BY <1>n DEF Event, Events
<1>1. CASE \E c \in Conns : ClientNext(c)
  <2> PICK c \in Conns : ClientNext(c)
    BY <1>1
  <2>g. ASSUME NEW place \in Places, Goto(c, place)
        PROVE  at' \in [Conns -> Places]
    BY <2>g, <1>t DEF Goto, Types
  <2>1. CASE Connect(c)
    <3>1. at' \in [Conns -> Places]
      BY <2>1, <2>g DEF Connect
    <3>2. slots' \subseteq Conns
      BY <2>1, <1>t DEF Connect, Types
    <3>3. sock' = sock \/ sock' = [sock EXCEPT ![c] = "shut"]
      BY <2>1 DEF Connect
    <3>4. sock' \in [Conns -> {"open", "closing", "shut"}]
      BY <1>t, <3>3 DEF Types
    <3> QED
      BY <2>1, <1>t, <1>l, <3>1, <3>2, <3>4 DEF Connect, Types
  <2>2. CASE Hello(c)
    BY <2>2, <1>t, <1>l, <2>g DEF Hello, Types
  <2>3. CASE NoHello(c)
    BY <2>3, <1>t, <1>l, <1>e, <2>g DEF NoHello, Types
  <2>4. CASE Register(c)
    <3>1. at' \in [Conns -> Places]
      BY <2>4, <2>g DEF Register
    <3>2. /\ clients' \in [Keys -> Conns \cup {None}]
          /\ old' \in [Conns -> Conns \cup {None}]
      <4>1. clients' = clients \/ clients' = [clients EXCEPT ![Key(c)] = c]
        BY <2>4 DEF Register
      <4>2. old' = old \/ old' = [old EXCEPT ![c] = clients[Key(c)]]
        BY <2>4 DEF Register
      <4>3. /\ clients \in [Keys -> Conns \cup {None}]
            /\ old \in [Conns -> Conns \cup {None}]
        BY <1>t DEF Types
      <4>4. clients[Key(c)] \in Conns \cup {None}
        BY <4>3, Constants
      <4>5. clients' \in [Keys -> Conns \cup {None}]
        BY <4>1, <4>3
      <4>6. old' \in [Conns -> Conns \cup {None}]
        BY <4>2, <4>3, <4>4
      <4> QED
        BY <4>5, <4>6
    <3>3. closed' \in [Conns -> BOOLEAN] /\ sock' \in [Conns -> {"open", "closing", "shut"}]
      <4>1. \E d : closed' = [closed EXCEPT ![d] = TRUE] \/ closed' = closed
        BY <2>4 DEF Register
      <4>2. \E d, s : /\ sock' = [sock EXCEPT ![d] = s] \/ sock' = sock
                      /\ s = "closing" \/ s = sock[d]
        BY <2>4 DEF Register
      <4>3. /\ closed \in [Conns -> BOOLEAN]
            /\ sock \in [Conns -> {"open", "closing", "shut"}]
        BY <1>t DEF Types
      <4>4. sock' \in [Conns -> {"open", "closing", "shut"}]
        BY <4>2, <4>3
      <4>5. closed' \in [Conns -> BOOLEAN]
        BY <4>1, <4>3
      <4> QED
        BY <4>4, <4>5
    <3>4. superseded' \subseteq Conns /\ missed' \subseteq Conns
      BY <2>4, <1>t DEF Register, Types
    <3> QED
      BY <2>4, <1>t, <1>l, <3>1, <3>2, <3>3, <3>4 DEF Register, Types
  <2>5. CASE Replace(c)
    BY <2>5, <1>t, <1>l, <2>g DEF Replace, Types
  <2>6. CASE Forward(c)
    <3>1. at' \in [Conns -> Places]
      BY <2>6, <2>g DEF Forward
    <3>2. via' \in [Conns -> Wrappers \cup {None}]
      BY <2>6, <1>t, Constants DEF Forward, Types
    <3>3. count' \in Nat
      BY <2>6, <1>n, <1>e DEF Forward
    <3> QED
      BY <2>6, <1>t, <1>l, <3>1, <3>2, <3>3 DEF Forward, Types
  <2>7. CASE Sent(c)
    <3>1. sent' \in [Conns -> Nat]
      <4>1. sent' = [sent EXCEPT ![c] = @ + 1]
        BY <2>7 DEF Sent
      <4>2. sent \in [Conns -> Nat]
        BY <1>t DEF Types
      <4> QED
        BY <4>1, <4>2
    <3>2. asked' \in [Wrappers -> SUBSET Conns]
      <4>1. \/ asked' = asked
            \/ asked' = [asked EXCEPT ![via[c]] = @ \cup {c}]
        BY <2>7 DEF Sent
      <4>2. asked \in [Wrappers -> SUBSET Conns]
        BY <1>t DEF Types
      <4> QED
        BY <4>1, <4>2
    <3> QED
      BY <2>7, <1>t, <1>l, <2>g, <3>1, <3>2 DEF Sent, Types
  <2>8. CASE NotSent(c)
    <3>1. at' \in [Conns -> Places]
      BY <2>8, <2>g DEF NotSent
    <3>2. count' \in Nat
      BY <2>8, <1>n, <1>e DEF NotSent
    <3> QED
      BY <2>8, <1>t, <1>l, <3>1, <3>2 DEF NotSent, Types
  <2>9. CASE Command(c)
    BY <2>9, <1>t, <1>l, <2>g DEF Command, Types
  <2>10. CASE BadFrame(c)
    BY <2>10, <1>t, <1>l, <1>e, <2>g DEF BadFrame, Types
  <2>11. CASE Stopped(c)
    BY <2>11, <1>t, <1>l, <2>g DEF Stopped, Types
  <2>12. CASE Disconnected(c)
    BY <2>12, <1>t, <1>l, <2>g DEF Disconnected, Types
  <2>13. CASE Finish(c)
    <3>1. clients' \in [Keys -> Conns \cup {None}]
      BY <2>13, <1>t DEF Finish, Without, Types
    <3>2. asked' \in [Wrappers -> SUBSET Conns]
      BY <2>13, <1>t DEF Finish, Types
    <3> QED
      BY <2>13, <1>t, <1>l, <2>g, <3>1, <3>2 DEF Finish, Types
  <2>14. CASE Expire(c)
    <3>1. sent' \in [Conns -> Nat]
      <4>1. sent' = sent \/ sent' = [sent EXCEPT ![c] = sent[c] + 1]
        BY <2>14 DEF Expire
      <4>2. sent \in [Conns -> Nat] /\ sent[c] + 1 \in Nat
        BY <1>t DEF Types
      <4> QED
        BY <4>1, <4>2
    <3> QED
      BY <2>14, <1>t, <1>l, <1>e, <2>g, <3>1 DEF Expire, Types
  <2>15. CASE SenderFails(c)
    BY <2>15, <1>t, <1>l DEF SenderFails, Types
  <2>16. CASE Lose(c)
    BY <2>16, <1>t, <1>l, <1>e DEF Lose, Types
  <2>17. CASE Shut(c)
    BY <2>17, <1>t, <1>l DEF Shut, Types
  <2> QED
    BY <2>1, <2>2, <2>3, <2>4, <2>5, <2>6, <2>7, <2>8, <2>9, <2>10, <2>11, <2>12,
       <2>13, <2>14, <2>15, <2>16, <2>17 DEF ClientNext, ClientSteps
<1>2. CASE \E w \in Wrappers : WrapperNext(w)
  <2> PICK w \in Wrappers : WrapperNext(w)
    BY <1>2
  <2>w. UNCHANGED <<at, old, via, slots, line, device, issued, sent, superseded>>
    BY WrapperTouches
  <2>s. ASSUME NEW D \in SUBSET Conns, NEW place \in WPlaces, StopNext(w, D, place)
        PROVE  /\ victim' \in [Wrappers -> Conns \cup {None}]
               /\ dead' \in [Wrappers -> SUBSET Conns]
               /\ closed' \in [Conns -> BOOLEAN]
               /\ sock' \in [Conns -> {"open", "closing", "shut"}]
               /\ clients' \in [Keys -> Conns \cup {None}]
               /\ wat' \in [Wrappers -> WPlaces]
    <3>1. wat' = [wat EXCEPT ![w] = IF D = {} THEN place ELSE "drop"]
      BY <2>s, StopNextEffect
    <3>2. wat' \in [Wrappers -> WPlaces]
      BY <1>t, <3>1 DEF Types
    <3> HIDE DEF WPlaces
    <3> QED
      BY <2>s, <3>2, StopNextEffect
  <2>b. ASSUME NEW A, NEW full, NEW word \in {"up", "down", "live"}, NEW place \in WPlaces,
               Broadcast(w, A, full, word, place)
        PROVE  /\ victim' \in [Wrappers -> Conns \cup {None}]
               /\ dead' \in [Wrappers -> SUBSET Conns]
               /\ closed' \in [Conns -> BOOLEAN]
               /\ sock' \in [Conns -> {"open", "closing", "shut"}]
               /\ clients' \in [Keys -> Conns \cup {None}]
               /\ wat' \in [Wrappers -> WPlaces]
               /\ told' \in [Conns -> {"nothing", "up", "down"}]
               /\ missed' \subseteq Conns
    <3>1. PICK D \in SUBSET Addressed(w, A) :
            /\ StopNext(w, D, place) /\ missed' = missed \cup D
            /\ told' \in [Conns -> {"nothing", "up", "down"}]
      <4> HIDE DEF WPlaces
      <4> QED
        BY <2>b, BroadcastEffect
    <3>2. D \in SUBSET Conns
      BY DEF Addressed
    <3> QED
      BY <2>b, <2>s, <1>t, <3>1, <3>2 DEF Types
  <2>c. \A n \in Nat : Events(n) => count' \in Nat
    BY <1>n DEF Events
  <2>o. \A full : Overflows(full) \in Nat
    BY DEF Overflows
  <2>1. CASE Look(w)
    BY <2>1, <2>w, <1>t, <1>l DEF Look, Types
  <2>2. CASE Announce(w)
    <3>1. PICK full : Events(Overflows(full)) /\ Broadcast(w, Accounts, full, "up", "live")
      BY <2>2 DEF Announce
    <3>2. count' \in Nat
      BY <2>c, <2>o, <3>1
    <3> QED
      BY <2>2, <2>b, <2>w, <1>t, <1>l, <3>1, <3>2 DEF Announce, Types
  <2>3. CASE Live(w)
    <3>1. PICK A, full : Events(1 + Overflows(full)) /\ Broadcast(w, A, full, "live", "live")
      BY <2>3 DEF Live
    <3>2. count' \in Nat
      BY <2>c, <2>o, <3>1
    <3> QED
      BY <2>3, <2>b, <2>w, <1>t, <1>l, <3>1, <3>2 DEF Live, Types
  <2>4. CASE Gone(w)
    <3>b. PICK bad \in 0..1 : \E full :
            Events(bad + Overflows(full)) /\ Broadcast(w, Accounts, full, "down", "done")
      BY <2>4 DEF Gone
    <3>1. PICK full :
            Events(bad + Overflows(full)) /\ Broadcast(w, Accounts, full, "down", "done")
      BY <3>b
    <3>2. count' \in Nat
      BY <2>c, <2>o, <3>1
    <3>3. wrapper' \in [Machines -> Wrappers \cup {None}]
          /\ wsock' \in [Wrappers -> {"open", "closing", "shut"}]
      BY <2>4, <1>t DEF Gone, Types
    <3> QED
      BY <2>4, <2>b, <2>w, <1>t, <1>l, <3>1, <3>2, <3>3 DEF Gone, Types
  <2>5. CASE \E r \in Conns : Answer(w, r)
    <3>1. PICK r \in Conns : Answer(w, r)
      BY <2>5
    <3>2. asked' \in [Wrappers -> SUBSET Conns]
      BY <1>t, <3>1 DEF Answer, Types
    <3>3. CASE UNCHANGED <<wat, victim, dead, clients, closed, sock, count>>
      BY <1>t, <1>l, <2>w, <3>1, <3>2, <3>3 DEF Answer, Types
    <3>4. CASE Events(IF Takes(r) THEN 1 ELSE 0) /\ StopNext(w, {r}, "live")
      <4>1. count' \in Nat
        BY <2>c, <3>4
      <4>2. {r} \in SUBSET Conns
        OBVIOUS
      <4> QED
        BY <1>t, <1>l, <2>s, <2>w, <3>1, <3>2, <3>4, <4>1, <4>2 DEF Answer, Types
    <3> QED
      BY <3>1, <3>3, <3>4 DEF Answer
  <2>6. CASE Dropped(w)
    <3>1. /\ dead[w] \in SUBSET Conns
          /\ sender' \in [Conns -> BOOLEAN]
      BY <2>6, <1>t DEF Dropped, Types
    <3>2. \E place \in WPlaces : StopNext(w, dead[w], place)
      BY <2>6 DEF Dropped
    <3> QED
      BY <2>6, <2>s, <2>w, <1>t, <1>l, <3>1, <3>2 DEF Dropped, Types
  <2>7. CASE Reserve(w)
    <3>1. /\ wrapper' \in [Machines -> Wrappers \cup {None}]
          /\ wat' \in [Wrappers -> WPlaces]
      <4>1. wrapper' = wrapper \/ wrapper' = [wrapper EXCEPT ![Machine[w]] = w]
        BY <2>7 DEF Reserve
      <4>2. \E place \in WPlaces : wat' = [wat EXCEPT ![w] = place]
        BY <2>7 DEF Reserve
      <4>3. /\ wrapper \in [Machines -> Wrappers \cup {None}]
            /\ wat \in [Wrappers -> WPlaces]
        BY <1>t DEF Types
      <4>4. wat' \in [Wrappers -> WPlaces]
        BY <4>2, <4>3
      <4> QED
        BY <4>1, <4>3, <4>4
    <3> QED
      BY <2>7, <2>w, <1>t, <1>l, <3>1 DEF Reserve, Types
  <2>8. CASE LoseWrapper(w) \/ ShutWrapper(w)
    <3>1. /\ wsock' = [wsock EXCEPT ![w] = "shut"]
          /\ Event \/ count' = count
      BY <2>8 DEF LoseWrapper, ShutWrapper
    <3>2. count' \in Nat /\ wsock' \in [Wrappers -> {"open", "closing", "shut"}]
      BY <1>t, <1>e, <3>1 DEF Types
    <3>3. UNCHANGED <<client, hub, wat, verdict, victim, dead, device, asked,
                      issued, sent, superseded, missed, told>>
      BY <2>8 DEF LoseWrapper, ShutWrapper
    <3> QED
      BY <1>t, <3>2, <3>3 DEF Types
  <2> QED
    BY <2>1, <2>2, <2>3, <2>4, <2>5, <2>6, <2>7, <2>8 DEF WrapperNext, WrapperSteps
<1>3. CASE \E m \in Machines : Delete(m) \/ Disconnect(m)
  <2> PICK m \in Machines : Delete(m) \/ Disconnect(m)
    BY <1>3
  <2>1. CASE Delete(m)
    BY <2>1, <1>t, <1>l, <1>e DEF Delete, Types
  <2>2. CASE Disconnect(m)
    BY <2>2, <1>t, <1>l DEF Disconnect, Types
  <2> QED
    BY <2>1, <2>2
<1>4. CASE UNCHANGED vars
  BY <1>4, <1>t DEF vars, Types
<1> QED
  BY <1>1, <1>2, <1>3, <1>4 DEF Next

-----------------------------------------------------------------------------
(* The table of clients.                                                   *)

(* A step that registers nobody and ends nobody.                           *)
LEMMA QuietTable ==
  ASSUME Types, Types', Table,
         \A k \in Keys : clients'[k] = clients[k] \/ clients'[k] = None,
         slots' = slots, superseded' = superseded,
         \A c \in Conns : at'[c] \in {"new", "done"} <=> at[c] \in {"new", "done"},
         \A c \in Conns : at[c] \in Past => at'[c] \in Past,
         \A c \in superseded : at'[c] # "sending"
  PROVE  Table'
<1>1. IsFiniteSet(Active') /\ Cardinality(Active') <= MaxClients
  <2>1. Active' \subseteq Active
    BY DEF Active
  <2>2. IsFiniteSet(Active) /\ Cardinality(Active) <= MaxClients
    BY DEF Table
  <2>3. /\ IsFiniteSet(Active') /\ Cardinality(Active') <= Cardinality(Active)
        /\ Cardinality(Active) \in Nat /\ Cardinality(Active') \in Nat
    BY <2>1, <2>2, FS_Subset, FS_CardinalityType
  <2> QED
    BY <2>2, <2>3, Constants
<1>2. slots' = {c \in Conns : at'[c] \notin {"new", "done"}}
  BY DEF Table
<1>3. \A c \in Conns, k \in Keys : clients'[k] = c => Key(c) = k /\ at'[c] \in Past
  BY Constants DEF Table
<1>4. \A c \in superseded' : at'[c] \in Past /\ at'[c] # "sending" /\ ~Registered(c)'
  <2> SUFFICES ASSUME NEW c \in superseded
               PROVE  at'[c] \in Past /\ at'[c] # "sending" /\ clients'[Key(c)] # c
    BY DEF Registered
  <2>1. c \in Conns /\ at[c] \in Past /\ clients[Key(c)] # c
    BY DEF Table, Types, Registered
  <2> QED
    BY <2>1, Constants
<1> QED
  BY <1>1, <1>2, <1>3, <1>4 DEF Table

(* A connection takes its id over while it holds the lock, so the one it   *)
(* supersedes is not sending.                                              *)
LEMMA RegisterTable ==
  ASSUME Types, Types', Lock, Table, NEW c \in Conns, Register(c),
         clients' = [clients EXCEPT ![Key(c)] = c],
         clients[Key(c)] # None \/ Cardinality(Active) < MaxClients
  PROVE  Table'
<1> USE DEF peer
<1>t. /\ at \in [Conns -> Places] /\ clients \in [Keys -> Conns \cup {None}]
      /\ superseded \subseteq Conns
  BY DEF Types
<1>1. /\ at[c] = "register" /\ Holds(c) /\ slots' = slots
      /\ clients[Key(c)] # c
  BY Constants DEF Register, Table, Past
<1>2. /\ \E place \in {"forward", "replace"} : at' = [at EXCEPT ![c] = place]
      /\ superseded' = superseded \cup
           {d \in Conns \ {c} : /\ Key(d) = Key(c)
                                /\ at[d] \notin {"new", "hello", "register", "done"}}
  <2>1. clients' # clients
    BY <1>t, <1>1, Constants
  <2> QED
    BY <2>1 DEF Register, Goto
<1>3. IsFiniteSet(Active') /\ Cardinality(Active') <= MaxClients
  <2>1. IsFiniteSet(Active) /\ Cardinality(Active) <= MaxClients /\ Cardinality(Active) \in Nat
    BY FS_CardinalityType DEF Table
  <2>2. Active' = Active \cup {Key(c)}
    BY <1>t, Constants DEF Active
  <2>3. CASE Key(c) \in Active
    BY <2>1, <2>2, <2>3
  <2>4. CASE Key(c) \notin Active
    <3>1. Cardinality(Active) < MaxClients
      BY <2>4, Constants DEF Active
    <3>2. IsFiniteSet(Active') /\ Cardinality(Active') = Cardinality(Active) + 1
      BY <2>1, <2>2, <2>4, FS_AddElement
    <3> QED
      BY <2>1, <3>1, <3>2, Constants
  <2> QED
    BY <2>3, <2>4
<1>4. slots' = {d \in Conns : at'[d] \notin {"new", "done"}}
  BY <1>t, <1>1, <1>2 DEF Table
<1>5. \A d \in Conns, k \in Keys : clients'[k] = d => Key(d) = k /\ at'[d] \in Past
  BY <1>t, <1>2, Constants DEF Table, Past
<1>6. ASSUME NEW d \in superseded'
      PROVE  at'[d] \in Past /\ at'[d] # "sending" /\ clients'[Key(d)] # d
  <2>1. d \in Conns
    BY <1>t, <1>2
  <2>2. d # c /\ at[d] \in Past /\ (d \in superseded \/ Key(d) = Key(c))
    BY <1>t, <1>1, <1>2, <2>1 DEF Table, Past, Places
  <2>3. at[d] # "sending"
    BY <1>1, <2>1, <2>2 DEF Lock, Holds
  <2>4. clients'[Key(d)] # d
    BY <1>t, <2>1, <2>2, Constants DEF Table, Registered
  <2> QED
    BY <1>t, <1>2, <2>1, <2>2, <2>3, <2>4
<1> QED
  BY <1>3, <1>4, <1>5, <1>6 DEF Table, Registered

LEMMA FinishTable ==
  ASSUME Types, Types', Table, NEW c \in Conns, Finish(c)
  PROVE  Table'
<1>t. at \in [Conns -> Places] /\ superseded \subseteq Conns
  BY DEF Types
<1>1. /\ at' = [at EXCEPT ![c] = "done"] /\ slots' = slots \ {c}
      /\ superseded' = superseded \ {c}
      /\ \A k \in Keys : clients'[k] = IF clients[k] = c THEN None ELSE clients[k]
  BY DEF Finish, Goto, Without
<1>2. IsFiniteSet(Active') /\ Cardinality(Active') <= MaxClients
  <2>1. Active' \subseteq Active
    BY <1>1 DEF Active
  <2>2. IsFiniteSet(Active) /\ Cardinality(Active) <= MaxClients
    BY DEF Table
  <2>3. /\ IsFiniteSet(Active') /\ Cardinality(Active') <= Cardinality(Active)
        /\ Cardinality(Active) \in Nat /\ Cardinality(Active') \in Nat
    BY <2>1, <2>2, FS_Subset, FS_CardinalityType
  <2> QED
    BY <2>2, <2>3, Constants
<1>3. slots' = {d \in Conns : at'[d] \notin {"new", "done"}}
  BY <1>t, <1>1 DEF Table
<1>4. \A d \in Conns, k \in Keys : clients'[k] = d => Key(d) = k /\ at'[d] \in Past
  BY <1>t, <1>1, Constants DEF Table
<1>5. ASSUME NEW d \in superseded'
      PROVE  at'[d] \in Past /\ at'[d] # "sending" /\ clients'[Key(d)] # d
  <2>1. d \in Conns /\ d # c /\ at[d] \in Past /\ at[d] # "sending" /\ clients[Key(d)] # d
    BY <1>t, <1>1 DEF Table, Registered
  <2> QED
    BY <1>t, <1>1, <2>1, Constants
<1> QED
  BY <1>2, <1>3, <1>4, <1>5 DEF Table, Registered

(* What a wrapper's step does to the table of clients is to stop some.     *)
LEMMA WrapperStops ==
  ASSUME Types, NEW w \in Wrappers, WrapperNext(w)
  PROVE  \/ UNCHANGED clients
         \/ \E D \in SUBSET Conns, place \in WPlaces : StopNext(w, D, place)
<1> USE DEF client, hub, peer, history
<1>b. ASSUME NEW A, NEW full, NEW word \in {"up", "down", "live"}, NEW place \in WPlaces,
             Broadcast(w, A, full, word, place)
      PROVE  \E D \in SUBSET Conns : StopNext(w, D, place)
  <2>1. PICK D \in SUBSET Addressed(w, A) : StopNext(w, D, place)
    BY <1>b, BroadcastEffect
  <2> QED
    BY <2>1 DEF Addressed
<1>p. "live" \in WPlaces /\ "done" \in WPlaces
  BY DEF WPlaces
<1>1. CASE Look(w) \/ Reserve(w) \/ LoseWrapper(w) \/ ShutWrapper(w)
  BY <1>1 DEF Look, Reserve, LoseWrapper, ShutWrapper
<1>2. CASE Dropped(w)
  <2>1. dead[w] \in SUBSET Conns
    BY DEF Types
  <2> QED
    BY <1>2, <1>p, <2>1 DEF Dropped
<1>3. CASE \E r \in Conns : Answer(w, r)
  <2>1. PICK r \in Conns : Answer(w, r)
    BY <1>3
  <2>2. UNCHANGED clients \/ StopNext(w, {r}, "live")
    BY <2>1 DEF Answer
  <2>3. {r} \in SUBSET Conns
    OBVIOUS
  <2> QED
    BY <1>p, <2>2, <2>3
<1>4. CASE Announce(w)
  <2>1. \E full : Broadcast(w, Accounts, full, "up", "live")
    BY <1>4 DEF Announce
  <2> QED
    BY <1>b, <1>p, <2>1
<1>5. CASE Live(w)
  <2>1. \E A, full : Broadcast(w, A, full, "live", "live")
    BY <1>5 DEF Live
  <2> QED
    BY <1>b, <1>p, <2>1
<1>6. CASE Gone(w)
  <2>1. \E full : Broadcast(w, Accounts, full, "down", "done")
    BY <1>6 DEF Gone
  <2> QED
    BY <1>b, <1>p, <2>1
<1> QED
  BY <1>1, <1>2, <1>3, <1>4, <1>5, <1>6 DEF WrapperNext, WrapperSteps

LEMMA TableStep ==
  ASSUME Types, Types', Lock, Table, [Next]_vars
  PROVE  Table'
<1> USE DEF client, hub, peer, history
<1>t. at \in [Conns -> Places] /\ superseded \subseteq Conns
  BY DEF Types
<1>s. \A c \in superseded : at[c] # "sending" /\ at[c] \in Past /\ ~Registered(c)
  BY DEF Table
(* The coroutine moves from one place to another, and nothing else.        *)
<1>q. ASSUME NEW c \in Conns, NEW place \in Past, Goto(c, place), at[c] \notin {"new", "done"},
             place = "sending" => Registered(c),
             UNCHANGED <<clients, slots, superseded>>
      PROVE  Table'
  <2>1. at' = [at EXCEPT ![c] = place] /\ place \notin {"new", "done"}
    BY <1>q DEF Goto, Past
  <2>2. \A d \in superseded : at'[d] # "sending"
    BY <1>t, <1>s, <1>q, <2>1
  <2> QED
    BY <1>t, <1>q, <2>1, <2>2, QuietTable
<1>u. ASSUME UNCHANGED <<at, clients, slots, superseded>>
      PROVE  Table'
  BY <1>s, <1>u, QuietTable
<1>1. CASE \E c \in Conns : ClientNext(c)
  <2> PICK c \in Conns : ClientNext(c)
    BY <1>1
  <2>1. CASE Connect(c)
    <3>1. \E place \in {"done", "hello"} :
             /\ at' = [at EXCEPT ![c] = place]
             /\ slots' = IF place = "done" THEN slots ELSE slots \cup {c}
      BY <2>1 DEF Connect, Goto
    <3>2. at[c] = "new" /\ UNCHANGED <<clients, superseded>>
      BY <2>1 DEF Connect
    <3>3. slots' = {d \in Conns : at'[d] \notin {"new", "done"}}
      BY <1>t, <3>1, <3>2 DEF Table
    <3>4. \A d \in Conns : at[d] \in Past => at'[d] = at[d]
      BY <1>t, <3>1, <3>2 DEF Past
    <3>5. Active' = Active
      BY <3>2 DEF Active
    <3>6. \A d \in Conns, k \in Keys : clients'[k] = d => Key(d) = k /\ at'[d] \in Past
      BY <3>2, <3>4 DEF Table
    <3>7. \A d \in superseded' : at'[d] \in Past /\ at'[d] # "sending" /\ ~Registered(d)'
      BY <1>t, <1>s, <3>2, <3>4 DEF Registered
    <3> QED
      BY <3>3, <3>5, <3>6, <3>7 DEF Table
  <2>2. CASE Hello(c)
    <3>1. at[c] = "hello" /\ at' = [at EXCEPT ![c] = "register"]
          /\ UNCHANGED <<clients, slots, superseded>>
      BY <2>2 DEF Hello, Goto
    <3>2. c \notin superseded
      BY <1>s, <3>1 DEF Past
    <3> QED
      BY <1>t, <1>s, <3>1, <3>2, QuietTable DEF Past
  <2>3. CASE NoHello(c)
    BY <1>q, <2>3 DEF NoHello, Past
  <2>4. CASE Register(c)
    <3>1. CASE /\ clients' = [clients EXCEPT ![Key(c)] = c]
               /\ clients[Key(c)] # None \/ ~(Cardinality(Active) >= MaxClients)
      <4>1. Cardinality(Active) \in Nat
        BY FS_CardinalityType DEF Table
      <4>2. clients[Key(c)] # None \/ Cardinality(Active) < MaxClients
        BY <3>1, <4>1, Constants
      <4> QED
        BY <2>4, <3>1, <4>2, RegisterTable
    <3>2. CASE Goto(c, "stop") /\ UNCHANGED <<clients, superseded>>
      BY <1>q, <2>4, <3>2 DEF Register, Past
    <3> QED
      BY <2>4, <3>1, <3>2 DEF Register
  <2>5. CASE Replace(c)
    BY <1>q, <2>5 DEF Replace, Past
  <2>6. CASE Forward(c)
    <3>1. /\ at[c] = "forward" /\ UNCHANGED <<clients, slots, superseded>>
          /\ \E place \in {"sending", "read", "finish"} :
               Goto(c, place) /\ (place = "sending" => Registered(c))
      BY <2>6 DEF Forward
    <3> QED
      BY <1>q, <3>1 DEF Past
  <2>7. CASE Sent(c) \/ NotSent(c)
    <3>1. /\ at[c] = "sending" /\ UNCHANGED <<clients, slots, superseded>>
          /\ \E place \in {"read", "finish"} : Goto(c, place)
      BY <2>7 DEF Sent, NotSent
    <3> QED
      BY <1>q, <3>1 DEF Past
  <2>8. CASE Command(c)
    BY <1>q, <2>8 DEF Command, Past
  <2>9. CASE BadFrame(c)
    BY <1>q, <2>9 DEF BadFrame, Past
  <2>10. CASE Stopped(c) \/ Disconnected(c) \/ Expire(c)
    <3>1. /\ at[c] \notin {"new", "done"} /\ UNCHANGED <<clients, slots, superseded>>
          /\ Goto(c, "finish")
      BY <2>10 DEF Stopped, Disconnected, Expire
    <3> QED
      BY <1>q, <3>1 DEF Past
  <2>11. CASE Finish(c)
    BY <2>11, FinishTable
  <2>12. CASE SenderFails(c) \/ Lose(c) \/ Shut(c)
    BY <1>u, <2>12 DEF SenderFails, Lose, Shut
  <2> QED
    BY <2>1, <2>2, <2>3, <2>4, <2>5, <2>6, <2>7, <2>8, <2>9, <2>10, <2>11, <2>12
       DEF ClientNext, ClientSteps
<1>2. CASE \E w \in Wrappers : WrapperNext(w)
  <2> PICK w \in Wrappers : WrapperNext(w)
    BY <1>2
  <2>1. UNCHANGED <<at, slots, superseded>>
    BY WrapperTouches
  <2>2. \A k \in Keys : clients'[k] = clients[k] \/ clients'[k] = None
    BY WrapperStops, StopNextEffect
  <2> QED
    BY <1>s, <2>1, <2>2, QuietTable
<1>3. CASE \E m \in Machines : Delete(m) \/ Disconnect(m)
  BY <1>3, <1>u, DeviceTouches
<1>4. CASE UNCHANGED vars
  BY <1>4, <1>u DEF vars
<1> QED
  BY <1>1, <1>2, <1>3, <1>4 DEF Next

-----------------------------------------------------------------------------
(* Who is being served.                                                    *)

(* A client's coroutine stops serving, itself or the one it replaces; it   *)
(* begins to only by registering, when it has missed nothing yet.          *)
LEMMA ClientServes ==
  ASSUME Types, Types', Serves, NEW c \in Conns, ClientNext(c)
  PROVE  /\ \A d \in Conns : Serving(d)' =>
              \/ Serving(d) /\ clients'[Key(d)] = d
              \/ d = c /\ Register(c) /\ clients'[Key(d)] = d
         /\ \A d \in missed' : d \in missed \/ ~Serving(d)'
         /\ Register(c) /\ Serving(c)' => c \notin missed'
<1> USE DEF client, hub, peer, history
<1>t. /\ at \in [Conns -> Places] /\ closed \in [Conns -> BOOLEAN] /\ missed \subseteq Conns
      /\ clients \in [Keys -> Conns \cup {None}]
  BY DEF Types
<1>n. \A d \in Conns : Serving(d) => clients[Key(d)] = d /\ d \notin missed
  BY DEF Serves, NoHole, Registered
<1>d. dead' = dead
  BY ClientTouches
<1> DEFINE Served == {"replace", "forward", "sending", "read"}
(* The coroutine that moves was being served, or is not served afterwards. *)
<1>q. ASSUME NEW place \in Places, Goto(c, place), at[c] \in Served \/ place \notin Served,
             \A d \in Conns : closed[d] => closed'[d], clients' = clients, missed' \subseteq missed
      PROVE  /\ \A d \in Conns : Serving(d)' => Serving(d) /\ clients'[Key(d)] = d
             /\ missed' \subseteq missed
  <2>1. at' = [at EXCEPT ![c] = place]
    BY <1>q DEF Goto
  <2>2. \A d \in Conns : Serving(d)' => Serving(d)
    BY <1>t, <1>d, <1>q, <2>1 DEF Serving
  <2> QED
    BY <1>n, <1>q, <2>2
<1>1. CASE Register(c)
  <2>1. at[c] = "register"
    BY <1>1 DEF Register
  <2> DEFINE refused == clients[Key(c)] = None /\ Cardinality(Active) >= MaxClients
  <2>2. CASE refused
    <3>1. /\ Goto(c, "stop") /\ closed' = [closed EXCEPT ![c] = TRUE]
          /\ clients' = clients /\ missed' = missed
      BY <1>1, <2>2 DEF Register
    <3>2. \A d \in Conns : closed[d] => closed'[d]
      BY <1>t, <3>1
    <3>3. ~Serving(c)'
      BY <1>t, <3>1 DEF Serving, Goto
    <3> HIDE DEF refused
    <3> QED
      BY <1>q, <3>1, <3>2, <3>3 DEF Places
  <2>3. CASE ~refused
    <3>0. clients' = [clients EXCEPT ![Key(c)] = c] /\ missed' = missed \ {c}
      BY <1>1, <2>3 DEF Register
    <3>1. \E place \in {"forward", "replace"} : at' = [at EXCEPT ![c] = place]
      BY <1>1, <2>3 DEF Register, Goto
    <3>2. CASE clients[Key(c)] = None /\ closed' = closed
      <4>1. \A d \in Conns : d # c /\ Serving(d)' => Serving(d)
        BY <1>t, <1>d, <3>1, <3>2 DEF Serving
      <4> QED
        BY <1>t, <1>1, <1>n, <3>0, <3>2, <4>1, Constants
    <3>3. CASE closed' = [closed EXCEPT ![clients[Key(c)]] = TRUE]
      <4>1. \A d \in Conns : d # c /\ Serving(d)' => Serving(d) /\ clients[Key(c)] # d
        BY <1>t, <1>d, <3>1, <3>3 DEF Serving
      <4> QED
        BY <1>t, <1>1, <1>n, <3>0, <4>1, Constants
    <3> QED
      <4>1. \/ clients[Key(c)] = None /\ closed' = closed
            \/ closed' = [closed EXCEPT ![clients[Key(c)]] = TRUE]
        BY <1>1, <2>3 DEF Register
      <4> QED
        BY <3>2, <3>3, <4>1
  <2> QED
    BY <2>2, <2>3
<1>2. CASE Finish(c)
  <2>1. /\ at' = [at EXCEPT ![c] = "done"] /\ closed' = [closed EXCEPT ![c] = TRUE]
        /\ missed' = missed \ {c}
        /\ \A k \in Keys : clients'[k] = IF clients[k] = c THEN None ELSE clients[k]
    BY <1>2 DEF Finish, Goto, Without
  <2>2. \A d \in Conns : Serving(d)' => Serving(d) /\ d # c
    BY <1>t, <1>d, <2>1 DEF Serving
  <2>3. ~Register(c)
    BY <1>2 DEF Finish, Register
  <2> QED
    BY <1>n, <2>1, <2>2, <2>3, Constants
<1>3. CASE ~Register(c) /\ ~Finish(c)
  <2>1. \A d \in Conns : Serving(d)' => Serving(d) /\ clients'[Key(d)] = d
    <3>1. CASE SenderFails(c) \/ Lose(c) \/ Shut(c)
      <4>1. at' = at /\ clients' = clients /\ \A d \in Conns : closed[d] => closed'[d]
        BY <1>t, <3>1 DEF SenderFails, Lose, Shut
      <4> QED
        BY <1>t, <1>d, <1>n, <4>1 DEF Serving
    <3>2. CASE ~(SenderFails(c) \/ Lose(c) \/ Shut(c))
      <4>1. CASE BadFrame(c)
        BY <1>t, <1>q, <4>1 DEF BadFrame, Places
      <4>2. CASE Connect(c)
        BY <1>t, <1>q, <4>2 DEF Connect, Places
      <4>3. CASE Hello(c) \/ NoHello(c) \/ Replace(c) \/ Command(c)
        BY <1>t, <1>q, <4>3 DEF Hello, NoHello, Replace, Command, Places
      <4>4. CASE Forward(c) \/ Sent(c) \/ NotSent(c)
        <5>1. /\ at[c] \in Served /\ UNCHANGED <<closed, clients, missed>>
              /\ \E place \in Places : Goto(c, place)
          BY <4>4 DEF Forward, Sent, NotSent, Places
        <5> QED
          BY <1>q, <5>1
      <4>5. CASE Stopped(c) \/ Disconnected(c) \/ Expire(c)
        <5>1. Goto(c, "finish") /\ UNCHANGED <<closed, clients, missed>>
          BY <4>5 DEF Stopped, Disconnected, Expire
        <5> QED
          BY <1>q, <5>1 DEF Places
      <4> QED
        BY <1>3, <3>2, <4>1, <4>2, <4>3, <4>4, <4>5 DEF ClientNext, ClientSteps
    <3> QED
      BY <3>1, <3>2
  <2>2. missed' = missed
    BY <1>3 DEF ClientNext, ClientSteps, Connect, Hello, NoHello, Replace, Forward, Sent,
         NotSent, Command, BadFrame, Stopped, Disconnected, Expire, SenderFails, Lose, Shut
  <2> QED
    BY <1>3, <2>1, <2>2
<1> QED
  BY <1>1, <1>2, <1>3

(* Slow clients are stopped, or wait to be: none of them is served.        *)
LEMMA StopServes ==
  ASSUME Types, Serves, NEW w \in Wrappers, NEW D \in SUBSET Conns, NEW place \in WPlaces,
         StopNext(w, D, place), dead[w] \subseteq D, at' = at, missed' \subseteq missed \cup D
  PROVE  /\ Serves'
         /\ \A c \in Conns : Serving(c)' => Serving(c) /\ Registered(c) /\ c \notin D
<1>t. wat \in [Wrappers -> WPlaces]
  BY DEF Types
<1>s. /\ wat' = [wat EXCEPT ![w] = IF D = {} THEN place ELSE "drop"]
      /\ \A v \in Wrappers : v # w => dead'[v] = dead[v]
      /\ dead'[w] \subseteq D
      /\ \A c \in D : c \in dead'[w] \/ closed'[c]
      /\ \A c \in Conns : closed[c] => closed'[c]
      /\ \A k \in Keys : \/ clients'[k] = clients[k]
                         \/ clients'[k] = None /\ clients[k] \in D /\ closed'[clients[k]]
  BY StopNextEffect
<1>1. \A c \in Conns : Serving(c)' => Serving(c) /\ c \notin D
  BY <1>s DEF Serving
<1>2. \A c \in Conns : Serving(c)' => Registered(c) /\ Registered(c)' /\ c \notin missed'
  BY <1>s, <1>1, Constants DEF Serves, NoHole, Registered
<1>3. \A v \in Wrappers : wat'[v] # "drop" => dead'[v] = {}
  BY <1>t, <1>s DEF Serves
<1> QED
  BY <1>1, <1>2, <1>3 DEF Serves, NoHole

(* The frame has reached each client that is still served.                 *)
Reaches(w, A, word) ==
  /\ \A c \in Conns : Serving(c)' =>
       /\ Serving(c) /\ Registered(c)
       /\ told'[c] = IF word # "live" /\ Host[c] = Machine[w] /\ Account[c] \in A
                       THEN word ELSE told[c]
  /\ \A c \in Conns : ~Registered(c) => told'[c] = told[c]

LEMMA BroadcastServes ==
  ASSUME Types, Serves, NEW w \in Wrappers, NEW A, NEW full,
         NEW word \in {"up", "down", "live"}, NEW place \in WPlaces,
         Broadcast(w, A, full, word, place), wat[w] # "drop", at' = at
  PROVE  /\ Serves'
         /\ Reaches(w, A, word)
         /\ wat'[w] \in {place, "drop"} /\ \A v \in Wrappers \ {w} : wat'[v] = wat[v]
<1>t. wat \in [Wrappers -> WPlaces] /\ dead[w] = {}
  BY DEF Types, Serves
<1>1. PICK D \in SUBSET Addressed(w, A) :
        /\ StopNext(w, D, place) /\ missed' = missed \cup D
        /\ told' \in [Conns -> {"nothing", "up", "down"}]
        /\ Tells(w, A, word, D)
  BY BroadcastEffect
<1>2. D \in SUBSET Conns
  BY DEF Addressed
<1>3. /\ Serves'
      /\ \A c \in Conns : Serving(c)' => Serving(c) /\ Registered(c) /\ c \notin D
  BY <1>t, <1>1, <1>2, StopServes
<1>4. wat' = [wat EXCEPT ![w] = IF D = {} THEN place ELSE "drop"]
  BY <1>1, <1>2, StopNextEffect
<1>5. \A c \in Conns : Registered(c) /\ Host[c] = Machine[w] /\ Account[c] \in A
                         <=> c \in Addressed(w, A)
  BY DEF Addressed
<1>6. Reaches(w, A, word)
  BY <1>1, <1>3, <1>5 DEF Tells, Reaches
<1> QED
  BY <1>t, <1>3, <1>4, <1>6

LEMMA ServesStep ==
  ASSUME Types, Types', Serves, [Next]_vars
  PROVE  Serves'
<1> USE DEF client, hub, peer, history
<1>p. "live" \in WPlaces /\ "done" \in WPlaces
  BY DEF WPlaces
<1>u. ASSUME UNCHANGED <<at, closed, dead, clients, missed>>,
             \A w \in Wrappers : wat[w] = "drop" => wat'[w] = "drop"
      PROVE  Serves'
  BY <1>u DEF Serves, NoHole, Serving, Registered
<1>1. CASE \E c \in Conns : ClientNext(c)
  <2> PICK c \in Conns : ClientNext(c)
    BY <1>1
  <2>1. dead' = dead /\ wat' = wat
    BY ClientTouches
  <2>2. NoHole'
    BY ClientServes DEF Serves, NoHole, Registered
  <2> QED
    BY <2>1, <2>2 DEF Serves
<1>2. CASE \E w \in Wrappers : WrapperNext(w)
  <2> PICK w \in Wrappers : WrapperNext(w)
    BY <1>2
  <2>w. at' = at
    BY WrapperTouches
  <2>t. wat \in [Wrappers -> WPlaces] /\ dead \in [Wrappers -> SUBSET Conns]
    BY DEF Types
  <2>d. wat[w] # "drop" => dead[w] = {}
    BY DEF Serves
  <2>b. ASSUME NEW A, NEW full, NEW word \in {"up", "down", "live"}, NEW place \in WPlaces,
               Broadcast(w, A, full, word, place), wat[w] # "drop"
        PROVE  Serves'
    BY <2>b, <2>w, BroadcastServes
  <2>1. CASE Look(w) \/ Reserve(w)
    <3>1. /\ UNCHANGED <<closed, dead, clients, missed>>
          /\ wat[w] # "drop" /\ \E place : wat' = [wat EXCEPT ![w] = place]
      BY <2>1 DEF Look, Reserve
    <3> QED
      BY <1>u, <2>t, <2>w, <3>1
  <2>2. CASE LoseWrapper(w) \/ ShutWrapper(w)
    BY <1>u, <2>2 DEF LoseWrapper, ShutWrapper
  <2>3. CASE Dropped(w)
    <3>1. dead[w] \in SUBSET Conns /\ missed' = missed
          /\ \E place \in WPlaces : StopNext(w, dead[w], place)
      BY <1>p, <2>3, <2>t DEF Dropped
    <3> QED
      BY <2>w, <3>1, StopServes
  <2>4. CASE \E r \in Conns : Answer(w, r)
    <3>1. PICK r \in Conns : Answer(w, r)
      BY <2>4
    <3>2. CASE UNCHANGED <<wat, dead, clients, closed>>
      BY <1>u, <3>1, <3>2 DEF Answer
    <3>3. CASE StopNext(w, {r}, "live")
      <4>1. {r} \in SUBSET Conns /\ missed' = missed /\ dead[w] = {}
        BY <2>d, <3>1 DEF Answer
      <4> QED
        BY <1>p, <2>w, <3>3, <4>1, StopServes
    <3> QED
      BY <3>1, <3>2, <3>3 DEF Answer
  <2>5. CASE Announce(w)
    <3>1. wat[w] # "drop" /\ \E full : Broadcast(w, Accounts, full, "up", "live")
      BY <2>5 DEF Announce
    <3> QED
      BY <1>p, <2>b, <3>1
  <2>6. CASE Live(w)
    <3>1. wat[w] # "drop" /\ \E A, full : Broadcast(w, A, full, "live", "live")
      BY <2>6 DEF Live
    <3> QED
      BY <1>p, <2>b, <3>1
  <2>7. CASE Gone(w)
    <3>1. wat[w] # "drop" /\ \E full : Broadcast(w, Accounts, full, "down", "done")
      BY <2>7 DEF Gone
    <3> QED
      BY <1>p, <2>b, <3>1
  <2> QED
    BY <2>1, <2>2, <2>3, <2>4, <2>5, <2>6, <2>7 DEF WrapperNext, WrapperSteps
<1>3. CASE \E m \in Machines : Delete(m) \/ Disconnect(m)
  BY <1>3, <1>u, DeviceTouches
<1>4. CASE UNCHANGED vars
  BY <1>4, <1>u DEF vars
<1> QED
  BY <1>1, <1>2, <1>3, <1>4 DEF Next

-----------------------------------------------------------------------------
(* The wrappers' slots, and what the clients know of them.                 *)

LEMMA WiredStep ==
  ASSUME Types, Types', Serves, Wired, [Next]_vars
  PROVE  Wired'
<1> USE DEF client, hub, peer, history
<1>t. /\ wat \in [Wrappers -> WPlaces] /\ wsock \in [Wrappers -> {"open", "closing", "shut"}]
      /\ verdict \in [Wrappers -> BOOLEAN]
      /\ wrapper \in [Machines -> Wrappers \cup {None}]
      /\ device \in [Machines -> {"enrolled", "deleted", "disconnected"}]
  BY DEF Types
<1>m. \A w \in Wrappers : Machine[w] \in Machines /\ w # None
  BY Constants
<1>u. ASSUME UNCHANGED <<wrapper, wat, verdict, device>>,
             \A w \in Wrappers : wsock[w] # "open" => wsock'[w] # "open"
      PROVE  Wired'
  BY <1>u DEF Wired, Allowed
(* A wrapper that serves its clients goes on, or stops a slow one first.   *)
<1>s. ASSUME NEW w \in Wrappers, wat'[w] \in {"live", "drop"},
             \A v \in Wrappers \ {w} : wat'[v] = wat[v],
             Allowed(w), wrapper[Machine[w]] = w,
             UNCHANGED <<wrapper, wsock, verdict, device>>
      PROVE  Wired'
  BY <1>t, <1>m, <1>s DEF Wired, Allowed
<1>p. "live" \in WPlaces /\ "done" \in WPlaces
  BY DEF WPlaces
<1>1. CASE \E c \in Conns : ClientNext(c)
  <2>1. UNCHANGED <<wrapper, wat, wsock, verdict, device>>
    BY <1>1, ClientTouches
  <2> QED
    BY <1>u, <2>1
<1>2. CASE \E w \in Wrappers : WrapperNext(w)
  <2> PICK w \in Wrappers : WrapperNext(w)
    BY <1>2
  <2>w. device' = device /\ at' = at
    BY WrapperTouches
  <2>h. wat[w] \in {"authorize", "looked", "live"} => wrapper[Machine[w]] = w
    BY DEF Wired
  <2>1. CASE Look(w)
    <3>1. /\ wat[w] = "authorize" /\ wat' = [wat EXCEPT ![w] = "looked"]
          /\ verdict'[w] => device[Machine[w]] = "enrolled"
          /\ \A v \in Wrappers \ {w} : verdict'[v] = verdict[v]
          /\ UNCHANGED <<wrapper, wsock, device>>
      BY <1>t, <2>1 DEF Look
    <3> QED
      BY <1>t, <1>m, <3>1 DEF Wired, Allowed
  <2>2. CASE Reserve(w)
    <3>1. wat[w] = "hello" /\ UNCHANGED <<wsock, verdict, device>>
      BY <2>2, <2>w DEF Reserve
    <3>2. \A m \in Machines : wrapper[m] # w
      BY <1>m, <3>1 DEF Wired
    <3>3. CASE wat' = [wat EXCEPT ![w] = "done"] /\ wrapper' = wrapper
      BY <1>t, <1>m, <3>1, <3>2, <3>3 DEF Wired, Allowed
    <3>4. CASE /\ wrapper[Machine[w]] = None
               /\ wrapper' = [wrapper EXCEPT ![Machine[w]] = w]
               /\ wat' = [wat EXCEPT ![w] = "authorize"]
      BY <1>t, <1>m, <3>1, <3>2, <3>4 DEF Wired, Allowed
    <3> QED
      BY <2>2, <3>3, <3>4 DEF Reserve
  <2>3. CASE LoseWrapper(w) \/ ShutWrapper(w)
    BY <1>t, <1>u, <2>3 DEF LoseWrapper, ShutWrapper
  <2>4. CASE Dropped(w)
    <3>1. /\ wat[w] = "drop" /\ UNCHANGED <<wrapper, wsock, verdict, device>>
          /\ dead[w] \in SUBSET Conns
      BY <2>4, <2>w DEF Dropped, Types
    <3>2. PICK place \in {"live", "done"} :
            /\ StopNext(w, dead[w], place)
            /\ place = IF wrapper[Machine[w]] = w THEN "live" ELSE "done"
      BY <2>4 DEF Dropped
    <3>3. wat' = [wat EXCEPT ![w] = IF dead[w] = {} THEN place ELSE "drop"]
      BY <3>2, StopNextMoves
    <3>4. CASE wrapper[Machine[w]] = w
      <4>1. wat'[w] \in {"live", "drop"} /\ \A v \in Wrappers \ {w} : wat'[v] = wat[v]
        BY <1>t, <3>2, <3>3, <3>4
      <4> QED
        BY <1>s, <3>1, <3>4, <4>1 DEF Allowed
    <3>5. CASE wrapper[Machine[w]] # w
      <4>1. wat'[w] \in {"done", "drop"} /\ \A v \in Wrappers \ {w} : wat'[v] = wat[v]
        BY <1>t, <3>2, <3>3, <3>5
      <4>2. \A m \in Machines : wrapper[m] # w
        BY <1>m, <3>5 DEF Wired
      <4> QED
        BY <1>t, <1>m, <3>1, <3>5, <4>1, <4>2 DEF Wired, Allowed
    <3> QED
      BY <3>4, <3>5
  <2>5. CASE \E r \in Conns : Answer(w, r)
    <3>1. PICK r \in Conns : Answer(w, r)
      BY <2>5
    <3>2. wat[w] = "live" /\ UNCHANGED <<wrapper, wsock, verdict, device>>
      BY <2>w, <3>1 DEF Answer
    <3>3. CASE wat' = wat
      BY <1>u, <3>2, <3>3
    <3>4. CASE StopNext(w, {r}, "live")
      <4>1. wat' = [wat EXCEPT ![w] = IF {r} = {} THEN "live" ELSE "drop"]
        BY <3>4, StopNextMoves
      <4> QED
        BY <1>t, <1>s, <2>h, <3>2, <4>1 DEF Allowed
    <3> QED
      BY <3>1, <3>3, <3>4 DEF Answer
  <2>6. CASE Announce(w)
    <3>1. /\ wat[w] = "looked" /\ verdict[w] /\ UNCHANGED <<wrapper, wsock, verdict, device>>
          /\ \E full : Broadcast(w, Accounts, full, "up", "live")
      BY <2>6, <2>w DEF Announce
    <3>2. wat'[w] \in {"live", "drop"} /\ \A v \in Wrappers \ {w} : wat'[v] = wat[v]
      BY <1>p, <2>w, <3>1, BroadcastServes
    <3> QED
      BY <1>s, <2>h, <3>1, <3>2 DEF Allowed
  <2>7. CASE Live(w)
    <3>1. /\ wat[w] = "live" /\ UNCHANGED <<wrapper, wsock, verdict, device>>
          /\ \E A, full : Broadcast(w, A, full, "live", "live")
      BY <2>7, <2>w DEF Live
    <3>2. wat'[w] \in {"live", "drop"} /\ \A v \in Wrappers \ {w} : wat'[v] = wat[v]
      BY <1>p, <2>w, <3>1, BroadcastServes
    <3> QED
      BY <1>s, <2>h, <3>1, <3>2 DEF Allowed
  <2>8. CASE Gone(w)
    <3>1. /\ wat[w] \in {"looked", "live"} /\ UNCHANGED <<verdict, device>>
          /\ \E full : Broadcast(w, Accounts, full, "down", "done")
          /\ wrapper' = [wrapper EXCEPT ![Machine[w]] = IF wrapper[Machine[w]] = w
                                                          THEN None ELSE @]
          /\ wsock' = [wsock EXCEPT ![w] = "shut"]
      BY <2>8, <2>w DEF Gone
    <3>2. wat'[w] \in {"done", "drop"} /\ \A v \in Wrappers \ {w} : wat'[v] = wat[v]
      BY <1>p, <2>w, <3>1, BroadcastServes
    <3>3. wrapper' = [wrapper EXCEPT ![Machine[w]] = None]
      BY <2>h, <3>1
    <3>4. \A m \in Machines : wrapper[m] = w => m = Machine[w]
      BY <1>m DEF Wired
    <3> QED
      BY <1>t, <1>m, <3>1, <3>2, <3>3, <3>4 DEF Wired, Allowed
  <2> QED
    BY <2>1, <2>2, <2>3, <2>4, <2>5, <2>6, <2>7, <2>8 DEF WrapperNext, WrapperSteps
<1>3. CASE \E m \in Machines : Delete(m)
  BY <1>3, <1>t, <1>m DEF Delete, Wired, Allowed
<1>4. CASE \E m \in Machines : Disconnect(m)
  <2> PICK m \in Machines : Disconnect(m)
    BY <1>4
  <2>1. /\ UNCHANGED <<wrapper, wat, verdict>> /\ device' = [device EXCEPT ![m] = "disconnected"]
        /\ \A w \in Wrappers : wsock'[w] = IF w = wrapper[m] /\ wsock[w] = "open" THEN "closing"
                                                                                  ELSE wsock[w]
    BY DEF Disconnect
  <2> QED
    BY <1>t, <1>m, <2>1 DEF Wired, Allowed
<1>5. CASE UNCHANGED vars
  BY <1>5, <1>u DEF vars
<1> QED
  BY <1>1, <1>2, <1>3, <1>4, <1>5 DEF Next

LEMMA HeardStep ==
  ASSUME Types, Types', Table, Serves, Wired, Heard, [Next]_vars
  PROVE  Heard'
<1> USE DEF client, hub, peer, history
<1>t. /\ at \in [Conns -> Places] /\ told \in [Conns -> {"nothing", "up", "down"}]
      /\ wat \in [Wrappers -> WPlaces]
      /\ wrapper \in [Machines -> Wrappers \cup {None}]
  BY DEF Types
<1>m. \A w \in Wrappers : Machine[w] \in Machines /\ w # None
  BY Constants
<1>h. \A m \in Machines : wrapper[m] # None =>
        wrapper[m] \in Wrappers /\ Machine[wrapper[m]] = m
  BY <1>t DEF Wired
<1>p. "live" \in WPlaces /\ "done" \in WPlaces
  BY DEF WPlaces
<1>u. ASSUME UNCHANGED <<at, told, closed, dead>>,
             \A m \in Machines : Announced(m)' <=> Announced(m)
      PROVE  Heard'
  BY <1>u, Constants DEF Heard, Serving
<1>1. CASE \E c \in Conns : ClientNext(c)
  <2> PICK c \in Conns : ClientNext(c)
    BY <1>1
  <2>1. \A m \in Machines : Announced(m)' <=> Announced(m)
    BY ClientTouches DEF Announced
  <2>2. \A d \in Conns : told'[d] = told[d] \/ told'[d] = "nothing"
    <3>1. told' = told \/ told' = [told EXCEPT ![c] = "nothing"]
      BY DEF ClientNext, ClientSteps, Connect, Hello, NoHello, Register, Replace, Forward, Sent,
             NotSent, Command, BadFrame, Stopped, Disconnected, Finish, Expire, SenderFails,
             Lose, Shut
    <3> QED
      BY <1>t, <3>1
  <2>3. \A d \in Conns : at'[d] \in {"new", "hello", "register"}
                           => at[d] \in {"new", "hello", "register"}
    BY <1>t DEF ClientNext, ClientSteps, Connect, Hello, NoHello, Register, Replace, Forward,
       Sent, NotSent, Command, BadFrame, Stopped, Disconnected, Finish, Expire, SenderFails,
       Lose, Shut, Goto
  <2>4. \A d \in Conns : Serving(d)' => Serving(d) \/ (d = c /\ Register(c))
    BY ClientServes
  <2>5. Register(c) => told[c] = "nothing"
    BY DEF Register, Heard
  <2> QED
    BY <2>1, <2>2, <2>3, <2>4, <2>5, Constants DEF Heard
<1>2. CASE \E w \in Wrappers : WrapperNext(w)
  <2> PICK w \in Wrappers : WrapperNext(w)
    BY <1>2
  <2>w. at' = at
    BY WrapperTouches
  <2>h. wat[w] \in {"authorize", "looked", "live"} => wrapper[Machine[w]] = w
    BY DEF Wired
  <2>1. CASE Look(w)
    <3>1. /\ wat[w] = "authorize" /\ wat' = [wat EXCEPT ![w] = "looked"] /\ wrapper' = wrapper
          /\ UNCHANGED <<at, told, closed, dead>>
      BY <2>1 DEF Look
    <3>2. \A m \in Machines : Announced(m)' <=> Announced(m)
      BY <1>t, <1>h, <3>1 DEF Announced
    <3> QED
      BY <1>u, <3>1, <3>2
  <2>2. CASE Reserve(w)
    <3>1. /\ wat[w] = "hello" /\ UNCHANGED <<at, told, closed, dead>>
          /\ \/ wat' = [wat EXCEPT ![w] = "done"] /\ wrapper' = wrapper
             \/ /\ wrapper[Machine[w]] = None
                /\ wrapper' = [wrapper EXCEPT ![Machine[w]] = w]
                /\ wat' = [wat EXCEPT ![w] = "authorize"]
      BY <2>2 DEF Reserve
    <3>2. \A m \in Machines : Announced(m)' <=> Announced(m)
      BY <1>t, <1>m, <1>h, <3>1 DEF Announced
    <3> QED
      BY <1>u, <3>1, <3>2
  <2>3. CASE LoseWrapper(w) \/ ShutWrapper(w)
    <3>1. UNCHANGED <<at, told, closed, dead, wrapper, wat>>
      BY <2>3 DEF LoseWrapper, ShutWrapper
    <3> QED
      BY <1>u, <3>1 DEF Announced
(* A slow client is stopped by a wrapper that is announced and stays so,   *)
(* or by one that has given its slot back.                                 *)
  <2>s. ASSUME NEW D \in SUBSET Conns, NEW place \in {"live", "done"}, StopNext(w, D, place),
               dead[w] \subseteq D, UNCHANGED <<told, missed, wrapper>>,
               wat[w] \in {"live", "drop"},
               place = IF wrapper[Machine[w]] = w THEN "live" ELSE "done"
        PROVE  Heard'
    <3>1. /\ wat' = [wat EXCEPT ![w] = IF D = {} THEN place ELSE "drop"]
          /\ \A c \in Conns : Serving(c)' => Serving(c)
      <4>1. wat' = [wat EXCEPT ![w] = IF D = {} THEN place ELSE "drop"]
        BY <2>s, StopNextMoves
      <4>2. place \in WPlaces /\ missed' \subseteq missed \cup D
        BY <2>s DEF WPlaces
      <4>3. \A c \in Conns : Serving(c)' => Serving(c)
        BY <2>s, <2>w, <4>2, StopServes
      <4> QED
        BY <4>1, <4>3
    <3>2. \A m \in Machines : Announced(m)' <=> Announced(m)
      BY <1>t, <1>h, <2>s, <3>1 DEF Announced
    <3> QED
      BY <2>s, <2>w, <3>1, <3>2, Constants DEF Heard
  <2>4. CASE Dropped(w)
    <3>1. /\ wat[w] = "drop" /\ UNCHANGED <<told, missed, wrapper>>
          /\ dead[w] \in SUBSET Conns
          /\ StopNext(w, dead[w], IF wrapper[Machine[w]] = w THEN "live" ELSE "done")
      BY <2>4 DEF Dropped, Types
    <3> QED
      BY <2>s, <3>1
  <2>5. CASE \E r \in Conns : Answer(w, r)
    <3>1. PICK r \in Conns : Answer(w, r)
      BY <2>5
    <3>2. wat[w] = "live" /\ UNCHANGED <<told, missed, wrapper>> /\ dead[w] = {}
      BY <3>1 DEF Answer, Serves
    <3>3. CASE UNCHANGED <<wat, dead, closed>>
      BY <1>u, <2>w, <3>2, <3>3 DEF Announced
    <3>4. CASE StopNext(w, {r}, "live")
      BY <2>h, <2>s, <3>2, <3>4
    <3> QED
      BY <3>1, <3>3, <3>4 DEF Answer
(* A frame: whoever is still served has got it.                            *)
  <2>b. ASSUME NEW A, NEW full, NEW word \in {"up", "down", "live"},
               NEW place \in WPlaces, Broadcast(w, A, full, word, place),
               wat[w] # "drop",
               \A m \in Machines \ {Machine[w]} : Announced(m)' <=> Announced(m),
               \/ word = "live" /\ (Announced(Machine[w])' <=> Announced(Machine[w]))
               \/ word = "up" /\ Announced(Machine[w])' /\ A = Accounts
               \/ word = "down" /\ ~Announced(Machine[w])' /\ A = Accounts
        PROVE  Heard'
    <3>1. /\ \A c \in Conns : Serving(c)' =>
               /\ Serving(c) /\ Registered(c)
               /\ told'[c] = IF word # "live" /\ Host[c] = Machine[w] /\ Account[c] \in A
                               THEN word ELSE told[c]
          /\ \A c \in Conns : ~Registered(c) => told'[c] = told[c]
      <4>1. Reaches(w, A, word)
        BY <2>b, <2>w, BroadcastServes
      <4> QED
        BY <4>1 DEF Reaches
    <3>2. \A c \in Conns : at'[c] \in {"new", "hello", "register"} => told'[c] = "nothing"
      BY <2>w, <3>1, Constants DEF Heard, Table, Registered, Past
    <3>3. ASSUME NEW c \in Conns, Serving(c)'
          PROVE  /\ told'[c] = "up" => Announced(Host[c])'
                 /\ told'[c] = "down" => ~Announced(Host[c])'
      <4>1. /\ told[c] = "up" => Announced(Host[c])
            /\ told[c] = "down" => ~Announced(Host[c])
        BY <3>1, <3>3 DEF Heard
      <4>2. Host[c] \in Machines /\ Account[c] \in Accounts
        BY Constants
      <4> QED
        BY <2>b, <3>1, <3>3, <4>1, <4>2
    <3> QED
      BY <3>2, <3>3 DEF Heard
  <2>6. CASE Announce(w)
    <3>1. /\ wat[w] = "looked" /\ wrapper' = wrapper
          /\ \E full : Broadcast(w, Accounts, full, "up", "live")
      BY <2>6 DEF Announce
    <3>2. wat'[w] \in {"live", "drop"} /\ \A v \in Wrappers \ {w} : wat'[v] = wat[v]
      BY <1>p, <2>w, <3>1, BroadcastServes
    <3>3. \A m \in Machines \ {Machine[w]} : Announced(m)' <=> Announced(m)
      BY <1>h, <3>1, <3>2 DEF Announced
    <3>4. Announced(Machine[w])'
      BY <1>m, <2>h, <3>1, <3>2 DEF Announced
    <3> QED
      BY <1>p, <2>b, <3>1, <3>3, <3>4
  <2>7. CASE Live(w)
    <3>1. /\ wat[w] = "live" /\ wrapper' = wrapper
          /\ \E A, full : Broadcast(w, A, full, "live", "live")
      BY <2>7 DEF Live
    <3>2. wat'[w] \in {"live", "drop"} /\ \A v \in Wrappers \ {w} : wat'[v] = wat[v]
      BY <1>p, <2>w, <3>1, BroadcastServes
    <3>3. \A m \in Machines : Announced(m)' <=> Announced(m)
      BY <1>h, <3>1, <3>2 DEF Announced
    <3> QED
      BY <1>m, <1>p, <2>b, <3>1, <3>3
  <2>8. CASE Gone(w)
    <3>1. /\ wat[w] \in {"looked", "live"}
          /\ wrapper' = [wrapper EXCEPT ![Machine[w]] = IF wrapper[Machine[w]] = w
                                                          THEN None ELSE @]
          /\ \E full : Broadcast(w, Accounts, full, "down", "done")
      BY <2>8 DEF Gone
    <3>2. \A v \in Wrappers \ {w} : wat'[v] = wat[v]
      BY <1>p, <2>w, <3>1, BroadcastServes
    <3>3. wrapper' = [wrapper EXCEPT ![Machine[w]] = None]
      BY <2>h, <3>1
    <3>4. \A m \in Machines \ {Machine[w]} : Announced(m)' <=> Announced(m)
      BY <1>t, <1>h, <3>2, <3>3 DEF Announced
    <3>5. ~Announced(Machine[w])'
      BY <1>t, <1>m, <3>3 DEF Announced
    <3> QED
      BY <1>p, <2>b, <3>1, <3>4, <3>5
  <2> QED
    BY <2>1, <2>2, <2>3, <2>4, <2>5, <2>6, <2>7, <2>8 DEF WrapperNext, WrapperSteps
<1>3. CASE \E m \in Machines : Delete(m) \/ Disconnect(m)
  <2>1. UNCHANGED <<at, told, closed, dead, wrapper, wat>>
    BY <1>3, DeviceTouches
  <2> QED
    BY <1>u, <2>1 DEF Announced
<1>4. CASE UNCHANGED vars
  BY <1>4, <1>u DEF vars, Announced
<1> QED
  BY <1>1, <1>2, <1>3, <1>4 DEF Next

-----------------------------------------------------------------------------
(* The theorems.                                                           *)

LEMMA InitHolds == Init => IInv
<1> SUFFICES ASSUME Init
             PROVE  IInv
  OBVIOUS
<1>1. Types
  BY Constants, EmptySeq DEF Init, Types, Places, WPlaces
<1>2. Lock
  <2>1. line = <<>> /\ \A c \in Conns : at[c] = "new"
    BY DEF Init
  <2>2. DOMAIN line = {}
    BY <2>1
  <2> QED
    BY <2>1, <2>2 DEF Lock, ToSet, IsInjective, InLine
<1>3. Table
  <2>1. Active = {} /\ slots = {} /\ superseded = {}
    BY DEF Init, Active
  <2> QED
    BY <2>1, FS_EmptySet, Constants DEF Init, Table
<1>4. Serves /\ Wired /\ Heard
  BY Constants DEF Init, Serves, NoHole, Serving, Wired, Allowed, Heard
<1> QED
  BY <1>1, <1>2, <1>3, <1>4 DEF IInv

LEMMA Inductive == IInv /\ [Next]_vars => IInv'
<1> SUFFICES ASSUME IInv, [Next]_vars
             PROVE  IInv'
  OBVIOUS
<1>1. Types /\ Lock /\ Table /\ Serves /\ Wired /\ Heard
  BY DEF IInv
<1>2. Types'
  BY <1>1, TypesStep
<1>3. Lock'
  BY <1>1, LockStep
<1>4. Table' /\ Serves'
  BY <1>1, <1>2, TableStep, ServesStep
<1>5. Wired'
  BY <1>1, <1>2, WiredStep
<1>6. Heard'
  BY <1>1, <1>2, HeardStep
<1> QED
  BY <1>2, <1>3, <1>4, <1>5, <1>6 DEF IInv

(* The types, the queue for the send lock, the table of clients, who is    *)
(* served and the wrappers' slots, in every reachable state of the relay.  *)
THEOREM Invariance == Spec => []IInv
  BY InitHolds, Inductive, PTL DEF Spec

(* The table never holds more than max_clients connections, each one under *)
(* its own id and with a slot, and the send lock is held and awaited by    *)
(* exactly the coroutines that are at it, whoever expires in the queue.    *)
THEOREM TablesAgree == Spec => []Bookkeeping
<1>1. IInv => Bookkeeping
  <2> SUFFICES ASSUME IInv
               PROVE  Bookkeeping
    OBVIOUS
  <2>1. Types /\ Lock /\ Table
    BY DEF IInv
  <2>2. TypeOK
    BY <2>1 DEF Types, TypeOK, Places, WPlaces
  <2>3. Cardinality({k \in Keys : clients[k] # None}) <= MaxClients
    BY <2>1 DEF Table, Active
  <2>4. \A c \in Conns, k \in Keys : clients[k] = c => Key(c) = k /\ c \in slots
    BY <2>1 DEF Table, Past
  <2> QED
    BY <2>1, <2>2, <2>3, <2>4 DEF Bookkeeping, Lock, InLine
<1> QED
  BY Invariance, <1>1, PTL

(* No command of a connection reaches the wrapper once another connection  *)
(* has taken its client_id over.                                           *)
THEOREM OldConnectionsAreFenced == Spec => Fenced
<1>1. IInv /\ [Next]_vars => [\A c \in Conns : sent'[c] > sent[c] => c \notin superseded]_vars
  <2> USE DEF client, hub, peer, history
  <2> SUFFICES ASSUME IInv, Next, NEW d \in Conns, sent'[d] > sent[d]
               PROVE  d \notin superseded
    OBVIOUS
  <2>t. sent \in [Conns -> Nat]
    BY DEF IInv, Types
  <2>1. ASSUME sent' = sent
        PROVE  FALSE
    BY <2>1, <2>t
  <2>2. at[d] = "sending"
    <3>1. CASE \E c \in Conns : ClientNext(c)
      <4> PICK c \in Conns : ClientNext(c)
        BY <3>1
      <4>1. \/ sent' = sent
            \/ sent' = [sent EXCEPT ![c] = 0]
            \/ at[c] = "sending" /\ sent' = [sent EXCEPT ![c] = sent[c] + 1]
        BY DEF ClientNext, ClientSteps, Connect, Hello, NoHello, Register, Replace, Forward,
           Sent, NotSent, Command, BadFrame, Stopped, Disconnected, Finish, Expire,
           SenderFails, Lose, Shut
      <4> QED
        BY <2>t, <2>1, <4>1
    <3>2. CASE \E w \in Wrappers : WrapperNext(w)
      BY <2>1, <3>2, WrapperTouches
    <3>3. CASE \E m \in Machines : Delete(m) \/ Disconnect(m)
      BY <2>1, <3>3, DeviceTouches
    <3> QED
      BY <3>1, <3>2, <3>3 DEF Next
  <2> QED
    BY <2>2 DEF IInv, Table
<1> QED
  BY Invariance, <1>1, PTL DEF Spec, Fenced

(* A connection that is served is the registered one, and has missed no    *)
(* live frame since it registered.                                         *)
THEOREM ServedWithoutHole == Spec => []NoHole
<1>1. IInv => NoHole
  BY DEF IInv, Serves
<1> QED
  BY Invariance, <1>1, PTL

(* What a served client last heard of its wrapper is true, and no wrapper  *)
(* of a disconnected device is connected and announced.                    *)
THEOREM ToldTheTruth == Spec => []WrapperKnown
<1>1. IInv => WrapperKnown
  <2> SUFFICES ASSUME IInv
               PROVE  WrapperKnown
    OBVIOUS
  <2>1. Heard /\ Wired
    BY DEF IInv
  <2> QED
    BY <2>1 DEF WrapperKnown, Heard, Wired, Announced, Allowed
<1> QED
  BY Invariance, <1>1, PTL
=============================================================================
