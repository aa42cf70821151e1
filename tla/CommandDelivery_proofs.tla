----------------------- MODULE CommandDelivery_proofs -----------------------
(***************************************************************************)
(* Proofs about CommandDelivery, for every set of browsers and commands    *)
(* and every cap and bound: nothing leaves an outbox before it was done,   *)
(* serial commands start in order, and a command runs once as long as it   *)
(* is settled before the memory can have forgotten it.                     *)
(***************************************************************************)
EXTENDS CommandDelivery, FiniteSetTheorems, SequenceTheorems, TLAPS

-----------------------------------------------------------------------------
(* The inductive invariant.                                                *)

(* Every y of s has an x before it.                                        *)
Ahead(s, x, y) ==
  \A j \in DOMAIN s : s[j] = y => \E i \in DOMAIN s : i < j /\ s[i] = x

Issued(m) == m \in ToSet(issued[Owner[m]])

(* A command that may still be sent, taken or finished.                    *)
Present(m) ==
  \/ m \in ToSet(outbox[Owner[m]])
  \/ Cmd(m) \in ToSet(toRelay[Owner[m]])
  \/ m \in ToSet(toWrapper)
  \/ InHand(m)

(* Sockets have numbers, and only an open one carries frames.              *)
Sockets ==
  \A c \in Clients :
    /\ IF open[c] THEN conn[c] > 0 ELSE conn[c] < MaxConns /\ toClient[c] = <<>>
    /\ \A k \in 1..MaxConns : Hello(k) \in ToSet(toRelay[c]) => k <= conn[c]

(* Commands are where their owner put them, and were issued by it.         *)
Origin ==
  /\ \A c \in Clients : \A m \in Commands :
       \/ m \in ToSet(issued[c]) \/ m \in ToSet(outbox[c]) \/ m \in ToSet(known[c])
       \/ Cmd(m) \in ToSet(toRelay[c])
       => Owner[m] = c
  /\ \A m \in Commands :
       Present(m) \/ Seen(m) \/ m \in ToSet(started) \/ ran[m] > 0 => Issued(m)
  /\ again => lane \in Safe

(* What is remembered or acknowledged was completed.                       *)
Answered ==
  /\ \A m \in Commands : Seen(m) \/ Ack(m) \in ToSet(fromWrapper) => m \in done
  /\ \A c \in Clients : \A m \in Commands : Ack(m) \in ToSet(toClient[c]) => m \in done
  /\ AckedRan

(* The outbox and what was issued have one order, without repetitions.     *)
Ordered ==
  \A c \in Clients :
    /\ IsInjective(issued[c])
    /\ \A m, n \in Commands : Earlier(outbox[c], m, n) => Earlier(issued[c], m, n)

(* What was taken, remembered or, in the first process, completed began.   *)
Begun ==
  /\ lane # Free => lane \in ToSet(started)
  /\ \A m \in Serial : Seen(m) => m \in ToSet(started)
  /\ count.lives > 0
  /\ count.lives = 1 => \A m \in Serial : m \in done => m \in ToSet(started)

(* While nothing of the wrapper was lost, the frames of two serial         *)
(* commands keep their order, up to repetitions of the first, and what     *)
(* did not begin is on its way once the socket is open.                    *)
InTurn(c, m, n) ==
  IF m \in ToSet(started)
  THEN n \in ToSet(started) => Earlier(started, m, n)
  ELSE /\ n \notin ToSet(started)
       /\ Ahead(toWrapper, m, n)
       /\ m \in ToSet(toWrapper) \/ Ahead(toRelay[c], Cmd(m), Cmd(n))

OnItsWay(c, m) ==
  \/ m \in ToSet(started) \/ m \in ToSet(toWrapper) \/ Cmd(m) \in ToSet(toRelay[c])

Unbroken == count.losses = 0 /\ count.lives = 1

Turns ==
  Unbroken =>
    /\ attached /\ up
    /\ \A c \in Clients :
         /\ \A m, n \in Serial : Earlier(issued[c], m, n) => InTurn(c, m, n)
         /\ open[c] => \A m \in Serial : m \in ToSet(issued[c]) => OnItsWay(c, m)

IInv == TypeOK /\ Sockets /\ Origin /\ Answered /\ Ordered /\ Begun /\ Turns

-----------------------------------------------------------------------------
(* At most once, as long as commands are settled in time.                  *)

(* Half of the memory, rounded up: 256 for COMMAND_IDS_PER_CLIENT = 512,   *)
(* which is also OUTBOX_MAX_COMMANDS.                                      *)
Window == (IdsPerClient + 1) \div 2

(* Nothing is left of a command, neither in the outbox nor in flight nor   *)
(* in a handler, once its browser issued Window newer ones.                *)
Settled ==
  \A c \in Clients : \A i \in DOMAIN issued[c] :
    Present(issued[c][i]) => Len(issued[c]) < i + Window

(* An id was never touched after one that is Window newer.                 *)
Recent ==
  \A c \in Clients : \A m, n \in Commands : Earlier(known[c], m, n) =>
    \A i, j \in DOMAIN issued[c] :
      issued[c][i] = m /\ issued[c][j] = n => i < j + Window

Once ==
  /\ \A m \in Commands \ Safe :
       /\ ran[m] <= 1
       /\ ran[m] = 1 => Seen(m) \/ ~Present(m)
       /\ InHand(m) => ran[m] = 0 /\ ~Seen(m)
  /\ \A m \in Tasks : running[m] <= 1

-----------------------------------------------------------------------------

(* Sequences.                                                              *)

LEMMA InSet ==
  ASSUME NEW S, NEW s \in Seq(S)
  PROVE  /\ Len(s) \in Nat /\ DOMAIN s = 1..Len(s) /\ \A i \in DOMAIN s : s[i] \in S
         /\ \A x : x \in ToSet(s) <=> \E i \in DOMAIN s : s[i] = x
         /\ \A x : x \in ToSet(s) => x \in S /\ s # <<>>
         /\ s # <<>> => Head(s) = s[1] /\ 1 \in DOMAIN s /\ Head(s) \in ToSet(s)
<1>1. Len(s) \in Nat /\ DOMAIN s = 1..Len(s) /\ \A i \in 1..Len(s) : s[i] \in S
  BY LenProperties, ElementOfSeq
<1>2. \A x : x \in ToSet(s) <=> \E i \in DOMAIN s : s[i] = x
  BY DEF ToSet
<1>3. s # <<>> => 1 \in DOMAIN s /\ Head(s) = s[1]
  <2>1. s # <<>> => Len(s) \in Nat \ {0}
    BY EmptySeq
  <2> QED
    BY <1>1, <2>1
<1>4. \A x : x \in ToSet(s) => s # <<>>
  BY <1>2
<1> QED
  BY <1>1, <1>2, <1>3, <1>4

LEMMA NothingIn ==
  /\ \A x : x \notin ToSet(<<>>)
  /\ \A x, y : ~Earlier(<<>>, x, y)
  /\ IsInjective(<<>>)
  /\ \A S : <<>> \in Seq(S)
  /\ Len(<<>>) = 0
BY DEF ToSet, Earlier, IsInjective

LEMMA Appending ==
  ASSUME NEW S, NEW s \in Seq(S), NEW z \in S
  PROVE  /\ Append(s, z) \in Seq(S) /\ Len(Append(s, z)) = Len(s) + 1
         /\ \A x : x \in ToSet(Append(s, z)) <=> x \in ToSet(s) \/ x = z
         /\ IsInjective(s) /\ z \notin ToSet(s) => IsInjective(Append(s, z))
         /\ \A x, y : Earlier(Append(s, z), x, y)
                        <=> Earlier(s, x, y) \/ (y = z /\ x \in ToSet(s))
         /\ \A x, y : Ahead(s, x, y) /\ (y = z => x \in ToSet(s)) => Ahead(Append(s, z), x, y)
<1> DEFINE a == Append(s, z)
           n == Len(s)
<1>1. /\ a \in Seq(S) /\ Len(a) = n + 1 /\ n \in Nat
      /\ \A i \in 1..n : a[i] = s[i]
      /\ a[n + 1] = z
      /\ DOMAIN s = 1..n /\ DOMAIN a = 1..(n + 1)
  BY AppendProperties, LenProperties
<1> HIDE DEF a, n
<1>2. /\ \A i \in 1..(n + 1) : i \in 1..n \/ i = n + 1
      /\ \A i \in 1..n : i \in 1..(n + 1) /\ i < n + 1
      /\ n + 1 \in 1..(n + 1) /\ \A i \in 1..(n + 1) : ~(n + 1 < i)
  BY <1>1
<1>3. /\ \A x : x \in ToSet(s) <=> \E i \in 1..n : s[i] = x
      /\ \A x : x \in ToSet(a) <=> \E i \in 1..(n + 1) : a[i] = x
  BY <1>1 DEF ToSet
<1>4. \A x : x \in ToSet(a) <=> x \in ToSet(s) \/ x = z
  BY <1>1, <1>2, <1>3
<1>5. ASSUME IsInjective(s), z \notin ToSet(s)
      PROVE  IsInjective(a)
  <2> SUFFICES ASSUME NEW i \in 1..(n + 1), NEW j \in 1..(n + 1), a[i] = a[j]
               PROVE  i = j
    BY <1>1 DEF IsInjective
  <2> QED
    BY <1>1, <1>2, <1>3, <1>5 DEF IsInjective
<1>6. ASSUME NEW x, NEW y
      PROVE  Earlier(a, x, y) <=> Earlier(s, x, y) \/ (y = z /\ x \in ToSet(s))
  <2>1. ASSUME Earlier(a, x, y)
        PROVE  Earlier(s, x, y) \/ (y = z /\ x \in ToSet(s))
    <3>1. PICK i \in 1..(n + 1), j \in 1..(n + 1) : i < j /\ a[i] = x /\ a[j] = y
      BY <1>1, <2>1 DEF Earlier
    <3>2. i \in 1..n
      BY <1>2, <3>1
    <3> QED
      BY <1>1, <1>2, <1>3, <3>1, <3>2 DEF Earlier
  <2>2. Earlier(s, x, y) => Earlier(a, x, y)
    BY <1>1, <1>2 DEF Earlier
  <2>3. ASSUME y = z, x \in ToSet(s)
        PROVE  Earlier(a, x, y)
    <3>1. PICK i \in 1..n : s[i] = x
      BY <1>3, <2>3
    <3>2. i < n + 1 /\ i \in DOMAIN a /\ n + 1 \in DOMAIN a /\ a[i] = x /\ a[n + 1] = y
      BY <1>1, <1>2, <2>3, <3>1
    <3> QED
      BY <3>2 DEF Earlier
  <2> QED
    BY <2>1, <2>2, <2>3
<1>7. ASSUME NEW x, NEW y, Ahead(s, x, y), y = z => x \in ToSet(s)
      PROVE  Ahead(a, x, y)
  <2> SUFFICES ASSUME NEW j \in 1..(n + 1), a[j] = y
               PROVE  \E i \in 1..(n + 1) : i < j /\ a[i] = x
    BY <1>1 DEF Ahead
  <2>1. CASE j \in 1..n
    <3>1. PICK i \in 1..n : i < j /\ s[i] = x
      BY <1>1, <1>7, <2>1 DEF Ahead
    <3> QED
      BY <1>1, <1>2, <3>1
  <2>2. CASE j = n + 1
    <3>1. PICK i \in 1..n : s[i] = x
      BY <1>1, <1>3, <1>7, <2>2
    <3> QED
      BY <1>1, <1>2, <2>2, <3>1
  <2> QED
    BY <1>2, <2>1, <2>2
<1> QED
  BY <1>1, <1>4, <1>5, <1>6, <1>7 DEF a, n

(* r keeps some items of s, in their order: g says which.                  *)
LEMMA Thinned ==
  ASSUME NEW S, NEW s \in Seq(S), NEW r \in Seq(S), NEW g \in [DOMAIN r -> DOMAIN s],
         \A i \in DOMAIN r : r[i] = s[g[i]],
         \A i, j \in DOMAIN r : i < j => g[i] < g[j],
         \A i, j \in DOMAIN r : g[i] = g[j] => i = j
  PROVE  /\ ToSet(r) \subseteq ToSet(s)
         /\ IsInjective(s) => IsInjective(r)
         /\ \A x, y : Earlier(r, x, y) => Earlier(s, x, y)
<1>1. \A i \in DOMAIN r : g[i] \in DOMAIN s
  OBVIOUS
<1>2. ToSet(r) \subseteq ToSet(s)
  BY <1>1 DEF ToSet
<1>3. ASSUME IsInjective(s)
      PROVE  IsInjective(r)
  BY <1>1, <1>3 DEF IsInjective
<1>4. ASSUME NEW x, NEW y, Earlier(r, x, y)
      PROVE  Earlier(s, x, y)
  <2>1. PICK i \in DOMAIN r, j \in DOMAIN r : i < j /\ r[i] = x /\ r[j] = y
    BY <1>4 DEF Earlier
  <2>2. g[i] \in DOMAIN s /\ g[j] \in DOMAIN s /\ g[i] < g[j] /\ s[g[i]] = x /\ s[g[j]] = y
    BY <1>1, <2>1
  <2> QED
    BY <2>2 DEF Earlier
<1> QED
  BY <1>2, <1>3, <1>4

LEMMA Shifting ==
  ASSUME NEW S, NEW s \in Seq(S), s # <<>>
  PROVE  /\ Tail(s) \in Seq(S) /\ Len(Tail(s)) = Len(s) - 1
         /\ \A x : x \in ToSet(s) <=> x \in ToSet(Tail(s)) \/ x = Head(s)
         /\ IsInjective(s) => IsInjective(Tail(s)) /\ Head(s) \notin ToSet(Tail(s))
         /\ \A x, y : Earlier(Tail(s), x, y) => Earlier(s, x, y)
         /\ \A x, y : Ahead(s, x, y) => Head(s) # y
         /\ \A x, y : Ahead(s, x, y) /\ Head(s) # x => Ahead(Tail(s), x, y)
<1> DEFINE n == Len(s)
           t == Tail(s)
           g == [i \in 1..(n - 1) |-> i + 1]
<1>1. /\ t \in Seq(S) /\ n \in Nat /\ n > 0 /\ Len(t) = n - 1
      /\ \A i \in 1..(n - 1) : t[i] = s[i + 1]
      /\ DOMAIN s = 1..n /\ DOMAIN t = 1..(n - 1)
      /\ s[1] = Head(s)
  BY HeadTailProperties, LenProperties, EmptySeq, InSet
<1> HIDE DEF n, t
<1>2. /\ 1 \in 1..n /\ g \in [1..(n - 1) -> 1..n]
      /\ \A i \in 1..(n - 1) : g[i] = i + 1 /\ g[i] # 1
      /\ \A i, j \in 1..(n - 1) : (i < j => g[i] < g[j]) /\ (g[i] = g[j] => i = j)
      /\ \A j \in 1..n : j # 1 => j - 1 \in 1..(n - 1) /\ g[j - 1] = j
      /\ \A j \in 1..n : ~(j < 1)
  BY <1>1
<1> HIDE DEF g
<1>3. /\ g \in [DOMAIN t -> DOMAIN s]
      /\ \A i \in DOMAIN t : t[i] = s[g[i]]
      /\ \A i, j \in DOMAIN t : i < j => g[i] < g[j]
      /\ \A i, j \in DOMAIN t : g[i] = g[j] => i = j
  BY <1>1, <1>2
<1>4. /\ ToSet(t) \subseteq ToSet(s)
      /\ IsInjective(s) => IsInjective(t)
      /\ \A x, y : Earlier(t, x, y) => Earlier(s, x, y)
  BY <1>1, <1>3, Thinned
<1>5. \A x : x \in ToSet(s) => x \in ToSet(t) \/ x = Head(s)
  <2> SUFFICES ASSUME NEW j \in 1..n, s[j] # Head(s)
               PROVE  s[j] \in ToSet(t)
    BY <1>1 DEF ToSet
  <2>1. j - 1 \in DOMAIN t /\ t[j - 1] = s[j]
    BY <1>1, <1>2, <1>3
  <2> QED
    BY <2>1 DEF ToSet
<1>6. Head(s) \in ToSet(s)
  BY <1>1, <1>2 DEF ToSet
<1>7. ASSUME IsInjective(s)
      PROVE  Head(s) \notin ToSet(t)
  BY <1>1, <1>2, <1>3, <1>7 DEF ToSet, IsInjective
<1>8. ASSUME NEW x, NEW y, Ahead(s, x, y)
      PROVE  Head(s) # y
  BY <1>1, <1>2, <1>8 DEF Ahead
<1>9. ASSUME NEW x, NEW y, Ahead(s, x, y), Head(s) # x
      PROVE  Ahead(t, x, y)
  <2> SUFFICES ASSUME NEW j \in DOMAIN t, t[j] = y
               PROVE  \E i \in DOMAIN t : i < j /\ t[i] = x
    BY DEF Ahead
  <2>1. PICK i \in 1..n : i < g[j] /\ s[i] = x
    BY <1>1, <1>3, <1>9 DEF Ahead
  <2>2. i # 1
    BY <1>1, <1>9, <2>1
  <2>3. i - 1 \in DOMAIN t /\ t[i - 1] = x /\ i - 1 < j
    BY <1>1, <1>2, <1>3, <2>1, <2>2
  <2> QED
    BY <2>3
<1> QED
  BY <1>1, <1>4, <1>5, <1>6, <1>7, <1>8, <1>9 DEF n, t

LEMMA CutOff ==
  ASSUME NEW S, NEW s \in Seq(S), NEW n \in 0..Len(s)
  PROVE  /\ SubSeq(s, 1, n) \in Seq(S) /\ ToSet(SubSeq(s, 1, n)) \subseteq ToSet(s)
         /\ \A x, y : Ahead(s, x, y) => Ahead(SubSeq(s, 1, n), x, y)
<1> DEFINE r == SubSeq(s, 1, n)
<1>1. n \in Nat /\ DOMAIN s = 1..Len(s) /\ Len(s) \in Nat /\ \A i \in 1..n : s[i] \in S /\ i \in DOMAIN s
  BY InSet
<1>2. /\ r \in Seq(S) /\ Len(r) = (IF 1 <= n THEN n - 1 + 1 ELSE 0)
      /\ \A i \in 1..(n - 1 + 1) : r[i] = s[1 + i - 1]
  BY <1>1, SubSeqProperties
<1> HIDE DEF r
<1>3. Len(r) = n /\ DOMAIN r = 1..n
  BY <1>1, <1>2, LenProperties
<1>4. ASSUME NEW i \in 1..n
      PROVE  r[i] = s[i] /\ i \in DOMAIN s
  <2>1. i \in 1..(n - 1 + 1) /\ 1 + i - 1 = i
    BY <1>1
  <2> QED
    BY <1>1, <1>2, <2>1
<1>5. ToSet(r) \subseteq ToSet(s)
  BY <1>3, <1>4 DEF ToSet
<1>6. ASSUME NEW x, NEW y, Ahead(s, x, y)
      PROVE  Ahead(r, x, y)
  <2> SUFFICES ASSUME NEW j \in 1..n, r[j] = y
               PROVE  \E i \in 1..n : i < j /\ r[i] = x
    BY <1>3 DEF Ahead
  <2>1. PICK i \in DOMAIN s : i < j /\ s[i] = x
    BY <1>4, <1>6 DEF Ahead
  <2>2. i \in 1..n
    BY <1>1, <2>1
  <2> QED
    BY <1>4, <2>1, <2>2
<1> QED
  BY <1>2, <1>5, <1>6 DEF r

LEMMA Joining ==
  ASSUME NEW S, NEW s \in Seq(S), NEW t \in Seq(S)
  PROVE  /\ s \o t \in Seq(S)
         /\ \A x : x \in ToSet(s \o t) <=> x \in ToSet(s) \/ x \in ToSet(t)
         /\ \A x, y : Ahead(s, x, y) /\ (x \in ToSet(s) \/ Ahead(t, x, y))
                        => Ahead(s \o t, x, y)
<1> DEFINE r == s \o t
           m == Len(s)
           n == Len(t)
<1>1. /\ m \in Nat /\ n \in Nat /\ DOMAIN s = 1..m /\ DOMAIN t = 1..n
      /\ r \in Seq(S) /\ Len(r) = m + n
      /\ \A i \in 1..(m + n) : r[i] = IF i <= m THEN s[i] ELSE t[i - m]
  BY ConcatProperties, LenProperties
<1>2. DOMAIN r = 1..(m + n)
  BY <1>1, LenProperties
<1> HIDE DEF r, m, n
<1>3. ASSUME NEW i \in 1..m
      PROVE  i \in 1..(m + n) /\ r[i] = s[i]
  BY <1>1, <1>3
<1>4. ASSUME NEW i \in 1..n
      PROVE  m + i \in 1..(m + n) /\ r[m + i] = t[i]
  <2>1. m + i \in 1..(m + n) /\ ~(m + i <= m) /\ m + i - m = i
    BY <1>1
  <2> QED
    BY <1>1, <2>1
<1>5. ASSUME NEW i \in 1..(m + n), i \notin 1..m
      PROVE  i - m \in 1..n /\ m + (i - m) = i /\ r[i] = t[i - m] /\ \A k \in 1..m : k < i
  BY <1>1, <1>5
<1>6. \A x : x \in ToSet(r) <=> x \in ToSet(s) \/ x \in ToSet(t)
  <2> SUFFICES ASSUME NEW x
               PROVE  (\E i \in 1..(m + n) : r[i] = x)
                        <=> (\E i \in 1..m : s[i] = x) \/ (\E i \in 1..n : t[i] = x)
    BY <1>1, <1>2 DEF ToSet
  <2> QED
    BY <1>3, <1>4, <1>5
<1>7. ASSUME NEW x, NEW y, Ahead(s, x, y), x \in ToSet(s) \/ Ahead(t, x, y)
      PROVE  Ahead(r, x, y)
  <2> SUFFICES ASSUME NEW j \in 1..(m + n), r[j] = y
               PROVE  \E i \in 1..(m + n) : i < j /\ r[i] = x
    BY <1>2 DEF Ahead
  <2>1. CASE j \in 1..m
    <3>1. PICK i \in 1..m : i < j /\ s[i] = x
      BY <1>1, <1>3, <1>7, <2>1 DEF Ahead
    <3> QED
      BY <1>3, <3>1
  <2>2. CASE j \notin 1..m
    <3>1. CASE x \in ToSet(s)
      <4>1. PICK i \in 1..m : s[i] = x
        BY <1>1, <3>1 DEF ToSet
      <4> QED
        BY <1>3, <1>5, <2>2, <4>1
    <3>2. CASE Ahead(t, x, y)
      <4>1. PICK i \in 1..n : i < j - m /\ t[i] = x
        BY <1>1, <1>5, <2>2, <3>2 DEF Ahead
      <4>2. m + i < j
        BY <1>1, <4>1
      <4> QED
        BY <1>4, <4>1, <4>2
    <3> QED
      BY <1>7, <3>1, <3>2
  <2> QED
    BY <2>1, <2>2
<1> QED
  BY <1>1, <1>6, <1>7 DEF r

LEMMA Removing ==
  ASSUME NEW S, NEW s \in Seq(S), IsInjective(s), NEW x
  PROVE  /\ Without(s, x) \in Seq(S) /\ IsInjective(Without(s, x))
         /\ \A y : y \in ToSet(Without(s, x)) <=> y \in ToSet(s) /\ y # x
         /\ Len(Without(s, x)) <= Len(s)
         /\ x \in ToSet(s) => Len(Without(s, x)) + 1 = Len(s)
         /\ \A y, z : Earlier(Without(s, x), y, z) => Earlier(s, y, z)
<1>1. CASE x \notin ToSet(s)
  BY <1>1, LenProperties DEF Without
<1>2. CASE x \in ToSet(s)
  <2> DEFINE k == CHOOSE i \in DOMAIN s : s[i] = x
             n == Len(s)
             a == SubSeq(s, 1, k - 1)
             b == SubSeq(s, k + 1, n)
             r == Without(s, x)
             g == [i \in 1..(n - 1) |-> IF i < k THEN i ELSE i + 1]
  <2>0. k \in DOMAIN s /\ s[k] = x
    BY <1>2 DEF ToSet
  <2>r. r = a \o b
    BY <1>2 DEF Without, RemoveAt
  <2> HIDE DEF k, r
  <2>1. /\ n \in Nat /\ DOMAIN s = 1..n /\ k \in 1..n /\ \A i \in 1..n : s[i] \in S
    BY <2>0, LenProperties, ElementOfSeq
  <2>2. /\ a \in Seq(S) /\ Len(a) = k - 1 /\ \A i \in 1..(k - 1) : a[i] = s[i]
    <3>1. 1 \in Int /\ k - 1 \in Int /\ \A i \in 1..(k - 1) : s[i] \in S
      BY <2>1
    <3>2. /\ a \in Seq(S) /\ Len(a) = (IF 1 <= k - 1 THEN k - 1 - 1 + 1 ELSE 0)
          /\ \A i \in 1..(k - 1 - 1 + 1) : a[i] = s[1 + i - 1]
      BY <3>1, SubSeqProperties
    <3> HIDE DEF a, n
    <3>3. Len(a) = k - 1
      BY <2>1, <3>2
    <3>4. ASSUME NEW i \in 1..(k - 1)
          PROVE  a[i] = s[i]
      <4>1. i \in 1..(k - 1 - 1 + 1) /\ 1 + i - 1 = i
        BY <2>1
      <4> QED
        BY <3>2, <4>1
    <3> QED
      BY <3>2, <3>3, <3>4
  <2>3. /\ b \in Seq(S) /\ Len(b) = n - k /\ \A i \in 1..(n - k) : b[i] = s[k + i]
    <3>1. k + 1 \in Int /\ n \in Int /\ \A i \in (k + 1)..n : s[i] \in S
      BY <2>1
    <3>2. /\ b \in Seq(S) /\ Len(b) = (IF k + 1 <= n THEN n - (k + 1) + 1 ELSE 0)
          /\ \A i \in 1..(n - (k + 1) + 1) : b[i] = s[k + 1 + i - 1]
      BY <3>1, SubSeqProperties
    <3> HIDE DEF b, n
    <3>3. Len(b) = n - k
      BY <2>1, <3>2
    <3>4. ASSUME NEW i \in 1..(n - k)
          PROVE  b[i] = s[k + i]
      <4>1. i \in 1..(n - (k + 1) + 1) /\ k + 1 + i - 1 = k + i
        BY <2>1
      <4> QED
        BY <3>2, <4>1
    <3> QED
      BY <3>2, <3>3, <3>4
  <2> HIDE DEF a, b, n
  <2>4. /\ g \in [1..(n - 1) -> 1..n]
        /\ \A i \in 1..(n - 1) : g[i] = (IF i < k THEN i ELSE i + 1) /\ g[i] # k
        /\ \A i, j \in 1..(n - 1) : (i < j => g[i] < g[j]) /\ (g[i] = g[j] => i = j)
    BY <2>1
  <2> HIDE DEF g
  <2>5. /\ r \in Seq(S) /\ Len(r) = n - 1 /\ DOMAIN r = 1..(n - 1)
        /\ \A i \in 1..(n - 1) : r[i] = s[g[i]]
    <3>1. /\ r \in Seq(S) /\ Len(r) = Len(a) + Len(b)
          /\ \A i \in 1..(Len(a) + Len(b)) : r[i] = IF i <= Len(a) THEN a[i] ELSE b[i - Len(a)]
      BY <2>2, <2>3, <2>r, ConcatProperties
    <3>2. Len(a) + Len(b) = n - 1
      BY <2>1, <2>2, <2>3
    <3>3. ASSUME NEW i \in 1..(n - 1)
          PROVE  r[i] = s[g[i]]
      <4>1. CASE i < k
        <5>1. i <= Len(a) /\ i \in 1..(k - 1) /\ g[i] = i
          BY <2>1, <2>2, <2>4, <4>1
        <5> QED
          BY <2>2, <3>1, <3>2, <4>1, <5>1
      <4>2. CASE ~(i < k)
        <5>1. ~(i <= Len(a)) /\ i - Len(a) \in 1..(n - k) /\ k + (i - Len(a)) = i + 1
          BY <2>1, <2>2, <4>2
        <5>2. g[i] = i + 1
          BY <2>4, <4>2
        <5> QED
          BY <2>3, <3>1, <3>2, <5>1, <5>2
      <4> QED
        BY <4>1, <4>2
    <3> QED
      BY <3>1, <3>2, <3>3, LenProperties
  <2>6. ASSUME NEW j \in 1..n, j # k
        PROVE  \E i \in 1..(n - 1) : g[i] = j
    <3>1. CASE j < k
      <4>1. j \in 1..(n - 1) /\ g[j] = j
        BY <2>1, <2>4, <3>1
      <4> QED
        BY <4>1
    <3>2. CASE ~(j < k)
      <4>1. j - 1 \in 1..(n - 1) /\ ~(j - 1 < k) /\ j - 1 + 1 = j
        BY <2>1, <2>6, <3>2
      <4>2. g[j - 1] = j
        BY <2>4, <4>1
      <4> QED
        BY <4>1, <4>2
    <3> QED
      BY <3>1, <3>2
  <2>7. /\ g \in [DOMAIN r -> DOMAIN s]
        /\ \A i \in DOMAIN r : r[i] = s[g[i]]
        /\ \A i, j \in DOMAIN r : i < j => g[i] < g[j]
        /\ \A i, j \in DOMAIN r : g[i] = g[j] => i = j
    BY <2>1, <2>4, <2>5
  <2>8. /\ ToSet(r) \subseteq ToSet(s) /\ IsInjective(r)
        /\ \A y, z : Earlier(r, y, z) => Earlier(s, y, z)
    BY <2>5, <2>7, Thinned
  <2>9. x \notin ToSet(r)
    BY <2>0, <2>1, <2>4, <2>5 DEF ToSet, IsInjective
  <2>10. \A y : y \in ToSet(s) /\ y # x => y \in ToSet(r)
    <3> SUFFICES ASSUME NEW j \in 1..n, s[j] # x
                 PROVE  s[j] \in ToSet(r)
      BY <2>1 DEF ToSet
    <3>1. PICK i \in 1..(n - 1) : g[i] = j
      BY <2>0, <2>6
    <3> QED
      BY <2>5, <3>1 DEF ToSet
  <2>11. n - 1 + 1 = n /\ n - 1 <= n
    BY <2>1
  <2> QED
    BY <2>5, <2>8, <2>9, <2>10, <2>11 DEF r, n
<1> QED
  BY <1>1, <1>2

(* The kinds of frames differ.                                             *)
LEMMA Kinds ==
  /\ \A m, n : (Cmd(m) = Cmd(n) => m = n) /\ (Ack(m) = Ack(n) => m = n)
  /\ \A m, k : Cmd(m) # Hello(k)
  /\ \A m : Ack(m) # Announcement
<1>1. \A m, n : (Cmd(m) = Cmd(n) => m = n) /\ (Ack(m) = Ack(n) => m = n)
  BY DEF Cmd, Ack
<1>2. \A m, k : Cmd(m) # Hello(k)
  BY DEF Cmd, Hello
<1>3. ASSUME NEW m, Ack(m) = Announcement
      PROVE  FALSE
  <2>1. Len(Ack(m)) = 2 /\ Len(Announcement) = 1
    BY DEF Ack, Announcement
  <2> QED
    BY <1>3, <2>1
<1> QED
  BY <1>1, <1>2, <1>3

(* In a sequence without repetitions two items have one order.             *)
LEMMA OneOrder ==
  ASSUME NEW S, NEW s \in Seq(S), IsInjective(s)
  PROVE  /\ \A x, y : ~(Earlier(s, x, y) /\ Earlier(s, y, x))
         /\ \A x, y : x \in ToSet(s) /\ y \in ToSet(s) /\ x # y
                        => Earlier(s, x, y) \/ Earlier(s, y, x)
         /\ \A x, y : Earlier(s, x, y) => x # y /\ x \in ToSet(s) /\ y \in ToSet(s)
<1>1. Len(s) \in Nat /\ DOMAIN s = 1..Len(s)
  BY InSet
<1>2. ASSUME NEW x, NEW y, Earlier(s, x, y), Earlier(s, y, x)
      PROVE  FALSE
  BY <1>1, <1>2 DEF Earlier, IsInjective
<1>3. ASSUME NEW x \in ToSet(s), NEW y \in ToSet(s), x # y
      PROVE  Earlier(s, x, y) \/ Earlier(s, y, x)
  <2>1. PICK i \in DOMAIN s, j \in DOMAIN s : s[i] = x /\ s[j] = y
    BY DEF ToSet
  <2>2. i < j \/ j < i
    BY <1>1, <1>3, <2>1
  <2> QED
    BY <2>1, <2>2 DEF Earlier
<1>4. ASSUME NEW x, NEW y, Earlier(s, x, y)
      PROVE  x # y /\ x \in ToSet(s) /\ y \in ToSet(s)
  BY <1>1, <1>4 DEF Earlier, IsInjective, ToSet
<1> QED
  BY <1>2, <1>3, <1>4

(* What the preamble of a client repeats.                                  *)
LEMMA PreambleIs ==
  ASSUME TypeOK, NEW c \in Clients, NEW k \in 1..MaxConns
  PROVE  /\ Preamble(c, k) \in Seq(Sent)
         /\ \A m : Cmd(m) \in ToSet(Preamble(c, k)) <=> m \in ToSet(outbox[c])
         /\ \A i : Hello(i) \in ToSet(Preamble(c, k)) => i = k
         /\ \A m, n : (n \in ToSet(outbox[c]) => Earlier(outbox[c], m, n))
                        => Ahead(Preamble(c, k), Cmd(m), Cmd(n))
<1> DEFINE o == outbox[c]
           b == [i \in DOMAIN o |-> Cmd(o[i])]
           p == Preamble(c, k)
<1>1. o \in Seq(Commands) /\ IsInjective(o)
  BY DEF TypeOK
<1> HIDE DEF o
<1>2. Len(o) \in Nat /\ DOMAIN o = 1..Len(o) /\ \A i \in 1..Len(o) : o[i] \in Commands
  BY <1>1, InSet
<1>3. /\ b \in [1..Len(o) -> Sent]
      /\ \A i \in 1..Len(o) : b[i] = Cmd(o[i])
  BY <1>2 DEF Sent
<1>4. b \in Seq(Sent) /\ Len(b) = Len(o)
  <2>1. b \in Seq(Sent)
    BY <1>2, <1>3, SeqDef
  <2>2. DOMAIN b = 1..Len(b) /\ Len(b) \in Nat /\ DOMAIN b = 1..Len(o)
    BY <1>2, <2>1, LenProperties
  <2>3. Len(b) = Len(o)
    BY <1>2, <2>2
  <2> QED
    BY <2>1, <2>3
<1>5. p = <<Hello(k)>> \o b
  BY DEF Preamble, o
<1>6. <<Hello(k)>> \in Seq(Sent) /\ Len(<<Hello(k)>>) = 1 /\ <<Hello(k)>>[1] = Hello(k)
  BY DEF Sent
<1> HIDE DEF b
<1>7. /\ p \in Seq(Sent) /\ Len(p) = 1 + Len(o)
      /\ \A i \in 1..(1 + Len(o)) : p[i] = IF i <= 1 THEN <<Hello(k)>>[i] ELSE b[i - 1]
  BY <1>4, <1>5, <1>6, ConcatProperties
<1> HIDE DEF p
<1>8. /\ DOMAIN p = 1..(1 + Len(o))
      /\ p[1] = Hello(k)
      /\ \A i \in 1..Len(o) : i + 1 \in DOMAIN p /\ p[i + 1] = Cmd(o[i])
      /\ \A i \in DOMAIN p : i = 1 \/ (i - 1 \in 1..Len(o) /\ p[i] = Cmd(o[i - 1]) /\ i - 1 + 1 = i)
  <2>1. DOMAIN p = 1..(1 + Len(o))
    BY <1>7, LenProperties
  <2>2. p[1] = Hello(k)
    BY <1>2, <1>6, <1>7
  <2>3. ASSUME NEW i \in 1..Len(o)
        PROVE  i + 1 \in DOMAIN p /\ p[i + 1] = Cmd(o[i])
    <3>1. i + 1 \in 1..(1 + Len(o)) /\ ~(i + 1 <= 1) /\ i + 1 - 1 = i
      BY <1>2
    <3> QED
      BY <1>3, <1>7, <2>1, <3>1
  <2>4. ASSUME NEW i \in DOMAIN p, i # 1
        PROVE  i - 1 \in 1..Len(o) /\ p[i] = Cmd(o[i - 1]) /\ i - 1 + 1 = i
    <3>1. i \in 1..(1 + Len(o)) /\ ~(i <= 1) /\ i - 1 \in 1..Len(o) /\ i - 1 + 1 = i
      BY <1>2, <2>1, <2>4
    <3> QED
      BY <1>3, <1>7, <3>1
  <2> QED
    BY <2>1, <2>2, <2>3, <2>4
<1>9. ASSUME NEW m
      PROVE  Cmd(m) \in ToSet(p) <=> m \in ToSet(o)
  <2>1. ASSUME NEW i \in DOMAIN p, p[i] = Cmd(m)
        PROVE  m \in ToSet(o)
    <3>1. i # 1
      BY <1>8, <2>1, Kinds
    <3>2. i - 1 \in 1..Len(o) /\ Cmd(o[i - 1]) = Cmd(m)
      BY <1>8, <2>1, <3>1
    <3>3. i - 1 \in DOMAIN o /\ o[i - 1] = m
      BY <1>2, <3>2, Kinds
    <3> QED
      BY <3>3 DEF ToSet
  <2>2. ASSUME NEW i \in DOMAIN o, o[i] = m
        PROVE  Cmd(m) \in ToSet(p)
    BY <1>2, <1>8, <2>2 DEF ToSet
  <2> QED
    BY <2>1, <2>2 DEF ToSet
<1>10. \A i : Hello(i) \in ToSet(p) => i = k
  <2>1. \A i, j : Hello(i) = Hello(j) => i = j
    BY DEF Hello
  <2> QED
    BY <1>8, <2>1, Kinds DEF ToSet
<1>11. ASSUME NEW m, NEW n, n \in ToSet(o) => Earlier(o, m, n)
       PROVE  Ahead(p, Cmd(m), Cmd(n))
  <2> SUFFICES ASSUME NEW j \in DOMAIN p, p[j] = Cmd(n)
               PROVE  \E i \in DOMAIN p : i < j /\ p[i] = Cmd(m)
    BY DEF Ahead
  <2>1. j - 1 \in 1..Len(o) /\ o[j - 1] = n /\ j - 1 + 1 = j
    BY <1>8, Kinds
  <2>2. Earlier(o, m, n)
    BY <1>2, <1>11, <2>1 DEF ToSet
  <2>3. PICK x \in 1..Len(o), y \in 1..Len(o) : x < y /\ o[x] = m /\ o[y] = n
    BY <1>2, <2>2 DEF Earlier
  <2>4. y = j - 1
    BY <1>1, <1>2, <2>1, <2>3 DEF IsInjective
  <2>5. x + 1 \in DOMAIN p /\ p[x + 1] = Cmd(m) /\ x + 1 < j
    BY <1>2, <1>8, <2>1, <2>3, <2>4
  <2> QED
    BY <2>5
<1> QED
  BY <1>7, <1>9, <1>10, <1>11 DEF o, p

(* If an id is the least recent of 2 * w ones, and none of them is w or    *)
(* more older than it, then w newer ones were issued.                      *)
LEMMA FarBack ==
  ASSUME NEW S, NEW s \in Seq(S), NEW t \in Seq(S), IsInjective(s), IsInjective(t),
         ToSet(s) \subseteq ToSet(t), NEW w \in Nat \ {0}, 2 * w <= Len(s),
         NEW a \in DOMAIN t, t[a] = Head(s),
         \A x, y : Earlier(s, x, y) =>
           \A i, j \in DOMAIN t : t[i] = x /\ t[j] = y => i < j + w
  PROVE  ~(Len(t) < a + w)
<1> DEFINE f == [p \in 1..Len(s) |-> CHOOSE j \in DOMAIN t : t[j] = s[p]]
           I == (a - w + 1)..Len(t)
<1>1. /\ Len(s) \in Nat /\ DOMAIN s = 1..Len(s)
      /\ Len(t) \in Nat /\ DOMAIN t = 1..Len(t)
      /\ s # <<>> => Head(s) = s[1]
  BY InSet
<1>2. 1 \in 1..Len(s) /\ s[1] = t[a]
  <2>1. Len(s) > 0
    BY <1>1
  <2>2. s # <<>>
    BY <1>1, <2>1, EmptySeq
  <2> QED
    BY <1>1, <2>1, <2>2
<1>3. ASSUME NEW p \in 1..Len(s)
      PROVE  f[p] \in DOMAIN t /\ t[f[p]] = s[p]
  <2>1. \E j \in DOMAIN t : t[j] = s[p]
    BY <1>1 DEF ToSet
  <2> QED
    BY <2>1
<1> HIDE DEF f
<1>4. ASSUME NEW p \in 1..Len(s)
      PROVE  f[p] \in I
  <2>1. CASE s[p] = t[a]
    <3>1. f[p] = a
      BY <1>3, <2>1 DEF IsInjective
    <3> QED
      BY <1>1, <3>1
  <2>2. CASE s[p] # t[a]
    <3>1. 1 < p
      BY <1>1, <1>2, <2>2
    <3>2. Earlier(s, s[1], s[p])
      BY <1>1, <1>2, <3>1 DEF Earlier
    <3>3. a < f[p] + w
      BY <1>2, <1>3, <3>2
    <3> QED
      BY <1>1, <1>3, <3>3
  <2> QED
    BY <2>1, <2>2
<1>5. f \in Injection(1..Len(s), I)
  <2>1. f \in [1..Len(s) -> I]
    BY <1>4 DEF f
  <2>2. ASSUME NEW p \in 1..Len(s), NEW q \in 1..Len(s), f[p] = f[q]
        PROVE  p = q
    BY <1>1, <1>3, <2>2, SMTT(30) DEF IsInjective
  <2> QED
    BY <2>1, <2>2 DEF Injection, IsInjective
<1>6. Len(s) <= Len(t) - (a - w + 1) + 1
  <2>1. a - w + 1 \in Int /\ Len(t) \in Int /\ ~(a - w + 1 > Len(t)) /\ 1 \in Int
    BY <1>1
  <2>2. IsFiniteSet(I) /\ Cardinality(I) = Len(t) - (a - w + 1) + 1
    BY <2>1, FS_Interval
  <2>3. Cardinality(1..Len(s)) = Len(s)
    <3>1. Cardinality(1..Len(s)) = IF 1 > Len(s) THEN 0 ELSE Len(s) - 1 + 1
      BY <1>1, FS_Interval
    <3> QED
      BY <1>1, <3>1
  <2>4. Cardinality(1..Len(s)) <= Cardinality(I)
    BY <1>5, <2>2, FS_Injection
  <2> QED
    BY <2>2, <2>3, <2>4
<1> QED
  BY <1>1, <1>6

-----------------------------------------------------------------------------
(* Types.                                                                  *)

LEMMA Constants ==
  /\ OutboxCap \in Nat \ {0} /\ IdsPerClient \in Nat \ {0} /\ MaxConns \in Nat \ {0}
  /\ Serial \subseteq Commands /\ Tasks \subseteq Commands /\ Safe \subseteq Serial
  /\ \A m \in Serial : m \notin Tasks
  /\ Free \notin Commands
  /\ \A m \in Commands : Owner[m] \in Clients
BY DeliveryAssumption DEF Commands

(* The frames that the parts of the wrapper and the relay put in queues.   *)
LEMMA FrameTypes ==
  /\ \A m \in Commands : Cmd(m) \in Sent /\ Ack(m) \in Told
  /\ \A k \in 1..MaxConns : Hello(k) \in Sent
  /\ Announcement \in Told
BY DEF Sent, Told

(* The socket of a preamble has a number.                                  *)
LEMMA Numbered ==
  ASSUME TypeOK, Sockets, NEW c \in Clients
  PROVE  /\ ~open[c] => conn[c] + 1 \in 1..MaxConns
         /\ open[c] \/ toClient[c] # <<>> => open[c] /\ conn[c] \in 1..MaxConns
<1>1. conn[c] \in 0..MaxConns /\ open[c] \in BOOLEAN
  BY DEF TypeOK
<1>2. IF open[c] THEN conn[c] > 0 ELSE conn[c] < MaxConns /\ toClient[c] = <<>>
  BY DEF Sockets
<1> QED
  BY <1>1, <1>2, Constants

(* A browser's new command is nowhere yet.                                 *)
LEMMA IsNew ==
  ASSUME IInv, NEW m \in Commands, SendTracked(m)
  PROVE  /\ m \notin ToSet(outbox[Owner[m]]) /\ m \notin ToSet(issued[Owner[m]])
         /\ ~Issued(m) /\ ~Present(m) /\ ~Seen(m) /\ m \notin ToSet(started)
         /\ ~(ran[m] > 0)
<1>1. ~Issued(m) /\ m \notin ToSet(issued[Owner[m]])
  BY DEF SendTracked, Issued
<1>2. ~Present(m) /\ ~Seen(m) /\ m \notin ToSet(started) /\ ~(ran[m] > 0)
  BY <1>1 DEF IInv, Origin
<1> QED
  BY <1>1, <1>2 DEF Present

LEMMA SendTyped ==
  ASSUME IInv, NEW m \in Commands, SendTracked(m)
  PROVE  TypeOK'
<1> USE Constants
<1> PICK c \in Clients : c = Owner[m]
  OBVIOUS
<1>0. TypeOK
  BY DEF IInv
<1>1. /\ outbox[c] \in Seq(Commands) /\ issued[c] \in Seq(Commands)
      /\ IsInjective(outbox[c]) /\ Len(outbox[c]) \in Nat /\ toRelay[c] \in Seq(Sent)
  BY <1>0, LenProperties DEF TypeOK
<1>2. /\ Append(outbox[c], m) \in Seq(Commands) /\ Len(Append(outbox[c], m)) = Len(outbox[c]) + 1
      /\ IsInjective(Append(outbox[c], m))
  BY <1>1, IsNew, Appending
<1>3. Append(issued[c], m) \in Seq(Commands)
  BY <1>1, Appending
<1>4. Append(toRelay[c], Cmd(m)) \in Seq(Sent)
  BY <1>1, FrameTypes, Appending
<1>5. Len(outbox[c]) + 1 <= OutboxCap
  BY <1>1 DEF SendTracked, Room
<1> QED
  BY <1>0, <1>2, <1>3, <1>4, <1>5 DEF SendTracked, TypeOK, relay, work

LEMMA ResendTyped ==
  ASSUME TypeOK, NEW c \in Clients, NEW k \in 1..MaxConns,
         toRelay' = [toRelay EXCEPT ![c] = @ \o Preamble(c, k)]
  PROVE  toRelay' \in [Clients -> Seq(Sent)]
<1>1. toRelay[c] \in Seq(Sent) /\ toRelay \in [Clients -> Seq(Sent)]
  BY DEF TypeOK
<1>2. Preamble(c, k) \in Seq(Sent)
  BY PreambleIs
<1>3. toRelay[c] \o Preamble(c, k) \in Seq(Sent)
  BY <1>1, <1>2, Joining
<1> QED
  BY <1>1, <1>3

Counts == [closes : Nat, losses : Nat, lives : Nat, failures : Nat]

LEMMA Counted ==
  ASSUME NEW n \in Counts
  PROVE  /\ [n EXCEPT !.closes = @ + 1] \in Counts
         /\ [n EXCEPT !.losses = @ + 1] \in Counts
         /\ [n EXCEPT !.lives = @ + 1] \in Counts
         /\ [n EXCEPT !.failures = @ + 1] \in Counts
<1>1. n.closes + 1 \in Nat /\ n.losses + 1 \in Nat /\ n.lives + 1 \in Nat /\ n.failures + 1 \in Nat
  BY DEF Counts
<1> QED
  BY <1>1, Zenon DEF Counts

LEMMA BrowserTyped ==
  ASSUME IInv, NEW c \in Clients, Open(c) \/ Close(c) \/ ClientRead(c)
  PROVE  TypeOK'
<1> USE Constants
<1>0. TypeOK /\ Sockets
  BY DEF IInv
<1>1. CASE Open(c)
  <2>1. conn[c] + 1 \in 1..MaxConns /\ conn'[c] = conn[c] + 1
    BY <1>0, <1>1, Numbered DEF Open, TypeOK
  <2>2. toRelay' \in [Clients -> Seq(Sent)]
    BY <1>0, <1>1, <2>1, ResendTyped DEF Open
  <2>3. /\ conn \in [Clients -> 0..MaxConns] /\ routed \in [Clients -> 0..MaxConns]
        /\ \A d \in Clients : routed[d] <= conn[d]
    BY <1>0 DEF TypeOK
  <2>4. conn' = [conn EXCEPT ![c] = conn[c] + 1]
    BY <1>1 DEF Open
  <2>5. /\ conn' \in [Clients -> 0..MaxConns]
        /\ \A d \in Clients : routed[d] <= conn'[d]
    BY <2>1, <2>3, <2>4
  <2> QED
    BY <1>0, <1>1, <2>2, <2>5 DEF Open, TypeOK, relay, work, history
<1>2. CASE Close(c)
  <2>1. PICK n \in 0..Len(toRelay[c]) : toRelay' = [toRelay EXCEPT ![c] = SubSeq(@, 1, n)]
    BY <1>2 DEF Close
  <2>2. SubSeq(toRelay[c], 1, n) \in Seq(Sent)
    BY <1>0, CutOff DEF TypeOK
  <2>3. <<>> \in Seq(Told)
    BY NothingIn
  <2> QED
    BY <1>0, <1>2, <2>1, <2>2, <2>3, Counted DEF Counts, Close, TypeOK, relay, work
<1>3. CASE ClientRead(c)
  <2>1. toClient[c] \in Seq(Told) /\ toClient[c] # <<>>
    BY <1>0, <1>3 DEF ClientRead, TypeOK
  <2>2. Tail(toClient[c]) \in Seq(Told)
    BY <2>1, Shifting
  <2>3. CASE TakeAck(c)
    <3>1. PICK m \in Commands : outbox' = [outbox EXCEPT ![c] = Without(@, m)]
      BY <2>3 DEF TakeAck
    <3>2. outbox[c] \in Seq(Commands) /\ IsInjective(outbox[c]) /\ Len(outbox[c]) \in Nat
          /\ Len(outbox[c]) <= OutboxCap
      BY <1>0, LenProperties DEF TypeOK
    <3>3. /\ Without(outbox[c], m) \in Seq(Commands) /\ IsInjective(Without(outbox[c], m))
          /\ Len(Without(outbox[c], m)) <= Len(outbox[c])
      BY <3>2, Removing
    <3>4. Len(Without(outbox[c], m)) <= OutboxCap
      BY <3>2, <3>3, LenProperties
    <3> QED
      BY <1>0, <1>3, <2>2, <2>3, <3>1, <3>3, <3>4
         DEF ClientRead, TakeAck, TypeOK, relay, work, history
  <2>4. CASE TakeAnnouncement(c)
    <3>1. conn[c] \in 1..MaxConns
      BY <1>0, <2>1, Numbered
    <3>2. toRelay' \in [Clients -> Seq(Sent)]
      BY <1>0, <2>4, <3>1, ResendTyped DEF TakeAnnouncement
    <3> QED
      BY <1>0, <1>3, <2>2, <2>4, <3>2
         DEF ClientRead, TakeAnnouncement, TypeOK, relay, work, history
  <2> QED
    BY <1>3, <2>3, <2>4 DEF ClientRead
<1> QED
  BY <1>1, <1>2, <1>3

LEMMA RelayTyped ==
  ASSUME IInv,
         \/ \E c \in Clients : RelayRead(c)
         \/ Attach \/ Announce \/ RouteAck \/ LinkDown \/ LinkUp
  PROVE  TypeOK'
<1> USE Constants
<1>0. TypeOK /\ Sockets
  BY DEF IInv
<1>1. ASSUME NEW c \in Clients, RelayRead(c)
      PROVE  TypeOK'
  <2>1. toRelay[c] \in Seq(Sent) /\ toRelay[c] # <<>> /\ toWrapper \in Seq(Commands)
    BY <1>0, <1>1 DEF RelayRead, TypeOK
  <2>2. Tail(toRelay[c]) \in Seq(Sent) /\ Head(toRelay[c]) \in ToSet(toRelay[c])
    BY <2>1, Shifting
  <2>3. CASE \E k \in 1..MaxConns :
               /\ Head(toRelay[c]) = Hello(k)
               /\ routed' = [routed EXCEPT ![c] = k]
               /\ UNCHANGED toWrapper
    <3>1. PICK k \in 1..MaxConns : /\ Head(toRelay[c]) = Hello(k)
                                  /\ routed' = [routed EXCEPT ![c] = k]
                                  /\ UNCHANGED toWrapper
      BY <2>3
    <3>2. k <= conn[c] /\ k \in 0..MaxConns
      BY <1>0, <2>2, <3>1 DEF Sockets
    <3> QED
      BY <1>0, <1>1, <2>2, <3>1, <3>2 DEF RelayRead, TypeOK, browser, work, history
  <2>4. CASE \E m \in Commands :
               /\ Head(toRelay[c]) = Cmd(m)
               /\ toWrapper' = IF attached THEN Append(toWrapper, m) ELSE toWrapper
               /\ UNCHANGED routed
    <3>1. toWrapper' \in Seq(Commands)
      BY <2>1, <2>4, Appending
    <3> QED
      BY <1>0, <1>1, <2>2, <2>4, <3>1 DEF RelayRead, TypeOK, browser, work, history
  <2> QED
    BY <1>1, <2>3, <2>4 DEF RelayRead
<1>2. CASE Attach
  BY <1>0, <1>2 DEF Attach, TypeOK, browser, frames, work, history
<1>3. CASE Announce
  <2>1. Tail(fromWrapper) \in Seq(Told)
    BY <1>0, <1>3, Shifting DEF Announce, TypeOK
  <2>2. \A c \in Clients : Append(toClient[c], Announcement) \in Seq(Told)
    BY <1>0, FrameTypes, Appending DEF TypeOK
  <2> QED
    BY <1>0, <1>3, <2>1, <2>2 DEF Announce, TypeOK, browser, relay, work, history
<1>4. CASE RouteAck
  <2>1. Tail(fromWrapper) \in Seq(Told)
    BY <1>0, <1>4, Shifting DEF RouteAck, TypeOK
  <2>2. PICK m \in Commands :
          toClient' = IF Reaches(Owner[m])
                      THEN [toClient EXCEPT ![Owner[m]] = Append(@, Ack(m))]
                      ELSE toClient
    BY <1>4 DEF RouteAck
  <2>3. \A c \in Clients : Append(toClient[c], Ack(m)) \in Seq(Told)
    BY <1>0, FrameTypes, Appending DEF TypeOK
  <2>4. toClient' \in [Clients -> Seq(Told)]
    BY <1>0, <2>2, <2>3 DEF TypeOK
  <2> QED
    BY <1>0, <1>4, <2>1, <2>4 DEF RouteAck, TypeOK, browser, relay, work, history
<1>5. CASE LinkDown
  <2>1. toWrapper' \in Seq(Commands)
    BY <1>0, <1>5, CutOff DEF LinkDown, TypeOK
  <2>2. <<>> \in Seq(Told)
    BY NothingIn
  <2> QED
    BY <1>0, <1>5, <2>1, <2>2, Counted DEF Counts, LinkDown, TypeOK, browser, work
<1>6. CASE LinkUp
  <2>1. <<Announcement>> \in Seq(Told)
    BY FrameTypes
  <2> QED
    BY <1>0, <1>6, <2>1 DEF LinkUp, TypeOK, browser, relay, work, history
<1> QED
  BY <1>1, <1>2, <1>3, <1>4, <1>5, <1>6

-----------------------------------------------------------------------------
(* The wrapper's memory.                                                   *)

(* r is s with x as the most recent.                                       *)
LEMMA Renewing ==
  ASSUME NEW S, NEW s \in Seq(S), IsInjective(s), NEW x \in S
  PROVE  LET r == Append(Without(s, x), x)
         IN /\ r \in Seq(S) /\ IsInjective(r)
            /\ \A y : y \in ToSet(r) <=> y \in ToSet(s) \/ y = x
            /\ Len(r) <= Len(s) + 1
            /\ x \in ToSet(s) => Len(r) = Len(s)
            /\ \A y, z : Earlier(r, y, z) => Earlier(s, y, z) \/ (z = x /\ y \in ToSet(s))
<1> DEFINE q == Without(s, x)
           r == Append(q, x)
<1>1. /\ q \in Seq(S) /\ IsInjective(q)
      /\ \A y : y \in ToSet(q) <=> y \in ToSet(s) /\ y # x
      /\ Len(q) <= Len(s)
      /\ x \in ToSet(s) => Len(q) + 1 = Len(s)
      /\ \A y, z : Earlier(q, y, z) => Earlier(s, y, z)
  BY Removing
<1>2. Len(q) \in Nat /\ Len(s) \in Nat
  BY <1>1, LenProperties
<1> HIDE DEF q
<1>3. /\ r \in Seq(S) /\ Len(r) = Len(q) + 1
      /\ \A y : y \in ToSet(r) <=> y \in ToSet(q) \/ y = x
      /\ IsInjective(r)
      /\ \A y, z : Earlier(r, y, z) <=> Earlier(q, y, z) \/ (z = x /\ y \in ToSet(q))
  BY <1>1, Appending
<1> HIDE DEF r
<1>4. Len(r) <= Len(s) + 1 /\ (x \in ToSet(s) => Len(r) = Len(s))
  BY <1>1, <1>2, <1>3
<1> QED
  BY <1>1, <1>3, <1>4 DEF q, r

(* x is dropped from the full memory of c when m comes.                    *)
Forgets(c, m, x) ==
  \E ids \in Seq(Commands) :
    /\ IsInjective(ids) /\ Len(ids) > IdsPerClient /\ Head(ids) = x
    /\ \A y \in ToSet(ids) : y \in ToSet(known[c]) \/ y = m
    /\ \A y, z : Earlier(ids, y, z) =>
         Earlier(known[c], y, z) \/ (z = m /\ y \in ToSet(known[c]))

(* m becomes the most recent id of its client.                             *)
Recalls(m) ==
  /\ known' \in [Clients -> Seq(Commands)]
  /\ \A c \in Clients : /\ IsInjective(known'[c]) /\ Len(known'[c]) <= IdsPerClient
                        /\ c # Owner[m] => known'[c] = known[c]
  /\ LET old == known[Owner[m]]
         new == known'[Owner[m]]
     IN /\ m \in ToSet(new)
        /\ \A x \in ToSet(new) : x \in ToSet(old) \/ x = m
        /\ \A x \in ToSet(old) : x \in ToSet(new) \/ Forgets(Owner[m], m, x)
        /\ \A x, y : Earlier(new, x, y) =>
             Earlier(old, x, y) \/ (y = m /\ x \in ToSet(old))

LEMMA MemoryMoves ==
  ASSUME TypeOK, NEW m \in Commands, (Seen(m) /\ Touch(m)) \/ Remember(m)
  PROVE  Recalls(m)
<1> PICK c \in Clients : c = Owner[m]
  BY Constants
<1>1. /\ known[c] \in Seq(Commands) /\ IsInjective(known[c])
      /\ Len(known[c]) <= IdsPerClient /\ Len(known[c]) \in Nat
  BY LenProperties DEF TypeOK
<1>2. PICK r : r = Append(Without(known[c], m), m)
  OBVIOUS
<1>3. /\ r \in Seq(Commands) /\ IsInjective(r)
      /\ \A y : y \in ToSet(r) <=> y \in ToSet(known[c]) \/ y = m
      /\ Len(r) <= Len(known[c]) + 1
      /\ m \in ToSet(known[c]) => Len(r) = Len(known[c])
      /\ \A y, z : Earlier(r, y, z)
           => Earlier(known[c], y, z) \/ (z = m /\ y \in ToSet(known[c]))
  BY <1>1, <1>2, Renewing
<1>4. Len(r) \in Nat
  BY <1>3, LenProperties
<1>5. IdsPerClient \in Nat \ {0}
  BY Constants
<1>6. CASE known' = [known EXCEPT ![c] = r] /\ Len(r) <= IdsPerClient
  <2>1. known' \in [Clients -> Seq(Commands)] /\ known'[c] = r
        /\ \A d \in Clients : d # c => known'[d] = known[d]
    BY <1>3, <1>6 DEF TypeOK
  <2>2. \A d \in Clients : IsInjective(known'[d]) /\ Len(known'[d]) <= IdsPerClient
    BY <1>3, <1>6, <2>1 DEF TypeOK
  <2> QED
    BY <1>3, <2>1, <2>2 DEF Recalls
<1>7. CASE known' = [known EXCEPT ![c] = Tail(r)] /\ Len(r) > IdsPerClient
  <2>1. r # <<>> /\ Len(r) > 1
    BY <1>4, <1>5, <1>7, NothingIn
  <2>2. /\ Tail(r) \in Seq(Commands) /\ Len(Tail(r)) = Len(r) - 1
        /\ \A x : x \in ToSet(r) <=> x \in ToSet(Tail(r)) \/ x = Head(r)
        /\ IsInjective(Tail(r)) /\ Head(r) \notin ToSet(Tail(r))
        /\ \A x, y : Earlier(Tail(r), x, y) => Earlier(r, x, y)
    BY <1>3, <2>1, Shifting
  <2>3. known' \in [Clients -> Seq(Commands)] /\ known'[c] = Tail(r)
        /\ \A d \in Clients : d # c => known'[d] = known[d]
    BY <1>7, <2>2 DEF TypeOK
  <2>4. Len(Tail(r)) <= IdsPerClient
    BY <1>1, <1>3, <1>4, <1>5, <2>2
  <2>5. \A d \in Clients : IsInjective(known'[d]) /\ Len(known'[d]) <= IdsPerClient
    BY <2>2, <2>3, <2>4 DEF TypeOK
  <2>6. Forgets(c, m, Head(r))
    BY <1>3, <1>7 DEF Forgets
  <2>7. m \in ToSet(Tail(r))
    <3>1. Len(r) \in DOMAIN r /\ r[Len(r)] = m /\ r[1] = Head(r) /\ 1 \in DOMAIN r
      <4>1. Without(known[c], m) \in Seq(Commands)
        BY <1>1, Removing
      <4>2. r[Len(r)] = m
        BY <1>2, <4>1, AppendProperties
      <4> QED
        BY <1>3, <1>4, <2>1, <4>2, InSet
    <3>2. Head(r) # m
      BY <1>3, <1>4, <2>1, <3>1 DEF IsInjective
    <3> QED
      BY <1>3, <2>2, <3>2
  <2> QED
    BY <1>3, <2>2, <2>3, <2>5, <2>6, <2>7 DEF Recalls
<1>8. CASE Seen(m) /\ Touch(m)
  <2>1. m \in ToSet(known[c]) /\ Len(r) <= IdsPerClient
    BY <1>1, <1>3, <1>8 DEF Seen
  <2>2. known' = [known EXCEPT ![c] = r]
    BY <1>2, <1>8 DEF Touch
  <2> QED
    BY <1>6, <2>1, <2>2
<1>9. CASE Remember(m)
  <2>1. known' = [known EXCEPT ![c] = IF Len(r) > IdsPerClient THEN Tail(r) ELSE r]
    BY <1>2, <1>9 DEF Remember
  <2>2. CASE Len(r) > IdsPerClient
    BY <1>7, <2>1, <2>2
  <2>3. CASE ~(Len(r) > IdsPerClient)
    BY <1>4, <1>5, <1>6, <2>1, <2>3
  <2> QED
    BY <2>2, <2>3
<1> QED
  BY <1>8, <1>9

(* The four ways in which the lane takes a command.                        *)
Repeats(m) ==
  /\ Seen(m) /\ Recalls(m)
  /\ \/ m \in Safe /\ lane' = m /\ again' = TRUE /\ fromWrapper' = fromWrapper
     \/ m \notin Safe /\ SendAck(m) /\ lane' = lane /\ again' = again
  /\ running' = running /\ started' = started

Begins(m) ==
  /\ m \in Serial /\ ~Seen(m)
  /\ lane' = m /\ again' = FALSE
  /\ started' = IF m \in ToSet(started) THEN started ELSE Append(started, m)
  /\ running' = running /\ known' = known /\ fromWrapper' = fromWrapper

StartsTask(m) ==
  /\ m \in Tasks /\ ~Seen(m) /\ ~(running[m] > 0)
  /\ running' = [running EXCEPT ![m] = @ + 1]
  /\ UNCHANGED <<lane, again, known, fromWrapper, started>>

Drops(m) == m \in Tasks /\ UNCHANGED <<lane, again, running, known, fromWrapper, started>>

LEMMA TakeIs ==
  ASSUME TypeOK, Take
  PROVE  /\ lane = Free /\ toWrapper # <<>> /\ toWrapper' = Tail(toWrapper)
         /\ \E m \in Commands :
              /\ m = Head(toWrapper)
              /\ Repeats(m) \/ Begins(m) \/ StartsTask(m) \/ Drops(m)
         /\ UNCHANGED <<browser, relay, up, toRelay, toClient, issued, ran, done, raised, count>>
<1>1. toWrapper # <<>> /\ toWrapper \in Seq(Commands)
  BY DEF Take, TypeOK
<1>2. PICK m \in Commands : m = Head(toWrapper)
  BY <1>1, InSet
<1>3. ASSUME Seen(m), Repeat(m)
      PROVE  Repeats(m)
  <2>1. Recalls(m)
    BY <1>3, MemoryMoves DEF Repeat
  <2> QED
    BY <1>3, <2>1 DEF Repeat, Repeats
<1>4. ASSUME TakeSerial(m)
      PROVE  Repeats(m) \/ Begins(m)
  <2>1. CASE Seen(m)
    BY <1>3, <1>4, <2>1 DEF TakeSerial
  <2>2. CASE ~Seen(m)
    BY <1>4, <2>2 DEF TakeSerial, Begins
  <2> QED
    BY <2>1, <2>2
<1>5. ASSUME TakeTask(m)
      PROVE  Repeats(m) \/ StartsTask(m) \/ Drops(m)
  <2>1. CASE Coalesced(m)
    BY <1>5, <2>1 DEF TakeTask, Drops, work
  <2>2. CASE ~Coalesced(m) /\ Seen(m)
    BY <1>3, <1>5, <2>2 DEF TakeTask
  <2>3. CASE ~Coalesced(m) /\ ~Seen(m)
    BY <1>5, <2>3 DEF TakeTask, StartsTask, Coalesced
  <2> QED
    BY <2>1, <2>2, <2>3
<1>6. TakeSerial(m) \/ TakeTask(m)
  BY <1>2 DEF Take
<1>7. Repeats(m) \/ Begins(m) \/ StartsTask(m) \/ Drops(m)
  BY <1>4, <1>5, <1>6
<1> QED
  BY <1>2, <1>7 DEF Take

LEMMA AckTyped ==
  ASSUME TypeOK, NEW m \in Commands, SendAck(m)
  PROVE  /\ fromWrapper' \in Seq(Told)
         /\ \A x : x \in ToSet(fromWrapper') => x \in ToSet(fromWrapper) \/ x = Ack(m)
<1>1. fromWrapper \in Seq(Told) /\ Ack(m) \in Told
  BY FrameTypes DEF TypeOK
<1>2. /\ Append(fromWrapper, Ack(m)) \in Seq(Told)
      /\ \A x : x \in ToSet(Append(fromWrapper, Ack(m))) <=> x \in ToSet(fromWrapper) \/ x = Ack(m)
  BY <1>1, Appending
<1> QED
  BY <1>1, <1>2 DEF SendAck

LEMMA Releases ==
  ASSUME TypeOK, NEW m \in Commands, InHand(m), Release(m)
  PROVE  /\ lane' = (IF lane = m THEN Free ELSE lane)
         /\ again' = (again /\ lane # m)
         /\ running' \in [Tasks -> Nat]
         /\ \A n \in Tasks : running'[n] = IF n = m THEN running[n] - 1 ELSE running[n]
         /\ again' \in BOOLEAN
<1>1. CASE m \in Tasks
  <2>1. lane # m
    BY <1>1, Constants DEF TypeOK
  <2>2. running[m] > 0 /\ running[m] \in Nat /\ running \in [Tasks -> Nat]
    BY <1>1, <2>1 DEF InHand, TypeOK
  <2>3. running' = [running EXCEPT ![m] = @ - 1] /\ running[m] - 1 \in Nat
    BY <1>1, <2>2 DEF Release
  <2> QED
    BY <2>2, <2>3 DEF Release
<1>2. CASE m \notin Tasks
  BY <1>2 DEF Release, TypeOK
<1> QED
  BY <1>1, <1>2

LEMMA WrapperTyped ==
  ASSUME IInv, Take \/ Restart \/ \E m \in Commands : Handler(m)
  PROVE  TypeOK'
<1>0. TypeOK
  BY DEF IInv
<1>1. CASE Take
  <2>1. PICK m \in Commands : m = Head(toWrapper) /\ (Repeats(m) \/ Begins(m) \/ StartsTask(m) \/ Drops(m))
    BY <1>0, <1>1, TakeIs
  <2>2. /\ toWrapper # <<>> /\ toWrapper' = Tail(toWrapper)
        /\ UNCHANGED <<browser, relay, up, toRelay, toClient, issued, ran, done, raised, count>>
    BY <1>0, <1>1, TakeIs
  <2>3. toWrapper' \in Seq(Commands)
    BY <1>0, <2>2, Shifting DEF TypeOK
  <2>4. CASE Repeats(m)
    <3>1. fromWrapper' \in Seq(Told)
      BY <1>0, <2>4, AckTyped DEF Repeats, TypeOK
    <3>2. /\ lane' \in Serial \cup {Free} /\ again' \in BOOLEAN
      BY <1>0, <2>4, Constants DEF Repeats, TypeOK
    <3> QED
      BY <1>0, <2>2, <2>3, <2>4, <3>1, <3>2 DEF Repeats, Recalls, TypeOK, browser, relay
  <2>5. CASE Begins(m)
    <3>1. started' \in Seq(Serial)
      BY <1>0, <2>5, Appending DEF Begins, TypeOK
    <3> QED
      BY <1>0, <2>2, <2>3, <2>5, <3>1 DEF Begins, TypeOK, browser, relay
  <2>6. CASE StartsTask(m)
    <3>1. running' \in [Tasks -> Nat]
      BY <1>0, <2>6 DEF StartsTask, TypeOK
    <3> QED
      BY <1>0, <2>2, <2>3, <2>6, <3>1 DEF StartsTask, TypeOK, browser, relay
  <2>7. CASE Drops(m)
    BY <1>0, <2>2, <2>3, <2>7 DEF Drops, TypeOK, browser, relay
  <2> QED
    BY <2>1, <2>4, <2>5, <2>6, <2>7
<1>2. CASE Restart
  <2>1. <<>> \in Seq(Commands) /\ <<>> \in Seq(Told) /\ <<>> \in Seq(Serial) /\ Len(<<>>) = 0 /\ IsInjective(<<>>)
    BY NothingIn
  <2>2. 0 <= IdsPerClient
    BY Constants
  <2> QED
    BY <1>0, <1>2, <2>1, <2>2, Counted DEF Counts, Restart, TypeOK, browser
<1>3. ASSUME NEW m \in Commands, Finish(m)
      PROVE  TypeOK'
  <2>1. /\ lane' \in Serial \cup {Free} /\ again' \in BOOLEAN /\ running' \in [Tasks -> Nat]
    BY <1>0, <1>3, Releases DEF Finish, TypeOK
  <2>2. fromWrapper' \in Seq(Told)
    BY <1>0, <1>3, AckTyped DEF Finish
  <2>3. /\ known' \in [Clients -> Seq(Commands)]
        /\ \A c \in Clients : IsInjective(known'[c]) /\ Len(known'[c]) <= IdsPerClient
    <3>1. CASE Remember(m)
      BY <1>0, <3>1, MemoryMoves DEF Recalls
    <3>2. CASE UNCHANGED known
      BY <1>0, <3>2 DEF TypeOK
    <3> QED
      BY <1>3, <3>1, <3>2 DEF Finish
  <2>4. ran' \in [Commands -> Nat] /\ done' \subseteq Commands
    BY <1>0, <1>3 DEF Finish, TypeOK
  <2> QED
    BY <1>0, <1>3, <2>1, <2>2, <2>3, <2>4 DEF Finish, TypeOK, browser, relay
<1>4. ASSUME NEW m \in Commands, Fail(m)
      PROVE  TypeOK'
  <2>1. /\ lane' \in Serial \cup {Free} /\ again' \in BOOLEAN /\ running' \in [Tasks -> Nat]
    BY <1>0, <1>4, Releases DEF Fail, TypeOK
  <2> QED
    BY <1>0, <1>4, <2>1, Counted DEF Counts, Fail, TypeOK, browser, relay, frames
<1> QED
  BY <1>1, <1>2, <1>3, <1>4 DEF Handler

-----------------------------------------------------------------------------
(* What each action does to the frames, as sets.                           *)

LEMMA ResendIs ==
  ASSUME TypeOK, NEW c \in Clients, NEW k \in 1..MaxConns,
         toRelay' = [toRelay EXCEPT ![c] = @ \o Preamble(c, k)]
  PROVE  /\ \A d \in Clients : d # c => toRelay'[d] = toRelay[d]
         /\ \A m : Cmd(m) \in ToSet(toRelay'[c])
                     <=> Cmd(m) \in ToSet(toRelay[c]) \/ m \in ToSet(outbox[c])
         /\ \A i : Hello(i) \in ToSet(toRelay'[c]) => Hello(i) \in ToSet(toRelay[c]) \/ i = k
         /\ \A m, n :
              /\ Ahead(toRelay[c], Cmd(m), Cmd(n))
              /\ n \in ToSet(outbox[c]) =>
                   Cmd(m) \in ToSet(toRelay[c]) \/ Earlier(outbox[c], m, n)
              => Ahead(toRelay'[c], Cmd(m), Cmd(n))
<1> PICK p : p = Preamble(c, k)
  OBVIOUS
<1>1. /\ p \in Seq(Sent)
      /\ \A m : Cmd(m) \in ToSet(p) <=> m \in ToSet(outbox[c])
      /\ \A i : Hello(i) \in ToSet(p) => i = k
      /\ \A m, n : (n \in ToSet(outbox[c]) => Earlier(outbox[c], m, n))
                     => Ahead(p, Cmd(m), Cmd(n))
  BY PreambleIs
<1>2. toRelay[c] \in Seq(Sent) /\ toRelay \in [Clients -> Seq(Sent)]
  BY DEF TypeOK
<1>3. /\ \A x : x \in ToSet(toRelay[c] \o p) <=> x \in ToSet(toRelay[c]) \/ x \in ToSet(p)
      /\ \A x, y : Ahead(toRelay[c], x, y) /\ (x \in ToSet(toRelay[c]) \/ Ahead(p, x, y))
                     => Ahead(toRelay[c] \o p, x, y)
  BY <1>1, <1>2, Joining
<1>4. toRelay'[c] = toRelay[c] \o p /\ \A d \in Clients : d # c => toRelay'[d] = toRelay[d]
  BY <1>2
<1>5. ASSUME NEW m, NEW n, Ahead(toRelay[c], Cmd(m), Cmd(n)),
             n \in ToSet(outbox[c]) => Cmd(m) \in ToSet(toRelay[c]) \/ Earlier(outbox[c], m, n)
      PROVE  Ahead(toRelay'[c], Cmd(m), Cmd(n))
  <2>1. CASE Cmd(m) \in ToSet(toRelay[c])
    BY <1>3, <1>4, <1>5, <2>1
  <2>2. CASE n \in ToSet(outbox[c]) => Earlier(outbox[c], m, n)
    <3>1. Ahead(p, Cmd(m), Cmd(n))
      BY <1>1, <2>2
    <3> QED
      BY <1>3, <1>4, <1>5, <3>1
  <2> QED
    BY <1>5, <2>1, <2>2
<1> QED
  BY <1>1, <1>3, <1>4, <1>5

Resends(c) ==
  \E k \in 1..MaxConns : toRelay' = [toRelay EXCEPT ![c] = @ \o Preamble(c, k)]

LEMMA OpenIs ==
  ASSUME IInv, NEW c \in Clients, Open(c)
  PROVE  conn[c] + 1 \in 1..MaxConns /\ conn' = [conn EXCEPT ![c] = conn[c] + 1]
         /\ toRelay' = [toRelay EXCEPT ![c] = @ \o Preamble(c, conn[c] + 1)] /\ Resends(c)
<1>1. conn[c] + 1 \in 1..MaxConns
  BY Numbered DEF IInv, Open
<1>2. conn' = [conn EXCEPT ![c] = conn[c] + 1] /\ conn'[c] = conn[c] + 1
  BY DEF Open, IInv, TypeOK
<1>3. toRelay' = [toRelay EXCEPT ![c] = @ \o Preamble(c, conn[c] + 1)]
  BY <1>2 DEF Open
<1> QED
  BY <1>1, <1>2, <1>3 DEF Resends

LEMMA AnnouncedIs ==
  ASSUME IInv, NEW c \in Clients, ClientRead(c), TakeAnnouncement(c)
  PROVE  conn[c] \in 1..MaxConns /\ open[c] /\ Resends(c)
         /\ toRelay' = [toRelay EXCEPT ![c] = @ \o Preamble(c, conn[c])]
<1>1. toClient[c] # <<>>
  BY DEF ClientRead
<1>2. conn[c] \in 1..MaxConns /\ open[c]
  BY <1>1, Numbered DEF IInv
<1> QED
  BY <1>2 DEF TakeAnnouncement, Resends

(* Only a new command appears; everything else is less than it was.        *)
Quieter ==
  \/ \E c \in Clients : Open(c) \/ Close(c) \/ ClientRead(c) \/ RelayRead(c)
  \/ Attach \/ Announce \/ RouteAck \/ LinkDown \/ LinkUp \/ Take \/ Restart
  \/ \E m \in Commands : Handler(m)

LEMMA ResendAddsNone ==
  ASSUME TypeOK, NEW c \in Clients, Resends(c), NEW m \in Commands,
         Cmd(m) \in ToSet(toRelay'[Owner[m]])
  PROVE  Cmd(m) \in ToSet(toRelay[Owner[m]]) \/ m \in ToSet(outbox[Owner[m]])
<1>1. PICK k \in 1..MaxConns : toRelay' = [toRelay EXCEPT ![c] = @ \o Preamble(c, k)]
  BY DEF Resends
<1>2. /\ \A d \in Clients : d # c => toRelay'[d] = toRelay[d]
      /\ Cmd(m) \in ToSet(toRelay'[c])
           <=> Cmd(m) \in ToSet(toRelay[c]) \/ m \in ToSet(outbox[c])
  BY <1>1, ResendIs
<1> QED
  BY <1>2, Constants

LEMMA NoMore ==
  ASSUME IInv, Quieter, NEW m \in Commands, Present(m)'
  PROVE  Present(m)
<1>0. TypeOK /\ Owner[m] \in Clients
  BY Constants DEF IInv
<1>p. /\ m \in ToSet(outbox'[Owner[m]]) \/ Cmd(m) \in ToSet(toRelay'[Owner[m]])
         \/ m \in ToSet(toWrapper') \/ InHand(m)'
  BY DEF Present
<1>1. ASSUME NEW c \in Clients, Open(c)
      PROVE  Present(m)
  <2>1. /\ Resends(c) /\ outbox' = outbox /\ toWrapper' = toWrapper
        /\ lane' = lane /\ running' = running
    BY <1>1, OpenIs DEF Open, work
  <2>2. InHand(m)' <=> InHand(m)
    BY <2>1 DEF InHand
  <2> QED
    BY <1>0, <1>p, <2>1, <2>2, ResendAddsNone DEF Present
<1>2. ASSUME NEW c \in Clients, Close(c)
      PROVE  Present(m)
  <2>1. PICK n \in 0..Len(toRelay[c]) : toRelay' = [toRelay EXCEPT ![c] = SubSeq(@, 1, n)]
    BY <1>2 DEF Close
  <2>2. toRelay[c] \in Seq(Sent)
    BY <1>0 DEF TypeOK
  <2>3. ToSet(SubSeq(toRelay[c], 1, n)) \subseteq ToSet(toRelay[c])
    BY <2>2, CutOff
  <2>4. /\ outbox' = outbox /\ toWrapper' = toWrapper
        /\ \A d \in Clients : ToSet(toRelay'[d]) \subseteq ToSet(toRelay[d])
    BY <1>0, <1>2, <2>1, <2>3 DEF Close, TypeOK
  <2>5. InHand(m)' <=> InHand(m)
    BY <1>2 DEF InHand, Close, work
  <2> QED
    BY <1>0, <1>p, <2>4, <2>5 DEF Present
<1>3. ASSUME NEW c \in Clients, ClientRead(c)
      PROVE  Present(m)
  <2>1. toWrapper' = toWrapper /\ (InHand(m)' <=> InHand(m))
    BY <1>3 DEF ClientRead, InHand, work
  <2>2. CASE TakeAck(c)
    <3>1. PICK n \in Commands : outbox' = [outbox EXCEPT ![c] = Without(@, n)]
      BY <2>2 DEF TakeAck
    <3>2. outbox[c] \in Seq(Commands) /\ IsInjective(outbox[c])
      BY <1>0 DEF TypeOK
    <3>3. \A y : y \in ToSet(Without(outbox[c], n)) => y \in ToSet(outbox[c])
      BY <3>2, Removing
    <3>4. toRelay' = toRelay /\ \A d \in Clients : \A y : y \in ToSet(outbox'[d]) => y \in ToSet(outbox[d])
      BY <1>0, <2>2, <3>1, <3>3 DEF TakeAck, TypeOK
    <3> QED
      BY <1>0, <1>p, <2>1, <3>4 DEF Present
  <2>3. CASE TakeAnnouncement(c)
    <3>1. Resends(c) /\ outbox' = outbox
      BY <1>3, <2>3, AnnouncedIs DEF TakeAnnouncement
    <3> QED
      BY <1>0, <1>p, <2>1, <3>1, ResendAddsNone DEF Present
  <2> QED
    BY <1>3, <2>2, <2>3 DEF ClientRead
<1>4. ASSUME NEW c \in Clients, RelayRead(c)
      PROVE  Present(m)
  <2>1. toRelay[c] \in Seq(Sent) /\ toRelay[c] # <<>> /\ toWrapper \in Seq(Commands)
    BY <1>0, <1>4 DEF RelayRead, TypeOK
  <2>2. /\ \A x : x \in ToSet(Tail(toRelay[c])) => x \in ToSet(toRelay[c])
        /\ Head(toRelay[c]) \in ToSet(toRelay[c])
    BY <2>1, Shifting
  <2>3. /\ outbox' = outbox /\ (InHand(m)' <=> InHand(m))
        /\ \A d \in Clients : \A x : x \in ToSet(toRelay'[d]) => x \in ToSet(toRelay[d])
    BY <1>0, <1>4, <2>2 DEF RelayRead, TypeOK, InHand, work, browser
  <2>4. m \in ToSet(toWrapper') => m \in ToSet(toWrapper) \/ Cmd(m) \in ToSet(toRelay[c])
    <3>1. CASE UNCHANGED toWrapper
      BY <3>1
    <3>2. CASE \E n \in Commands :
                 /\ Head(toRelay[c]) = Cmd(n)
                 /\ toWrapper' = IF attached THEN Append(toWrapper, n) ELSE toWrapper
      <4>1. PICK n \in Commands :
                 /\ Head(toRelay[c]) = Cmd(n)
                 /\ toWrapper' = IF attached THEN Append(toWrapper, n) ELSE toWrapper
        BY <3>2
      <4>2. \A x : x \in ToSet(Append(toWrapper, n)) <=> x \in ToSet(toWrapper) \/ x = n
        BY <2>1, Appending
      <4> QED
        BY <2>2, <4>1, <4>2
    <3> QED
      BY <1>4, <3>1, <3>2 DEF RelayRead
  <2>5. Cmd(m) \in ToSet(toRelay[c]) => Owner[m] = c
    BY DEF IInv, Origin
  <2> QED
    BY <1>0, <1>p, <2>3, <2>4, <2>5 DEF Present
<1>5. ASSUME Attach \/ Announce \/ RouteAck \/ LinkUp
      PROVE  Present(m)
  <2>1. outbox' = outbox /\ toRelay' = toRelay /\ toWrapper' = toWrapper /\ lane' = lane /\ running' = running
    BY <1>5 DEF Attach, Announce, RouteAck, LinkUp, browser, frames, work
  <2>2. InHand(m)' <=> InHand(m)
    BY <2>1 DEF InHand
  <2> QED
    BY <1>p, <2>1, <2>2 DEF Present
<1>6. CASE LinkDown
  <2>1. outbox' = outbox /\ toRelay' = toRelay /\ (InHand(m)' <=> InHand(m))
    BY <1>6 DEF LinkDown, browser, work, InHand
  <2>2. ToSet(toWrapper') \subseteq ToSet(toWrapper)
    BY <1>0, <1>6, CutOff DEF LinkDown, TypeOK
  <2> QED
    BY <1>p, <2>1, <2>2 DEF Present
<1>7. CASE Take
  <2>1. /\ toWrapper # <<>> /\ toWrapper' = Tail(toWrapper)
        /\ outbox' = outbox /\ toRelay' = toRelay
    BY <1>0, <1>7, TakeIs DEF browser
  <2>2. PICK n \in Commands : n = Head(toWrapper) /\ (Repeats(n) \/ Begins(n) \/ StartsTask(n) \/ Drops(n))
    BY <1>0, <1>7, TakeIs
  <2>3. \A x : x \in ToSet(toWrapper) <=> x \in ToSet(toWrapper') \/ x = n
    BY <1>0, <2>1, <2>2, Shifting DEF TypeOK
  <2>4. InHand(m)' => InHand(m) \/ m = n
    <3>1. lane' = m => lane = m \/ m = n
      BY <2>2 DEF Repeats, Begins, StartsTask, Drops
    <3>2. m \in Tasks /\ m # n => running'[m] = running[m]
      BY <1>0, <2>2 DEF Repeats, Begins, StartsTask, Drops, TypeOK
    <3> QED
      BY <3>1, <3>2 DEF InHand
  <2> QED
    BY <1>p, <2>1, <2>3, <2>4 DEF Present
<1>8. CASE Restart
  <2>1. outbox' = outbox /\ toRelay' = toRelay /\ m \notin ToSet(toWrapper')
    BY <1>8, NothingIn DEF Restart, browser
  <2>2. ~InHand(m)'
    BY <1>8, Constants DEF Restart, InHand
  <2> QED
    BY <1>p, <2>1, <2>2 DEF Present
<1>9. ASSUME NEW n \in Commands, Handler(n)
      PROVE  Present(m)
  <2>1. outbox' = outbox /\ toRelay' = toRelay /\ toWrapper' = toWrapper /\ InHand(n) /\ Release(n)
    BY <1>9 DEF Handler, Finish, Fail, browser, frames
  <2>2. InHand(m)' => InHand(m) \/ m = n
    <3>1. lane' = m => lane = m
      BY <1>0, <2>1, Releases, Constants
    <3>2. m \in Tasks /\ m # n => running'[m] = running[m]
      BY <1>0, <2>1, Releases
    <3> QED
      BY <3>1, <3>2 DEF InHand
  <2> QED
    BY <1>p, <2>1, <2>2 DEF Present
<1> QED
  BY <1>1, <1>2, <1>3, <1>4, <1>5, <1>6, <1>7, <1>8, <1>9 DEF Quieter

-----------------------------------------------------------------------------
(* Sockets, origin and order.                                              *)

LEMMA SendIs ==
  ASSUME IInv, NEW m \in Commands, SendTracked(m)
  PROVE  LET c == Owner[m]
         IN /\ c \in Clients
            /\ \A d \in Clients : d # c => /\ outbox'[d] = outbox[d] /\ issued'[d] = issued[d]
                                           /\ toRelay'[d] = toRelay[d]
            /\ outbox'[c] = Append(outbox[c], m) /\ issued'[c] = Append(issued[c], m)
            /\ toRelay'[c] = IF open[c] THEN Append(toRelay[c], Cmd(m)) ELSE toRelay[c]
            /\ \A x : x \in ToSet(outbox'[c]) <=> x \in ToSet(outbox[c]) \/ x = m
            /\ \A x : x \in ToSet(issued'[c]) <=> x \in ToSet(issued[c]) \/ x = m
            /\ \A x : x \in ToSet(toRelay'[c])
                        <=> x \in ToSet(toRelay[c]) \/ (open[c] /\ x = Cmd(m))
            /\ \A x, y : Earlier(outbox'[c], x, y)
                           <=> Earlier(outbox[c], x, y) \/ (y = m /\ x \in ToSet(outbox[c]))
            /\ \A x, y : Earlier(issued'[c], x, y)
                           <=> Earlier(issued[c], x, y) \/ (y = m /\ x \in ToSet(issued[c]))
            /\ UNCHANGED <<open, conn, relay, up, toClient, toWrapper, fromWrapper,
                           known, work, started, ran, done, raised, count>>
<1> PICK c : c = Owner[m]
  OBVIOUS
<1>1. c \in Clients /\ TypeOK
  BY Constants DEF IInv
<1>2. outbox[c] \in Seq(Commands) /\ issued[c] \in Seq(Commands) /\ toRelay[c] \in Seq(Sent) /\ Cmd(m) \in Sent
  BY <1>1, FrameTypes DEF TypeOK
<1>3. /\ \A d \in Clients : d # c => /\ outbox'[d] = outbox[d] /\ issued'[d] = issued[d]
                                     /\ toRelay'[d] = toRelay[d]
      /\ outbox'[c] = Append(outbox[c], m) /\ issued'[c] = Append(issued[c], m)
      /\ toRelay'[c] = IF open[c] THEN Append(toRelay[c], Cmd(m)) ELSE toRelay[c]
  BY <1>1 DEF SendTracked, TypeOK
<1>4. /\ \A x : x \in ToSet(Append(outbox[c], m)) <=> x \in ToSet(outbox[c]) \/ x = m
      /\ \A x, y : Earlier(Append(outbox[c], m), x, y)
                     <=> Earlier(outbox[c], x, y) \/ (y = m /\ x \in ToSet(outbox[c]))
  BY <1>2, Appending
<1>5. /\ \A x : x \in ToSet(Append(issued[c], m)) <=> x \in ToSet(issued[c]) \/ x = m
      /\ \A x, y : Earlier(Append(issued[c], m), x, y)
                     <=> Earlier(issued[c], x, y) \/ (y = m /\ x \in ToSet(issued[c]))
  BY <1>2, Appending
<1>6. \A x : x \in ToSet(Append(toRelay[c], Cmd(m))) <=> x \in ToSet(toRelay[c]) \/ x = Cmd(m)
  BY <1>2, Appending
<1>7. \A x : x \in ToSet(toRelay'[c]) <=> x \in ToSet(toRelay[c]) \/ (open[c] /\ x = Cmd(m))
  BY <1>3, <1>6
<1>8. UNCHANGED <<open, conn, relay, up, toClient, toWrapper, fromWrapper,
                  known, work, started, ran, done, raised, count>>
  BY DEF SendTracked
<1> QED
  BY <1>1, <1>3, <1>4, <1>5, <1>7, <1>8

LEMMA SocketsKeep ==
  ASSUME IInv, Next
  PROVE  Sockets'
<1>0. TypeOK /\ Sockets
  BY DEF IInv
<1>s. ASSUME open' = open, conn' = conn,
             \A c \in Clients : toClient[c] = <<>> /\ ~open[c] => toClient'[c] = <<>>,
             \A c \in Clients : \A k \in 1..MaxConns :
               Hello(k) \in ToSet(toRelay'[c]) => Hello(k) \in ToSet(toRelay[c]) \/ k <= conn[c]
      PROVE  Sockets'
  BY <1>0, <1>s DEF Sockets
<1>1. ASSUME NEW m \in Commands, SendTracked(m)
      PROVE  Sockets'
  <2>1. \A k : Cmd(m) # Hello(k)
    BY Kinds
  <2>2. /\ \A c \in Clients : \A k \in 1..MaxConns :
             Hello(k) \in ToSet(toRelay'[c]) => Hello(k) \in ToSet(toRelay[c])
        /\ UNCHANGED <<open, conn, toClient>>
    <3> PICK o \in Clients : o = Owner[m]
      BY Constants
    <3>1. /\ \A d \in Clients : d # o => toRelay'[d] = toRelay[d]
          /\ \A x : x \in ToSet(toRelay'[o]) <=> x \in ToSet(toRelay[o]) \/ (open[o] /\ x = Cmd(m))
          /\ UNCHANGED <<open, conn, toClient>>
      BY <1>1, SendIs
    <3> QED
      BY <2>1, <3>1
  <2> QED
    BY <1>s, <2>2
<1>2. ASSUME NEW c \in Clients, Open(c)
      PROVE  Sockets'
  <2>1. /\ conn[c] + 1 \in 1..MaxConns /\ conn' = [conn EXCEPT ![c] = conn[c] + 1]
        /\ toRelay' = [toRelay EXCEPT ![c] = @ \o Preamble(c, conn[c] + 1)]
    BY <1>2, OpenIs
  <2>2. /\ \A d \in Clients : d # c => toRelay'[d] = toRelay[d]
        /\ \A i : Hello(i) \in ToSet(toRelay'[c]) => Hello(i) \in ToSet(toRelay[c]) \/ i = conn[c] + 1
    BY <1>0, <2>1, ResendIs
  <2>3. /\ conn'[c] = conn[c] + 1 /\ conn[c] \in Nat /\ open'[c] /\ toClient' = toClient
        /\ \A d \in Clients : d # c => conn'[d] = conn[d] /\ open'[d] = open[d]
    BY <1>0, <1>2, <2>1 DEF Open, TypeOK
  <2> QED
    BY <1>0, <2>2, <2>3 DEF Sockets
<1>3. ASSUME NEW c \in Clients, Close(c)
      PROVE  Sockets'
  <2>1. PICK n \in 0..Len(toRelay[c]) : toRelay' = [toRelay EXCEPT ![c] = SubSeq(@, 1, n)]
    BY <1>3 DEF Close
  <2>2. ToSet(SubSeq(toRelay[c], 1, n)) \subseteq ToSet(toRelay[c])
    BY <1>0, CutOff DEF TypeOK
  <2>3. \A d \in Clients : ToSet(toRelay'[d]) \subseteq ToSet(toRelay[d])
    BY <1>0, <2>1, <2>2 DEF TypeOK
  <2>4. /\ conn' = conn /\ ~open'[c] /\ conn[c] < MaxConns /\ toClient'[c] = <<>>
        /\ \A d \in Clients : d # c => open'[d] = open[d] /\ toClient'[d] = toClient[d]
    BY <1>0, <1>3 DEF Close, TypeOK
  <2> QED
    BY <1>0, <2>3, <2>4 DEF Sockets
<1>4. ASSUME NEW c \in Clients, ClientRead(c)
      PROVE  Sockets'
  <2>1. /\ open' = open /\ conn' = conn /\ open[c]
        /\ \A d \in Clients : toClient[d] = <<>> /\ ~open[d] => toClient'[d] = <<>>
    <3>1. open[c]
      BY <1>0, <1>4, Numbered DEF ClientRead
    <3> QED
      BY <1>0, <1>4, <3>1 DEF ClientRead, TypeOK
  <2>2. \A d \in Clients : \A k \in 1..MaxConns :
          Hello(k) \in ToSet(toRelay'[d]) => Hello(k) \in ToSet(toRelay[d]) \/ k <= conn[d]
    <3>1. CASE TakeAck(c)
      BY <3>1 DEF TakeAck
    <3>2. CASE TakeAnnouncement(c)
      <4>1. conn[c] \in 1..MaxConns /\ toRelay' = [toRelay EXCEPT ![c] = @ \o Preamble(c, conn[c])]
        BY <1>4, <3>2, AnnouncedIs
      <4>2. /\ \A d \in Clients : d # c => toRelay'[d] = toRelay[d]
            /\ \A i : Hello(i) \in ToSet(toRelay'[c]) => Hello(i) \in ToSet(toRelay[c]) \/ i = conn[c]
        BY <1>0, <4>1, ResendIs
      <4> QED
        BY <4>1, <4>2
    <3> QED
      BY <1>4, <3>1, <3>2 DEF ClientRead
  <2> QED
    BY <1>s, <2>1, <2>2
<1>5. ASSUME NEW c \in Clients, RelayRead(c)
      PROVE  Sockets'
  <2>1. \A x : x \in ToSet(Tail(toRelay[c])) => x \in ToSet(toRelay[c])
    BY <1>0, <1>5, Shifting DEF RelayRead, TypeOK
  <2>2. \A d \in Clients : \A x : x \in ToSet(toRelay'[d]) => x \in ToSet(toRelay[d])
    BY <1>0, <1>5, <2>1 DEF RelayRead, TypeOK
  <2> QED
    BY <1>5, <1>s, <2>2 DEF RelayRead, browser
<1>6. ASSUME Announce \/ RouteAck
      PROVE  Sockets'
  <2>1. open' = open /\ conn' = conn /\ toRelay' = toRelay
    BY <1>6 DEF Announce, RouteAck, browser
  <2>2. ASSUME NEW c \in Clients, toClient[c] = <<>>, ~open[c]
        PROVE  toClient'[c] = <<>>
    <3>1. ~Reaches(c)
      BY <2>2 DEF Reaches
    <3>2. CASE Announce
      BY <2>2, <3>1, <3>2 DEF Announce
    <3>3. CASE RouteAck
      <4>1. PICK m \in Commands :
              toClient' = IF Reaches(Owner[m])
                          THEN [toClient EXCEPT ![Owner[m]] = Append(@, Ack(m))]
                          ELSE toClient
        BY <3>3 DEF RouteAck
      <4> QED
        BY <1>0, <2>2, <3>1, <4>1 DEF TypeOK
    <3> QED
      BY <1>6, <3>2, <3>3
  <2> QED
    BY <1>s, <2>1, <2>2
<1>7. ASSUME Attach \/ LinkDown \/ LinkUp \/ Take \/ Restart \/ \E m \in Commands : Handler(m)
      PROVE  Sockets'
  <2>1. CASE Attach \/ LinkDown \/ LinkUp \/ Restart
    BY <1>s, <2>1 DEF Attach, LinkDown, LinkUp, Restart, browser, frames
  <2>2. CASE Take
    BY <1>0, <1>s, <2>2, TakeIs DEF browser
  <2>3. ASSUME NEW m \in Commands, Handler(m)
        PROVE  Sockets'
    BY <1>s, <2>3 DEF Handler, Finish, Fail, browser, frames
  <2> QED
    BY <1>7, <2>1, <2>2, <2>3
<1> QED
  BY <1>1, <1>2, <1>3, <1>4, <1>5, <1>6, <1>7 DEF Next

(* issued grows by new commands only, outboxes by the same.                *)
LEMMA Issuing ==
  ASSUME IInv, Quieter
  PROVE  /\ issued' = issued
         /\ \A c \in Clients :
              /\ \A x : x \in ToSet(outbox'[c]) => x \in ToSet(outbox[c])
              /\ \A x, y : Earlier(outbox'[c], x, y) => Earlier(outbox[c], x, y)
<1>0. TypeOK
  BY DEF IInv
<1>1. ASSUME NEW c \in Clients, ClientRead(c), TakeAck(c)
      PROVE  \A d \in Clients :
               /\ \A x : x \in ToSet(outbox'[d]) => x \in ToSet(outbox[d])
               /\ \A x, y : Earlier(outbox'[d], x, y) => Earlier(outbox[d], x, y)
  <2>1. PICK n \in Commands : outbox' = [outbox EXCEPT ![c] = Without(@, n)]
    BY <1>1 DEF TakeAck
  <2>2. outbox[c] \in Seq(Commands) /\ IsInjective(outbox[c])
    BY <1>0 DEF TypeOK
  <2>3. /\ \A y : y \in ToSet(Without(outbox[c], n)) => y \in ToSet(outbox[c])
        /\ \A x, y : Earlier(Without(outbox[c], n), x, y) => Earlier(outbox[c], x, y)
    BY <2>2, Removing
  <2>4. outbox'[c] = Without(outbox[c], n) /\ \A d \in Clients : d # c => outbox'[d] = outbox[d]
    BY <1>0, <2>1 DEF TypeOK
  <2> QED
    BY <2>3, <2>4
<1>2. ASSUME NEW c \in Clients, ClientRead(c), TakeAnnouncement(c)
      PROVE  outbox' = outbox
  BY <1>2 DEF TakeAnnouncement
<1>3. ASSUME NEW c \in Clients, ClientRead(c)
      PROVE  issued' = issued /\ (TakeAck(c) \/ TakeAnnouncement(c))
  BY <1>3 DEF ClientRead, history
<1>4. ASSUME NEW c \in Clients, Open(c) \/ Close(c) \/ RelayRead(c)
      PROVE  issued' = issued /\ outbox' = outbox
  BY <1>4 DEF Open, Close, RelayRead, history, browser
<1>5. ASSUME NEW m \in Commands, Handler(m)
      PROVE  issued' = issued /\ outbox' = outbox
  BY <1>5 DEF Handler, Finish, Fail, browser
<1>6. ASSUME Attach \/ Announce \/ RouteAck \/ LinkDown \/ LinkUp \/ Restart
      PROVE  issued' = issued /\ outbox' = outbox
  BY <1>6 DEF Attach, Announce, RouteAck, LinkDown, LinkUp, Restart, history, browser
<1>7. ASSUME Take
      PROVE  issued' = issued /\ outbox' = outbox
  BY <1>0, <1>7, TakeIs DEF browser
<1> QED
  BY <1>1, <1>2, <1>3, <1>4, <1>5, <1>6, <1>7 DEF Quieter

LEMMA NextIs ==
  Next => Quieter \/ \E m \in Commands : SendTracked(m)
BY DEF Next, Quieter

LEMMA OrderedKeeps ==
  ASSUME IInv, Next
  PROVE  Ordered'
<1>0. TypeOK /\ Ordered
  BY DEF IInv
<1>1. CASE Quieter
  BY <1>0, <1>1, Issuing DEF Ordered
<1>2. ASSUME NEW m \in Commands, SendTracked(m)
      PROVE  Ordered'
  <2> PICK o \in Clients : o = Owner[m]
    BY Constants
  <2>1. /\ \A d \in Clients : d # o => outbox'[d] = outbox[d] /\ issued'[d] = issued[d]
        /\ issued'[o] = Append(issued[o], m)
        /\ \A x, y : Earlier(outbox'[o], x, y)
                       <=> Earlier(outbox[o], x, y) \/ (y = m /\ x \in ToSet(outbox[o]))
        /\ \A x, y : Earlier(issued'[o], x, y)
                       <=> Earlier(issued[o], x, y) \/ (y = m /\ x \in ToSet(issued[o]))
    BY <1>2, SendIs, ZenonT(60)
  <2>2. m \notin ToSet(issued[o]) /\ issued[o] \in Seq(Commands) /\ IsInjective(issued[o])
    BY <1>0, <1>2, IsNew DEF Ordered, TypeOK
  <2>3. IsInjective(issued'[o])
    BY <2>1, <2>2, Appending
  <2>4. \A x \in Commands : x \in ToSet(outbox[o]) => x \in ToSet(issued[o])
    <3> SUFFICES ASSUME NEW x \in Commands, x \in ToSet(outbox[o])
                 PROVE  x \in ToSet(issued[o])
      OBVIOUS
    <3>1. Owner[x] = o
      BY DEF IInv, Origin
    <3>2. Present(x)
      BY <3>1 DEF Present
    <3> QED
      BY <3>1, <3>2 DEF IInv, Origin, Issued
  <2> QED
    BY <1>0, <2>1, <2>3, <2>4 DEF Ordered
<1> QED
  BY <1>1, <1>2, NextIs

(* Where the ids of the memory come from.                                  *)
LEMMA KnownFrom ==
  ASSUME IInv, Next, NEW c \in Clients, NEW m \in Commands, m \in ToSet(known'[c])
  PROVE  m \in ToSet(known[c]) \/ (Owner[m] = c /\ InHand(m) /\ Finish(m))
<1>0. TypeOK
  BY DEF IInv
<1>1. CASE known' = known
  BY <1>1
<1>2. CASE Take
  <2>1. PICK n \in Commands : Repeats(n) \/ Begins(n) \/ StartsTask(n) \/ Drops(n)
    BY <1>0, <1>2, TakeIs
  <2>2. CASE Repeats(n)
    BY <2>2 DEF Repeats, Recalls, Seen
  <2>3. CASE known' = known
    BY <2>3
  <2> QED
    BY <2>1, <2>2, <2>3 DEF Begins, StartsTask, Drops
<1>3. CASE Restart
  BY <1>3, NothingIn DEF Restart
<1>4. ASSUME NEW n \in Commands, Finish(n)
      PROVE  m \in ToSet(known[c]) \/ (Owner[m] = c /\ InHand(m) /\ Finish(m))
  <2>1. CASE Remember(n)
    <3>1. Recalls(n)
      BY <1>0, <2>1, MemoryMoves
    <3>2. CASE c # Owner[n]
      BY <3>1, <3>2 DEF Recalls
    <3>3. CASE c = Owner[n]
      <4>1. m \in ToSet(known[c]) \/ m = n
        BY <3>1, <3>3 DEF Recalls
      <4> QED
        BY <1>4, <3>3, <4>1 DEF Finish
    <3> QED
      BY <3>2, <3>3
  <2>2. CASE UNCHANGED known
    BY <2>2
  <2> QED
    BY <1>4, <2>1, <2>2 DEF Finish
<1>5. ASSUME NEW n \in Commands, SendTracked(n) \/ Fail(n)
      PROVE  known' = known
  BY <1>5 DEF SendTracked, Fail
<1>6. ASSUME NEW d \in Clients, Open(d) \/ Close(d) \/ ClientRead(d) \/ RelayRead(d)
      PROVE  known' = known
  BY <1>6 DEF Open, Close, ClientRead, RelayRead
<1>7. Attach \/ Announce \/ RouteAck \/ LinkDown \/ LinkUp => known' = known
  BY DEF Attach, Announce, RouteAck, LinkDown, LinkUp
<1> QED
  BY <1>1, <1>2, <1>3, <1>4, <1>5, <1>6, <1>7 DEF Next, Handler

LEMMA SocketFrom ==
  ASSUME IInv, Quieter, NEW c \in Clients, NEW m \in Commands, Cmd(m) \in ToSet(toRelay'[c])
  PROVE  Cmd(m) \in ToSet(toRelay[c]) \/ m \in ToSet(outbox[c])
<1>0. TypeOK
  BY DEF IInv
<1>1. ASSUME NEW d \in Clients, Resends(d)
      PROVE  Cmd(m) \in ToSet(toRelay[c]) \/ m \in ToSet(outbox[c])
  <2>1. PICK k \in 1..MaxConns : toRelay' = [toRelay EXCEPT ![d] = @ \o Preamble(d, k)]
    BY <1>1 DEF Resends
  <2> QED
    BY <1>0, <2>1, ResendIs
<1>2. CASE toRelay' = toRelay
  BY <1>2
<1>3. ASSUME NEW d \in Clients, ToSet(toRelay'[d]) \subseteq ToSet(toRelay[d]),
             \A b \in Clients : b # d => toRelay'[b] = toRelay[b]
      PROVE  Cmd(m) \in ToSet(toRelay[c])
  BY <1>3
<1>4. ASSUME NEW d \in Clients, Close(d)
      PROVE  Cmd(m) \in ToSet(toRelay[c])
  <2>1. PICK n \in 0..Len(toRelay[d]) : toRelay' = [toRelay EXCEPT ![d] = SubSeq(@, 1, n)]
    BY <1>4 DEF Close
  <2>2. ToSet(SubSeq(toRelay[d], 1, n)) \subseteq ToSet(toRelay[d])
    BY <1>0, CutOff DEF TypeOK
  <2> QED
    BY <1>0, <1>3, <2>1, <2>2 DEF TypeOK
<1>5. ASSUME NEW d \in Clients, RelayRead(d)
      PROVE  Cmd(m) \in ToSet(toRelay[c])
  <2>1. \A x : x \in ToSet(Tail(toRelay[d])) => x \in ToSet(toRelay[d])
    BY <1>0, <1>5, Shifting DEF RelayRead, TypeOK
  <2> QED
    BY <1>0, <1>3, <1>5, <2>1 DEF RelayRead, TypeOK
<1>6. ASSUME NEW d \in Clients, Open(d)
      PROVE  Resends(d)
  BY <1>6, OpenIs
<1>7. ASSUME NEW d \in Clients, ClientRead(d)
      PROVE  Resends(d) \/ toRelay' = toRelay
  BY <1>7, AnnouncedIs DEF ClientRead, TakeAck
<1>8. ASSUME NEW n \in Commands, Handler(n)
      PROVE  toRelay' = toRelay
  BY <1>8 DEF Handler, Finish, Fail, frames
<1>9. Attach \/ Announce \/ RouteAck \/ LinkDown \/ LinkUp \/ Restart => toRelay' = toRelay
  BY DEF Attach, Announce, RouteAck, LinkDown, LinkUp, Restart, frames
<1>10. Take => toRelay' = toRelay
  BY <1>0, TakeIs
<1> QED
  BY <1>1, <1>2, <1>4, <1>5, <1>6, <1>7, <1>8, <1>9, <1>10 DEF Quieter

(* What begins or runs was on its way.                                     *)
LEMMA WorkFrom ==
  ASSUME IInv, Next, NEW m \in Commands
  PROVE  /\ m \in ToSet(started') => m \in ToSet(started) \/ (Take /\ m \in ToSet(toWrapper))
         /\ ran'[m] > 0 => ran[m] > 0 \/ InHand(m)
<1>0. TypeOK
  BY DEF IInv
<1>s. ASSUME started' = started, ran' = ran
      PROVE  /\ m \in ToSet(started') => m \in ToSet(started) \/ (Take /\ m \in ToSet(toWrapper))
             /\ ran'[m] > 0 => ran[m] > 0 \/ InHand(m)
  BY <1>s
<1>1. CASE Take
  <2>1. PICK n \in Commands : n = Head(toWrapper) /\ (Repeats(n) \/ Begins(n) \/ StartsTask(n) \/ Drops(n))
    BY <1>0, <1>1, TakeIs
  <2>2. n \in ToSet(toWrapper) /\ ran' = ran
    BY <1>0, <1>1, <2>1, TakeIs, InSet DEF TypeOK
  <2>3. CASE Begins(n)
    <3>1. started \in Seq(Serial) /\ n \in Serial
      BY <1>0, <2>3 DEF Begins, TypeOK
    <3>2. \A x : x \in ToSet(Append(started, n)) <=> x \in ToSet(started) \/ x = n
      BY <3>1, Appending
    <3> QED
      BY <1>1, <2>2, <2>3, <3>2 DEF Begins
  <2>4. CASE Repeats(n) \/ StartsTask(n) \/ Drops(n)
    BY <1>s, <2>2, <2>4 DEF Repeats, StartsTask, Drops
  <2> QED
    BY <2>1, <2>3, <2>4
<1>2. CASE Restart
  <2>1. m \notin ToSet(started') /\ ran'[m] = 0
    BY <1>2, NothingIn DEF Restart
  <2> QED
    BY <2>1
<1>3. ASSUME NEW n \in Commands, Handler(n)
      PROVE  /\ m \in ToSet(started') => m \in ToSet(started) \/ (Take /\ m \in ToSet(toWrapper))
             /\ ran'[m] > 0 => ran[m] > 0 \/ InHand(m)
  <2>1. started' = started /\ InHand(n) /\ (ran' = ran \/ ran' = [ran EXCEPT ![n] = @ + 1])
    BY <1>3 DEF Handler, Finish, Fail
  <2>2. m # n => ran'[m] = ran[m]
    BY <1>0, <2>1 DEF TypeOK
  <2> QED
    BY <2>1, <2>2
<1>4. ASSUME NEW c \in Clients, Open(c) \/ Close(c) \/ ClientRead(c) \/ RelayRead(c)
      PROVE  started' = started /\ ran' = ran
  BY <1>4 DEF Open, Close, ClientRead, RelayRead, history
<1>5. Attach \/ Announce \/ RouteAck \/ LinkDown \/ LinkUp
        => started' = started /\ ran' = ran
  BY DEF Attach, Announce, RouteAck, LinkDown, LinkUp, history
<1>6. ASSUME NEW n \in Commands, SendTracked(n)
      PROVE  started' = started /\ ran' = ran
  BY <1>6 DEF SendTracked
<1> QED
  BY <1>s, <1>1, <1>2, <1>3, <1>4, <1>5, <1>6 DEF Next

(* Only a safe command is in the lane again.                               *)
LEMMA AgainSafe ==
  ASSUME IInv, Next, again'
  PROVE  lane' \in Safe
<1>0. TypeOK /\ (again => lane \in Safe)
  BY DEF IInv, Origin
<1>1. CASE lane' = lane /\ again' = again
  BY <1>0, <1>1
<1>2. CASE Take
  <2>1. PICK n \in Commands : Repeats(n) \/ Begins(n) \/ StartsTask(n) \/ Drops(n)
    BY <1>0, <1>2, TakeIs
  <2> QED
    BY <1>0, <2>1 DEF Repeats, Begins, StartsTask, Drops
<1>3. ASSUME NEW n \in Commands, Handler(n)
      PROVE  lane' \in Safe
  <2>1. InHand(n) /\ Release(n)
    BY <1>3 DEF Handler, Finish, Fail
  <2>2. again /\ lane' = lane
    BY <1>0, <2>1, Releases
  <2> QED
    BY <1>0, <2>2
<1>4. CASE Restart
  BY <1>4 DEF Restart
<1>5. ASSUME NEW c \in Clients, Open(c) \/ Close(c) \/ ClientRead(c) \/ RelayRead(c)
      PROVE  lane' = lane /\ again' = again
  BY <1>5 DEF Open, Close, ClientRead, RelayRead, work
<1>6. Attach \/ Announce \/ RouteAck \/ LinkDown \/ LinkUp => lane' = lane /\ again' = again
  BY DEF Attach, Announce, RouteAck, LinkDown, LinkUp, work
<1>7. ASSUME NEW n \in Commands, SendTracked(n)
      PROVE  lane' = lane /\ again' = again
  BY <1>7 DEF SendTracked, work
<1> QED
  BY <1>1, <1>2, <1>3, <1>4, <1>5, <1>6, <1>7 DEF Next

LEMMA OriginKeeps ==
  ASSUME IInv, Next
  PROVE  Origin'
<1>0. TypeOK /\ Origin
  BY DEF IInv
<1>1. again' => lane' \in Safe
  BY AgainSafe
<1>2. ASSUME NEW c \in Clients, NEW m \in Commands,
             \/ m \in ToSet(issued'[c]) \/ m \in ToSet(outbox'[c]) \/ m \in ToSet(known'[c])
             \/ Cmd(m) \in ToSet(toRelay'[c])
      PROVE  Owner[m] = c
  <2>1. m \in ToSet(known'[c]) => Owner[m] = c
    BY <1>0, KnownFrom DEF Origin
  <2>2. CASE Quieter
    <3>1. Cmd(m) \in ToSet(toRelay'[c]) => Owner[m] = c
      BY <1>0, <2>2, SocketFrom DEF Origin
    <3> QED
      BY <1>0, <1>2, <2>1, <2>2, <3>1, Issuing DEF Origin
  <2>3. ASSUME NEW n \in Commands, SendTracked(n)
        PROVE  Owner[m] = c
    <3> PICK o \in Clients : o = Owner[n]
      BY Constants
    <3>1. /\ \A d \in Clients : d # o => /\ outbox'[d] = outbox[d] /\ issued'[d] = issued[d]
                                         /\ toRelay'[d] = toRelay[d]
          /\ \A x : x \in ToSet(outbox'[o]) <=> x \in ToSet(outbox[o]) \/ x = n
          /\ \A x : x \in ToSet(issued'[o]) <=> x \in ToSet(issued[o]) \/ x = n
          /\ \A x : x \in ToSet(toRelay'[o]) <=> x \in ToSet(toRelay[o]) \/ (open[o] /\ x = Cmd(n))
      BY <2>3, SendIs
    <3>2. Cmd(m) = Cmd(n) => m = n
      BY Kinds
    <3> QED
      BY <1>0, <1>2, <2>1, <3>1, <3>2 DEF Origin
  <2> QED
    BY <2>2, <2>3, NextIs
<1>3. ASSUME NEW m \in Commands, Issued(m)
      PROVE  Issued(m)'
  <2>1. CASE Quieter
    BY <1>3, <2>1, Issuing DEF Issued
  <2>2. ASSUME NEW n \in Commands, SendTracked(n)
        PROVE  Issued(m)'
    <3> PICK o \in Clients : o = Owner[n]
      BY Constants
    <3>1. /\ \A d \in Clients : d # o => issued'[d] = issued[d]
          /\ \A x : x \in ToSet(issued'[o]) <=> x \in ToSet(issued[o]) \/ x = n
      BY <2>2, SendIs
    <3> QED
      BY <1>3, <3>1, Constants DEF Issued
  <2> QED
    BY <2>1, <2>2, NextIs
<1>4. ASSUME NEW m \in Commands,
             Present(m)' \/ Seen(m)' \/ m \in ToSet(started') \/ ran'[m] > 0
      PROVE  Issued(m)'
  <2>1. Seen(m)' => Seen(m) \/ InHand(m)
    BY KnownFrom, Constants DEF Seen
  <2>2. ASSUME NEW n \in Commands, SendTracked(n), Present(m)'
        PROVE  Present(m) \/ m = n
    <3> PICK o \in Clients : o = Owner[n]
      BY Constants
    <3>1. /\ \A d \in Clients : d # o => outbox'[d] = outbox[d] /\ toRelay'[d] = toRelay[d]
          /\ \A x : x \in ToSet(outbox'[o]) <=> x \in ToSet(outbox[o]) \/ x = n
          /\ \A x : x \in ToSet(toRelay'[o]) <=> x \in ToSet(toRelay[o]) \/ (open[o] /\ x = Cmd(n))
          /\ toWrapper' = toWrapper /\ lane' = lane /\ running' = running
      BY <2>2, SendIs, ZenonT(60) DEF work
    <3>2. Cmd(m) = Cmd(n) => m = n
      BY Kinds
    <3>3. m \in ToSet(outbox'[Owner[m]]) \/ Cmd(m) \in ToSet(toRelay'[Owner[m]])
             \/ m \in ToSet(toWrapper') \/ InHand(m)'
      BY <2>2 DEF Present
    <3>4. InHand(m)' <=> InHand(m)
      BY <3>1 DEF InHand
    <3> QED
      BY <3>1, <3>2, <3>3, <3>4, Constants DEF Present
  <2>3. ASSUME NEW n \in Commands, SendTracked(n)
        PROVE  Issued(n)'
    BY <2>3, SendIs DEF Issued
  <2>4. Present(m)' => Issued(m)'
    BY <1>0, <1>3, <2>2, <2>3, NextIs, NoMore DEF Origin
  <2>5. InHand(m) \/ m \in ToSet(toWrapper) => Present(m)
    BY DEF Present
  <2> QED
    BY <1>0, <1>3, <1>4, <2>1, <2>4, <2>5, WorkFrom DEF Origin
<1> QED
  BY <1>1, <1>2, <1>4 DEF Origin

-----------------------------------------------------------------------------
(* What is acknowledged was completed.                                     *)

LEMMA Acknowledges ==
  ASSUME IInv, Next, NEW m \in Commands
  PROVE  /\ Ack(m) \in ToSet(fromWrapper')
              => Ack(m) \in ToSet(fromWrapper) \/ Seen(m) \/ m \in done'
         /\ \A c \in Clients : Ack(m) \in ToSet(toClient'[c])
              => Ack(m) \in ToSet(toClient[c]) \/ Ack(m) \in ToSet(fromWrapper)
         /\ m \in done => m \in done'
<1> DEFINE Goal ==
             /\ Ack(m) \in ToSet(fromWrapper')
                  => Ack(m) \in ToSet(fromWrapper) \/ Seen(m) \/ m \in done'
             /\ \A c \in Clients : Ack(m) \in ToSet(toClient'[c])
                  => Ack(m) \in ToSet(toClient[c]) \/ Ack(m) \in ToSet(fromWrapper)
             /\ m \in done => m \in done'
<1>0. TypeOK
  BY DEF IInv
<1>k. (\A n : Ack(m) = Ack(n) => m = n) /\ Ack(m) # Announcement
  BY Kinds
<1>1. ASSUME NEW n \in Commands, SendTracked(n) \/ Fail(n)
      PROVE  Goal
  BY <1>1 DEF SendTracked, Fail, frames
<1>2. ASSUME NEW c \in Clients, Open(c) \/ RelayRead(c)
      PROVE  Goal
  BY <1>2 DEF Open, RelayRead, history
<1>3. ASSUME NEW c \in Clients, Close(c)
      PROVE  Goal
  <2>1. /\ toClient'[c] = <<>> /\ \A d \in Clients : d # c => toClient'[d] = toClient[d]
        /\ fromWrapper' = fromWrapper /\ done' = done
    BY <1>0, <1>3 DEF Close, TypeOK
  <2> QED
    BY <2>1, NothingIn
<1>4. ASSUME NEW c \in Clients, ClientRead(c)
      PROVE  Goal
  <2>1. \A x : x \in ToSet(Tail(toClient[c])) => x \in ToSet(toClient[c])
    BY <1>0, <1>4, Shifting DEF ClientRead, TypeOK
  <2>2. /\ toClient'[c] = Tail(toClient[c]) /\ \A d \in Clients : d # c => toClient'[d] = toClient[d]
        /\ fromWrapper' = fromWrapper /\ done' = done
    BY <1>0, <1>4 DEF ClientRead, TypeOK, history
  <2> QED
    BY <2>1, <2>2
<1>5. CASE Attach
  BY <1>5 DEF Attach, frames, history
<1>6. CASE Announce
  <2>1. \A x : x \in ToSet(Tail(fromWrapper)) => x \in ToSet(fromWrapper)
    BY <1>0, <1>6, Shifting DEF Announce, TypeOK
  <2>2. ASSUME NEW c \in Clients, Ack(m) \in ToSet(toClient'[c])
        PROVE  Ack(m) \in ToSet(toClient[c])
    <3>1. toClient[c] \in Seq(Told) /\ Announcement \in Told
      BY <1>0, FrameTypes DEF TypeOK
    <3>2. \A x : x \in ToSet(Append(toClient[c], Announcement))
                   <=> x \in ToSet(toClient[c]) \/ x = Announcement
      BY <3>1, Appending
    <3> QED
      BY <1>6, <1>k, <2>2, <3>2 DEF Announce
  <2> QED
    BY <1>6, <2>1, <2>2 DEF Announce, history
<1>7. CASE RouteAck
  <2>1. \A x : x \in ToSet(fromWrapper) <=> x \in ToSet(Tail(fromWrapper)) \/ x = Head(fromWrapper)
    BY <1>0, <1>7, Shifting DEF RouteAck, TypeOK
  <2>2. PICK n \in Commands :
          /\ Head(fromWrapper) = Ack(n)
          /\ toClient' = IF Reaches(Owner[n])
                         THEN [toClient EXCEPT ![Owner[n]] = Append(@, Ack(n))]
                         ELSE toClient
    BY <1>7 DEF RouteAck
  <2>3. ASSUME NEW c \in Clients
        PROVE  \A x : x \in ToSet(toClient'[c]) => x \in ToSet(toClient[c]) \/ x = Ack(n)
    <3>1. toClient[c] \in Seq(Told) /\ Ack(n) \in Told
      BY <1>0, FrameTypes DEF TypeOK
    <3>2. \A x : x \in ToSet(Append(toClient[c], Ack(n))) <=> x \in ToSet(toClient[c]) \/ x = Ack(n)
      BY <3>1, Appending
    <3>3. toClient'[c] = toClient[c] \/ toClient'[c] = Append(toClient[c], Ack(n))
      BY <1>0, <2>2 DEF TypeOK
    <3> QED
      BY <3>2, <3>3
  <2> QED
    BY <1>7, <2>1, <2>2, <2>3 DEF RouteAck, history
<1>8. CASE LinkDown \/ LinkUp \/ Restart
  <2>1. fromWrapper' = <<>> \/ fromWrapper' = <<Announcement>>
    BY <1>8 DEF LinkDown, LinkUp, Restart
  <2>2. Ack(m) \notin ToSet(<<Announcement>>)
    BY <1>k DEF ToSet
  <2> QED
    BY <1>8, <2>1, <2>2, NothingIn DEF LinkDown, LinkUp, Restart, history
<1>9. CASE Take
  <2>1. /\ toClient' = toClient /\ done' = done
        /\ \E n \in Commands : Repeats(n) \/ Begins(n) \/ StartsTask(n) \/ Drops(n)
    BY <1>0, <1>9, TakeIs
  <2>2. PICK n \in Commands : Repeats(n) \/ Begins(n) \/ StartsTask(n) \/ Drops(n)
    BY <2>1
  <2>3. CASE fromWrapper' = fromWrapper
    BY <2>1, <2>3
  <2>4. CASE Seen(n) /\ SendAck(n)
    <3>1. \A x : x \in ToSet(fromWrapper') => x \in ToSet(fromWrapper) \/ x = Ack(n)
      BY <1>0, <2>4, AckTyped
    <3> QED
      BY <1>k, <2>1, <2>4, <3>1
  <2> QED
    BY <2>2, <2>3, <2>4 DEF Repeats, Begins, StartsTask, Drops
<1>10. ASSUME NEW n \in Commands, Finish(n)
       PROVE  Goal
  <2>1. \A x : x \in ToSet(fromWrapper') => x \in ToSet(fromWrapper) \/ x = Ack(n)
    BY <1>0, <1>10, AckTyped DEF Finish
  <2> QED
    BY <1>10, <1>k, <2>1 DEF Finish
<1> QED
  BY <1>1, <1>2, <1>3, <1>4, <1>5, <1>6, <1>7, <1>8, <1>9, <1>10 DEF Next, Handler

LEMMA AnsweredKeeps ==
  ASSUME IInv, Next
  PROVE  Answered'
<1>0. TypeOK /\ Answered
  BY DEF IInv
<1>1. ASSUME NEW m \in Commands
      PROVE  /\ Seen(m)' \/ Ack(m) \in ToSet(fromWrapper') => m \in done'
             /\ \A c \in Clients : Ack(m) \in ToSet(toClient'[c]) => m \in done'
  <2>1. Seen(m)' => m \in done'
    <3>1. Finish(m) => m \in done'
      BY DEF Finish
    <3>2. Seen(m)' => Seen(m) \/ Finish(m)
      BY KnownFrom, Constants DEF Seen
    <3> QED
      BY <1>0, <3>1, <3>2, Acknowledges DEF Answered
  <2> QED
    BY <1>0, <2>1, Acknowledges DEF Answered
<1>2. ASSUME NEW c \in Clients, NEW m \in Commands, m \in ToSet(issued'[c]), m \notin ToSet(outbox'[c])
      PROVE  m \in done'
  <2>1. CASE m \in ToSet(issued[c]) /\ m \notin ToSet(outbox[c])
    <3>1. m \in done
      BY <1>0, <2>1 DEF Answered, AckedRan
    <3> QED
      BY <3>1, Acknowledges
  <2>2. ASSUME NEW n \in Commands, SendTracked(n)
        PROVE  m \in ToSet(issued[c]) /\ m \notin ToSet(outbox[c])
    <3> PICK o \in Clients : o = Owner[n]
      BY Constants
    <3>1. /\ \A d \in Clients : d # o => outbox'[d] = outbox[d] /\ issued'[d] = issued[d]
          /\ \A x : x \in ToSet(outbox'[o]) <=> x \in ToSet(outbox[o]) \/ x = n
          /\ \A x : x \in ToSet(issued'[o]) <=> x \in ToSet(issued[o]) \/ x = n
      BY <2>2, SendIs, ZenonT(60)
    <3> QED
      BY <1>2, <3>1
  <2>3. ASSUME NEW d \in Clients, ClientRead(d), TakeAck(d), m \in ToSet(outbox[c])
        PROVE  m \in done'
    <3>1. PICK n \in Commands : Head(toClient[d]) = Ack(n) /\ outbox' = [outbox EXCEPT ![d] = Without(@, n)]
      BY <2>3 DEF TakeAck
    <3>2. outbox[d] \in Seq(Commands) /\ IsInjective(outbox[d]) /\ toClient[d] \in Seq(Told) /\ toClient[d] # <<>>
      BY <1>0, <2>3 DEF TypeOK, ClientRead
    <3>3. \A y : y \in ToSet(Without(outbox[d], n)) <=> y \in ToSet(outbox[d]) /\ y # n
      BY <3>2, Removing
    <3>4. outbox'[d] = Without(outbox[d], n) /\ \A b \in Clients : b # d => outbox'[b] = outbox[b]
      BY <1>0, <3>1 DEF TypeOK
    <3>5. m = n
      BY <1>2, <2>3, <3>3, <3>4
    <3>6. Ack(n) \in ToSet(toClient[d])
      BY <3>1, <3>2, InSet
    <3> QED
      BY <1>0, <3>5, <3>6, Acknowledges DEF Answered
  <2>4. CASE outbox' = outbox /\ issued' = issued
    BY <1>2, <2>1, <2>4
  <2>5. Quieter => issued' = issued
    BY Issuing
  <2>6. CASE Quieter
    <3>1. ASSUME NEW d \in Clients, Open(d) \/ Close(d) \/ RelayRead(d) \/ (ClientRead(d) /\ TakeAnnouncement(d))
          PROVE  outbox' = outbox
      BY <3>1 DEF Open, Close, RelayRead, browser, TakeAnnouncement
    <3>2. ASSUME NEW n \in Commands, Handler(n)
          PROVE  outbox' = outbox
      BY <3>2 DEF Handler, Finish, Fail, browser
    <3>3. Attach \/ Announce \/ RouteAck \/ LinkDown \/ LinkUp \/ Restart => outbox' = outbox
      BY DEF Attach, Announce, RouteAck, LinkDown, LinkUp, Restart, browser
    <3>4. Take => outbox' = outbox
      BY <1>0, TakeIs DEF browser
    <3>5. ASSUME NEW d \in Clients, ClientRead(d)
          PROVE  TakeAck(d) \/ TakeAnnouncement(d)
      BY <3>5 DEF ClientRead
    <3>6. m \in ToSet(issued[c])
      BY <1>2, <2>5, <2>6
    <3>7. (\E d \in Clients : ClientRead(d) /\ TakeAck(d)) \/ outbox' = outbox
      BY <2>6, <3>1, <3>2, <3>3, <3>4, <3>5 DEF Quieter
    <3> QED
      BY <2>1, <2>3, <2>4, <2>5, <2>6, <3>6, <3>7
  <2> QED
    BY <2>1, <2>2, <2>6, NextIs
<1>3. AckedRan'
  <2>1. \A c \in Clients : \A m : m \in ToSet(issued'[c]) => m \in Commands
    <3> SUFFICES ASSUME NEW c \in Clients, NEW m, m \in ToSet(issued'[c])
                 PROVE  m \in Commands
      BY <1>0
    <3>1. \A x : x \in ToSet(issued[c]) => x \in Commands
      BY <1>0, InSet DEF TypeOK
    <3>2. CASE Quieter
      BY <3>1, <3>2, Issuing
    <3>3. ASSUME NEW n \in Commands, SendTracked(n)
          PROVE  m \in Commands
      <4> PICK o \in Clients : o = Owner[n]
        BY Constants
      <4>1. /\ \A d \in Clients : d # o => issued'[d] = issued[d]
            /\ \A x : x \in ToSet(issued'[o]) <=> x \in ToSet(issued[o]) \/ x = n
        BY <3>3, SendIs
      <4> QED
        BY <3>1, <4>1
    <3> QED
      BY <3>2, <3>3, NextIs
  <2> QED
    BY <1>2, <2>1 DEF AckedRan
<1> QED
  BY <1>1, <1>3 DEF Answered, Seen

-----------------------------------------------------------------------------
(* What was taken began.                                                   *)

LEMMA Lives ==
  ASSUME IInv, Next
  PROVE  /\ Restart => count'.lives > 1
         /\ ~Restart => count'.lives = count.lives
         /\ count'.losses = 0 => count.losses = 0 /\ ~LinkDown
         /\ count'.lives = 1 => count.lives = 1 /\ ~Restart
<1>0. /\ count \in Counts /\ count.lives > 0 /\ count.lives \in Nat /\ count.losses \in Nat
      /\ TypeOK
  BY DEF IInv, TypeOK, Begun, Counts
<1> USE DEF Counts
<1>1. ASSUME Restart
      PROVE  count'.lives > 1 /\ count'.losses = count.losses
  <2>1. count' = [count EXCEPT !.lives = @ + 1]
    BY <1>1 DEF Restart
  <2> QED
    BY <1>0, <2>1
<1>2. ASSUME LinkDown
      PROVE  count'.lives = count.lives /\ count'.losses # 0
  <2>1. count' = [count EXCEPT !.losses = @ + 1]
    BY <1>2 DEF LinkDown
  <2> QED
    BY <1>0, <2>1
<1>3. ASSUME NEW c \in Clients, Close(c)
      PROVE  count'.lives = count.lives /\ count'.losses = count.losses
  <2>1. count' = [count EXCEPT !.closes = @ + 1]
    BY <1>3 DEF Close
  <2> QED
    BY <1>0, <2>1
<1>4. ASSUME NEW m \in Commands, Handler(m)
      PROVE  count'.lives = count.lives /\ count'.losses = count.losses
  <2>1. count' = count \/ count' = [count EXCEPT !.failures = @ + 1]
    BY <1>4 DEF Handler, Finish, Fail
  <2> QED
    BY <1>0, <2>1
<1>5. ASSUME NEW c \in Clients, Open(c) \/ ClientRead(c) \/ RelayRead(c)
      PROVE  count' = count
  BY <1>5 DEF Open, ClientRead, RelayRead, history
<1>6. Attach \/ Announce \/ RouteAck \/ LinkUp => count' = count
  BY DEF Attach, Announce, RouteAck, LinkUp, history
<1>7. Take => count' = count
  BY <1>0, TakeIs
<1>8. ASSUME NEW m \in Commands, SendTracked(m)
      PROVE  count' = count
  BY <1>8 DEF SendTracked
<1>9. CASE Restart
  BY <1>1, <1>2, <1>9
<1>10. CASE LinkDown
  <2>1. ~Restart \/ count'.lives > 1
    BY <1>1
  <2> QED
    BY <1>0, <1>2, <1>10, <2>1
<1>11. CASE count'.lives = count.lives /\ count'.losses = count.losses
  BY <1>0, <1>1, <1>2, <1>11
<1> QED
  BY <1>3, <1>4, <1>5, <1>6, <1>7, <1>8, <1>9, <1>10, <1>11 DEF Next

(* Only a restart empties the history of starts.                           *)
LEMMA StartedKeeps ==
  ASSUME IInv, Next, ~Restart
  PROVE  /\ \A m : m \in ToSet(started) => m \in ToSet(started')
         /\ \A m, n : Earlier(started, m, n) => Earlier(started', m, n)
         /\ lane' # Free => lane' \in ToSet(started')
<1>0. TypeOK /\ Begun
  BY DEF IInv
<1>1. CASE started' = started /\ lane' = lane
  BY <1>0, <1>1 DEF Begun
<1>2. CASE Take
  <2>1. PICK n \in Commands : Repeats(n) \/ Begins(n) \/ StartsTask(n) \/ Drops(n)
    BY <1>0, <1>2, TakeIs
  <2>2. CASE Repeats(n) \/ StartsTask(n) \/ Drops(n)
    <3>1. n \in Safe /\ Seen(n) => n \in ToSet(started)
      BY <1>0, Constants DEF Begun
    <3> QED
      BY <1>1, <1>0, <2>2, <3>1 DEF Repeats, StartsTask, Drops, Begun
  <2>3. CASE Begins(n)
    <3>1. started \in Seq(Serial) /\ n \in Serial
      BY <1>0, <2>3 DEF Begins, TypeOK
    <3>2. /\ \A x : x \in ToSet(Append(started, n)) <=> x \in ToSet(started) \/ x = n
          /\ \A x, y : Earlier(started, x, y) => Earlier(Append(started, n), x, y)
      BY <3>1, Appending
    <3> QED
      BY <2>3, <3>2 DEF Begins
  <2> QED
    BY <2>1, <2>2, <2>3
<1>3. ASSUME NEW n \in Commands, Handler(n)
      PROVE  started' = started /\ (lane' = Free \/ lane' = lane)
  <2>1. started' = started /\ InHand(n) /\ Release(n)
    BY <1>3 DEF Handler, Finish, Fail
  <2> QED
    BY <1>0, <2>1, Releases
<1>4. ASSUME NEW c \in Clients, Open(c) \/ Close(c) \/ ClientRead(c) \/ RelayRead(c)
      PROVE  started' = started /\ lane' = lane
  BY <1>4 DEF Open, Close, ClientRead, RelayRead, history, work
<1>5. Attach \/ Announce \/ RouteAck \/ LinkDown \/ LinkUp => started' = started /\ lane' = lane
  BY DEF Attach, Announce, RouteAck, LinkDown, LinkUp, history, work
<1>6. ASSUME NEW n \in Commands, SendTracked(n)
      PROVE  started' = started /\ lane' = lane
  BY <1>6 DEF SendTracked, work
<1>7. CASE started' = started /\ (lane' = Free \/ lane' = lane)
  BY <1>0, <1>7 DEF Begun
<1> QED
  BY <1>1, <1>2, <1>3, <1>4, <1>5, <1>6, <1>7 DEF Next

LEMMA BegunKeeps ==
  ASSUME IInv, Next
  PROVE  Begun'
<1>0. TypeOK /\ Begun
  BY DEF IInv
<1>1. CASE Restart
  <2>1. count'.lives > 1
    BY <1>1, Lives
  <2>2. lane' = Free /\ \A m \in Commands : ~Seen(m)'
    BY <1>1, NothingIn, Constants DEF Restart, Seen
  <2>3. count'.lives \in Int /\ count'.lives > 0 /\ count'.lives # 1
    <3>1. count' = [count EXCEPT !.lives = @ + 1] /\ count.lives \in Nat
      BY <1>0, <1>1 DEF Restart, TypeOK
    <3>2. count'.lives = count.lives + 1
      BY <1>0, <3>1 DEF TypeOK
    <3> QED
      BY <2>1, <3>1, <3>2
  <2> QED
    BY <2>2, <2>3, Constants DEF Begun
<1>2. CASE ~Restart
  <2>1. /\ \A m : m \in ToSet(started) => m \in ToSet(started')
        /\ lane' # Free => lane' \in ToSet(started')
        /\ count'.lives = count.lives
    BY <1>2, StartedKeeps, Lives
  <2>2. ASSUME NEW m \in Serial, InHand(m)
        PROVE  m \in ToSet(started)
    <3>1. lane = m /\ m # Free
      BY <2>2, Constants DEF InHand
    <3> QED
      BY <1>0, <3>1 DEF Begun
  <2>3. ASSUME NEW m \in Serial, Seen(m)'
        PROVE  m \in ToSet(started)
    <3>1. m \in Commands /\ Owner[m] \in Clients /\ (Seen(m) \/ InHand(m))
      BY <2>3, KnownFrom, Constants DEF Seen
    <3> QED
      BY <1>0, <2>2, <3>1 DEF Begun
  <2>4. ASSUME NEW m \in Serial, m \in done'
        PROVE  m \in done \/ InHand(m)
    <3>1. ASSUME NEW n \in Commands, Handler(n)
          PROVE  m \in done \/ InHand(m)
      BY <2>4, <3>1 DEF Handler, Finish, Fail
    <3>2. CASE done' = done
      BY <2>4, <3>2
    <3>3. ASSUME NEW c \in Clients, Open(c) \/ Close(c) \/ ClientRead(c) \/ RelayRead(c)
          PROVE  done' = done
      BY <3>3 DEF Open, Close, ClientRead, RelayRead, history
    <3>4. Attach \/ Announce \/ RouteAck \/ LinkDown \/ LinkUp => done' = done
      BY DEF Attach, Announce, RouteAck, LinkDown, LinkUp, history
    <3>5. ASSUME NEW n \in Commands, SendTracked(n)
          PROVE  done' = done
      BY <3>5 DEF SendTracked
    <3>6. Take => done' = done
      BY <1>0, TakeIs
    <3> QED
      BY <1>2, <3>1, <3>2, <3>3, <3>4, <3>5, <3>6 DEF Next
  <2> QED
    BY <1>0, <2>1, <2>2, <2>3, <2>4 DEF Begun
<1> QED
  BY <1>1, <1>2

-----------------------------------------------------------------------------
(* Serial commands take their turns.                                       *)

LEMMA FirstLife ==
  ASSUME IInv, Unbroken
  PROVE  /\ attached /\ up
         /\ \A c \in Clients : \A m, n \in Serial : Earlier(issued[c], m, n) =>
              InTurn(c, m, n) /\ m # n /\ m \in ToSet(issued[c]) /\ n \in ToSet(issued[c])
         /\ \A c \in Clients : \A m \in Serial : m \in ToSet(issued[c]) =>
              /\ Owner[m] = c
              /\ open[c] => OnItsWay(c, m)
              /\ m \notin ToSet(outbox[c]) => m \in ToSet(started)
         /\ \A m \in Serial : Seen(m) => m \in ToSet(started)
<1>0. TypeOK /\ Ordered /\ Turns /\ Begun /\ Answered /\ Origin /\ Serial \subseteq Commands
  BY Constants DEF IInv
<1>1. ASSUME NEW c \in Clients
      PROVE  issued[c] \in Seq(Commands) /\ IsInjective(issued[c])
  BY <1>0 DEF TypeOK, Ordered
<1>2. ASSUME NEW c \in Clients, NEW m \in Serial, NEW n \in Serial, Earlier(issued[c], m, n)
      PROVE  m # n /\ m \in ToSet(issued[c]) /\ n \in ToSet(issued[c])
  BY <1>1, <1>2, OneOrder
<1>3. ASSUME NEW c \in Clients, NEW m \in Serial, m \in ToSet(issued[c])
      PROVE  /\ Owner[m] = c
             /\ m \notin ToSet(outbox[c]) => m \in ToSet(started)
  <2>1. m \notin ToSet(outbox[c]) => m \in done
    BY <1>0, <1>3 DEF Answered, AckedRan
  <2> QED
    BY <1>0, <1>3, <2>1 DEF Origin, Begun, Unbroken
<1> QED
  BY <1>0, <1>2, <1>3 DEF Turns, Begun

LEMMA ResendsInTurn ==
  ASSUME IInv, Unbroken, NEW c \in Clients, Resends(c), toWrapper' = toWrapper, started' = started,
         NEW d \in Clients, NEW m \in Serial, NEW n \in Serial, Earlier(issued[d], m, n)
  PROVE  InTurn(d, m, n)'
<1>0. TypeOK /\ Ordered /\ m \in Commands /\ n \in Commands
  BY Constants DEF IInv
<1>1. InTurn(d, m, n) /\ m # n /\ m \in ToSet(issued[d])
  BY FirstLife
<1>2. PICK k \in 1..MaxConns : toRelay' = [toRelay EXCEPT ![c] = @ \o Preamble(c, k)]
  BY DEF Resends
<1>3. CASE d # c
  <2>1. toRelay'[d] = toRelay[d]
    BY <1>0, <1>2, <1>3, ResendIs
  <2> QED
    BY <1>1, <2>1 DEF InTurn
<1>4. CASE d = c
  <2>1. ASSUME m \notin ToSet(started), n \in ToSet(outbox[c])
        PROVE  Earlier(outbox[c], m, n)
    <3>1. m \in ToSet(outbox[c])
      BY <1>1, <1>4, <2>1, FirstLife
    <3>2. outbox[c] \in Seq(Commands) /\ IsInjective(outbox[c])
      BY <1>0 DEF TypeOK
    <3>3. Earlier(outbox[c], m, n) \/ Earlier(outbox[c], n, m)
      BY <1>1, <2>1, <3>1, <3>2, OneOrder
    <3>4. issued[c] \in Seq(Commands) /\ IsInjective(issued[c])
      BY <1>0 DEF TypeOK, Ordered
    <3>5. ~Earlier(issued[c], n, m)
      BY <1>4, <3>4, OneOrder
    <3> QED
      BY <1>0, <3>3, <3>5 DEF Ordered
  <2>2. m \notin ToSet(started) /\ Ahead(toRelay[c], Cmd(m), Cmd(n)) => Ahead(toRelay'[c], Cmd(m), Cmd(n))
    BY <1>0, <1>2, <2>1, ResendIs
  <2> QED
    BY <1>1, <1>4, <2>2 DEF InTurn
<1> QED
  BY <1>3, <1>4

LEMMA ReadInTurn ==
  ASSUME IInv, Unbroken, NEW c \in Clients, RelayRead(c),
         NEW d \in Clients, NEW m \in Serial, NEW n \in Serial, Earlier(issued[d], m, n)
  PROVE  InTurn(d, m, n)'
<1>0. TypeOK /\ Origin /\ attached /\ m \in Commands /\ n \in Commands
  BY Constants, FirstLife DEF IInv
<1>1. InTurn(d, m, n) /\ m # n /\ Owner[n] = d
  BY FirstLife
<1>2. /\ toRelay[c] \in Seq(Sent) /\ toRelay[c] # <<>> /\ toWrapper \in Seq(Commands)
      /\ toRelay'[c] = Tail(toRelay[c]) /\ \A b \in Clients : b # c => toRelay'[b] = toRelay[b]
      /\ started' = started
  BY <1>0 DEF RelayRead, TypeOK, history
<1>3. /\ \A x, y : Ahead(toRelay[c], x, y) => Head(toRelay[c]) # y
      /\ \A x, y : Ahead(toRelay[c], x, y) /\ Head(toRelay[c]) # x => Ahead(Tail(toRelay[c]), x, y)
      /\ Head(toRelay[c]) \in ToSet(toRelay[c])
  BY <1>2, Shifting
<1>4. CASE UNCHANGED toWrapper /\ \E k \in 1..MaxConns : Head(toRelay[c]) = Hello(k)
  <2>1. Head(toRelay[c]) # Cmd(m)
    BY <1>4, Kinds
  <2>2. Ahead(toRelay[d], Cmd(m), Cmd(n)) => Ahead(toRelay'[d], Cmd(m), Cmd(n))
    BY <1>2, <1>3, <2>1
  <2> QED
    BY <1>1, <1>2, <1>4, <2>2 DEF InTurn
<1>5. ASSUME NEW h \in Commands, Head(toRelay[c]) = Cmd(h), toWrapper' = Append(toWrapper, h)
      PROVE  InTurn(d, m, n)'
  <2>1. /\ \A x : x \in ToSet(toWrapper') <=> x \in ToSet(toWrapper) \/ x = h
        /\ \A x, y : Ahead(toWrapper, x, y) /\ (y = h => x \in ToSet(toWrapper)) => Ahead(toWrapper', x, y)
    BY <1>2, <1>5, Appending
  <2>2. Owner[h] = c
    BY <1>0, <1>3, <1>5 DEF Origin
  <2>3. ASSUME m \notin ToSet(started)
        PROVE  /\ Ahead(toWrapper', m, n)
               /\ m \in ToSet(toWrapper') \/ Ahead(toRelay'[d], Cmd(m), Cmd(n))
    <3>1. Ahead(toWrapper, m, n) /\ (m \in ToSet(toWrapper) \/ Ahead(toRelay[d], Cmd(m), Cmd(n)))
      BY <1>1, <2>3 DEF InTurn
    <3>2. CASE m \in ToSet(toWrapper)
      BY <2>1, <3>1, <3>2
    <3>3. CASE Ahead(toRelay[d], Cmd(m), Cmd(n)) /\ d # c
      BY <1>1, <1>2, <2>1, <2>2, <3>1, <3>3
    <3>4. CASE Ahead(toRelay[d], Cmd(m), Cmd(n)) /\ d = c
      <4>1. h # n
        BY <1>3, <1>5, <3>4
      <4>2. h # m => Head(toRelay[c]) # Cmd(m)
        BY <1>5, Kinds
      <4> QED
        BY <1>2, <1>3, <2>1, <3>1, <3>4, <4>1, <4>2
    <3> QED
      BY <3>1, <3>2, <3>3, <3>4
  <2> QED
    BY <1>1, <1>2, <2>3 DEF InTurn
<1> QED
  BY <1>0, <1>4, <1>5 DEF RelayRead

LEMMA TakeInTurn ==
  ASSUME IInv, Unbroken, Take,
         NEW d \in Clients, NEW m \in Serial, NEW n \in Serial, Earlier(issued[d], m, n)
  PROVE  InTurn(d, m, n)'
<1>0. TypeOK /\ Origin /\ m \in Commands /\ n \in Commands /\ m \notin Tasks /\ n \notin Tasks
  BY Constants DEF IInv
<1>1. InTurn(d, m, n) /\ m # n /\ (Seen(m) => m \in ToSet(started))
  BY FirstLife
<1>2. toWrapper \in Seq(Commands) /\ toWrapper # <<>> /\ toWrapper' = Tail(toWrapper) /\ toRelay' = toRelay
  BY <1>0, TakeIs DEF TypeOK
<1>3. PICK h \in Commands : h = Head(toWrapper) /\ (Repeats(h) \/ Begins(h) \/ StartsTask(h) \/ Drops(h))
  BY <1>0, TakeIs
<1>4. /\ \A x, y : Ahead(toWrapper, x, y) => h # y
      /\ \A x, y : Ahead(toWrapper, x, y) /\ h # x => Ahead(toWrapper', x, y)
      /\ \A x : x \in ToSet(toWrapper) <=> x \in ToSet(toWrapper') \/ x = h
  BY <1>2, <1>3, Shifting
<1>5. started \in Seq(Serial)
  BY <1>0 DEF TypeOK
<1>6. ASSUME Begins(h), h \notin ToSet(started)
      PROVE  /\ \A x : x \in ToSet(started') <=> x \in ToSet(started) \/ x = h
             /\ \A x, y : Earlier(started', x, y)
                            <=> Earlier(started, x, y) \/ (y = h /\ x \in ToSet(started))
  BY <1>5, <1>6, Appending DEF Begins
<1>7. started' = started \/ (Begins(h) /\ h \notin ToSet(started))
  BY <1>3 DEF Repeats, Begins, StartsTask, Drops
<1>8. CASE m \in ToSet(started)
  <2>1. n \in ToSet(started) => Earlier(started, m, n)
    BY <1>1, <1>8 DEF InTurn
  <2>2. CASE started' = started
    BY <1>8, <2>1, <2>2 DEF InTurn
  <2>3. CASE Begins(h) /\ h \notin ToSet(started)
    BY <1>6, <1>8, <2>1, <2>3 DEF InTurn
  <2> QED
    BY <1>7, <2>2, <2>3
<1>9. CASE m \notin ToSet(started)
  <2>1. /\ n \notin ToSet(started) /\ Ahead(toWrapper, m, n)
        /\ m \in ToSet(toWrapper) \/ Ahead(toRelay[d], Cmd(m), Cmd(n))
    BY <1>1, <1>9 DEF InTurn
  <2>2. h # n
    BY <1>4, <2>1
  <2>3. CASE h = m
    <3>1. Begins(m)
      BY <1>0, <1>1, <1>3, <1>9, <2>3 DEF Repeats, StartsTask, Drops
    <3>2. m \in ToSet(started') /\ n \notin ToSet(started')
      BY <1>6, <1>9, <2>1, <2>2, <2>3, <3>1
    <3> QED
      BY <3>2 DEF InTurn
  <2>4. CASE h # m
    <3>1. m \notin ToSet(started') /\ n \notin ToSet(started')
      BY <1>6, <1>7, <1>9, <2>1, <2>2, <2>4
    <3> QED
      BY <1>2, <1>4, <2>1, <2>4, <3>1 DEF InTurn
  <2> QED
    BY <2>3, <2>4
<1> QED
  BY <1>8, <1>9

LEMMA SendInTurn ==
  ASSUME IInv, Unbroken, NEW x \in Commands, SendTracked(x),
         NEW d \in Clients, NEW m \in Serial, NEW n \in Serial, Earlier(issued'[d], m, n)
  PROVE  InTurn(d, m, n)'
<1>0. TypeOK /\ Origin /\ m \in Commands /\ n \in Commands
  BY Constants DEF IInv
<1> PICK o \in Clients : o = Owner[x]
  BY Constants
<1>1. /\ \A b \in Clients : b # o => issued'[b] = issued[b] /\ toRelay'[b] = toRelay[b]
      /\ toRelay'[o] = IF open[o] THEN Append(toRelay[o], Cmd(x)) ELSE toRelay[o]
      /\ \A y, z : Earlier(issued'[o], y, z)
                     <=> Earlier(issued[o], y, z) \/ (z = x /\ y \in ToSet(issued[o]))
      /\ toWrapper' = toWrapper /\ started' = started
  BY SendIs, ZenonT(60)
<1>2. /\ ~Issued(x) /\ x \notin ToSet(started) /\ x \notin ToSet(toWrapper)
      /\ Cmd(x) \notin ToSet(toRelay[o])
  BY IsNew DEF Present
<1>3. \A y, z : Ahead(toRelay[o], y, z) /\ (z = Cmd(x) => y \in ToSet(toRelay[o]))
                  => Ahead(Append(toRelay[o], Cmd(x)), y, z)
  <2>1. toRelay[o] \in Seq(Sent) /\ Cmd(x) \in Sent
    BY <1>0, FrameTypes DEF TypeOK
  <2> QED
    BY <2>1, Appending
<1>4. CASE Earlier(issued[d], m, n)
  <2>1. InTurn(d, m, n) /\ Issued(n)
    BY <1>4, FirstLife DEF Issued
  <2>2. Cmd(n) # Cmd(x)
    BY <1>2, <2>1, Kinds
  <2>3. Ahead(toRelay[d], Cmd(m), Cmd(n)) => Ahead(toRelay'[d], Cmd(m), Cmd(n))
    BY <1>1, <1>3, <2>2
  <2> QED
    BY <1>1, <2>1, <2>3 DEF InTurn
<1>5. CASE d = o /\ n = x /\ m \in ToSet(issued[o])
  <2>1. Ahead(toWrapper, m, n) /\ Ahead(toRelay[o], Cmd(m), Cmd(n))
    BY <1>2, <1>5 DEF Ahead, ToSet
  <2>2. open[o] => m \in ToSet(started) \/ m \in ToSet(toWrapper) \/ Cmd(m) \in ToSet(toRelay[o])
    BY <1>5, FirstLife DEF OnItsWay
  <2>3. m \in ToSet(started) \/ m \in ToSet(toWrapper) \/ Ahead(toRelay'[o], Cmd(m), Cmd(n))
    BY <1>1, <1>3, <2>1, <2>2
  <2> QED
    BY <1>1, <1>2, <1>5, <2>1, <2>3 DEF InTurn
<1> QED
  BY <1>1, <1>4, <1>5

LEMMA TurnsKeep ==
  ASSUME IInv, Next
  PROVE  Turns'
<1>0. TypeOK
  BY DEF IInv
<1> SUFFICES ASSUME Unbroken'
             PROVE  /\ attached' /\ up'
                    /\ \A d \in Clients :
                         /\ \A m, n \in Serial : Earlier(issued'[d], m, n) => InTurn(d, m, n)'
                         /\ open'[d] => \A m \in Serial : m \in ToSet(issued'[d]) => OnItsWay(d, m)'
  BY DEF Turns
<1>1. Unbroken /\ ~LinkDown /\ ~Restart
  BY Lives DEF Unbroken
<1>2. /\ attached /\ up
      /\ \A m \in Serial : Seen(m) => m \in ToSet(started)
      /\ \A m : m \in ToSet(started) => m \in ToSet(started')
  BY <1>1, FirstLife, StartedKeeps
<1>3. attached' /\ up'
  <2>1. ASSUME NEW c \in Clients, Open(c) \/ Close(c) \/ ClientRead(c) \/ RelayRead(c)
        PROVE  attached' /\ up'
    BY <1>2, <2>1 DEF Open, Close, ClientRead, RelayRead, relay
  <2>2. ASSUME NEW m \in Commands, SendTracked(m) \/ Handler(m)
        PROVE  attached' /\ up'
    BY <1>2, <2>2 DEF SendTracked, Handler, Finish, Fail, relay
  <2>3. Attach \/ Announce \/ RouteAck \/ LinkUp => attached' /\ up'
    BY <1>2 DEF Attach, Announce, RouteAck, LinkUp, relay
  <2>4. Take => attached' /\ up'
    BY <1>0, <1>2, TakeIs DEF relay
  <2> QED
    BY <1>1, <2>1, <2>2, <2>3, <2>4 DEF Next
(* Both parts at once, for a browser d.                                    *)
<1> SUFFICES ASSUME NEW d \in Clients
             PROVE  /\ \A m, n \in Serial : Earlier(issued'[d], m, n) => InTurn(d, m, n)'
                    /\ open'[d] => \A m \in Serial : m \in ToSet(issued'[d]) => OnItsWay(d, m)'
  BY <1>3
<1> DEFINE Orderly == \A m, n \in Serial : Earlier(issued'[d], m, n) => InTurn(d, m, n)'
           Coming  == open'[d] => \A m \in Serial : m \in ToSet(issued'[d]) => OnItsWay(d, m)'
<1>4. ASSUME issued' = issued, open'[d] => open[d], started' = started, toWrapper' = toWrapper,
             toRelay'[d] = toRelay[d]
      PROVE  Orderly /\ Coming
  BY <1>1, <1>4, FirstLife DEF InTurn, OnItsWay
<1>5. ASSUME NEW c \in Clients, Resends(c), toWrapper' = toWrapper, started' = started, issued' = issued
      PROVE  Orderly
  BY <1>1, <1>5, ResendsInTurn
<1>6. ASSUME NEW c \in Clients, Open(c)
      PROVE  Orderly /\ Coming
  <2>1. /\ Resends(c) /\ toWrapper' = toWrapper /\ started' = started /\ issued' = issued /\ outbox' = outbox
        /\ \A b \in Clients : b # c => open'[b] = open[b]
    BY <1>0, <1>6, OpenIs DEF Open, history, TypeOK
  <2>2. PICK k \in 1..MaxConns : toRelay' = [toRelay EXCEPT ![c] = @ \o Preamble(c, k)]
    BY <2>1 DEF Resends
  <2>3. ASSUME NEW m \in Serial, m \in ToSet(issued[d]), open'[d]
        PROVE  OnItsWay(d, m)'
    <3>1. CASE d = c
      <4>1. m \in ToSet(started) \/ m \in ToSet(outbox[c])
        BY <1>1, <2>3, <3>1, FirstLife
      <4>2. m \in ToSet(outbox[c]) => Cmd(m) \in ToSet(toRelay'[c])
        BY <1>0, <2>2, ResendIs
      <4> QED
        BY <2>1, <3>1, <4>1, <4>2 DEF OnItsWay
    <3>2. CASE d # c
      <4>1. toRelay'[d] = toRelay[d]
        BY <1>0, <2>2, <3>2, ResendIs
      <4> QED
        BY <1>1, <2>1, <2>3, <3>2, <4>1, FirstLife DEF OnItsWay
    <3> QED
      BY <3>1, <3>2
  <2> QED
    BY <1>5, <2>1, <2>3
<1>7. ASSUME NEW c \in Clients, Close(c)
      PROVE  Orderly /\ Coming
  <2>1. /\ toWrapper' = toWrapper /\ started' = started /\ issued' = issued /\ ~open'[c]
        /\ \A b \in Clients : b # c => open'[b] = open[b] /\ toRelay'[b] = toRelay[b]
    BY <1>0, <1>7 DEF Close, TypeOK
  <2>2. PICK i \in 0..Len(toRelay[c]) : toRelay' = [toRelay EXCEPT ![c] = SubSeq(@, 1, i)]
    BY <1>7 DEF Close
  <2>3. /\ toRelay'[c] = SubSeq(toRelay[c], 1, i) /\ toRelay[c] \in Seq(Sent)
    BY <1>0, <2>2 DEF TypeOK
  <2>4. \A x, y : Ahead(toRelay[c], x, y) => Ahead(toRelay'[c], x, y)
    BY <2>3, CutOff
  <2>5. CASE d = c
    BY <1>1, <2>1, <2>4, <2>5, FirstLife DEF InTurn
  <2>6. CASE d # c
    BY <1>4, <2>1, <2>6
  <2> QED
    BY <2>5, <2>6
<1>8. ASSUME NEW c \in Clients, ClientRead(c)
      PROVE  Orderly /\ Coming
  <2>1. toWrapper' = toWrapper /\ started' = started /\ issued' = issued /\ open' = open
    BY <1>8 DEF ClientRead, history
  <2>2. CASE TakeAck(c)
    BY <1>4, <2>1, <2>2 DEF TakeAck
  <2>3. CASE TakeAnnouncement(c)
    <3>1. Resends(c)
      BY <1>8, <2>3, AnnouncedIs
    <3>2. PICK k \in 1..MaxConns : toRelay' = [toRelay EXCEPT ![c] = @ \o Preamble(c, k)]
      BY <3>1 DEF Resends
    <3>3. \A m : Cmd(m) \in ToSet(toRelay[d]) => Cmd(m) \in ToSet(toRelay'[d])
      BY <1>0, <3>2, ResendIs
    <3>4. Coming
      BY <1>1, <2>1, <3>3, FirstLife DEF OnItsWay
    <3> QED
      BY <1>5, <2>1, <3>1, <3>4
  <2> QED
    BY <1>8, <2>2, <2>3 DEF ClientRead
<1>9. ASSUME NEW c \in Clients, RelayRead(c)
      PROVE  Orderly /\ Coming
  <2>1. started' = started /\ issued' = issued /\ open' = open
    BY <1>9 DEF RelayRead, history, browser
  <2>2. Orderly
    BY <1>1, <1>9, <2>1, ReadInTurn
  <2>3. toRelay[c] \in Seq(Sent) /\ toRelay[c] # <<>> /\ toWrapper \in Seq(Commands)
    BY <1>0, <1>9 DEF RelayRead, TypeOK
  <2>4. \A x : x \in ToSet(toRelay[d]) =>
          x \in ToSet(toRelay'[d]) \/ (d = c /\ x = Head(toRelay[c]))
    <3>1. \A x : x \in ToSet(toRelay[c]) <=> x \in ToSet(Tail(toRelay[c])) \/ x = Head(toRelay[c])
      BY <2>3, Shifting
    <3> QED
      BY <1>0, <1>9, <3>1 DEF RelayRead, TypeOK
  <2>5. \A m \in Serial : m \in ToSet(toWrapper) \/ Head(toRelay[c]) = Cmd(m) => m \in ToSet(toWrapper')
    <3>1. CASE UNCHANGED toWrapper /\ \E k \in 1..MaxConns : Head(toRelay[c]) = Hello(k)
      BY <3>1, Kinds
    <3>2. ASSUME NEW h \in Commands, Head(toRelay[c]) = Cmd(h), toWrapper' = Append(toWrapper, h)
          PROVE  \A m \in Serial : m \in ToSet(toWrapper) \/ Head(toRelay[c]) = Cmd(m) => m \in ToSet(toWrapper')
      <4>1. \A x : x \in ToSet(toWrapper') <=> x \in ToSet(toWrapper) \/ x = h
        BY <2>3, <3>2, Appending
      <4> QED
        BY <3>2, <4>1, Kinds
    <3> QED
      BY <1>2, <1>9, <3>1, <3>2 DEF RelayRead
  <2>6. Coming
    BY <1>1, <2>1, <2>4, <2>5, FirstLife DEF OnItsWay
  <2> QED
    BY <2>2, <2>6
<1>10. CASE Take
  <2>1. /\ issued' = issued /\ open' = open /\ toRelay' = toRelay /\ toWrapper' = Tail(toWrapper)
        /\ toWrapper \in Seq(Commands) /\ toWrapper # <<>>
    BY <1>0, <1>10, TakeIs DEF browser, TypeOK
  <2>2. Orderly
    BY <1>1, <1>10, <2>1, TakeInTurn
  <2>3. PICK h \in Commands : h = Head(toWrapper) /\ (Repeats(h) \/ Begins(h) \/ StartsTask(h) \/ Drops(h))
    BY <1>0, <1>10, TakeIs
  <2>4. h \in Serial => h \in ToSet(started')
    <3>1. h \in Serial => h \notin Tasks
      BY Constants
    <3>2. started \in Seq(Serial)
      BY <1>0 DEF TypeOK
    <3>3. h \in Serial => h \in ToSet(Append(started, h))
      BY <3>2, Appending
    <3> QED
      BY <1>2, <2>3, <3>1, <3>3 DEF Repeats, Begins, StartsTask, Drops
  <2>5. \A x : x \in ToSet(toWrapper) <=> x \in ToSet(toWrapper') \/ x = h
    BY <2>1, <2>3, Shifting
  <2>6. Coming
    BY <1>1, <1>2, <2>1, <2>4, <2>5, FirstLife DEF OnItsWay
  <2> QED
    BY <2>2, <2>6
<1>11. ASSUME NEW x \in Commands, SendTracked(x)
       PROVE  Orderly /\ Coming
  <2>1. Orderly
    BY <1>1, <1>11, SendInTurn
  <2> PICK o \in Clients : o = Owner[x]
    BY Constants
  <2>2. /\ \A b \in Clients : b # o => issued'[b] = issued[b] /\ toRelay'[b] = toRelay[b]
        /\ \A y : y \in ToSet(issued'[o]) <=> y \in ToSet(issued[o]) \/ y = x
        /\ \A y : y \in ToSet(toRelay'[o]) <=> y \in ToSet(toRelay[o]) \/ (open[o] /\ y = Cmd(x))
        /\ toWrapper' = toWrapper /\ started' = started /\ open' = open
    BY <1>11, SendIs
  <2>3. Coming
    BY <1>1, <2>2, FirstLife DEF OnItsWay
  <2> QED
    BY <2>1, <2>3
<1>12. ASSUME NEW x \in Commands, Handler(x)
       PROVE  Orderly /\ Coming
  BY <1>4, <1>12 DEF Handler, Finish, Fail, browser, frames
<1>13. CASE Attach \/ Announce \/ RouteAck \/ LinkUp
  BY <1>4, <1>13 DEF Attach, Announce, RouteAck, LinkUp, browser, frames, history
<1> QED
  BY <1>1, <1>6, <1>7, <1>8, <1>9, <1>10, <1>11, <1>12, <1>13 DEF Next

-----------------------------------------------------------------------------
(* The invariant holds.                                                    *)

LEMMA InitIInv ==
  Init => IInv
<1> SUFFICES ASSUME Init
             PROVE  IInv
  OBVIOUS
<1>1. /\ \A c \in Clients :
           /\ outbox[c] = <<>> /\ open[c] = FALSE /\ conn[c] = 0 /\ toRelay[c] = <<>>
           /\ toClient[c] = <<>> /\ routed[c] = 0 /\ known[c] = <<>> /\ issued[c] = <<>>
      /\ attached = TRUE /\ up = TRUE /\ toWrapper = <<>> /\ fromWrapper = <<>>
      /\ lane = Free /\ again = FALSE /\ started = <<>> /\ done = {} /\ raised = {}
      /\ \A m \in Tasks : running[m] = 0
      /\ \A m \in Commands : ran[m] = 0
      /\ count = [closes |-> 0, losses |-> 0, lives |-> 1, failures |-> 0]
  BY DEF Init
<1>2. \A m \in Commands : ~InHand(m) /\ ~Present(m) /\ ~Seen(m)
  <2> SUFFICES ASSUME NEW m \in Commands
               PROVE  ~InHand(m) /\ ~Present(m) /\ ~Seen(m)
    OBVIOUS
  <2>1. ~InHand(m)
    BY <1>1, Constants DEF InHand
  <2> QED
    BY <1>1, <2>1, NothingIn, Constants DEF Present, Seen
<1>3. TypeOK
  <2>1. count \in [closes : Nat, losses : Nat, lives : Nat, failures : Nat]
    BY <1>1
  <2>2. /\ outbox \in [Clients -> Seq(Commands)] /\ open \in [Clients -> BOOLEAN]
        /\ conn \in [Clients -> 0..MaxConns] /\ routed \in [Clients -> 0..MaxConns]
        /\ toRelay \in [Clients -> Seq(Sent)] /\ toClient \in [Clients -> Seq(Told)]
        /\ known \in [Clients -> Seq(Commands)] /\ issued \in [Clients -> Seq(Commands)]
        /\ running \in [Tasks -> Nat] /\ ran \in [Commands -> Nat]
    BY NothingIn, Constants DEF Init
  <2>3. /\ toWrapper \in Seq(Commands) /\ fromWrapper \in Seq(Told) /\ started \in Seq(Serial)
    BY <1>1, NothingIn
  <2>4. \A c \in Clients :
       /\ routed[c] <= conn[c]
       /\ IsInjective(outbox[c]) /\ Len(outbox[c]) <= OutboxCap
       /\ IsInjective(known[c]) /\ Len(known[c]) <= IdsPerClient
    BY <1>1, NothingIn, Constants
  <2> QED
    BY <1>1, <2>1, <2>2, <2>3, <2>4 DEF TypeOK
<1>4. Sockets
  BY <1>1, NothingIn, Constants DEF Sockets
<1>5. Origin
  BY <1>1, <1>2, NothingIn DEF Origin
<1>6. Answered
  BY <1>1, <1>2, NothingIn DEF Answered, AckedRan
<1>7. Ordered
  BY <1>1, NothingIn DEF Ordered
<1>8. Begun
  BY <1>1, <1>2, Constants DEF Begun
<1>9. Turns
  BY <1>1, NothingIn DEF Turns
<1> QED
  BY <1>3, <1>4, <1>5, <1>6, <1>7, <1>8, <1>9 DEF IInv

LEMMA NextTyped ==
  ASSUME IInv, Next
  PROVE  TypeOK'
BY SendTyped, BrowserTyped, RelayTyped, WrapperTyped DEF Next

LEMMA Inductive ==
  IInv /\ [Next]_vars => IInv'
<1>1. ASSUME IInv, Next
      PROVE  IInv'
  BY <1>1, NextTyped, SocketsKeep, OriginKeeps, AnsweredKeeps, OrderedKeeps, BegunKeeps, TurnsKeep
     DEF IInv
<1>2. ASSUME IInv, UNCHANGED vars
      PROVE  IInv'
  <2> USE <1>2 DEF vars, browser, relay, frames, work, history
  <2>1. TypeOK' /\ Sockets' /\ Ordered'
    BY DEF IInv, TypeOK, Sockets, Ordered
  <2>2. Origin' /\ Answered'
    BY DEF IInv, Origin, Answered, AckedRan, Present, Seen, InHand, Issued
  <2>3. Begun' /\ Turns'
    BY DEF IInv, Begun, Turns, Seen, Unbroken, InTurn, OnItsWay
  <2> QED
    BY <2>1, <2>2, <2>3 DEF IInv
<1> QED
  BY <1>1, <1>2

(* The invariants below with what their induction needs: where a command   *)
(* may be, in which order, and what has begun or was completed.            *)
THEOREM Invariance == Spec => []IInv
BY InitIInv, Inductive, PTL DEF Spec

(* Every variable has its type; an outbox keeps OUTBOX_MAX_COMMANDS, the   *)
(* memory COMMAND_IDS_PER_CLIENT, and neither holds an id twice.           *)
THEOREM TypeCorrect == Spec => []TypeOK
<1>1. IInv => TypeOK
  BY DEF IInv
<1> QED
  BY <1>1, Invariance, PTL

(* A command leaves the outbox only after its handler completed, whatever  *)
(* sockets, links and processes were lost in between.                      *)
THEOREM LeavesWhenDone == Spec => []AckedRan
<1>1. IInv => AckedRan
  BY DEF IInv, Answered
<1> QED
  BY <1>1, Invariance, PTL

(* While the wrapper and its link live, each browser's serial commands are *)
(* started in the order in which they were sent.                           *)
THEOREM StartsInOrder == Spec => []InOrder
<1>1. IInv => InOrder
  <2> SUFFICES ASSUME IInv, Unbroken, NEW c \in Clients, NEW m \in Serial, NEW n \in Serial,
                      Earlier(issued[c], m, n), n \in ToSet(started)
               PROVE  Earlier(started, m, n)
    BY DEF InOrder, Unbroken
  <2>1. InTurn(c, m, n)
    BY FirstLife
  <2> QED
    BY <2>1 DEF InTurn
<1> QED
  BY <1>1, Invariance, PTL

-----------------------------------------------------------------------------
(* At most once.                                                           *)

(* How the memory moves.                                                   *)
LEMMA MemoryIs ==
  ASSUME IInv, Next
  PROVE  \/ known' = known
         \/ Restart
         \/ \E m \in Commands : Present(m) /\ Recalls(m) /\ issued' = issued
<1>0. TypeOK
  BY DEF IInv
<1>1. ASSUME Take, known' # known
      PROVE  \E m \in Commands : Present(m) /\ Recalls(m) /\ issued' = issued
  <2>1. PICK m \in Commands : m = Head(toWrapper) /\ (Repeats(m) \/ Begins(m) \/ StartsTask(m) \/ Drops(m))
    BY <1>0, <1>1, TakeIs
  <2>2. toWrapper \in Seq(Commands) /\ toWrapper # <<>> /\ issued' = issued
    BY <1>0, <1>1, TakeIs DEF TypeOK
  <2>3. Present(m)
    BY <2>1, <2>2, InSet DEF Present
  <2>4. Recalls(m)
    BY <1>1, <2>1 DEF Repeats, Begins, StartsTask, Drops
  <2> QED
    BY <2>2, <2>3, <2>4
<1>2. ASSUME NEW m \in Commands, Handler(m), known' # known
      PROVE  Present(m) /\ Recalls(m) /\ issued' = issued
  <2>1. InHand(m) /\ Remember(m) /\ issued' = issued
    BY <1>2 DEF Handler, Finish, Fail
  <2> QED
    BY <1>0, <2>1, MemoryMoves DEF Present
<1>3. ASSUME NEW c \in Clients, Open(c) \/ Close(c) \/ ClientRead(c) \/ RelayRead(c)
      PROVE  known' = known
  BY <1>3 DEF Open, Close, ClientRead, RelayRead
<1>4. Attach \/ Announce \/ RouteAck \/ LinkDown \/ LinkUp => known' = known
  BY DEF Attach, Announce, RouteAck, LinkDown, LinkUp
<1>5. ASSUME NEW m \in Commands, SendTracked(m)
      PROVE  known' = known
  BY <1>5 DEF SendTracked
<1> QED
  BY <1>1, <1>2, <1>3, <1>4, <1>5 DEF Next

LEMMA WindowIs ==
  /\ Window \in Nat \ {0}
  /\ \A n \in Nat : n > IdsPerClient => 2 * Window <= n
<1>1. IdsPerClient \in Nat \ {0}
  BY Constants
<1> QED
  BY <1>1 DEF Window

(* A present command is less than Window older than the newest.            *)
LEMMA InTime ==
  ASSUME IInv, Settled, NEW c \in Clients, NEW m \in Commands, Present(m), Owner[m] = c,
         NEW i \in DOMAIN issued[c], NEW j \in DOMAIN issued[c], issued[c][j] = m
  PROVE  i < j + Window
<1>1. issued[c] \in Seq(Commands)
  BY DEF IInv, TypeOK
<1>2. Len(issued[c]) \in Nat /\ DOMAIN issued[c] = 1..Len(issued[c])
  BY <1>1, InSet
<1>3. Len(issued[c]) < j + Window
  BY DEF Settled
<1> QED
  BY <1>2, <1>3, WindowIs

(* The memory forgets only what nothing is left of.                        *)
LEMMA Forgotten ==
  ASSUME IInv, Settled, Recent, NEW m \in Commands, Present(m),
         NEW x \in Commands, x \in ToSet(known[Owner[m]]), Forgets(Owner[m], m, x)
  PROVE  ~Present(x)
<1> PICK c \in Clients : c = Owner[m]
  BY Constants
<1>0. TypeOK /\ Origin /\ Ordered
  BY DEF IInv
<1>1. PICK ids \in Seq(Commands) :
        /\ IsInjective(ids) /\ Len(ids) > IdsPerClient /\ Head(ids) = x
        /\ \A y \in ToSet(ids) : y \in ToSet(known[c]) \/ y = m
        /\ \A y, z : Earlier(ids, y, z) =>
             Earlier(known[c], y, z) \/ (z = m /\ y \in ToSet(known[c]))
  BY DEF Forgets
<1>2. issued[c] \in Seq(Commands) /\ IsInjective(issued[c])
  BY <1>0 DEF TypeOK, Ordered
<1>3. \A y \in ToSet(ids) : y \in ToSet(issued[c])
  <2> SUFFICES ASSUME NEW y \in ToSet(ids)
               PROVE  y \in ToSet(issued[c])
    OBVIOUS
  <2>1. y \in Commands
    BY <1>1, InSet
  <2>2. y \in ToSet(known[c]) => Owner[y] = c
    BY <1>0, <2>1 DEF Origin
  <2>3. y = m \/ (Owner[y] = c /\ Seen(y))
    BY <1>1, <2>2 DEF Seen
  <2>4. Issued(m) /\ (Seen(y) => Issued(y))
    BY <1>0, <2>1 DEF Origin
  <2> QED
    BY <2>3, <2>4 DEF Issued
<1>4. ASSUME NEW y, NEW z, Earlier(ids, y, z),
             NEW i \in DOMAIN issued[c], NEW j \in DOMAIN issued[c],
             issued[c][i] = y, issued[c][j] = z
      PROVE  i < j + Window
  <2>1. y \in Commands /\ z \in Commands
    BY <1>2, <1>4, InSet
  <2>2. CASE Earlier(known[c], y, z)
    BY <1>4, <2>1, <2>2 DEF Recent
  <2>3. CASE z = m
    BY <1>4, <2>3, InTime
  <2> QED
    BY <1>1, <1>4, <2>2, <2>3
<1>5. Len(ids) \in Nat /\ ids # <<>> /\ x \in ToSet(ids)
  <2>1. Len(ids) \in Nat /\ Len(ids) > 0
    BY <1>1, InSet, Constants
  <2>2. ids # <<>>
    BY <2>1, NothingIn
  <2> QED
    BY <1>1, <2>1, <2>2, InSet
<1>6. 2 * Window <= Len(ids) /\ Window \in Nat \ {0}
  BY <1>1, <1>5, WindowIs
<1>7. PICK a \in DOMAIN issued[c] : issued[c][a] = x
  BY <1>2, <1>3, <1>5, InSet
<1>8. ~(Len(issued[c]) < a + Window)
  <2>1. ToSet(ids) \subseteq ToSet(issued[c]) /\ issued[c][a] = Head(ids)
    BY <1>1, <1>3, <1>7
  <2> PICK t : t = issued[c]
    OBVIOUS
  <2> PICK w : w = Window
    OBVIOUS
  <2>2. /\ t \in Seq(Commands) /\ IsInjective(t) /\ ToSet(ids) \subseteq ToSet(t)
        /\ w \in Nat \ {0} /\ 2 * w <= Len(ids) /\ a \in DOMAIN t /\ t[a] = Head(ids)
        /\ \A y, z : Earlier(ids, y, z) =>
             \A i, j \in DOMAIN t : t[i] = y /\ t[j] = z => i < j + w
    BY <1>2, <1>4, <1>6, <2>1
  <2>3. ~(Len(t) < a + w)
    BY <1>1, <2>2, FarBack
  <2> QED
    BY <2>3
<1> QED
  BY <1>7, <1>8 DEF Settled

LEMMA RecentKeeps ==
  ASSUME IInv, Settled, Recent, Next
  PROVE  Recent'
<1>0. TypeOK
  BY DEF IInv
<1>1. CASE Restart
  BY <1>1, NothingIn DEF Restart, Recent
<1>2. ASSUME NEW n \in Commands, Present(n), Recalls(n), issued' = issued
      PROVE  Recent'
  <2> SUFFICES ASSUME NEW c \in Clients, NEW x \in Commands, NEW y \in Commands,
                      Earlier(known'[c], x, y),
                      NEW i \in DOMAIN issued[c], NEW j \in DOMAIN issued[c],
                      issued[c][i] = x, issued[c][j] = y
               PROVE  i < j + Window
    BY <1>2 DEF Recent
  <2>1. CASE Earlier(known[c], x, y)
    BY <2>1 DEF Recent
  <2>2. CASE c = Owner[n] /\ y = n
    BY <1>2, <2>2, InTime
  <2> QED
    BY <1>2, <2>1, <2>2 DEF Recalls
<1>3. CASE known' = known /\ issued' = issued
  BY <1>3 DEF Recent
<1>4. ASSUME NEW n \in Commands, SendTracked(n)
      PROVE  Recent'
  <2> PICK o \in Clients : o = Owner[n]
    BY Constants
  <2>1. /\ \A d \in Clients : d # o => issued'[d] = issued[d]
        /\ issued'[o] = Append(issued[o], n) /\ known' = known
    BY <1>4, SendIs
  <2>2. \A c \in Clients : n \notin ToSet(known[c])
    <3>1. ~Seen(n) /\ \A c \in Clients : n \in ToSet(known[c]) => Owner[n] = c
      BY <1>4, IsNew DEF IInv, Origin
    <3> QED
      BY <3>1 DEF Seen
  <2>3. issued[o] \in Seq(Commands)
    BY <1>0 DEF TypeOK
  <2>4. /\ DOMAIN issued'[o] = 1..(Len(issued[o]) + 1) /\ DOMAIN issued[o] = 1..Len(issued[o])
        /\ \A i \in 1..Len(issued[o]) : issued'[o][i] = issued[o][i]
        /\ issued'[o][Len(issued[o]) + 1] = n /\ Len(issued[o]) \in Nat
    BY <2>1, <2>3, AppendProperties, LenProperties
  <2>5. ASSUME NEW c \in Clients, NEW x \in Commands, x # n,
               NEW i \in DOMAIN issued'[c], issued'[c][i] = x
        PROVE  i \in DOMAIN issued[c] /\ issued[c][i] = x
    <3>1. CASE c # o
      BY <2>1, <2>5, <3>1
    <3>2. CASE c = o
      <4>1. i \in 1..Len(issued[o]) \/ i = Len(issued[o]) + 1
        BY <2>4, <2>5, <3>2
      <4> QED
        BY <2>4, <2>5, <3>2, <4>1
    <3> QED
      BY <3>1, <3>2
  <2>6. ASSUME NEW c \in Clients, NEW x \in Commands, NEW y \in Commands, Earlier(known[c], x, y)
        PROVE  x # n /\ y # n
    <3>1. known[c] \in Seq(Commands)
      BY <1>0 DEF TypeOK
    <3>2. x \in ToSet(known[c]) /\ y \in ToSet(known[c])
      BY <2>6, <3>1 DEF Earlier, ToSet
    <3> QED
      BY <2>2, <3>2
  <2> QED
    BY <2>1, <2>5, <2>6 DEF Recent
<1>5. Quieter => issued' = issued
  BY Issuing
<1> QED
  BY <1>1, <1>2, <1>3, <1>4, <1>5, MemoryIs, NextIs

(* Nobody finds again what was completed and forgotten.                    *)
LEMMA StillKnown ==
  ASSUME IInv, Settled, Recent, Next, ~Restart, NEW m \in Commands, Seen(m), Present(m)
  PROVE  Seen(m)'
<1>1. CASE known' = known
  BY <1>1 DEF Seen
<1>2. ASSUME NEW n \in Commands, Present(n), Recalls(n)
      PROVE  Seen(m)'
  <2>1. CASE Owner[m] # Owner[n]
    BY <1>2, <2>1, Constants DEF Recalls, Seen
  <2>2. CASE Owner[m] = Owner[n]
    <3>1. m \in ToSet(known[Owner[n]])
      BY <2>2 DEF Seen
    <3>2. ~Forgets(Owner[n], n, m)
      BY <1>2, <3>1, Forgotten
    <3> QED
      BY <1>2, <2>2, <3>1, <3>2 DEF Recalls, Seen
  <2> QED
    BY <2>1, <2>2
<1> QED
  BY <1>1, <1>2, MemoryIs

(* What each step does to the runs.                                        *)
LEMMA RunsIs ==
  ASSUME IInv, Next, ~Restart
  PROVE  \/ /\ ran' = ran /\ running' = running /\ (lane' = lane \/ lane' \in Safe)
            /\ \A m \in Commands : Seen(m)' => Seen(m)
         \/ \E n \in Commands :
              /\ Begins(n) \/ StartsTask(n)
              /\ ~Seen(n) /\ Present(n) /\ ran' = ran
         \/ \E n \in Commands : InHand(n) /\ Release(n) /\ (Finish(n) \/ Fail(n))
<1> DEFINE Goal ==
         \/ /\ ran' = ran /\ running' = running /\ (lane' = lane \/ lane' \in Safe)
            /\ \A m \in Commands : Seen(m)' => Seen(m)
         \/ \E n \in Commands :
              /\ Begins(n) \/ StartsTask(n)
              /\ ~Seen(n) /\ Present(n) /\ ran' = ran
         \/ \E n \in Commands : InHand(n) /\ Release(n) /\ (Finish(n) \/ Fail(n))
<1>0. TypeOK
  BY DEF IInv
<1>1. CASE Take
  <2>1. PICK n \in Commands : n = Head(toWrapper) /\ (Repeats(n) \/ Begins(n) \/ StartsTask(n) \/ Drops(n))
    BY <1>0, <1>1, TakeIs
  <2>2. toWrapper \in Seq(Commands) /\ toWrapper # <<>> /\ ran' = ran
    BY <1>0, <1>1, TakeIs DEF TypeOK
  <2>3. Present(n)
    BY <2>1, <2>2, InSet DEF Present
  <2>4. CASE Begins(n) \/ StartsTask(n)
    BY <2>2, <2>3, <2>4 DEF Begins, StartsTask
  <2>5. CASE Repeats(n)
    <3>1. Seen(n) /\ Recalls(n) /\ running' = running /\ (lane' = lane \/ lane' \in Safe)
      BY <2>5 DEF Repeats
    <3>2. \A m \in Commands : Seen(m)' => Seen(m)
      BY <3>1, Constants DEF Recalls, Seen
    <3> QED
      BY <2>2, <3>1, <3>2
  <2>6. CASE Drops(n)
    BY <2>2, <2>6 DEF Drops, Seen
  <2> QED
    BY <2>1, <2>4, <2>5, <2>6
<1>2. ASSUME NEW n \in Commands, Handler(n)
      PROVE  Goal
  <2>1. InHand(n) /\ Release(n) /\ (Finish(n) \/ Fail(n))
    BY <1>2 DEF Handler, Finish, Fail
  <2> QED
    BY <2>1
<1>3. CASE UNCHANGED <<ran, running, lane, known>>
  BY <1>3 DEF Seen
<1>4. ASSUME NEW c \in Clients, Open(c) \/ Close(c) \/ ClientRead(c) \/ RelayRead(c)
      PROVE  UNCHANGED <<ran, running, lane, known>>
  BY <1>4 DEF Open, Close, ClientRead, RelayRead, work, history
<1>5. Attach \/ Announce \/ RouteAck \/ LinkDown \/ LinkUp => UNCHANGED <<ran, running, lane, known>>
  BY DEF Attach, Announce, RouteAck, LinkDown, LinkUp, work, history
<1>6. ASSUME NEW n \in Commands, SendTracked(n)
      PROVE  UNCHANGED <<ran, running, lane, known>>
  BY <1>6 DEF SendTracked, work
<1> QED
  BY <1>1, <1>2, <1>3, <1>4, <1>5, <1>6 DEF Next

(* New commands did not run.                                               *)
LEMMA PresentFrom ==
  ASSUME IInv, Next, NEW m \in Commands, Present(m)'
  PROVE  Present(m) \/ (ran[m] = 0 /\ ran' = ran)
<1>1. CASE Quieter
  BY <1>1, NoMore
<1>2. ASSUME NEW n \in Commands, SendTracked(n)
      PROVE  Present(m) \/ (ran[m] = 0 /\ ran' = ran)
  <2> PICK o \in Clients : o = Owner[n]
    BY Constants
  <2>1. /\ \A d \in Clients : d # o => outbox'[d] = outbox[d] /\ toRelay'[d] = toRelay[d]
        /\ \A x : x \in ToSet(outbox'[o]) <=> x \in ToSet(outbox[o]) \/ x = n
        /\ \A x : x \in ToSet(toRelay'[o]) <=> x \in ToSet(toRelay[o]) \/ (open[o] /\ x = Cmd(n))
        /\ toWrapper' = toWrapper /\ lane' = lane /\ running' = running /\ ran' = ran
    BY <1>2, SendIs, ZenonT(60) DEF work
  <2>2. Cmd(m) = Cmd(n) => m = n
    BY Kinds
  <2>3. m \in ToSet(outbox'[Owner[m]]) \/ Cmd(m) \in ToSet(toRelay'[Owner[m]])
           \/ m \in ToSet(toWrapper') \/ InHand(m)'
    BY DEF Present
  <2>4. InHand(m)' <=> InHand(m)
    BY <2>1 DEF InHand
  <2>5. Present(m) \/ m = n
    BY <2>1, <2>2, <2>3, <2>4, Constants DEF Present
  <2>6. ran[n] \in Nat /\ ~(ran[n] > 0)
    BY <1>2, IsNew DEF IInv, TypeOK
  <2> QED
    BY <2>1, <2>5, <2>6
<1> QED
  BY <1>1, <1>2, NextIs

LEMMA OnceKeeps ==
  ASSUME IInv, Settled, Recent, Once, Next
  PROVE  Once'
<1>0. /\ TypeOK /\ (again => lane \in Safe)
      /\ \A m \in Commands : ran[m] \in Nat
      /\ \A m \in Tasks : running[m] \in Nat /\ running[m] <= 1 /\ m \in Commands \ Safe
  BY Constants DEF IInv, Origin, TypeOK, Once
<1>1. CASE Restart
  <2>1. /\ \A m \in Commands : ran'[m] = 0 /\ ~Seen(m)'
        /\ \A m \in Tasks : running'[m] = 0
        /\ lane' = Free
    BY <1>1, NothingIn, Constants DEF Restart, Seen
  <2>2. \A m \in Commands : ~InHand(m)'
    BY <2>1, Constants DEF InHand
  <2> QED
    BY <2>1, <2>2 DEF Once
<1>2. ASSUME ~Restart, ran' = ran,
             \A m \in Tasks : running'[m] <= 1,
             \A m \in Commands \ Safe : InHand(m)' => ran[m] = 0 /\ ~Seen(m)'
      PROVE  Once'
  <2> SUFFICES ASSUME NEW m \in Commands \ Safe
               PROVE  /\ ran'[m] <= 1
                      /\ ran'[m] = 1 => Seen(m)' \/ ~Present(m)'
                      /\ InHand(m)' => ran'[m] = 0 /\ ~Seen(m)'
    BY <1>2 DEF Once
  <2>1. ASSUME ran[m] = 1, Present(m)'
        PROVE  Seen(m)'
    <3>1. Present(m)
      BY <2>1, PresentFrom
    <3>2. Seen(m)
      BY <2>1, <3>1 DEF Once
    <3> QED
      BY <1>2, <3>1, <3>2, StillKnown
  <2> QED
    BY <1>2, <2>1 DEF Once
<1>3. ASSUME ~Restart, ran' = ran, running' = running, lane' = lane \/ lane' \in Safe,
             \A m \in Commands : Seen(m)' => Seen(m)
      PROVE  Once'
  <2>1. \A m \in Commands \ Safe : InHand(m)' => InHand(m)
    BY <1>3 DEF InHand
  <2>2. \A m \in Commands \ Safe : InHand(m)' => ran[m] = 0 /\ ~Seen(m)'
    BY <1>3, <2>1 DEF Once
  <2> QED
    BY <1>0, <1>2, <1>3, <2>2
<1>4. ASSUME ~Restart, NEW n \in Commands, Begins(n) \/ StartsTask(n), ~Seen(n), Present(n), ran' = ran
      PROVE  Once'
  <2>1. n \notin Safe => ran[n] = 0
    <3>1. n \notin Safe => ran[n] <= 1 /\ ran[n] # 1
      BY <1>4 DEF Once
    <3> QED
      BY <1>0, <3>1
  <2>2. known' = known /\ \A m \in Tasks : running'[m] <= 1
    <3>1. CASE Begins(n)
      BY <1>0, <3>1 DEF Begins
    <3>2. CASE StartsTask(n)
      <4>1. n \in Tasks /\ running[n] = 0 /\ running \in [Tasks -> Nat]
        BY <1>0, <3>2 DEF StartsTask, TypeOK
      <4>2. \A m \in Tasks : running'[m] = IF m = n THEN 1 ELSE running[m]
        BY <3>2, <4>1 DEF StartsTask
      <4> QED
        BY <1>0, <3>2, <4>2 DEF StartsTask
    <3> QED
      BY <1>4, <3>1, <3>2
  <2>3. \A m \in Commands \ Safe : InHand(m)' => InHand(m) \/ m = n
    BY <1>0, <1>4 DEF Begins, StartsTask, InHand, TypeOK
  <2>4. \A m \in Commands \ Safe : InHand(m)' => ran[m] = 0 /\ ~Seen(m)'
    BY <1>4, <2>1, <2>2, <2>3 DEF Once, Seen
  <2> QED
    BY <1>2, <1>4, <2>2, <2>4
<1>5. ASSUME ~Restart, NEW n \in Commands, InHand(n), Release(n), Finish(n) \/ Fail(n)
      PROVE  Once'
  <2>1. /\ lane' = (IF lane = n THEN Free ELSE lane)
        /\ \A m \in Tasks : running'[m] = IF m = n THEN running[m] - 1 ELSE running[m]
    BY <1>0, <1>5, Releases
  <2>2. \A m \in Tasks : running'[m] <= 1
    BY <1>0, <2>1
  <2>3. \A m \in Commands \ Safe : InHand(m)' => InHand(m) /\ m # n
    <3> SUFFICES ASSUME NEW m \in Commands \ Safe, InHand(m)'
                 PROVE  InHand(m) /\ m # n
      OBVIOUS
    <3>1. lane' = m => lane = m /\ m # n
      BY <2>1, Constants
    <3>2. m \in Tasks /\ running'[m] > 0 => running[m] > 0 /\ m # n
      BY <1>0, <2>1
    <3> QED
      BY <3>1, <3>2 DEF InHand
  <2>4. \A m \in Commands \ Safe : InHand(m)' => ran[m] = 0 /\ ~Seen(m)'
    <3> SUFFICES ASSUME NEW m \in Commands \ Safe, InHand(m)'
                 PROVE  ran[m] = 0 /\ ~Seen(m)'
      OBVIOUS
    <3>1. InHand(m) /\ m # n /\ ran[m] = 0 /\ ~Seen(m)
      BY <2>3 DEF Once
    <3>2. CASE Fail(n)
      BY <3>1, <3>2 DEF Fail, Seen
    <3>3. CASE Finish(n)
      <4>1. known' = known \/ Recalls(n)
        BY <1>0, <3>3, MemoryMoves DEF Finish
      <4>2. ~Seen(m)'
        BY <3>1, <4>1, Constants DEF Recalls, Seen
      <4> QED
        BY <3>1, <4>2
    <3> QED
      BY <1>5, <3>2, <3>3
  <2>5. CASE Fail(n)
    BY <1>2, <1>5, <2>2, <2>4, <2>5 DEF Fail
  <2>6. CASE Finish(n)
    <3>1. ran' = [ran EXCEPT ![n] = @ + 1]
      BY <2>6 DEF Finish
    <3>2. \A m \in Commands : ran'[m] = IF m = n THEN ran[m] + 1 ELSE ran[m]
      BY <1>0, <3>1 DEF TypeOK
    <3>3. ASSUME n \notin Safe
          PROVE  ran[n] = 0 /\ Seen(n)'
      <4>1. ran[n] = 0
        BY <1>5, <3>3 DEF Once
      <4>2. ~(again /\ lane = n)
        BY <1>0, <3>3
      <4>3. Recalls(n)
        BY <1>0, <2>6, <4>2, MemoryMoves DEF Finish
      <4> QED
        BY <4>1, <4>3 DEF Recalls, Seen
    <3>4. ASSUME NEW m \in Commands \ Safe, m # n, ran[m] = 1, Present(m)'
          PROVE  Seen(m)'
      <4>1. Present(m)
        BY <3>4, PresentFrom
      <4>2. Seen(m)
        BY <3>4, <4>1 DEF Once
      <4> QED
        BY <1>5, <4>1, <4>2, StillKnown
    <3>5. ASSUME NEW m \in Commands \ Safe
          PROVE  /\ ran'[m] <= 1
                 /\ ran'[m] = 1 => Seen(m)' \/ ~Present(m)'
                 /\ InHand(m)' => ran'[m] = 0 /\ ~Seen(m)'
      <4>1. CASE m = n
        BY <2>3, <3>2, <3>3, <4>1
      <4>2. CASE m # n
        BY <2>4, <3>2, <3>4, <4>2 DEF Once
      <4> QED
        BY <4>1, <4>2
    <3> QED
      BY <2>2, <3>5 DEF Once
  <2> QED
    BY <1>5, <2>5, <2>6
<1> QED
  BY <1>1, <1>3, <1>4, <1>5, RunsIs

(* As long as nothing is left of a command once its browser issued 256     *)
(* newer ones, a wrapper process completes it at most once, whatever       *)
(* sockets and links were lost, however often it was sent again.           *)
THEOREM RunsOnce == Spec /\ []Settled => []AtMostOnce
<1>1. Init => Recent /\ Once
  <2> SUFFICES ASSUME Init
               PROVE  Recent /\ Once
    OBVIOUS
  <2>1. /\ \A c \in Clients : known[c] = <<>>
        /\ \A m \in Commands : ran[m] = 0
        /\ \A m \in Tasks : running[m] = 0
        /\ lane = Free
    BY DEF Init
  <2>2. \A m \in Commands : ~InHand(m)
    BY <2>1, Constants DEF InHand
  <2> QED
    BY <2>1, <2>2, NothingIn DEF Recent, Once
<1>2. IInv /\ Settled /\ Recent /\ Once /\ [Next]_vars => (Recent /\ Once)'
  <2>1. ASSUME IInv, Settled, Recent, Once, Next
        PROVE  (Recent /\ Once)'
    BY <2>1, RecentKeeps, OnceKeeps
  <2>2. ASSUME Recent, Once, UNCHANGED vars
        PROVE  (Recent /\ Once)'
    BY <2>2 DEF vars, browser, relay, frames, work, history, Recent, Once, Present, Seen, InHand
  <2> QED
    BY <2>1, <2>2
<1>3. Once => AtMostOnce
  BY DEF Once, AtMostOnce
<1> QED
  BY <1>1, <1>2, <1>3, Invariance, PTL DEF Spec
=============================================================================
