-------------------------- MODULE TurnQueue_proofs --------------------------
(***************************************************************************)
(* Proofs about TurnQueue, for every set of prompts, length of the queue   *)
(* and number of edits, follow-ups, interrupts and slow emits: prompts are *)
(* handled as PromptLedger says, and nobody is left behind.                *)
(***************************************************************************)
EXTENDS TurnQueue, FiniteSetTheorems, SequenceTheorems, TLAPS

-----------------------------------------------------------------------------
(* The inductive invariant.                                                *)

Launchers == {"cmd", "drain"}

(* Where a launcher waits for query_lock or holds it, and where it has it. *)
InLine == {"lock", "preflight", "emit"}
Inside == {"preflight", "emit"}

(* Where the task of a prompt owns the session.                            *)
Own == {"launch", "submitted", "running", "result", "failed", "idleLock"}

(* No y of the lock's queue comes before an x.                             *)
Before(lock, x, y) ==
  \A i, j \in DOMAIN lock : lock[i] = x /\ lock[j] = y => i < j

(* Who is in the queues of the two locks is where it waits or holds them.  *)
Locks ==
  /\ IsInjective(qlock) /\ IsInjective(elock)
  /\ \A a \in Launchers :
       /\ Waits(qlock, a) <=> at[a] \in InLine
       /\ at[a] \in Inside => Holds(qlock, a)
       /\ Waits(elock, a) <=> at[a] = "emit"
  /\ Waits(qlock, "bg") <=> at.bg = "settle"
  /\ \A m \in Msgs :
       /\ Waits(qlock, m) => pc[m] \in {"idleLock", "idleEmit", "settle"}
       /\ pc[m] \in {"idleLock", "settle"} => Waits(qlock, m)
       /\ pc[m] = "idleEmit" /\ Waits(qlock, m) => Holds(qlock, m)
       /\ Waits(elock, m) <=> pc[m] = "idleEmit"

(* Only Claude has follow-ups and what they cause, only Codex repairs.     *)
ByEngine ==
  /\ engine # "claude" =>
       /\ ~followup /\ at.bg = "none"
       /\ \A m \in Msgs : /\ pc[m] \notin {"idleLock", "settle"} /\ receipt[m] # "lost"
                          /\ ~Waits(qlock, m)
  /\ engine # "codex" => \A m \in Msgs : pc[m] # "repair"
  /\ followup => at.bg = "none"

(* One task owns the session, which is not idle; nobody passes the locked  *)
(* check then.  The idle event of a turn precedes the claim of the next,   *)
(* so that the next turn's task is created after the last one is           *)
(* forgotten.                                                              *)
Alone ==
  /\ \A m, n \in Msgs : pc[m] \in Own /\ pc[n] \in Own => m = n
  /\ \A m \in Msgs : pc[m] \in Own => state # "idle"
  /\ \A a \in Launchers : at[a] = "emit" => state # "idle"
  /\ \A a \in Launchers, m \in Msgs : at[a] \in Inside => pc[m] \notin Own
  /\ \A m \in Msgs : engine = "claude" /\ pc[m] \in Own \cup {"idleEmit"} => turnTask = m
  /\ \A a \in Launchers, m \in Msgs :
       at[a] = "emit" /\ pc[m] = "idleEmit" => Before(elock, m, a)

(* The worker awaits the receipt of m.                                     *)
AtReceipt(m) == starting = m /\ at.drain = "receipt"

(* What is known of a prompt.                                              *)
PromptOK(m) ==
  /\ m \notin asked =>
       /\ m \notin withdrawn /\ sent[m] = <<>> /\ pc[m] = "none"
       /\ ~Waits(queue, m) /\ text[m] = 0 /\ prompt[m] = 0
  /\ m \in withdrawn => ~Waits(queue, m)
  /\ sent[m] # <<>> =>
       /\ pc[m] \notin {"none", "launch"} /\ receipt[m] # "lost"
       /\ Waits(queue, m) => AtReceipt(m)
  /\ pc[m] \in {"submitted", "running"} => sent[m] # <<>>
  /\ pc[m] = "launch" =>
       /\ receipt[m] = "none" /\ prompt[m] = text[m] /\ m \notin withdrawn
       /\ Waits(queue, m) => AtReceipt(m)
  /\ receipt[m] = "lost" => pc[m] \in {"failed", "idleEmit", "settle", "done"}
  /\ Waits(queue, m) /\ ~AtReceipt(m) => pc[m] = "none" \/ receipt[m] = "lost"

(* The prompt of the command lane is no other's.                           *)
Offering ==
  at.cmd # "free" =>
    /\ arg.cmd \in asked \ withdrawn
    /\ sent[arg.cmd] = <<>> /\ pc[arg.cmd] = "none" /\ ~Waits(queue, arg.cmd)
    /\ prompt[arg.cmd] = text[arg.cmd]

(* The prompt of the worker stays in the queue.  One whose launch was lost *)
(* is taken up again when its last task has left query_lock.               *)
Working ==
  /\ starting # "none" <=> at.drain \in Inside \cup {"receipt", "rejected"}
  /\ starting # "none" =>
       /\ starting = arg.drain /\ Waits(queue, starting)
       /\ prompt[starting] = text[starting]
  /\ at.drain \in Inside => pc[arg.drain] \in {"none", "done"}
  /\ at.drain = "lock" =>
       \A m \in Msgs : Waits(queue, m) =>
         /\ pc[m] \notin {"failed", "idleEmit"}
         /\ pc[m] = "settle" => Before(qlock, m, "drain")
  /\ \A m, n \in Replacing : Waits(queue, m) /\ Waits(queue, n) => m = n

(* Somebody will unlock the session.                                       *)
Unlocking ==
  \/ \E a \in Launchers : at[a] = "emit"
  \/ \E m \in Msgs : pc[m] \in Own
  \/ engine = "claude" /\ \/ followup \/ at.bg = "settle"
                          \/ \E m \in Msgs : pc[m] \in {"idleEmit", "settle"}

(* A busy session is unlocked, a worker that sleeps is woken.              *)
Alive ==
  /\ state # "idle" => Unlocking
  /\ turnTask # "none" => pc[turnTask] \in Own \cup {"idleEmit", "repair"}
  /\ at.drain = "none" => queue = <<>>
  /\ at.drain = "wait" /\ ~wakeup /\ queue # <<>> =>
       Unlocking \/ \E m \in watched : pc[m] \notin {"none", "done"}

Prompts == \A m \in Msgs : PromptOK(m)

IInv == TypeOK /\ Locks /\ ByEngine /\ Alone /\ Prompts /\ Offering /\ Working /\ Alive

-----------------------------------------------------------------------------
(* Queues without repetitions.  r is q with x moved to another place, or   *)
(* into or out of it: nothing else is disturbed.                           *)
Moved(S, q, r, x) ==
  /\ r \in Seq(S) /\ IsInjective(r)
  /\ \A y \in S : y # x => /\ Waits(r, y) <=> Waits(q, y)
                           /\ Holds(q, y) => Holds(r, y)
  /\ \A y, z \in S : y # x /\ Before(q, y, z) => Before(r, y, z)

LEMMA QueueFacts ==
  ASSUME NEW S, NEW q \in Seq(S)
  PROVE  /\ \A x : Holds(q, x) => Waits(q, x) /\ x \in S
         /\ \A x : Waits(q, x) => x \in S /\ q # <<>>
         /\ \A x, y : Holds(q, x) /\ Holds(q, y) => x = y
         /\ q # <<>> => Holds(q, Head(q))
         /\ \A x, y : Holds(q, x) /\ Waits(q, y) => ~Before(q, y, x)
         /\ \A x : Holds(q, x) => <<x>> \o Tail(q) = q
<1>1. Len(q) \in Nat /\ DOMAIN q = 1..Len(q) /\ \A i \in 1..Len(q) : q[i] \in S
  BY LenProperties, ElementOfSeq
<1>2. \A x : Waits(q, x) <=> \E i \in DOMAIN q : q[i] = x
  BY DEF Waits, ToSet
<1>3. ASSUME NEW x, Holds(q, x)
      PROVE  1 \in DOMAIN q /\ q[1] = x /\ <<x>> \o Tail(q) = q
  <2>1. q # <<>> /\ Head(q) = x
    BY <1>3 DEF Holds
  <2>2. Len(q) > 0
    BY <1>1, <2>1, EmptySeq
  <2>3. 1 \in DOMAIN q /\ q[1] = x
    BY <1>1, <2>1, <2>2
  <2> QED
    BY <2>1, <2>3, HeadTailProperties
<1>4. ASSUME NEW x, NEW y, Holds(q, x), Waits(q, y)
      PROVE  ~Before(q, y, x)
  <2>1. PICK i \in DOMAIN q : q[i] = y
    BY <1>2, <1>4
  <2>2. 1 \in DOMAIN q /\ q[1] = x
    BY <1>3, <1>4
  <2>3. ~(i < 1)
    BY <1>1
  <2> QED
    BY <2>1, <2>2, <2>3 DEF Before
<1>5. \A x : Waits(q, x) => q # <<>>
  BY <1>2
<1> QED
  BY <1>1, <1>2, <1>3, <1>4, <1>5 DEF Holds

LEMMA NobodyWaits ==
  \A x : ~Waits(<<>>, x)
BY DEF Waits, ToSet

LEMMA Joins ==
  ASSUME NEW S, NEW q \in Seq(S), IsInjective(q), NEW x \in S, ~Waits(q, x)
  PROVE  /\ Moved(S, q, Append(q, x), x)
         /\ Waits(Append(q, x), x) /\ Len(Append(q, x)) = Len(q) + 1
         /\ q = <<>> => Holds(Append(q, x), x)
         /\ \A y \in S : y # x => Before(Append(q, x), y, x)
<1> DEFINE a == Append(q, x)
           n == Len(q)
<1>1. /\ a \in Seq(S) /\ a # <<>> /\ Len(a) = n + 1 /\ n \in Nat
      /\ \A i \in 1..n : a[i] = q[i]
      /\ a[n + 1] = x
      /\ DOMAIN q = 1..n /\ DOMAIN a = 1..(n + 1)
  BY AppendProperties, LenProperties
<1>h. q # <<>> => Head(a) = Head(q)
  BY HeadTailAppend
<1>e. q = <<>> => Head(a) = x
  BY <1>1
<1> HIDE DEF a, n
<1>2. /\ \A i \in 1..(n + 1) : i \in 1..n \/ i = n + 1
      /\ \A i \in 1..n : i \in 1..(n + 1) /\ i < n + 1
      /\ n + 1 \in 1..(n + 1)
  BY <1>1
<1>w. /\ \A y : Waits(q, y) <=> \E i \in 1..n : q[i] = y
      /\ \A y : Waits(a, y) <=> \E i \in 1..(n + 1) : a[i] = y
  BY <1>1 DEF Waits, ToSet
<1>x. \A i \in 1..n : a[i] # x
  BY <1>1, <1>w
<1>3. \A y : Waits(a, y) <=> Waits(q, y) \/ y = x
  BY <1>1, <1>2, <1>w
<1>4. IsInjective(a)
  <2> SUFFICES ASSUME NEW i \in 1..(n + 1), NEW j \in 1..(n + 1), a[i] = a[j]
               PROVE  i = j
    BY <1>1 DEF IsInjective
  <2> QED
    BY <1>1, <1>2, <1>x DEF IsInjective
<1>5. \A y \in S : Holds(q, y) => Holds(a, y)
  BY <1>1, <1>h DEF Holds
<1>6. ASSUME NEW y \in S, NEW z \in S, y # x, Before(q, y, z) \/ z = x
      PROVE  Before(a, y, z)
  <2> SUFFICES ASSUME NEW i \in 1..(n + 1), NEW j \in 1..(n + 1), a[i] = y, a[j] = z
               PROVE  i < j
    BY <1>1 DEF Before
  <2>1. i \in 1..n
    BY <1>1, <1>2, <1>6
  <2>2. CASE j = n + 1
    BY <1>2, <2>1, <2>2
  <2>3. CASE j \in 1..n
    BY <1>1, <1>6, <1>x, <2>1, <2>3 DEF Before
  <2> QED
    BY <1>2, <2>2, <2>3
<1> QED
  BY <1>1, <1>3, <1>4, <1>5, <1>6, <1>e DEF Moved, Holds, a, n

LEMMA Stays ==
  ASSUME NEW S, NEW q \in Seq(S), IsInjective(q), NEW x
  PROVE  Moved(S, q, q, x)
  BY DEF Moved

(* r is q without its k-th item; g says where the items of r were.         *)
LEMMA Dropped ==
  ASSUME NEW S, NEW q \in Seq(S), IsInjective(q), NEW k \in DOMAIN q,
         NEW r \in Seq(S), NEW g \in [DOMAIN r -> DOMAIN q],
         \A i \in DOMAIN r : r[i] = q[g[i]] /\ g[i] # k,
         \A i, j \in DOMAIN r : g[i] < g[j] => i < j,
         \A i, j \in DOMAIN r : g[i] = g[j] => i = j,
         \A j \in DOMAIN q \ {k} : \E i \in DOMAIN r : g[i] = j,
         k # 1 => r # <<>> /\ Head(r) = Head(q)
  PROVE  Moved(S, q, r, q[k]) /\ ~Waits(r, q[k])
<1>1. \A y : Waits(q, y) <=> \E i \in DOMAIN q : q[i] = y
  BY DEF Waits, ToSet
<1>2. \A y : Waits(r, y) <=> \E i \in DOMAIN r : r[i] = y
  BY DEF Waits, ToSet
<1>3. \A i \in DOMAIN r : g[i] \in DOMAIN q /\ q[g[i]] # q[k]
  BY DEF IsInjective
<1>4. ~Waits(r, q[k])
  BY <1>2, <1>3
<1>5. ASSUME NEW y, y # q[k]
      PROVE  Waits(r, y) <=> Waits(q, y)
  <2>1. ASSUME Waits(r, y)
        PROVE  Waits(q, y)
    BY <1>1, <1>2, <1>3, <2>1
  <2>2. ASSUME Waits(q, y)
        PROVE  Waits(r, y)
    <3>1. PICK j \in DOMAIN q : q[j] = y
      BY <1>1, <2>2
    <3>2. PICK i \in DOMAIN r : g[i] = j
      BY <1>5, <3>1
    <3> QED
      BY <1>2, <3>1, <3>2
  <2> QED
    BY <2>1, <2>2
<1>6. IsInjective(r)
  <2> SUFFICES ASSUME NEW i \in DOMAIN r, NEW j \in DOMAIN r, r[i] = r[j]
               PROVE  i = j
    BY DEF IsInjective
  <2>1. g[i] = g[j]
    BY <1>3 DEF IsInjective
  <2> QED
    BY <2>1
<1>7. ASSUME NEW y \in S, y # q[k], Holds(q, y)
      PROVE  Holds(r, y)
  <2>1. k # 1
    BY <1>7 DEF Holds
  <2> QED
    BY <1>7, <2>1 DEF Holds
<1>8. ASSUME NEW y \in S, NEW z \in S, Before(q, y, z)
      PROVE  Before(r, y, z)
  BY <1>3, <1>8 DEF Before
<1> QED
  BY <1>4, <1>5, <1>6, <1>7, <1>8 DEF Moved

LEMMA FirstLeaves ==
  ASSUME NEW S, NEW q \in Seq(S), IsInjective(q), NEW x, Holds(q, x)
  PROVE  Moved(S, q, Tail(q), x) /\ ~Waits(Tail(q), x)
<1> DEFINE n == Len(q)
           t == Tail(q)
           g == [i \in 1..(n - 1) |-> i + 1]
<1>1. /\ q # <<>> /\ t \in Seq(S) /\ n \in Nat /\ n > 0 /\ Len(t) = n - 1
      /\ \A i \in 1..(n - 1) : t[i] = q[i + 1]
      /\ DOMAIN q = 1..n /\ DOMAIN t = 1..(n - 1)
      /\ q[1] = x
  BY HeadTailProperties, LenProperties, EmptySeq DEF Holds
<1> HIDE DEF n, t
<1>2. /\ 1 \in 1..n /\ g \in [1..(n - 1) -> 1..n]
      /\ \A i \in 1..(n - 1) : g[i] = i + 1 /\ g[i] # 1
      /\ \A i, j \in 1..(n - 1) : (g[i] < g[j] => i < j) /\ (g[i] = g[j] => i = j)
  BY <1>1
<1>3. ASSUME NEW j \in 1..n, j # 1
      PROVE  \E i \in 1..(n - 1) : g[i] = j
  <2>1. j - 1 \in 1..(n - 1) /\ g[j - 1] = j
    BY <1>1, <1>3
  <2> QED
    BY <2>1
<1> HIDE DEF g
<1>4. /\ 1 \in DOMAIN q /\ g \in [DOMAIN t -> DOMAIN q]
      /\ \A i \in DOMAIN t : t[i] = q[g[i]] /\ g[i] # 1
      /\ \A i, j \in DOMAIN t : g[i] < g[j] => i < j
      /\ \A i, j \in DOMAIN t : g[i] = g[j] => i = j
      /\ \A j \in DOMAIN q \ {1} : \E i \in DOMAIN t : g[i] = j
  BY <1>1, <1>2, <1>3
<1>5. Moved(S, q, t, q[1]) /\ ~Waits(t, q[1])
  BY <1>1, <1>4, Dropped, ZenonT(60)
<1> QED
  BY <1>1, <1>5 DEF t

LEMMA OneLeaves ==
  ASSUME NEW S, NEW q \in Seq(S), IsInjective(q), NEW x
  PROVE  /\ Moved(S, q, Without(q, x), x) /\ ~Waits(Without(q, x), x)
         /\ Len(Without(q, x)) <= Len(q)
         /\ Waits(q, x) => Len(Without(q, x)) < Len(q)
<1>1. CASE ~Waits(q, x)
  BY <1>1, Stays, LenProperties DEF Without
<1>2. CASE Waits(q, x)
  <2> DEFINE k == CHOOSE i \in DOMAIN q : q[i] = x
             n == Len(q)
             a == SubSeq(q, 1, k - 1)
             b == SubSeq(q, k + 1, n)
             r == Without(q, x)
             g == [i \in 1..(n - 1) |-> IF i < k THEN i ELSE i + 1]
  <2>0. k \in DOMAIN q /\ q[k] = x
    BY <1>2 DEF Waits, ToSet
  <2>r. r = a \o b
    BY <1>2 DEF Without, RemoveAt
  <2> HIDE DEF k, r
  <2>1. /\ n \in Nat /\ DOMAIN q = 1..n /\ k \in 1..n /\ \A i \in 1..n : q[i] \in S
    BY <2>0, LenProperties, ElementOfSeq
  <2>2. /\ a \in Seq(S) /\ Len(a) = k - 1 /\ \A i \in 1..(k - 1) : a[i] = q[i]
    <3>1. 1 \in Int /\ k - 1 \in Int /\ \A i \in 1..(k - 1) : q[i] \in S
      BY <2>1
    <3>2. /\ a \in Seq(S) /\ Len(a) = (IF 1 <= k - 1 THEN k - 1 - 1 + 1 ELSE 0)
          /\ \A i \in 1..(k - 1 - 1 + 1) : a[i] = q[1 + i - 1]
      BY <3>1, SubSeqProperties
    <3> HIDE DEF a, n
    <3>3. Len(a) = k - 1
      BY <2>1, <3>2
    <3>4. ASSUME NEW i \in 1..(k - 1)
          PROVE  a[i] = q[i]
      <4>1. i \in 1..(k - 1 - 1 + 1) /\ 1 + i - 1 = i
        BY <2>1
      <4> QED
        BY <3>2, <4>1
    <3> QED
      BY <3>2, <3>3, <3>4
  <2>3. /\ b \in Seq(S) /\ Len(b) = n - k /\ \A i \in 1..(n - k) : b[i] = q[k + i]
    <3>1. k + 1 \in Int /\ n \in Int /\ \A i \in (k + 1)..n : q[i] \in S
      BY <2>1
    <3>2. /\ b \in Seq(S) /\ Len(b) = (IF k + 1 <= n THEN n - (k + 1) + 1 ELSE 0)
          /\ \A i \in 1..(n - (k + 1) + 1) : b[i] = q[k + 1 + i - 1]
      BY <3>1, SubSeqProperties
    <3> HIDE DEF b, n
    <3>3. Len(b) = n - k
      BY <2>1, <3>2
    <3>4. ASSUME NEW i \in 1..(n - k)
          PROVE  b[i] = q[k + i]
      <4>1. i \in 1..(n - (k + 1) + 1) /\ k + 1 + i - 1 = k + i
        BY <2>1
      <4> QED
        BY <3>2, <4>1
    <3> QED
      BY <3>2, <3>3, <3>4
  <2> HIDE DEF a, b, n
  <2>4. /\ g \in [1..(n - 1) -> 1..n]
        /\ \A i \in 1..(n - 1) : g[i] = (IF i < k THEN i ELSE i + 1) /\ g[i] # k
        /\ \A i, j \in 1..(n - 1) : (g[i] < g[j] => i < j) /\ (g[i] = g[j] => i = j)
    BY <2>1
  <2> HIDE DEF g
  <2>5. /\ r \in Seq(S) /\ Len(r) = n - 1 /\ DOMAIN r = 1..(n - 1)
        /\ \A i \in 1..(n - 1) : r[i] = q[g[i]]
    <3>1. /\ r \in Seq(S) /\ Len(r) = Len(a) + Len(b)
          /\ \A i \in 1..(Len(a) + Len(b)) : r[i] = IF i <= Len(a) THEN a[i] ELSE b[i - Len(a)]
      BY <2>2, <2>3, <2>r, ConcatProperties
    <3>2. Len(a) + Len(b) = n - 1
      BY <2>1, <2>2, <2>3
    <3>3. ASSUME NEW i \in 1..(n - 1)
          PROVE  r[i] = q[g[i]]
      <4>1. CASE i < k
        <5>1. i <= Len(a) /\ i \in 1..(k - 1) /\ g[i] = i
          BY <2>1, <2>2, <2>4, <4>1
        <5> QED
          BY <2>2, <3>1, <3>2, <4>1, <5>1
      <4>2. CASE ~(i < k)
        <5>1. ~(i <= Len(a)) /\ i - Len(a) \in 1..(n - k) /\ k + (i - Len(a)) = i + 1
          BY <2>1, <2>2, <4>2
        <5>2. g[i] = i + 1
          BY <2>4, <4>2
        <5> QED
          BY <2>3, <3>1, <3>2, <5>1, <5>2
      <4> QED
        BY <4>1, <4>2
    <3> QED
      BY <3>1, <3>2, <3>3, LenProperties
  <2>6. ASSUME NEW j \in 1..n, j # k
        PROVE  \E i \in 1..(n - 1) : g[i] = j
    <3>1. CASE j < k
      <4>1. j \in 1..(n - 1) /\ g[j] = j
        BY <2>1, <2>4, <3>1
      <4> QED
        BY <4>1
    <3>2. CASE ~(j < k)
      <4>1. j - 1 \in 1..(n - 1) /\ ~(j - 1 < k) /\ j - 1 + 1 = j
        BY <2>1, <2>6, <3>2
      <4>2. g[j - 1] = j
        BY <2>4, <4>1
      <4> QED
        BY <4>1, <4>2
    <3> QED
      BY <3>1, <3>2
  <2>7. ASSUME k # 1
        PROVE  r # <<>> /\ Head(r) = Head(q)
    <3>1. 1 \in 1..(n - 1) /\ 1 < k
      BY <2>1, <2>7
    <3>2. g[1] = 1
      BY <2>4, <3>1
    <3>3. r[1] = q[1] /\ r # <<>>
      BY <2>5, <3>1, <3>2, EmptySeq
    <3> QED
      BY <2>5, <3>3
  <2>8. /\ k \in DOMAIN q /\ r \in Seq(S) /\ g \in [DOMAIN r -> DOMAIN q]
        /\ \A i \in DOMAIN r : r[i] = q[g[i]] /\ g[i] # k
        /\ \A i, j \in DOMAIN r : g[i] < g[j] => i < j
        /\ \A i, j \in DOMAIN r : g[i] = g[j] => i = j
        /\ \A j \in DOMAIN q \ {k} : \E i \in DOMAIN r : g[i] = j
    BY <2>1, <2>4, <2>5, <2>6
  <2>9. Moved(S, q, r, q[k]) /\ ~Waits(r, q[k])
    BY <2>7, <2>8, Dropped
  <2>10. n - 1 < n /\ n - 1 <= n
    BY <2>1
  <2> QED
    BY <2>0, <2>5, <2>9, <2>10 DEF r, n
<1> QED
  BY <1>1, <1>2

LEMMA GoesFirst ==
  ASSUME NEW S, NEW q \in Seq(S), IsInjective(q), NEW x \in S, ~Waits(q, x)
  PROVE  LET r == <<x>> \o q IN
         /\ r \in Seq(S) /\ IsInjective(r) /\ Len(r) = Len(q) + 1
         /\ \A y : Waits(r, y) <=> Waits(q, y) \/ y = x
<1> DEFINE n == Len(q)
           r == <<x>> \o q
<1>1. <<x>> \in Seq(S) /\ Len(<<x>>) = 1 /\ n \in Nat /\ DOMAIN q = 1..n
  BY LenProperties
<1>2. /\ r \in Seq(S) /\ Len(r) = 1 + n
      /\ \A i \in 1..(1 + n) : r[i] = IF i <= 1 THEN <<x>>[i] ELSE q[i - 1]
  BY <1>1, ConcatProperties
<1>3. DOMAIN r = 1..(1 + n)
  BY <1>2, LenProperties
<1> HIDE DEF n, r
<1>4. /\ 1 \in 1..(1 + n) /\ \A i \in 1..n : i + 1 \in 1..(1 + n)
      /\ \A i \in 1..(1 + n) : i = 1 \/ i - 1 \in 1..n
  BY <1>1
<1>5. r[1] = x /\ \A i \in 1..(1 + n) : i # 1 => r[i] = q[i - 1]
  BY <1>1, <1>2, <1>4
<1>w. /\ \A y : Waits(q, y) <=> \E i \in 1..n : q[i] = y
      /\ \A y : Waits(r, y) <=> \E i \in 1..(1 + n) : r[i] = y
  BY <1>1, <1>3 DEF Waits, ToSet
<1>6. ASSUME NEW y
      PROVE  Waits(r, y) <=> Waits(q, y) \/ y = x
  <2>1. ASSUME NEW i \in 1..n
        PROVE  r[i + 1] = q[i]
    <3>1. i + 1 \in 1..(1 + n) /\ i + 1 # 1 /\ i + 1 - 1 = i
      BY <1>1, <1>4
    <3> QED
      BY <1>5, <3>1
  <2> QED
    BY <1>4, <1>5, <1>w, <2>1
<1>7. IsInjective(r)
  <2> SUFFICES ASSUME NEW i \in 1..(1 + n), NEW j \in 1..(1 + n), r[i] = r[j]
               PROVE  i = j
    BY <1>3 DEF IsInjective
  <2>1. \A l \in 1..(1 + n) : l # 1 => r[l] # x
    BY <1>4, <1>5, <1>w
  <2>2. CASE i = 1 \/ j = 1
    BY <1>5, <2>1, <2>2
  <2>3. CASE i # 1 /\ j # 1
    <3>1. i - 1 = j - 1
      BY <1>1, <1>4, <1>5, <2>3 DEF IsInjective
    <3> QED
      BY <1>1, <3>1
  <2> QED
    BY <2>2, <2>3
<1>8. 1 + n = n + 1
  BY <1>1
<1> QED
  BY <1>2, <1>6, <1>7, <1>8 DEF r, n

-----------------------------------------------------------------------------
(* The two locks: x comes to the end of the queue, or leaves it.           *)
Comes(S, q, r, x) ==
  /\ Moved(S, q, r, x) /\ Waits(r, x)
  /\ \A y \in S : y # x => Before(r, y, x)
  /\ q = <<>> => Holds(r, x)

Goes(S, q, r, x) == Moved(S, q, r, x) /\ ~Waits(r, x)

InQ == Msgs \cup {"cmd", "drain", "bg"}
InE == Msgs \cup {"cmd", "drain", "other"}

LEMMA Names ==
  /\ "none" \notin Msgs /\ "cmd" \notin Msgs /\ "drain" \notin Msgs
  /\ "bg" \notin Msgs /\ "other" \notin Msgs
  /\ MaxQueue \in Nat /\ MaxQueue > 0 /\ MaxEdits \in Nat
  /\ Launchers \subseteq InQ /\ Launchers \subseteq InE
  /\ Replacing \subseteq Msgs /\ Queued \subseteq Msgs /\ Immediate \subseteq Msgs
  BY QueueAssumption DEF Launchers, InQ, InE, Msgs

LEMMA LocksTyped ==
  ASSUME TypeOK
  PROVE  qlock \in Seq(InQ) /\ elock \in Seq(InE)
  BY DEF TypeOK, InQ, InE

LEMMA LockMoves ==
  ASSUME NEW S, NEW q \in Seq(S), IsInjective(q), NEW x
  PROVE  /\ Holds(q, x) => Goes(S, q, Tail(q), x)
         /\ x \in S /\ ~Waits(q, x) => Comes(S, q, Append(q, x), x)
         /\ x \in S /\ Holds(q, x) => Comes(S, q, Append(Tail(q), x), x)
         /\ x \in S /\ ~Waits(q, x) /\ q = <<>> => Comes(S, q, <<x>> \o <<>>, x)
<1>1. ASSUME Holds(q, x)
      PROVE  Goes(S, q, Tail(q), x)
  BY <1>1, FirstLeaves DEF Goes
<1>2. ASSUME x \in S, ~Waits(q, x)
      PROVE  Comes(S, q, Append(q, x), x)
  BY <1>2, Joins DEF Comes
<1>3. ASSUME x \in S, Holds(q, x)
      PROVE  Comes(S, q, Append(Tail(q), x), x)
  <2> DEFINE t == Tail(q)
             a == Append(t, x)
  <2>1. Moved(S, q, t, x) /\ ~Waits(t, x)
    BY <1>3, FirstLeaves
  <2>2. t \in Seq(S) /\ IsInjective(t)
    BY <2>1 DEF Moved
  <2>3. Moved(S, t, a, x) /\ Waits(a, x) /\ \A y \in S : y # x => Before(a, y, x)
    BY <1>3, <2>1, <2>2, Joins
  <2>4. q # <<>>
    BY <1>3 DEF Holds
  <2> HIDE DEF t, a
  <2>5. Moved(S, q, a, x)
    BY <2>1, <2>3 DEF Moved
  <2> QED
    BY <2>3, <2>4, <2>5 DEF Comes, a, t
<1>4. <<x>> \o <<>> = Append(<<>>, x)
  OBVIOUS
<1> QED
  BY <1>1, <1>2, <1>3, <1>4

-----------------------------------------------------------------------------
(* What the steps of a turn's task do.                                     *)

(* The task goes on with its turn.                                         *)
Advances(m) ==
  /\ pc[m] \in {"launch", "submitted", "running"}
  /\ \E place \in {"submitted", "running", "result", "failed"} :
       pc' = [pc EXCEPT ![m] = place]
  /\ \E value \in {"none", "lost", "settled"} :
       /\ receipt' = [receipt EXCEPT ![m] = value]
       /\ value = "lost" /\ receipt[m] # "lost" => followup
  /\ sent' = sent \/ sent' = [sent EXCEPT ![m] = Append(@, prompt[m])]
  /\ echo' = echo \/ echo' = [echo EXCEPT ![m] = EchoId]
  /\ UNCHANGED <<engine, session, followup, locks, at, arg, prompt, worker,
                 asked, withdrawn, count>>

(* The session is idle again, before anybody hears of it.                  *)
Idles(m) ==
  /\ pc[m] \in {"result", "failed", "idleLock"} /\ ~followup
  /\ pc' = [pc EXCEPT ![m] = "idleEmit"]
  /\ state' = "idle" /\ wakeup'
  /\ Comes(InE, elock, elock', m)
  /\ \/ qlock' = qlock /\ (pc[m] = "idleLock" => Holds(qlock, m))
     \/ /\ Comes(InQ, qlock, qlock', m) /\ Holds(qlock', m)
        /\ pc[m] = "result" /\ engine = "claude"
  /\ pc[m] = "result" /\ qlock' = qlock => engine = "codex"
  /\ UNCHANGED <<engine, active, stop, turnTask, followup, at, arg, prompt, receipt,
                 queue, starting, text, watched, history>>

(* It waits for query_lock, to make the session idle or to settle it.      *)
AwaitsIdle(m) ==
  /\ pc[m] = "result" /\ engine = "claude" /\ ~followup
  /\ pc' = [pc EXCEPT ![m] = "idleLock"]
  /\ Comes(InQ, qlock, qlock', m)
  /\ UNCHANGED <<engine, session, followup, elock, at, arg, prompt, receipt, worker,
                 history>>

Finishing == {"result", "failed", "idleLock", "idleEmit", "repair"}

Settled(m) ==
  receipt' = [receipt EXCEPT ![m] = IF @ = "none" THEN "settled" ELSE @]

(* Its place in elock when it leaves it.                                   *)
LeavesE(m) ==
  IF pc[m] = "idleEmit" THEN Goes(InE, elock, elock', m) ELSE elock' = elock

(* A follow-up that owns the session keeps it from being idle.             *)
Keeps == state' = state \/ (followup /\ state' = "running")

AwaitsSettling(m) ==
  /\ pc[m] \in Finishing /\ engine = "claude"
  /\ pc' = [pc EXCEPT ![m] = "settle"]
  /\ turnTask' = "none" /\ Settled(m) /\ Keeps
  /\ pc[m] = "idleEmit" \/ followup
  /\ LeavesE(m) /\ Comes(InQ, qlock, qlock', m)
  /\ UNCHANGED <<engine, active, stop, followup, at, arg, prompt, worker, history>>

(* Nobody is inside query_lock when the session is settled.                *)
Ends(m) ==
  /\ pc[m] \in Finishing \cup {"settle"}
  /\ pc' = [pc EXCEPT ![m] = "done"]
  /\ IF pc[m] = "settle" THEN turnTask' = turnTask /\ receipt' = receipt
                         ELSE turnTask' = "none" /\ Settled(m)
  /\ IF engine = "claude" /\ turnTask' = "none" /\ ~followup
       THEN state' = "idle" /\ (qlock' = <<>> \/ (pc[m] = "settle" /\ Holds(qlock, m)))
       ELSE Keeps
  /\ pc[m] \in {"idleEmit", "repair", "settle"} \/ (engine = "claude" /\ followup)
  /\ active' = "none" /\ stop' \in BOOLEAN
  /\ \/ at' = at
     \/ at.drain = "none" /\ at' = [at EXCEPT !.drain = "loop"]
  /\ wakeup' \in BOOLEAN
  /\ wakeup \/ m \in watched \/ (engine = "claude" /\ queue # <<>> /\ at.drain # "none")
       => wakeup'
  /\ watched' = watched \ {m}
  /\ LeavesE(m)
  /\ \/ qlock' = qlock /\ ~Waits(qlock, m)
     \/ Goes(InQ, qlock, qlock', m)
  /\ UNCHANGED <<engine, followup, arg, prompt, queue, starting, text, history>>

Repairs(m) ==
  /\ pc[m] = "idleEmit" /\ engine = "codex"
  /\ pc' = [pc EXCEPT ![m] = "repair"]
  /\ LeavesE(m)
  /\ UNCHANGED <<engine, session, followup, qlock, at, arg, prompt, receipt, worker,
                 history>>

Parts == TypeOK /\ Locks /\ ByEngine /\ Alone

LEMMA TurnAdvances ==
  ASSUME TypeOK, NEW m \in Msgs,
         \/ LaunchStopped(m) \/ LaunchFailed(m) \/ LaunchLost(m) \/ Submit(m)
         \/ Accepted(m) \/ Result(m) \/ Crash(m)
  PROVE  Advances(m)
<1>t. receipt \in [Msgs -> {"none", "lost", "settled"}]
  BY DEF TypeOK
<1>u. receipt' = receipt => \E value \in {"none", "lost", "settled"} :
        /\ receipt' = [receipt EXCEPT ![m] = value]
        /\ value = "lost" /\ receipt[m] # "lost" => followup
  BY <1>t
<1>1. CASE LaunchStopped(m)
  BY <1>1, <1>u DEF LaunchStopped, EmitNow, Goto, Advances, history, session, locks, worker
<1>2. CASE LaunchFailed(m)
  BY <1>2, <1>u DEF LaunchFailed, Goto, Advances, history, session, locks, worker
<1>3. CASE LaunchLost(m)
  BY <1>3, <1>t DEF LaunchLost, Goto, Settle, Advances, history, session, locks, worker
<1>4. CASE Submit(m)
  BY <1>4, <1>u DEF Submit, Goto, Advances, history, session, locks, worker
<1>5. CASE Accepted(m)
  BY <1>5, <1>t DEF Accepted, EmitNow, Goto, Settle, Advances, history, session, locks, worker
<1>6. CASE Result(m)
  BY <1>6, <1>u DEF Result, EmitNow, Goto, Advances, history, session, locks, worker
<1>7. CASE Crash(m)
  BY <1>7, <1>u DEF Crash, EmitNow, Goto, Advances, history, session, locks, worker
<1> QED
  BY <1>1, <1>2, <1>3, <1>4, <1>5, <1>6, <1>7

LEMMA FinallyIs ==
  ASSUME Parts, NEW m \in Msgs, NEW st, NEW q, Finally(m, st, q),
         pc[m] \in Finishing, pc[m] \in {"idleEmit", "repair"} \/ followup,
         pc[m] = "idleEmit" \/ engine = "codex" \/ followup,
         st = state \/ (followup /\ st = "running"),
         \/ q = qlock /\ ~Waits(qlock, m)
         \/ q = Tail(qlock) /\ Holds(qlock, m),
         LeavesE(m),
         UNCHANGED <<engine, followup, arg, prompt, queue, starting, text, history>>
  PROVE  AwaitsSettling(m) \/ Ends(m)
<1>t. /\ receipt \in [Msgs -> {"none", "lost", "settled"}]
      /\ stop \in BOOLEAN /\ wakeup \in BOOLEAN /\ followup \in BOOLEAN
  BY DEF Parts, TypeOK
<1>l. qlock \in Seq(InQ) /\ IsInjective(qlock) /\ m \in InQ
  BY LocksTyped DEF Parts, Locks, InQ
<1>e. followup => engine = "claude"
  BY DEF Parts, ByEngine
<1>s. turnTask' = "none" /\ Settled(m)
  BY DEF Finally, Settle, Settled
<1>1. CASE engine = "codex" \/ q = <<>>
  <2>1. qlock' = q /\ TaskDone(m, st, "none")
    BY <1>1 DEF Finally
  <2>2. \/ qlock' = qlock /\ ~Waits(qlock, m)
        \/ Goes(InQ, qlock, qlock', m)
    BY <1>l, <2>1, LockMoves
  <2>3. /\ pc' = [pc EXCEPT ![m] = "done"] /\ active' = "none" /\ stop' \in BOOLEAN
        /\ watched' = watched \ {m}
    BY <1>t, <2>1 DEF TaskDone, Goto
  <2>4. IF engine = "claude" /\ turnTask' = "none" /\ ~followup
          THEN state' = "idle" /\ (qlock' = <<>> \/ (pc[m] = "settle" /\ Holds(qlock, m)))
          ELSE Keeps
    BY <1>1, <1>s, <2>1 DEF TaskDone, Quiet, Keeps
  <2>5. CASE engine = "claude"
    <3>1. Scheduled(queue, (engine = "claude" /\ Quiet("none")) \/ m \in watched)
      BY <2>1, <2>5 DEF TaskDone
    <3>2. /\ at' = at \/ (at.drain = "none" /\ at' = [at EXCEPT !.drain = "loop"])
          /\ wakeup' \in BOOLEAN
          /\ wakeup \/ m \in watched \/ (queue # <<>> /\ at.drain # "none") => wakeup'
      BY <1>t, <3>1 DEF Scheduled, Parts, TypeOK, Places
    <3>3. pc[m] # "settle" /\ pc[m] \in Finishing \cup {"settle"}
      BY DEF Finishing
    <3>4. pc[m] \in {"idleEmit", "repair", "settle"} \/ (engine = "claude" /\ followup)
      BY <2>5
    <3> QED
      BY <1>s, <2>2, <2>3, <2>4, <2>5, <3>2, <3>3, <3>4 DEF Ends
  <2>6. CASE engine # "claude"
    <3>1. wakeup' = (wakeup \/ m \in watched) /\ at' = at
      BY <2>1, <2>6 DEF TaskDone
    <3>2. wakeup' \in BOOLEAN /\ (wakeup \/ m \in watched => wakeup')
      BY <1>t, <3>1
    <3> QED
      BY <1>e, <1>s, <2>2, <2>3, <2>4, <2>6, <3>1, <3>2 DEF Ends
  <2> QED
    BY <2>5, <2>6
<1>2. CASE ~(engine = "codex" \/ q = <<>>)
  <2>1. /\ qlock' = Append(q, m) /\ state' = st /\ pc' = [pc EXCEPT ![m] = "settle"]
        /\ UNCHANGED <<active, stop, at, wakeup, watched>>
    BY <1>2 DEF Finally, Goto
  <2>2. Comes(InQ, qlock, qlock', m)
    BY <1>l, <2>1, LockMoves
  <2>3. engine = "claude"
    BY <1>2, QueueAssumption DEF Parts, TypeOK
  <2>4. Keeps
    BY <2>1 DEF Keeps
  <2> QED
    BY <1>2, <1>s, <2>1, <2>2, <2>3, <2>4 DEF AwaitsSettling, worker
<1> QED
  BY <1>1, <1>2

LEMMA TurnEnds ==
  ASSUME Parts, NEW m \in Msgs,
         \/ EndTurn(m) \/ IdleLock(m) \/ IdleEmitted(m) \/ Repaired(m) \/ SettleTurn(m)
  PROVE  \/ Idles(m) \/ AwaitsIdle(m) \/ AwaitsSettling(m) \/ Ends(m) \/ Repairs(m)
<1>t. /\ stop \in BOOLEAN /\ wakeup \in BOOLEAN /\ followup \in BOOLEAN
      /\ pc \in [Msgs -> Stages]
      /\ engine \in {"claude", "codex"}
  BY QueueAssumption DEF Parts, TypeOK
<1>l. /\ qlock \in Seq(InQ) /\ IsInjective(qlock) /\ m \in InQ
      /\ elock \in Seq(InE) /\ IsInjective(elock) /\ m \in InE
  BY LocksTyped DEF Parts, Locks, InQ, InE
<1>e. /\ followup => engine = "claude"
      /\ pc[m] = "repair" => engine = "codex"
      /\ pc[m] \in {"idleLock", "settle"} => engine = "claude"
  BY <1>t DEF Parts, ByEngine
<1>w. /\ pc[m] \notin {"idleLock", "idleEmit", "settle"} => ~Waits(qlock, m)
      /\ Waits(elock, m) <=> pc[m] = "idleEmit"
      /\ pc[m] = "idleEmit" /\ Waits(qlock, m) => Holds(qlock, m)
  BY DEF Parts, Locks
<1>s. ASSUME NEW x, SetIdle(x), x = m, pc[m] # "idleEmit"
      PROVE  /\ pc' = [pc EXCEPT ![m] = "idleEmit"]
             /\ state' = "idle" /\ wakeup'
             /\ Comes(InE, elock, elock', m)
             /\ UNCHANGED <<active, stop, turnTask, at, receipt, watched>>
  BY <1>s, <1>l, <1>w, LockMoves DEF SetIdle, Goto
<1>1. CASE EndTurn(m)
  <2>u. UNCHANGED <<engine, followup, arg, prompt, queue, starting, text, history>>
    BY <1>1 DEF EndTurn
  <2>w. pc[m] \in {"result", "failed"} /\ ~Waits(qlock, m)
    BY <1>1, <1>w DEF EndTurn
  <2>1. CASE engine = "claude" /\ followup
    <3>1. StayRunning(m, qlock)
      BY <1>1, <2>1 DEF EndTurn
    <3>2. LeavesE(m)
      BY <2>w, <3>1 DEF StayRunning, LeavesE
    <3>3. PICK st : Finally(m, st, qlock) /\ (st = state \/ (followup /\ st = "running"))
      BY <2>1, <3>1 DEF StayRunning
    <3> QED
      BY <2>1, <2>u, <2>w, <3>2, <3>3, FinallyIs DEF Finishing
  <2>2. CASE pc[m] = "result" /\ engine = "claude" /\ ~followup
    <3>1. /\ qlock' = Append(qlock, m)
          /\ IF qlock = <<>>
             THEN SetIdle(m)
             ELSE /\ Goto(m, "idleLock")
                  /\ UNCHANGED <<session, elock, at, receipt, wakeup, watched>>
      BY <1>1, <2>2 DEF EndTurn
    <3>2. Comes(InQ, qlock, qlock', m)
      BY <1>l, <2>w, <3>1, LockMoves
    <3>3. CASE qlock = <<>>
      <4>1. Holds(qlock', m)
        BY <3>2, <3>3 DEF Comes
      <4>2. SetIdle(m)
        BY <3>1, <3>3
      <4>3. qlock' # qlock
        BY <3>3, <4>1 DEF Holds
      <4> QED
        BY <1>s, <2>u, <2>2, <3>2, <4>1, <4>2, <4>3 DEF Idles
    <3>4. CASE qlock # <<>>
      BY <2>u, <2>2, <3>1, <3>2, <3>4 DEF AwaitsIdle, Goto, worker
    <3> QED
      BY <3>3, <3>4
  <2>3. CASE (pc[m] = "failed" \/ (pc[m] = "result" /\ engine = "codex")) /\ ~followup
    <3>1. SetIdle(m) /\ qlock' = qlock
      BY <1>1, <1>t, <2>3 DEF EndTurn
    <3> QED
      BY <1>s, <2>u, <2>w, <2>3, <3>1 DEF Idles
  <2> QED
    BY <1>1, <1>e, <1>t, <2>w, <2>1, <2>2, <2>3
<1>2. CASE IdleLock(m)
  <2>u. UNCHANGED <<engine, followup, arg, prompt, queue, starting, text, history>>
    BY <1>2 DEF IdleLock
  <2>w. pc[m] = "idleLock" /\ Holds(qlock, m)
    BY <1>2 DEF IdleLock
  <2>1. CASE followup
    <3>1. StayRunning(m, Tail(qlock))
      BY <1>2, <2>1 DEF IdleLock
    <3>2. LeavesE(m)
      BY <2>w, <3>1 DEF StayRunning, LeavesE
    <3>3. PICK st : Finally(m, st, Tail(qlock)) /\ (st = state \/ (followup /\ st = "running"))
      BY <2>1, <3>1 DEF StayRunning
    <3> QED
      BY <2>1, <2>u, <2>w, <3>2, <3>3, FinallyIs DEF Finishing
  <2>2. CASE ~followup
    <3>1. SetIdle(m) /\ qlock' = qlock
      BY <1>2, <2>2 DEF IdleLock
    <3> QED
      BY <1>s, <2>u, <2>w, <2>2, <3>1 DEF Idles
  <2> QED
    BY <2>1, <2>2
<1>3. CASE IdleEmitted(m)
  <2>u. UNCHANGED <<engine, followup, arg, prompt, queue, starting, text, history>>
    BY <1>3 DEF IdleEmitted
  <2>w. pc[m] = "idleEmit" /\ Holds(elock, m) /\ elock' = Tail(elock)
    BY <1>3 DEF IdleEmitted
  <2>e. LeavesE(m)
    BY <1>l, <2>w, LockMoves DEF LeavesE
  <2>1. CASE Finally(m, state, IF Holds(qlock, m) THEN Tail(qlock) ELSE qlock)
    <3> DEFINE q == IF Holds(qlock, m) THEN Tail(qlock) ELSE qlock
    <3>1. \/ q = qlock /\ ~Waits(qlock, m)
          \/ q = Tail(qlock) /\ Holds(qlock, m)
      <4>1. CASE Holds(qlock, m)
        BY <4>1
      <4>2. CASE ~Holds(qlock, m)
        <5>1. ~Waits(qlock, m)
          BY <1>w, <2>w, <4>2
        <5> QED
          BY <4>2, <5>1
      <4> QED
        BY <4>1, <4>2
    <3>2. Finally(m, state, q)
      BY <2>1
    <3> HIDE DEF q
    <3> QED
      BY <2>u, <2>w, <2>e, <3>1, <3>2, FinallyIs DEF Finishing
  <2>2. CASE /\ engine = "codex"
             /\ Goto(m, "repair")
             /\ UNCHANGED <<session, qlock, at, receipt, wakeup, watched>>
    BY <2>u, <2>w, <2>e, <2>2 DEF Repairs, Goto, worker
  <2> QED
    BY <1>3, <2>1, <2>2 DEF IdleEmitted
<1>4. CASE Repaired(m)
  <2>w. pc[m] = "repair" /\ ~Waits(qlock, m) /\ Finally(m, state, qlock) /\ LeavesE(m)
    BY <1>4, <1>w DEF Repaired, LeavesE
  <2>u. UNCHANGED <<engine, followup, arg, prompt, queue, starting, text, history>>
    BY <1>4 DEF Repaired
  <2> QED
    BY <1>e, <2>u, <2>w, FinallyIs DEF Finishing
<1>5. CASE SettleTurn(m)
  <2>w. pc[m] = "settle" /\ Holds(qlock, m) /\ engine = "claude"
    BY <1>5, <1>e DEF SettleTurn
  <2>q. Goes(InQ, qlock, qlock', m)
    BY <1>5, <1>l, LockMoves DEF SettleTurn
  <2>u. /\ UNCHANGED <<engine, followup, arg, prompt, queue, starting, text, history>>
        /\ UNCHANGED <<turnTask, receipt, elock>>
        /\ TaskDone(m, state, turnTask)
    BY <1>5 DEF SettleTurn
  <2>1. Scheduled(queue, (engine = "claude" /\ Quiet(turnTask)) \/ m \in watched)
    BY <2>w, <2>u DEF TaskDone
  <2>2. /\ at' = at \/ (at.drain = "none" /\ at' = [at EXCEPT !.drain = "loop"])
        /\ wakeup' \in BOOLEAN
        /\ wakeup \/ m \in watched \/ (queue # <<>> /\ at.drain # "none") => wakeup'
    BY <1>t, <2>1 DEF Scheduled, Parts, TypeOK, Places
  <2>3. /\ pc' = [pc EXCEPT ![m] = "done"] /\ active' = "none" /\ stop' \in BOOLEAN
        /\ watched' = watched \ {m}
        /\ state' = IF Quiet(turnTask) THEN "idle" ELSE state
    BY <1>t, <2>w, <2>u DEF TaskDone, Goto
  <2>4. IF engine = "claude" /\ turnTask' = "none" /\ ~followup
          THEN state' = "idle" /\ (qlock' = <<>> \/ (pc[m] = "settle" /\ Holds(qlock, m)))
          ELSE Keeps
    BY <2>w, <2>u, <2>3 DEF Quiet, Keeps
  <2>5. LeavesE(m)
    BY <2>w, <2>u DEF LeavesE
  <2> QED
    BY <2>w, <2>q, <2>u, <2>2, <2>3, <2>4, <2>5 DEF Ends
<1> QED
  BY <1>1, <1>2, <1>3, <1>4, <1>5

(* Who is inside query_lock has a prompt, whose task is not running.       *)
LEMMA Arguments ==
  ASSUME TypeOK, Offering, Working
  PROVE  /\ at.cmd # "free" => arg.cmd \in Msgs /\ pc[arg.cmd] = "none"
         /\ at.drain \in Inside => arg.drain \in Msgs /\ pc[arg.drain] \in {"none", "done"}
         /\ at.drain \in Inside \cup {"receipt", "rejected"} =>
              arg.drain \in Msgs /\ starting = arg.drain /\ Waits(queue, arg.drain)
<1>1. queue \in Seq(Msgs) /\ asked \subseteq Msgs
  BY DEF TypeOK
<1>2. \A x : Waits(queue, x) => x \in Msgs
  BY <1>1, QueueFacts
<1> QED
  BY <1>1, <1>2 DEF Offering, Working

LEMMA TurnTyped ==
  ASSUME TypeOK, Offering, Working, NEW m \in Msgs,
         \/ Advances(m) \/ Idles(m) \/ AwaitsIdle(m) \/ AwaitsSettling(m)
         \/ Ends(m) \/ Repairs(m)
  PROVE  TypeOK'
<1>t. /\ pc \in [Msgs -> Stages] /\ receipt \in [Msgs -> {"none", "lost", "settled"}]
      /\ prompt \in [Msgs -> 0..MaxEdits] /\ sent \in [Msgs -> Seq(0..MaxEdits)]
      /\ echo \in [Msgs -> Optional \cup {"uuid"}] /\ at \in Places
      /\ active \in Optional /\ turnTask \in Optional /\ watched \subseteq Msgs
      /\ stop \in BOOLEAN /\ wakeup \in BOOLEAN
      /\ state \in {"idle", "running", "interrupting"}
  BY DEF TypeOK
<1>l. qlock \in Seq(InQ) /\ elock \in Seq(InE)
  BY LocksTyped
<1>0. pc[m] \notin {"none", "done"}
  BY DEF Advances, Idles, AwaitsIdle, AwaitsSettling, Ends, Repairs, Finishing
<1>1. PICK place \in Stages : pc' = [pc EXCEPT ![m] = place]
  BY DEF Advances, Idles, AwaitsIdle, AwaitsSettling, Ends, Repairs, Stages
<1>p. pc' \in [Msgs -> Stages]
  BY <1>t, <1>1
<1>r. receipt' \in [Msgs -> {"none", "lost", "settled"}]
  <2>1. CASE Advances(m)
    BY <1>t, <2>1 DEF Advances
  <2>2. CASE Settled(m) \/ receipt' = receipt
    BY <1>t, <2>2 DEF Settled
  <2> QED
    BY <2>1, <2>2 DEF Idles, AwaitsIdle, AwaitsSettling, Ends, Repairs
<1>2. sent' \in [Msgs -> Seq(0..MaxEdits)] /\ echo' \in [Msgs -> Optional \cup {"uuid"}]
  <2>1. CASE Advances(m)
    <3>1. Append(sent[m], prompt[m]) \in Seq(0..MaxEdits) /\ EchoId \in Optional \cup {"uuid"}
      BY <1>t, AppendProperties DEF EchoId
    <3>2. [sent EXCEPT ![m] = Append(@, prompt[m])] \in [Msgs -> Seq(0..MaxEdits)]
      BY <1>t, <3>1
    <3>3. [echo EXCEPT ![m] = EchoId] \in [Msgs -> Optional \cup {"uuid"}]
      BY <1>t, <3>1
    <3> QED
      BY <1>t, <2>1, <3>2, <3>3 DEF Advances
  <2>2. CASE ~Advances(m)
    BY <1>t, <2>2 DEF Idles, AwaitsIdle, AwaitsSettling, Ends, Repairs, history
  <2> QED
    BY <2>1, <2>2
<1>3. qlock' \in Seq(InQ) /\ elock' \in Seq(InE)
  BY <1>l DEF Advances, Idles, AwaitsIdle, AwaitsSettling, Ends, Repairs, LeavesE, Comes,
              Goes, Moved, locks
<1>4. at' \in Places /\ \A a \in Launchers : at'[a] = "emit" => at[a] = "emit"
  BY <1>t DEF Places, Launchers, Advances, Idles, AwaitsIdle, AwaitsSettling, Ends, Repairs
<1>5. /\ state' \in {"idle", "running", "interrupting"} /\ active' \in Optional
      /\ stop' \in BOOLEAN /\ turnTask' \in Optional /\ wakeup' \in BOOLEAN
      /\ watched' \subseteq Msgs
  BY <1>t DEF Advances, Idles, AwaitsIdle, AwaitsSettling, Ends, Repairs, Keeps, Optional,
              session, worker
<1>6. /\ UNCHANGED <<engine, followup, arg, prompt, queue, starting, text>>
      /\ UNCHANGED <<asked, withdrawn>>
  BY DEF Advances, Idles, AwaitsIdle, AwaitsSettling, Ends, Repairs, worker, history
<1>7. \A a \in Launchers : at'[a] = "emit" => pc'[arg'[a]] \in {"none", "done"}
  <2> SUFFICES ASSUME NEW a \in Launchers, at'[a] = "emit"
               PROVE  pc'[arg[a]] \in {"none", "done"}
    BY <1>6
  <2>1. arg[a] \in Msgs /\ pc[arg[a]] \in {"none", "done"}
    BY <1>4, Arguments DEF Launchers, Inside
  <2> QED
    BY <1>0, <1>t, <1>1, <2>1
<1> QED
  BY <1>p, <1>r, <1>2, <1>3, <1>4, <1>5, <1>6, <1>7 DEF TypeOK, InQ, InE, Launchers

-----------------------------------------------------------------------------
(* The tasks of turns keep the invariant.                                  *)
TurnStep(m) ==
  \/ Advances(m) \/ Idles(m) \/ AwaitsIdle(m) \/ AwaitsSettling(m) \/ Ends(m)
  \/ Repairs(m)

LEMMA TurnLocks ==
  ASSUME TypeOK, Locks, ByEngine, NEW m \in Msgs, TurnStep(m)
  PROVE  Locks'
<1>t. /\ pc \in [Msgs -> Stages] /\ at \in Places
      /\ m \notin Launchers \cup {"bg"} /\ m \in InQ \cap InE
      /\ "bg" \in InQ /\ Launchers \subseteq InQ \cap InE /\ Msgs \subseteq InQ \cap InE
  BY Names DEF TypeOK, InQ, InE, Launchers
<1>a. /\ \A a \in Launchers : at'[a] \in InLine <=> at[a] \in InLine
      /\ \A a \in Launchers : at'[a] \in Inside <=> at[a] \in Inside
      /\ \A a \in Launchers : at'[a] = "emit" <=> at[a] = "emit"
      /\ at'.bg = at.bg
  BY <1>t DEF TurnStep, Advances, Idles, AwaitsIdle, AwaitsSettling, Ends, Repairs, Places,
              Launchers, InLine, Inside
<1>1. CASE Advances(m)
  BY <1>t, <1>1 DEF Advances, Locks, locks
<1>2. CASE Idles(m)
  BY <1>t, <1>a, <1>2 DEF Idles, Locks, Comes, Moved
<1>3. CASE AwaitsIdle(m)
  BY <1>t, <1>a, <1>3 DEF AwaitsIdle, Locks, Comes, Moved
<1>4. CASE AwaitsSettling(m)
  BY <1>t, <1>a, <1>4 DEF AwaitsSettling, Finishing, LeavesE, Locks, Comes, Goes, Moved
<1>5. CASE Ends(m)
  BY <1>t, <1>a, <1>5 DEF Ends, Finishing, LeavesE, Locks, Goes, Moved
<1>6. CASE Repairs(m)
  BY <1>t, <1>a, <1>6 DEF Repairs, LeavesE, Locks, ByEngine, Goes, Moved
<1> QED
  BY <1>1, <1>2, <1>3, <1>4, <1>5, <1>6 DEF TurnStep

LEMMA TurnByEngine ==
  ASSUME TypeOK, ByEngine, NEW m \in Msgs, TurnStep(m)
  PROVE  ByEngine'
<1>t. /\ pc \in [Msgs -> Stages] /\ at \in Places /\ engine \in {"claude", "codex"}
      /\ receipt \in [Msgs -> {"none", "lost", "settled"}]
  BY QueueAssumption DEF TypeOK
<1>1. CASE Advances(m)
  BY <1>t, <1>1 DEF Advances, ByEngine, locks
<1>2. CASE Idles(m)
  BY <1>t, <1>2 DEF Idles, ByEngine
<1>3. CASE AwaitsIdle(m)
  BY <1>t, <1>3 DEF AwaitsIdle, ByEngine
<1>4. CASE AwaitsSettling(m)
  BY <1>t, <1>4 DEF AwaitsSettling, Settled, ByEngine
<1>5. CASE Ends(m)
  <2>1. \A n \in Msgs : Waits(qlock', n) => Waits(qlock, n)
    BY <1>5 DEF Ends, Goes, Moved, InQ
  <2> QED
    BY <1>t, <1>5, <2>1 DEF Ends, Settled, ByEngine, Places
<1>6. CASE Repairs(m)
  BY <1>t, <1>6 DEF Repairs, ByEngine
<1> QED
  BY <1>1, <1>2, <1>3, <1>4, <1>5, <1>6 DEF TurnStep

LEMMA TurnAlone ==
  ASSUME TypeOK, Locks, ByEngine, Alone, NEW m \in Msgs, TurnStep(m)
  PROVE  Alone'
<1>t. /\ pc \in [Msgs -> Stages] /\ at \in Places /\ engine \in {"claude", "codex"}
      /\ m \notin Launchers \cup {"none"} /\ m \in InQ \cap InE
      /\ Launchers \subseteq InQ \cap InE /\ Msgs \subseteq InQ \cap InE
      /\ state \in {"idle", "running", "interrupting"}
  BY Names, QueueAssumption DEF TypeOK, InQ, InE, Launchers
<1>a. /\ \A a \in Launchers : at'[a] \in Inside <=> at[a] \in Inside
      /\ \A a \in Launchers : at'[a] = "emit" <=> at[a] = "emit"
  BY <1>t DEF TurnStep, Advances, Idles, AwaitsIdle, AwaitsSettling, Ends, Repairs, Places,
              Launchers, Inside
<1>1. CASE Advances(m)
  BY <1>t, <1>1 DEF Advances, Alone, Own, locks, session
<1>2. CASE Idles(m)
  BY <1>t, <1>a, <1>2 DEF Idles, Alone, Own, Comes, Moved, Inside
<1>3. CASE AwaitsIdle(m)
  BY <1>t, <1>a, <1>3 DEF AwaitsIdle, Alone, Own, session
<1>4. CASE AwaitsSettling(m)
  <2>1. pc[m] \in Own \cup {"idleEmit"} /\ turnTask = m
    BY <1>t, <1>4 DEF AwaitsSettling, Finishing, ByEngine, Own, Alone
  <2>2. \A n \in Msgs : pc'[n] \in Own \cup {"idleEmit"} => FALSE
    BY <1>t, <1>4, <2>1 DEF AwaitsSettling, Alone, Own
  <2>3. state' = "idle" => state = "idle"
    BY <1>4 DEF AwaitsSettling, Keeps
  <2> QED
    BY <1>t, <1>a, <1>4, <2>2, <2>3 DEF AwaitsSettling, Alone
<1>5. CASE Ends(m)
  <2>1. \A n \in Msgs : pc'[n] \in Own => n # m /\ pc[n] \in Own
    BY <1>t, <1>5 DEF Ends, Own
  <2>2. \A n \in Msgs : pc'[n] = "idleEmit" => n # m /\ pc[n] = "idleEmit"
    BY <1>t, <1>5 DEF Ends
  <2>3. pc[m] \in Own \cup {"idleEmit", "repair", "settle"}
    BY <1>5 DEF Ends, Finishing, Own
  <2>4. ASSUME NEW n \in Msgs, engine' = "claude", pc'[n] \in Own \cup {"idleEmit"}
        PROVE  turnTask' = n
    <3>1. n # m /\ turnTask = n /\ engine = "claude"
      BY <1>5, <2>1, <2>2, <2>4 DEF Ends, Alone
    <3>2. pc[m] = "settle"
      BY <2>3, <3>1, <1>t, <1>5 DEF Alone, ByEngine, Ends
    <3> QED
      BY <1>5, <3>1, <3>2 DEF Ends
  <2>5. ASSUME state' = "idle", state # "idle"
        PROVE  /\ \A n \in Msgs : pc'[n] \notin Own
               /\ \A a \in Launchers : at[a] # "emit"
    <3>1. /\ engine = "claude" /\ turnTask' = "none"
          /\ qlock' = <<>> \/ Holds(qlock, m)
      BY <1>5, <2>5 DEF Ends, Keeps
    <3>2. \A n \in Msgs : pc'[n] \notin Own
      BY <1>5, <2>4, <3>1, Names DEF Ends
    <3>3. ASSUME NEW a \in Launchers, at[a] = "emit"
          PROVE  FALSE
      <4>1. Holds(qlock, a) /\ Waits(qlock, a) /\ a # m
        BY <1>t, <3>3 DEF Locks, Inside, InLine
      <4>2. Waits(qlock', a)
        BY <1>5, <1>t, <4>1 DEF Ends, Goes, Moved
      <4> QED
        BY <3>1, <4>1, <4>2, NobodyWaits DEF Holds
    <3> QED
      BY <3>2, <3>3
  <2>6. \A a \in Launchers, n \in Msgs :
          at'[a] = "emit" /\ pc'[n] = "idleEmit" => Before(elock', n, a)
    BY <1>5, <1>a, <1>t, <2>2 DEF Ends, LeavesE, Goes, Moved, Alone
  <2> QED
    BY <1>5, <1>a, <2>1, <2>4, <2>5, <2>6 DEF Alone
<1>6. CASE Repairs(m)
  BY <1>t, <1>a, <1>6 DEF Repairs, LeavesE, Alone, Own, Goes, Moved, session
<1> QED
  BY <1>1, <1>2, <1>3, <1>4, <1>5, <1>6 DEF TurnStep

LEMMA TurnOffering ==
  ASSUME TypeOK, Offering, Working, NEW m \in Msgs, TurnStep(m)
  PROVE  Offering'
<1>t. /\ pc \in [Msgs -> Stages] /\ at \in Places /\ sent \in [Msgs -> Seq(0..MaxEdits)]
  BY DEF TypeOK
<1>1. /\ at'.cmd = at.cmd
      /\ UNCHANGED <<arg, asked, withdrawn, queue, prompt, text>>
  BY <1>t DEF TurnStep, Advances, Idles, AwaitsIdle, AwaitsSettling, Ends, Repairs, Places,
              worker, history
<1>2. \A n \in Msgs : n # m => pc'[n] = pc[n] /\ sent'[n] = sent[n]
  BY <1>t DEF TurnStep, Advances, Idles, AwaitsIdle, AwaitsSettling, Ends, Repairs, history
<1>3. pc[m] # "none"
  BY DEF TurnStep, Advances, Idles, AwaitsIdle, AwaitsSettling, Ends, Repairs, Finishing
<1>4. at.cmd # "free" => arg.cmd \in Msgs /\ pc[arg.cmd] = "none"
  BY Arguments
<1> QED
  BY <1>1, <1>2, <1>3, <1>4 DEF Offering

LEMMA TurnWorking ==
  ASSUME TypeOK, Prompts, Offering, Working, NEW m \in Msgs, TurnStep(m)
  PROVE  Working'
<1>t. /\ pc \in [Msgs -> Stages] /\ at \in Places
      /\ "drain" \in InQ /\ Msgs \subseteq InQ /\ m # "drain"
  BY Names DEF TypeOK, InQ, Launchers
<1>1. UNCHANGED <<arg, queue, prompt, text, starting>>
  BY DEF TurnStep, Advances, Idles, AwaitsIdle, AwaitsSettling, Ends, Repairs, worker
<1>2. at'.drain = at.drain \/ (at.drain = "none" /\ at'.drain = "loop")
  BY <1>t DEF TurnStep, Advances, Idles, AwaitsIdle, AwaitsSettling, Ends, Repairs, Places
<1>3. \A n \in Msgs : n # m => pc'[n] = pc[n]
  BY <1>t DEF TurnStep, Advances, Idles, AwaitsIdle, AwaitsSettling, Ends, Repairs
<1>4. pc[m] \notin {"none", "done"}
  BY DEF TurnStep, Advances, Idles, AwaitsIdle, AwaitsSettling, Ends, Repairs, Finishing
<1>5. at.drain \in Inside => arg.drain \in Msgs /\ pc[arg.drain] \in {"none", "done"}
  BY Arguments
<1>6. ASSUME at.drain = "lock", Waits(queue, m)
      PROVE  pc[m] = "settle" /\ pc'[m] = "done"
  <2>1. pc[m] = "settle"
    BY <1>4, <1>6 DEF Prompts, PromptOK, AtReceipt, Working
  <2> QED
    BY <1>t, <2>1 DEF TurnStep, Advances, Idles, AwaitsIdle, AwaitsSettling, Ends, Repairs,
                      Finishing
<1>7. \A n \in Msgs : n # m /\ Before(qlock, n, "drain") => Before(qlock', n, "drain")
  BY <1>t DEF TurnStep, Advances, Idles, AwaitsIdle, AwaitsSettling, Ends, Repairs, locks,
              Comes, Goes, Moved
<1>8. at'.drain = "lock" =>
        \A n \in Msgs : Waits(queue', n) =>
          /\ pc'[n] \notin {"failed", "idleEmit"}
          /\ pc'[n] = "settle" => Before(qlock', n, "drain")
  BY <1>1, <1>2, <1>3, <1>6, <1>7 DEF Working
<1>9. at'.drain \in Inside => pc'[arg.drain] \in {"none", "done"}
  BY <1>2, <1>3, <1>4, <1>5 DEF Inside
<1> QED
  BY <1>1, <1>2, <1>8, <1>9 DEF Working, Inside

LEMMA TurnAlive ==
  ASSUME TypeOK, Locks, ByEngine, Alone, Alive, NEW m \in Msgs, TurnStep(m)
  PROVE  Alive'
<1>t. /\ pc \in [Msgs -> Stages] /\ at \in Places /\ engine \in {"claude", "codex"}
      /\ turnTask \in Msgs \cup {"none"} /\ watched \subseteq Msgs
  BY QueueAssumption DEF TypeOK, Optional
<1>1. /\ queue' = queue /\ engine' = engine /\ followup' = followup
      /\ at'.bg = at.bg /\ \A a \in Launchers : at'[a] = "emit" <=> at[a] = "emit"
      /\ at'.drain = at.drain \/ (at.drain = "none" /\ at'.drain = "loop")
  BY <1>t DEF TurnStep, Advances, Idles, AwaitsIdle, AwaitsSettling, Ends, Repairs, Places,
              Launchers, worker
<1>2. \A n \in Msgs : n # m => pc'[n] = pc[n]
  BY <1>t DEF TurnStep, Advances, Idles, AwaitsIdle, AwaitsSettling, Ends, Repairs
<1>3. at'.drain = "none" => queue' = <<>>
  BY <1>1 DEF Alive
<1>4. CASE Advances(m)
  <2>1. /\ pc'[m] \in Own /\ UNCHANGED <<state, turnTask, watched, wakeup, at>>
    BY <1>t, <1>4 DEF Advances, Own, session, worker
  <2>2. Unlocking'
    BY <2>1 DEF Unlocking
  <2> QED
    BY <1>t, <1>2, <1>3, <2>1, <2>2 DEF Alive
<1>5. CASE Idles(m)
  BY <1>t, <1>2, <1>3, <1>5 DEF Idles, Alive
<1>6. CASE AwaitsIdle(m)
  <2>1. /\ pc'[m] \in Own /\ UNCHANGED <<state, turnTask, watched, wakeup, at>>
    BY <1>t, <1>6 DEF AwaitsIdle, Own, session, worker
  <2>2. Unlocking'
    BY <2>1 DEF Unlocking
  <2> QED
    BY <1>t, <1>2, <1>3, <2>1, <2>2 DEF Alive
<1>7. CASE AwaitsSettling(m)
  <2>1. Unlocking'
    BY <1>t, <1>7 DEF AwaitsSettling, Unlocking
  <2> QED
    BY <1>3, <1>7, <2>1 DEF AwaitsSettling, Alive
<1>8. CASE Ends(m)
  <2>1. state' # "idle" => Unlocking'
    <3> SUFFICES ASSUME state' # "idle"
                 PROVE  Unlocking'
      OBVIOUS
    <3>1. CASE engine = "claude"
      <4>1. CASE followup
        BY <1>1, <3>1, <4>1 DEF Unlocking
      <4>2. CASE ~followup
        <5>1. pc[m] = "settle" /\ turnTask # "none" /\ turnTask' = turnTask
          BY <1>8, <3>1, <4>2 DEF Ends
        <5>2. pc[turnTask] \in Own \cup {"idleEmit"} /\ turnTask \in Msgs
          BY <1>t, <3>1, <5>1 DEF Alive, ByEngine
        <5>3. pc'[turnTask] \in Own \cup {"idleEmit"}
          BY <1>2, <5>1, <5>2 DEF Own
        <5> QED
          BY <1>1, <3>1, <5>2, <5>3 DEF Unlocking
      <4> QED
        BY <4>1, <4>2
    <3>2. CASE engine # "claude"
      <4>1. state # "idle" /\ ~followup /\ pc[m] \in {"idleEmit", "repair"}
        BY <1>8, <3>2 DEF Ends, Keeps, ByEngine
      <4>2. \/ \E a \in Launchers : at[a] = "emit"
            \/ \E n \in Msgs : n # m /\ pc[n] \in Own
        BY <3>2, <4>1 DEF Alive, Unlocking, Own
      <4> QED
        BY <1>1, <1>2, <4>2 DEF Unlocking
    <3> QED
      BY <3>1, <3>2
  <2>2. turnTask' # "none" => pc'[turnTask'] \in Own \cup {"idleEmit", "repair"}
    <3> SUFFICES ASSUME turnTask' # "none"
                 PROVE  pc'[turnTask'] \in Own \cup {"idleEmit", "repair"}
      OBVIOUS
    <3>1. pc[m] = "settle" /\ turnTask' = turnTask
      BY <1>8 DEF Ends
    <3>2. turnTask \in Msgs /\ pc[turnTask] \in Own \cup {"idleEmit", "repair"}
      BY <1>t, <3>1 DEF Alive
    <3> QED
      BY <1>2, <3>1, <3>2 DEF Own
  <2>3. ASSUME at'.drain = "wait", ~wakeup', queue' # <<>>
        PROVE  \/ Unlocking'
               \/ \E n \in watched' : pc'[n] \notin {"none", "done"}
    <3>1. at.drain = "wait" /\ ~wakeup /\ queue # <<>> /\ m \notin watched /\ engine # "claude"
      BY <1>1, <1>8, <2>3 DEF Ends
    <3>2. pc[m] \notin Own \cup {"settle"}
      BY <1>8, <3>1 DEF Ends, Own, ByEngine
    <3>3. CASE Unlocking
      BY <1>1, <1>2, <3>1, <3>2, <3>3 DEF Unlocking
    <3>4. CASE \E n \in watched : pc[n] \notin {"none", "done"}
      BY <1>t, <1>2, <1>8, <3>1, <3>4 DEF Ends
    <3> QED
      BY <3>1, <3>3, <3>4 DEF Alive
  <2> QED
    BY <1>3, <2>1, <2>2, <2>3 DEF Alive
<1>9. CASE Repairs(m)
  <2>1. /\ pc[m] = "idleEmit" /\ pc'[m] = "repair" /\ engine # "claude"
        /\ UNCHANGED <<state, turnTask, watched, wakeup, at>>
    BY <1>t, <1>9 DEF Repairs, session, worker
  <2>2. Unlocking => Unlocking'
    BY <1>1, <1>2, <2>1 DEF Unlocking, Own
  <2> QED
    BY <1>1, <1>t, <1>2, <1>3, <2>1, <2>2 DEF Alive
<1> QED
  BY <1>4, <1>5, <1>6, <1>7, <1>8, <1>9 DEF TurnStep

LEMMA TurnPrompts ==
  ASSUME TypeOK, ByEngine, Prompts, NEW m \in Msgs, TurnStep(m),
         Advances(m) => \/ LaunchStopped(m) \/ LaunchFailed(m) \/ LaunchLost(m)
                        \/ Submit(m) \/ Accepted(m) \/ Result(m) \/ Crash(m)
  PROVE  Prompts'
<1>t. /\ pc \in [Msgs -> Stages] /\ at \in Places /\ sent \in [Msgs -> Seq(0..MaxEdits)]
      /\ receipt \in [Msgs -> {"none", "lost", "settled"}]
      /\ prompt \in [Msgs -> 0..MaxEdits] /\ engine \in {"claude", "codex"}
  BY QueueAssumption DEF TypeOK
<1>1. UNCHANGED <<arg, queue, prompt, text, starting, asked, withdrawn>>
  BY DEF TurnStep, Advances, Idles, AwaitsIdle, AwaitsSettling, Ends, Repairs, worker, history
<1>2. at'.drain = "receipt" <=> at.drain = "receipt"
  BY <1>t DEF TurnStep, Advances, Idles, AwaitsIdle, AwaitsSettling, Ends, Repairs, Places
<1>3. \A n \in Msgs : n # m => pc'[n] = pc[n] /\ sent'[n] = sent[n] /\ receipt'[n] = receipt[n]
  BY <1>t DEF TurnStep, Advances, Idles, AwaitsIdle, AwaitsSettling, Ends, Repairs, Settled,
              history
<1>4. \A n \in Msgs : AtReceipt(n)' <=> AtReceipt(n)
  BY <1>1, <1>2 DEF AtReceipt
<1>m. PromptOK(m)
  BY DEF Prompts
<1>5. PromptOK(m)'
  <2>1. CASE Advances(m)
    <3>1. CASE LaunchStopped(m) \/ LaunchFailed(m)
      BY <1>m, <1>t, <1>1, <1>4, <3>1 DEF LaunchStopped, LaunchFailed, Goto, PromptOK, history
    <3>2. CASE LaunchLost(m)
      BY <1>m, <1>t, <1>1, <1>4, <3>2 DEF LaunchLost, Settle, Goto, PromptOK, history
    <3>3. CASE Submit(m)
      <4>s. sent[m] \in Seq(0..MaxEdits) /\ prompt[m] \in 0..MaxEdits
        BY <1>t
      <4>1. Append(sent[m], prompt[m]) # <<>>
        BY <4>s, AppendProperties, ZenonT(60)
      <4> QED
        BY <1>m, <1>t, <1>1, <1>4, <3>3, <4>1 DEF Submit, Goto, PromptOK
    <3>4. CASE Accepted(m)
      BY <1>m, <1>t, <1>1, <1>4, <3>4 DEF Accepted, Settle, Goto, PromptOK
    <3>5. CASE Result(m) \/ Crash(m)
      BY <1>m, <1>t, <1>1, <1>4, <3>5 DEF Result, Crash, Goto, PromptOK, history
    <3> QED
      BY <2>1, <3>1, <3>2, <3>3, <3>4, <3>5
  <2>2. CASE Idles(m)
    BY <1>m, <1>t, <1>1, <1>4, <2>2 DEF Idles, PromptOK, history
  <2>3. CASE AwaitsIdle(m)
    BY <1>m, <1>t, <1>1, <1>4, <2>3 DEF AwaitsIdle, PromptOK, history
  <2>4. CASE AwaitsSettling(m)
    BY <1>m, <1>t, <1>1, <1>4, <2>4 DEF AwaitsSettling, Finishing, Settled, PromptOK, history
  <2>5. CASE Ends(m)
    BY <1>m, <1>t, <1>1, <1>4, <2>5 DEF Ends, Finishing, Settled, PromptOK, history
  <2>6. CASE Repairs(m)
    BY <1>m, <1>t, <1>1, <1>4, <2>6 DEF Repairs, ByEngine, PromptOK, history
  <2> QED
    BY <2>1, <2>2, <2>3, <2>4, <2>5, <2>6 DEF TurnStep
<1>6. ASSUME NEW n \in Msgs, n # m
      PROVE  PromptOK(n)'
  BY <1>1, <1>3, <1>4, <1>6 DEF Prompts, PromptOK
<1> QED
  BY <1>5, <1>6 DEF Prompts

LEMMA TurnInvariant ==
  ASSUME IInv, NEW m \in Msgs, Turn(m)
  PROVE  IInv'
<1>1. TypeOK /\ Locks /\ ByEngine /\ Alone /\ Prompts /\ Offering /\ Working /\ Alive
  BY DEF IInv
<1>2. CASE LaunchStopped(m) \/ LaunchFailed(m) \/ LaunchLost(m) \/ Submit(m)
           \/ Accepted(m) \/ Result(m) \/ Crash(m)
  <2>1. Advances(m)
    BY <1>1, <1>2, TurnAdvances
  <2> QED
    BY <1>1, <1>2, <2>1, TurnTyped, TurnLocks, TurnByEngine, TurnAlone, TurnPrompts,
       TurnOffering, TurnWorking, TurnAlive DEF IInv, TurnStep
<1>3. CASE EndTurn(m) \/ IdleLock(m) \/ IdleEmitted(m) \/ Repaired(m) \/ SettleTurn(m)
  <2>1. Idles(m) \/ AwaitsIdle(m) \/ AwaitsSettling(m) \/ Ends(m) \/ Repairs(m)
    BY <1>1, <1>3, TurnEnds DEF Parts
  <2>2. TurnStep(m) /\ ~Advances(m)
    <3>1. pc \in [Msgs -> Stages]
      BY <1>1 DEF TypeOK
    <3> QED
      BY <2>1, <3>1 DEF TurnStep, Advances, Idles, AwaitsIdle, AwaitsSettling, Ends, Repairs,
                        Finishing
  <2> QED
    BY <1>1, <2>1, <2>2, TurnTyped, TurnLocks, TurnByEngine, TurnAlone, TurnPrompts,
       TurnOffering, TurnWorking, TurnAlive DEF IInv
<1> QED
  BY <1>2, <1>3 DEF Turn

-----------------------------------------------------------------------------
(* The locked check: launcher a comes to query_lock, passes the check,     *)
(* leaves the lock, or is not at it.                                       *)
Gate(a, place) ==
  /\ at' = [at EXCEPT ![a] = place]
  /\ UNCHANGED <<engine, state, turnTask, followup, elock, pc, receipt>>
  /\ \/ place = "lock" /\ at[a] \notin InLine /\ Comes(InQ, qlock, qlock', a)
     \/ /\ place = "preflight" /\ at[a] \notin Inside
        /\ state = "idle" /\ ~followup /\ Holds(qlock', a)
        /\ \/ at[a] \in InLine /\ qlock' = qlock
           \/ at[a] \notin InLine /\ Comes(InQ, qlock, qlock', a)
     \/ place \notin InLine /\ at[a] \in {"lock", "preflight"} /\ Goes(InQ, qlock, qlock', a)
     \/ place \notin InLine /\ at[a] \notin InLine /\ qlock' = qlock

LEMMA GateLocks ==
  ASSUME TypeOK, Locks, NEW a \in Launchers, NEW place, Gate(a, place)
  PROVE  Locks'
<1>t. /\ pc \in [Msgs -> Stages] /\ at \in Places
      /\ Launchers \cap (Msgs \cup {"bg"}) = {} /\ "bg" \notin Msgs
      /\ "bg" \in InQ /\ Launchers \subseteq InQ \cap InE /\ Msgs \subseteq InQ \cap InE
      /\ qlock \in Seq(InQ)
  BY Names, LocksTyped DEF TypeOK, InQ, InE, Launchers
<1>a. at'[a] = place /\ at'.bg = at.bg /\ \A b \in Launchers : b # a => at'[b] = at[b]
  BY <1>t DEF Gate, Places, Launchers
<1>n. UNCHANGED <<elock, pc>>
  BY DEF Gate
<1>1. CASE place = "lock" /\ at[a] \notin InLine /\ Comes(InQ, qlock, qlock', a)
  BY <1>t, <1>a, <1>n, <1>1 DEF Locks, Comes, Moved, InLine, Inside
<1>2. CASE /\ place = "preflight" /\ at[a] \notin Inside /\ Holds(qlock', a)
           /\ at[a] \in InLine /\ qlock' = qlock
  BY <1>t, <1>a, <1>n, <1>2 DEF Locks, InLine, Inside
<1>3. CASE /\ place = "preflight" /\ at[a] \notin Inside /\ Holds(qlock', a)
           /\ at[a] \notin InLine /\ Comes(InQ, qlock, qlock', a)
  BY <1>t, <1>a, <1>n, <1>3 DEF Locks, Comes, Moved, InLine, Inside
<1>4. CASE place \notin InLine /\ at[a] \in {"lock", "preflight"} /\ Goes(InQ, qlock, qlock', a)
  BY <1>t, <1>a, <1>n, <1>4 DEF Locks, Goes, Moved, InLine, Inside
<1>5. CASE place \notin InLine /\ at[a] \notin InLine /\ qlock' = qlock
  BY <1>t, <1>a, <1>n, <1>5 DEF Locks, InLine, Inside
<1> QED
  BY <1>1, <1>2, <1>3, <1>4, <1>5 DEF Gate

LEMMA GateByEngine ==
  ASSUME TypeOK, ByEngine, NEW a \in Launchers, NEW place, Gate(a, place)
  PROVE  ByEngine'
<1>1. at'.bg = at.bg
  BY DEF Gate, TypeOK, Places, Launchers
<1>2. \A m \in Msgs : Waits(qlock', m) => Waits(qlock, m)
  <2>1. \A m \in Msgs : m # a /\ m \in InQ
    BY Names DEF Launchers, InQ
  <2> QED
    BY <2>1 DEF Gate, Comes, Goes, Moved
<1> QED
  BY <1>1, <1>2 DEF Gate, ByEngine

LEMMA GateAlone ==
  ASSUME TypeOK, Alone, NEW a \in Launchers, NEW place, Gate(a, place)
  PROVE  Alone'
<1>1. at'[a] = place /\ \A b \in Launchers : b # a => at'[b] = at[b]
  BY DEF Gate, TypeOK, Places, Launchers
<1>2. UNCHANGED <<engine, state, turnTask, elock, pc>> /\ place # "emit"
  BY DEF Gate, InLine
<1>3. place = "preflight" => state = "idle"
  BY DEF Gate, InLine
<1> QED
  BY <1>1, <1>2, <1>3 DEF Alone, Inside

LEMMA GateAlive ==
  ASSUME TypeOK, Alive, NEW a \in Launchers, NEW place, Gate(a, place),
         at'.drain = "none" => queue' = <<>>,
         at'.drain = "wait" /\ ~wakeup' /\ queue' # <<>> =>
           \/ at.drain = "wait" /\ ~wakeup /\ queue # <<>> /\ watched' = watched
           \/ Unlocking \/ \E m \in watched' : pc[m] \notin {"none", "done"}
  PROVE  Alive'
<1>1. at'[a] = place /\ at'.bg = at.bg /\ \A b \in Launchers : b # a => at'[b] = at[b]
  BY DEF Gate, TypeOK, Places, Launchers
<1>2. UNCHANGED <<engine, state, turnTask, followup, pc>> /\ place # "emit"
  BY DEF Gate, InLine
<1>3. at[a] # "emit"
  BY DEF Gate, Inside, InLine
<1>4. Unlocking => Unlocking'
  BY <1>1, <1>2, <1>3 DEF Unlocking
<1> QED
  BY <1>1, <1>2, <1>4 DEF Alive, Launchers

(* Which steps are about the locked check, and where they lead.            *)
GateSteps ==
  \/ \E m \in Msgs : Query(m) \/ Enqueue(m) \/ Cancel(m) \/ Update(m)
  \/ CmdLock \/ Reject("cmd") \/ Reject("drain")
  \/ WorkerLoop \/ WorkerLock \/ WorkerWake
  \/ WorkerReceipt \/ WorkerRejected \/ WorkerRetry

LEMMA CmdAdmittedIs ==
  ASSUME TypeOK, Locks,
         \/ at.cmd = "free" /\ qlock = <<>> /\ CmdAdmitted(<<>>)
         \/ at.cmd = "lock" /\ Holds(qlock, "cmd") /\ CmdAdmitted(Tail(qlock)),
         UNCHANGED <<engine, state, turnTask, followup, elock, pc, receipt>>
  PROVE  Gate("cmd", IF Busy THEN "free" ELSE "preflight")
<1>l. qlock \in Seq(InQ) /\ IsInjective(qlock) /\ "cmd" \in InQ /\ "cmd" \in Launchers
  BY LocksTyped DEF Locks, InQ, Launchers
<1>w. Waits(qlock, "cmd") <=> at.cmd \in InLine
  BY <1>l DEF Locks
<1>1. CASE at.cmd = "free" /\ qlock = <<>> /\ CmdAdmitted(<<>>)
  <2>1. ~Waits(qlock, "cmd")
    BY <1>w, <1>1 DEF InLine
  <2>2. ~Busy => Comes(InQ, qlock, qlock', "cmd")
    BY <1>l, <1>1, <2>1, LockMoves DEF CmdAdmitted
  <2>3. ~Busy => Holds(qlock', "cmd")
    BY <1>1, <2>2 DEF Comes
  <2>4. Busy => qlock' = qlock
    BY <1>1 DEF CmdAdmitted
  <2> QED
    BY <1>1, <2>2, <2>3, <2>4 DEF CmdAdmitted, Gate, At, InLine, Inside, Busy
<1>2. CASE at.cmd = "lock" /\ Holds(qlock, "cmd") /\ CmdAdmitted(Tail(qlock))
  <2>1. Busy => Goes(InQ, qlock, qlock', "cmd")
    BY <1>l, <1>2, LockMoves DEF CmdAdmitted
  <2>2. ~Busy => qlock' = qlock
    BY <1>l, <1>2, QueueFacts DEF CmdAdmitted
  <2> QED
    BY <1>2, <2>1, <2>2 DEF CmdAdmitted, Gate, At, InLine, Inside, Busy
<1> QED
  BY <1>1, <1>2

LEMMA WorkerAdmittedIs ==
  ASSUME TypeOK, Locks,
         \/ at.drain = "loop" /\ qlock = <<>> /\ WorkerAdmitted(<<>>)
         \/ at.drain = "lock" /\ Holds(qlock, "drain") /\ WorkerAdmitted(Tail(qlock)),
         UNCHANGED <<engine, state, turnTask, followup, elock, pc, receipt>>
  PROVE  Gate("drain", IF Blocked \/ queue = <<>> THEN "loop" ELSE "preflight")
<1>l. qlock \in Seq(InQ) /\ IsInjective(qlock) /\ "drain" \in InQ /\ "drain" \in Launchers
  BY LocksTyped DEF Locks, InQ, Launchers
<1>w. Waits(qlock, "drain") <=> at.drain \in InLine
  BY <1>l DEF Locks
<1> DEFINE no == Blocked \/ queue = <<>>
<1>1. CASE at.drain = "loop" /\ qlock = <<>> /\ WorkerAdmitted(<<>>)
  <2>1. ~Waits(qlock, "drain")
    BY <1>w, <1>1 DEF InLine
  <2>a. ~no => qlock' = <<"drain">> \o <<>>
    BY <1>1 DEF WorkerAdmitted
  <2>b. Comes(InQ, qlock, <<"drain">> \o <<>>, "drain")
    BY <1>l, <1>1, <2>1, LockMoves
  <2>2. ~no => Comes(InQ, qlock, qlock', "drain")
    BY <2>a, <2>b
  <2>3. ~no => Holds(qlock', "drain")
    BY <1>1, <2>2 DEF Comes
  <2>4. no => qlock' = qlock
    BY <1>1 DEF WorkerAdmitted
  <2> QED
    BY <1>1, <2>2, <2>3, <2>4 DEF WorkerAdmitted, Gate, At, InLine, Inside, Busy, Blocked
<1>2. CASE at.drain = "lock" /\ Holds(qlock, "drain") /\ WorkerAdmitted(Tail(qlock))
  <2>1. no => Goes(InQ, qlock, qlock', "drain")
    BY <1>l, <1>2, LockMoves DEF WorkerAdmitted
  <2>2. ~no => qlock' = qlock
    BY <1>l, <1>2, QueueFacts DEF WorkerAdmitted
  <2> QED
    BY <1>2, <2>1, <2>2 DEF WorkerAdmitted, Gate, At, InLine, Inside, Busy, Blocked
<1> QED
  BY <1>1, <1>2

(* A wake-up that may create the worker.                                   *)
LEMMA ScheduledIs ==
  ASSUME TypeOK, NEW q, NEW woken \in BOOLEAN, Scheduled(q, woken)
  PROVE  /\ at' = [at EXCEPT !.drain = IF at.drain = "none" /\ q # <<>> THEN "loop"
                                       ELSE at.drain]
         /\ wakeup' \in BOOLEAN /\ (wakeup \/ woken => wakeup')
         /\ at.drain # "none" /\ q # <<>> => wakeup'
         /\ ~woken /\ q = <<>> => wakeup' = wakeup
<1>1. wakeup \in BOOLEAN /\ at \in Places
  BY DEF TypeOK
<1> QED
  BY <1>1 DEF Scheduled, Places

LEMMA GateStepsAre ==
  ASSUME TypeOK, Locks, GateSteps
  PROVE  \E a \in Launchers : \E place : Gate(a, place)
<1>l. /\ qlock \in Seq(InQ) /\ IsInjective(qlock) /\ "cmd" \in InQ /\ "drain" \in InQ
      /\ "cmd" \in Launchers /\ "drain" \in Launchers /\ at \in Places
  BY LocksTyped DEF Locks, InQ, Launchers, TypeOK
<1>w. /\ Waits(qlock, "cmd") <=> at.cmd \in InLine
      /\ Waits(qlock, "drain") <=> at.drain \in InLine
      /\ \A a \in Launchers : at[a] \in Inside => Holds(qlock, a)
  BY <1>l DEF Locks
<1>1. CASE \E m \in Msgs : Query(m)
  <2> PICK m \in Msgs : Query(m)
    BY <1>1
  <2>u. UNCHANGED <<engine, state, turnTask, followup, elock, pc, receipt>> /\ at.cmd = "free"
    BY DEF Query, session, turns
  <2>1. CASE qlock = <<>>
    BY <1>l, <2>u, <2>1, CmdAdmittedIs DEF Query
  <2>2. CASE qlock # <<>>
    <3>1. qlock' = Append(qlock, "cmd") /\ at' = [at EXCEPT !["cmd"] = "lock"]
      BY <2>2 DEF Query, At
    <3>2. Comes(InQ, qlock, qlock', "cmd")
      BY <1>l, <1>w, <2>u, <3>1, LockMoves DEF InLine
    <3>3. Gate("cmd", "lock")
      BY <2>u, <3>1, <3>2 DEF Gate, InLine
    <3> QED
      BY <1>l, <3>3
  <2> QED
    BY <2>1, <2>2
<1>2. CASE CmdLock
  <2>u. UNCHANGED <<engine, state, turnTask, followup, elock, pc, receipt>>
    BY <1>2 DEF CmdLock, session, turns
  <2> QED
    BY <1>l, <1>2, <2>u, CmdAdmittedIs DEF CmdLock
<1>3. ASSUME NEW a \in Launchers, Reject(a)
      PROVE  \E b \in Launchers : \E place : Gate(b, place)
  <2>1. Goes(InQ, qlock, qlock', a)
    BY <1>l, <1>w, <1>3, LockMoves DEF Reject, Inside
  <2>2. Gate(a, IF a = "cmd" THEN "free" ELSE "rejected")
    BY <1>3, <2>1 DEF Reject, Gate, At, EmitNow, session, turns, InLine
  <2> QED
    BY <2>2
<1>4. CASE WorkerLoop
  <2>u. /\ UNCHANGED <<engine, state, turnTask, followup, elock, pc, receipt>>
        /\ at.drain = "loop"
    BY <1>4 DEF WorkerLoop, session
  <2>1. CASE queue = <<>>
    <3>1. Gate("drain", "none")
      BY <1>4, <2>u, <2>1 DEF WorkerLoop, Gate, At, InLine
    <3> QED
      BY <1>l, <3>1
  <2>2. CASE queue # <<>> /\ Blocked
    <3>1. Gate("drain", "wait")
      BY <1>4, <2>u, <2>2 DEF WorkerLoop, Gate, At, InLine
    <3> QED
      BY <1>l, <3>1
  <2>3. CASE queue # <<>> /\ ~Blocked /\ qlock = <<>>
    <3>1. WorkerAdmitted(<<>>)
      BY <1>4, <2>3 DEF WorkerLoop
    <3> QED
      BY <1>l, <2>u, <2>3, <3>1, WorkerAdmittedIs
  <2>4. CASE queue # <<>> /\ ~Blocked /\ qlock # <<>>
    <3>1. qlock' = Append(qlock, "drain") /\ at' = [at EXCEPT !["drain"] = "lock"]
      BY <1>4, <2>4 DEF WorkerLoop, At
    <3>2. Comes(InQ, qlock, qlock', "drain")
      BY <1>l, <1>w, <2>u, <3>1, LockMoves DEF InLine
    <3>3. Gate("drain", "lock")
      BY <2>u, <3>1, <3>2 DEF Gate, InLine
    <3> QED
      BY <1>l, <3>3
  <2> QED
    BY <2>1, <2>2, <2>3, <2>4
<1>5. CASE WorkerLock
  <2>u. UNCHANGED <<engine, state, turnTask, followup, elock, pc, receipt>>
    BY <1>5 DEF WorkerLock, session
  <2> QED
    BY <1>l, <1>5, <2>u, WorkerAdmittedIs DEF WorkerLock
<1>6. CASE WorkerWake \/ WorkerReceipt \/ WorkerRetry
  <2>1. Gate("drain", "loop")
    BY <1>6 DEF WorkerWake, WorkerReceipt, WorkerRetry, Gate, At, EmitNow, InLine, session,
                turns, locks
  <2> QED
    BY <1>l, <2>1
<1>7. CASE WorkerRejected
  <2>1. Gate("drain", "retry")
    BY <1>7 DEF WorkerRejected, Gate, At, EmitNow, InLine, session, turns
  <2> QED
    BY <1>l, <2>1
<1>8. CASE \E m \in Msgs : Enqueue(m) \/ Cancel(m) \/ Update(m)
  <2> PICK m \in Msgs : Enqueue(m) \/ Cancel(m) \/ Update(m)
    BY <1>8
  <2>1. UNCHANGED <<engine, state, turnTask, followup, elock, qlock, pc, receipt>>
    BY DEF Enqueue, Cancel, Update, EmitNow, session, turns
  <2>2. \/ at' = at
        \/ at' = [at EXCEPT !.drain = "loop"] /\ at.drain = "none"
    <3>1. CASE \E q : Scheduled(q, FALSE)
      <4>1. PICK q : Scheduled(q, FALSE)
        BY <3>1
      <4>2. at' = [at EXCEPT !.drain = IF at.drain = "none" /\ q # <<>> THEN "loop"
                                       ELSE at.drain]
        BY <4>1, ScheduledIs
      <4> QED
        BY <1>l, <4>2 DEF Places
    <3>2. CASE at' = at
      BY <3>2
    <3> QED
      BY <3>1, <3>2 DEF Enqueue, Cancel, Update
  <2>3. CASE at' = at
    <3>1. at' = [at EXCEPT !["cmd"] = "free"] /\ at.cmd = "free"
      BY <1>l, <2>3 DEF Enqueue, Cancel, Update, Places
    <3>2. Gate("cmd", "free")
      BY <2>1, <3>1 DEF Gate, InLine
    <3> QED
      BY <1>l, <3>2
  <2>4. CASE at' = [at EXCEPT !.drain = "loop"] /\ at.drain = "none"
    <3>1. Gate("drain", "loop")
      BY <2>1, <2>4 DEF Gate, InLine
    <3> QED
      BY <1>l, <3>1
  <2> QED
    BY <2>2, <2>3, <2>4
<1> QED
  BY <1>l, <1>1, <1>2, <1>3, <1>4, <1>5, <1>6, <1>7, <1>8 DEF GateSteps

LEMMA GateParts ==
  ASSUME TypeOK, Locks, ByEngine, Alone, GateSteps
  PROVE  /\ Locks' /\ ByEngine' /\ Alone'
         /\ UNCHANGED <<engine, state, turnTask, followup, elock, pc, receipt>>
         /\ qlock' \in Seq(InQ)
         /\ \A b \in Launchers : at'[b] = "emit" => at[b] = "emit"
         /\ \A m \in Msgs : Before(qlock, m, "drain") => Before(qlock', m, "drain")
<1>1. PICK a \in Launchers : \E place : Gate(a, place)
  BY GateStepsAre
<1>2. PICK place : Gate(a, place)
  BY <1>1
<1>3. Locks' /\ ByEngine' /\ Alone'
  BY <1>2, GateLocks, GateByEngine, GateAlone
<1>4. qlock' \in Seq(InQ)
  BY <1>2, LocksTyped DEF Gate, Comes, Goes, Moved
<1>5. \A b \in Launchers : at'[b] = "emit" => at[b] = "emit"
  BY <1>2 DEF Gate, TypeOK, Places, Launchers, InLine
<1>6. \A m \in Msgs : m # a /\ m \in InQ /\ "drain" \in InQ
  BY Names DEF Launchers, InQ
<1>7. \A m \in Msgs : Before(qlock, m, "drain") => Before(qlock', m, "drain")
  BY <1>2, <1>6 DEF Gate, Comes, Goes, Moved
<1> QED
  BY <1>2, <1>3, <1>4, <1>5, <1>7 DEF Gate

LEMMA GateTyped ==
  ASSUME TypeOK, Locks, ByEngine, Alone, GateSteps, at' \in Places,
         UNCHANGED <<active, stop, sent, echo>>,
         \A b \in Launchers : at[b] = "emit" => arg'[b] = arg[b],
         arg' \in [cmd : Optional, drain : Optional],
         prompt' \in [Msgs -> 0..MaxEdits], text' \in [Msgs -> 0..MaxEdits],
         queue' \in Seq(Msgs), Len(queue') <= MaxQueue, IsInjective(queue'),
         starting' \in Optional, wakeup' \in BOOLEAN, watched' \subseteq Msgs,
         asked' \subseteq Msgs, withdrawn' \subseteq Msgs
  PROVE  TypeOK'
  BY GateParts DEF TypeOK, InQ, Launchers

LEMMA GateIsAlive ==
  ASSUME TypeOK, Locks, Alive, GateSteps,
         at'.drain = "none" => queue' = <<>>,
         at'.drain = "wait" /\ ~wakeup' /\ queue' # <<>> =>
           \/ at.drain = "wait" /\ ~wakeup /\ queue # <<>> /\ watched' = watched
           \/ Unlocking \/ \E m \in watched' : pc[m] \notin {"none", "done"}
  PROVE  Alive'
<1>1. PICK a \in Launchers : \E place : Gate(a, place)
  BY GateStepsAre
<1> QED
  BY <1>1, GateAlive

(* The command lane at the locked check.                                   *)
LEMMA CommandInvariant ==
  ASSUME IInv, \/ \E m \in Msgs : Query(m)
               \/ CmdLock \/ Reject("cmd")
  PROVE  IInv'
<1>i. TypeOK /\ Locks /\ ByEngine /\ Alone /\ Prompts /\ Offering /\ Working /\ Alive
  BY DEF IInv
<1>t. /\ at \in Places /\ arg \in [cmd : Optional, drain : Optional]
      /\ wakeup \in BOOLEAN /\ asked \subseteq Msgs
      /\ pc \in [Msgs -> Stages]
      /\ sent \in [Msgs -> Seq(0..MaxEdits)]
  BY <1>i DEF TypeOK
<1>g. GateSteps
  BY DEF GateSteps
<1>p. /\ Locks' /\ ByEngine' /\ Alone'
      /\ UNCHANGED <<engine, state, turnTask, followup, elock, pc, receipt>>
      /\ qlock' \in Seq(InQ)
      /\ \A m \in Msgs : Before(qlock, m, "drain") => Before(qlock', m, "drain")
  BY <1>g, <1>i, GateParts
<1>u. /\ UNCHANGED <<prompt, queue, starting, text, wakeup, watched, withdrawn, sent, echo>>
      /\ UNCHANGED <<active, stop>>
  BY DEF Query, CmdLock, Reject, worker, turns, history, session
<1>a. /\ at' \in Places /\ at'.drain = at.drain /\ at'.bg = at.bg /\ at.cmd # "emit"
  BY <1>t DEF Query, CmdLock, Reject, CmdAdmitted, At, Places
<1>b. /\ arg' \in [cmd : Optional, drain : Optional] /\ arg'.drain = arg.drain
      /\ asked \subseteq asked' /\ asked' \subseteq Msgs
  BY <1>t DEF Query, CmdLock, Reject, Optional, history
<1>1. TypeOK'
  BY <1>i, <1>g, <1>p, <1>t, <1>u, <1>a, <1>b, GateTyped DEF TypeOK, Launchers
<1>2. Prompts'
  <2> SUFFICES ASSUME NEW n \in Msgs
               PROVE  PromptOK(n)'
    BY DEF Prompts
  <2>1. PromptOK(n)
    BY <1>i DEF Prompts
  <2>2. AtReceipt(n)' <=> AtReceipt(n)
    BY <1>u, <1>a DEF AtReceipt
  <2> QED
    BY <1>p, <1>u, <1>b, <2>1, <2>2 DEF PromptOK
<1>3. Offering'
  <2>1. CASE \E m \in Msgs : Query(m)
    <3> PICK m \in Msgs : Query(m)
      BY <2>1
    <3>1. m \notin asked /\ asked' = asked \cup {m} /\ arg'.cmd = m
      BY <1>t DEF Query
    <3>2. PromptOK(m)
      BY <1>i DEF Prompts
    <3> QED
      BY <1>p, <1>u, <3>1, <3>2 DEF PromptOK, Offering
  <2>2. CASE CmdLock \/ Reject("cmd")
    <3>1. at.cmd # "free" /\ UNCHANGED <<arg, asked>>
      BY <2>2 DEF CmdLock, Reject, history
    <3> QED
      BY <1>i, <1>p, <1>u, <3>1 DEF Offering
  <2> QED
    BY <2>1, <2>2
<1>4. Working'
  BY <1>i, <1>p, <1>u, <1>a, <1>b DEF Working
<1>5. Alive'
  BY <1>i, <1>g, <1>u, <1>a, GateIsAlive DEF Alive
<1> QED
  BY <1>p, <1>1, <1>2, <1>3, <1>4, <1>5 DEF IInv

(* A prompt that waits while nobody owns the session runs no more.         *)
LEMMA Takable ==
  ASSUME IInv, ~Blocked, at.drain \in {"loop", "lock"}, NEW m \in Msgs, Waits(queue, m)
  PROVE  pc[m] \in {"none", "settle", "done"}
<1>1. state = "idle" /\ turnTask = "none" /\ m # "none"
  BY Names DEF Blocked, Busy
<1>2. pc[m] = "none" \/ receipt[m] = "lost"
  BY DEF IInv, Prompts, PromptOK, AtReceipt
<1>3. receipt[m] = "lost" => pc[m] \in {"failed", "idleEmit", "settle", "done"} /\ engine = "claude"
  BY DEF IInv, Prompts, PromptOK, ByEngine
<1>4. pc[m] \in Own => FALSE
  BY <1>1 DEF IInv, Alone
<1>5. engine = "claude" /\ pc[m] = "idleEmit" => FALSE
  BY <1>1 DEF IInv, Alone
<1> QED
  BY <1>2, <1>3, <1>4, <1>5 DEF Own

(* The worker goes from one place to another without a prompt.             *)
LEMMA WorkerMoves ==
  ASSUME IInv, GateSteps,
         NEW place \in {"none", "loop", "wait", "lock"}, at' = [at EXCEPT !.drain = place],
         at.drain \in {"loop", "wait", "lock", "retry"},
         UNCHANGED <<arg, prompt, queue, starting, text, asked, withdrawn, sent, echo>>,
         UNCHANGED <<active, stop>>, wakeup' \in BOOLEAN, watched' \subseteq Msgs,
         place = "none" => queue = <<>>,
         place = "wait" => Unlocking \/ \E m \in watched' : pc[m] \notin {"none", "done"},
         place = "lock" => \A m \in Msgs : Waits(queue, m) =>
                             /\ pc[m] \notin {"failed", "idleEmit"}
                             /\ pc[m] = "settle" => Before(qlock', m, "drain")
  PROVE  IInv'
<1>i. TypeOK /\ Locks /\ ByEngine /\ Alone /\ Prompts /\ Offering /\ Working /\ Alive
  BY DEF IInv
<1>t. at \in Places
  BY <1>i DEF TypeOK
<1>p. /\ Locks' /\ ByEngine' /\ Alone'
      /\ UNCHANGED <<engine, state, turnTask, followup, elock, pc, receipt>>
      /\ qlock' \in Seq(InQ)
  BY <1>i, GateParts
<1>a. at' \in Places /\ at'.drain = place /\ at'.cmd = at.cmd /\ at'.bg = at.bg
  BY <1>t DEF Places
<1>1. TypeOK'
  BY <1>i, <1>p, <1>a, GateTyped DEF TypeOK
<1>2. Prompts'
  BY <1>i, <1>p, <1>a DEF Prompts, PromptOK, AtReceipt
<1>3. Offering'
  BY <1>i, <1>p, <1>a DEF Offering
<1>4. Working'
  <2>1. starting = "none"
    BY <1>i DEF Working, Inside
  <2> QED
    BY <1>i, <1>p, <1>a, <2>1 DEF Working, Inside
<1>5. Alive'
  BY <1>i, <1>a, GateIsAlive
<1> QED
  BY <1>p, <1>1, <1>2, <1>3, <1>4, <1>5 DEF IInv

(* The worker passes the locked check and takes up the head of the queue.  *)
LEMMA WorkerTakes ==
  ASSUME IInv, GateSteps, NEW waiters, WorkerAdmitted(waiters), ~Blocked, queue # <<>>,
         \/ at.drain = "loop" /\ qlock = <<>>
         \/ at.drain = "lock" /\ Holds(qlock, "drain"),
         UNCHANGED <<text, watched, asked, withdrawn, sent, echo, active, stop>>,
         wakeup' \in BOOLEAN
  PROVE  IInv'
<1>i. TypeOK /\ Locks /\ ByEngine /\ Alone /\ Prompts /\ Offering /\ Working /\ Alive
  BY DEF IInv
<1>t. /\ at \in Places /\ pc \in [Msgs -> Stages] /\ queue \in Seq(Msgs)
      /\ arg \in [cmd : Optional, drain : Optional]
      /\ prompt \in [Msgs -> 0..MaxEdits] /\ text \in [Msgs -> 0..MaxEdits]
      /\ sent \in [Msgs -> Seq(0..MaxEdits)]
  BY <1>i DEF TypeOK
<1>p. /\ Locks' /\ ByEngine' /\ Alone'
      /\ UNCHANGED <<engine, state, turnTask, followup, elock, pc, receipt>>
      /\ qlock' \in Seq(InQ)
  BY <1>i, GateParts
<1> DEFINE m == Head(queue)
<1>m. m \in Msgs /\ Waits(queue, m) /\ m # "none"
  BY <1>t, QueueFacts, Names
<1>n. /\ at' = [at EXCEPT !.drain = "preflight"] /\ starting' = m /\ queue' = queue
      /\ arg' = [arg EXCEPT !.drain = m] /\ prompt' = [prompt EXCEPT ![m] = text[m]]
  BY DEF WorkerAdmitted, At
<1> HIDE DEF m
<1>a. at' \in Places /\ at'.drain = "preflight" /\ at'.cmd = at.cmd /\ at'.bg = at.bg
  BY <1>t, <1>n DEF Places
<1>b. /\ arg' \in [cmd : Optional, drain : Optional] /\ arg'.cmd = arg.cmd /\ arg'.drain = m
      /\ prompt' \in [Msgs -> 0..MaxEdits] /\ prompt'[m] = text[m]
      /\ \A n \in Msgs : n # m => prompt'[n] = prompt[n]
  BY <1>t, <1>m, <1>n DEF Optional
<1>1. TypeOK'
  <2>1. \A b \in Launchers : at[b] = "emit" => arg'[b] = arg[b]
    BY <1>b, <1>t DEF Launchers
  <2>2. starting' \in Optional
    BY <1>m, <1>n DEF Optional
  <2> QED
    BY <1>i, <1>p, <1>a, <1>b, <1>n, <2>1, <2>2, GateTyped DEF TypeOK
<1>c. pc[m] \in {"none", "done"}
  <2>1. pc[m] \in {"none", "settle", "done"}
    BY <1>m, Takable
  <2>2. ASSUME pc[m] = "settle"
        PROVE  FALSE
    <3>1. Waits(qlock, m) /\ qlock \in Seq(InQ)
      BY <1>i, <1>m, <2>2, LocksTyped DEF Locks
    <3>2. CASE qlock = <<>>
      BY <3>1, <3>2, NobodyWaits
    <3>3. CASE at.drain = "lock" /\ Holds(qlock, "drain")
      <4>1. Before(qlock, m, "drain")
        BY <1>i, <1>m, <2>2, <3>3 DEF Working
      <4> QED
        BY <3>1, <3>3, <4>1, QueueFacts
    <3> QED
      BY <3>2, <3>3
  <2> QED
    BY <2>1, <2>2
<1>2. Prompts'
  <2> SUFFICES ASSUME NEW n \in Msgs
               PROVE  PromptOK(n)'
    BY DEF Prompts
  <2>1. PromptOK(n)
    BY <1>i DEF Prompts
  <2>2. ~AtReceipt(n)' /\ ~AtReceipt(n)
    BY <1>a DEF AtReceipt
  <2>3. n = m => Waits(queue, n) /\ pc[n] # "launch"
    BY <1>m, <1>c
  <2> QED
    BY <1>p, <1>b, <1>n, <2>1, <2>2, <2>3 DEF PromptOK
<1>3. Offering'
  <2>1. at.cmd # "free" => arg.cmd # m /\ arg.cmd \in Msgs
    BY <1>i, <1>m, Arguments DEF Offering
  <2> QED
    BY <1>i, <1>p, <1>a, <1>b, <1>n, <2>1 DEF Offering
<1>4. Working'
  BY <1>i, <1>p, <1>a, <1>b, <1>n, <1>m, <1>c DEF Working, Inside
<1>5. Alive'
  BY <1>i, <1>a, GateIsAlive
<1> QED
  BY <1>p, <1>1, <1>2, <1>3, <1>4, <1>5 DEF IInv

LEMMA WorkerLoopInvariant ==
  ASSUME IInv, WorkerLoop
  PROVE  IInv'
<1>i. TypeOK /\ Locks /\ ByEngine /\ Alone /\ Prompts /\ Offering /\ Working /\ Alive
  BY DEF IInv
<1>t. /\ engine \in {"claude", "codex"} /\ turnTask \in Msgs \cup {"none"}
      /\ wakeup \in BOOLEAN /\ watched \subseteq Msgs
      /\ qlock \in Seq(InQ) /\ IsInjective(qlock) /\ "drain" \in InQ
  BY <1>i, LocksTyped, QueueAssumption DEF TypeOK, Optional, InQ, Locks
<1>g. GateSteps
  BY DEF GateSteps
<1>u. /\ at.drain = "loop" /\ UNCHANGED <<text, asked, withdrawn, sent, echo>>
      /\ UNCHANGED <<active, stop>>
  BY DEF WorkerLoop, history, session
<1>1. CASE queue = <<>>
  <2>1. /\ at' = [at EXCEPT !.drain = "none"]
        /\ UNCHANGED <<arg, prompt, queue, starting, wakeup, watched>>
    BY <1>1 DEF WorkerLoop, At
  <2> QED
    BY <1>t, <1>g, <1>u, <1>1, <2>1, WorkerMoves
<1>2. CASE queue # <<>> /\ Blocked
  <2>1. /\ at' = [at EXCEPT !.drain = "wait"] /\ watched' = watched \cup Watching
        /\ wakeup' = FALSE /\ UNCHANGED <<arg, prompt, queue, starting>>
    BY <1>2 DEF WorkerLoop, At
  <2>2. watched' \subseteq Msgs
    BY <1>t, <2>1 DEF Watching
  <2>3. Unlocking \/ \E m \in watched' : pc[m] \notin {"none", "done"}
    <3>1. CASE turnTask # "none"
      <4>1. turnTask \in watched' /\ pc[turnTask] \notin {"none", "done"}
        BY <1>i, <1>t, <2>1, <3>1 DEF Watching, Alive, Own
      <4> QED
        BY <4>1
    <3>2. CASE state # "idle"
      BY <1>i, <3>2 DEF Alive
    <3>3. CASE followup
      BY <1>i, <1>t, <3>3 DEF ByEngine, Unlocking
    <3> QED
      BY <1>2, <3>1, <3>2, <3>3 DEF Blocked, Busy
  <2> QED
    BY <1>g, <1>u, <2>1, <2>2, <2>3, WorkerMoves
<1>3. CASE queue # <<>> /\ ~Blocked /\ qlock = <<>>
  <2>1. WorkerAdmitted(<<>>) /\ wakeup' = FALSE /\ watched' = watched
    BY <1>3 DEF WorkerLoop
  <2> QED
    BY <1>g, <1>u, <1>3, <2>1, WorkerTakes
<1>4. CASE queue # <<>> /\ ~Blocked /\ qlock # <<>>
  <2>1. /\ at' = [at EXCEPT !.drain = "lock"] /\ qlock' = Append(qlock, "drain")
        /\ wakeup' = FALSE /\ UNCHANGED <<watched, arg, prompt, queue, starting>>
    BY <1>4 DEF WorkerLoop, At
  <2>2. ~Waits(qlock, "drain")
    BY <1>i, <1>u DEF Locks, Launchers, InLine
  <2>3. \A m \in Msgs : Before(qlock', m, "drain")
    <3>1. \A m \in Msgs : m \in InQ /\ m # "drain"
      BY Names DEF InQ
    <3>2. Comes(InQ, qlock, qlock', "drain")
      BY <1>t, <2>1, <2>2, LockMoves
    <3> QED
      BY <3>1, <3>2 DEF Comes
  <2>4. \A m \in Msgs : Waits(queue, m) => pc[m] \notin {"failed", "idleEmit"}
    BY <1>u, <1>4, Takable
  <2> QED
    BY <1>t, <1>g, <1>u, <2>1, <2>3, <2>4, WorkerMoves
<1> QED
  BY <1>1, <1>2, <1>3, <1>4

LEMMA WorkerLockInvariant ==
  ASSUME IInv, WorkerLock
  PROVE  IInv'
<1>t. wakeup \in BOOLEAN /\ watched \subseteq Msgs
  BY DEF IInv, TypeOK
<1>g. GateSteps
  BY DEF GateSteps
<1>u. /\ at.drain = "lock" /\ Holds(qlock, "drain") /\ WorkerAdmitted(Tail(qlock))
      /\ UNCHANGED <<text, wakeup, watched, asked, withdrawn, sent, echo>>
      /\ UNCHANGED <<active, stop>>
  BY DEF WorkerLock, history, session
<1>1. CASE Blocked \/ queue = <<>>
  <2>1. at' = [at EXCEPT !.drain = "loop"] /\ UNCHANGED <<arg, prompt, queue, starting>>
    BY <1>u, <1>1 DEF WorkerAdmitted, At
  <2> QED
    BY <1>t, <1>g, <1>u, <2>1, WorkerMoves
<1>2. CASE ~Blocked /\ queue # <<>>
  BY <1>t, <1>g, <1>u, <1>2, WorkerTakes
<1> QED
  BY <1>1, <1>2

LEMMA WorkerReturns ==
  ASSUME IInv, WorkerWake \/ WorkerRetry
  PROVE  IInv'
<1>t. wakeup \in BOOLEAN /\ watched \subseteq Msgs
  BY DEF IInv, TypeOK
<1>g. GateSteps
  BY DEF GateSteps
<1>1. /\ at.drain \in {"wait", "retry"} /\ at' = [at EXCEPT !.drain = "loop"]
      /\ UNCHANGED <<arg, prompt, queue, starting, text, wakeup, watched>>
      /\ UNCHANGED <<asked, withdrawn, sent, echo, active, stop>>
  BY DEF WorkerWake, WorkerRetry, At, session, history, turns, worker
<1> QED
  BY <1>t, <1>g, <1>1, WorkerMoves

(* A launch that was rejected before the session was claimed.              *)
LEMMA RejectedInvariant ==
  ASSUME IInv, Reject("drain") \/ WorkerRejected
  PROVE  IInv'
<1>i. TypeOK /\ Locks /\ ByEngine /\ Alone /\ Prompts /\ Offering /\ Working /\ Alive
  BY DEF IInv
<1>t. at \in Places
  BY <1>i DEF TypeOK
<1>g. GateSteps
  BY DEF GateSteps
<1>p. /\ Locks' /\ ByEngine' /\ Alone'
      /\ UNCHANGED <<engine, state, turnTask, followup, elock, pc, receipt>>
      /\ qlock' \in Seq(InQ)
  BY <1>g, <1>i, GateParts
<1>u. /\ UNCHANGED <<arg, prompt, queue, text, wakeup, watched, asked, withdrawn, sent, echo>>
      /\ UNCHANGED <<active, stop>>
  BY DEF Reject, WorkerRejected, session, turns, worker, history
<1>r. \/ at.drain = "preflight" /\ at' = [at EXCEPT !.drain = "rejected"] /\ starting' = starting
      \/ at.drain = "rejected" /\ at' = [at EXCEPT !.drain = "retry"] /\ starting' = "none"
  BY DEF Reject, WorkerRejected, At, worker
<1>a. /\ at' \in Places /\ at'.cmd = at.cmd
      /\ \/ at.drain = "preflight" /\ at'.drain = "rejected" /\ starting' = starting
         \/ at.drain = "rejected" /\ at'.drain = "retry" /\ starting' = "none"
  BY <1>t, <1>r DEF Places
<1>1. TypeOK'
  BY <1>i, <1>g, <1>p, <1>u, <1>a, GateTyped DEF TypeOK, Optional
<1>2. Prompts'
  BY <1>i, <1>p, <1>u, <1>a DEF Prompts, PromptOK, AtReceipt
<1>3. Offering'
  BY <1>i, <1>p, <1>u, <1>a DEF Offering
<1>4. Working'
  BY <1>i, <1>p, <1>u, <1>a DEF Working, Inside
<1>5. Alive'
  BY <1>i, <1>g, <1>a, GateIsAlive
<1> QED
  BY <1>p, <1>1, <1>2, <1>3, <1>4, <1>5 DEF IInv

LEMMA ReceiptInvariant ==
  ASSUME IInv, WorkerReceipt
  PROVE  IInv'
<1>i. TypeOK /\ Locks /\ ByEngine /\ Alone /\ Prompts /\ Offering /\ Working /\ Alive
  BY DEF IInv
<1>t. /\ at \in Places /\ queue \in Seq(Msgs) /\ IsInjective(queue)
      /\ Len(queue) <= MaxQueue /\ MaxQueue \in Nat
  BY <1>i, Names DEF TypeOK
<1>g. GateSteps
  BY DEF GateSteps
<1>p. /\ Locks' /\ ByEngine' /\ Alone'
      /\ UNCHANGED <<engine, state, turnTask, followup, elock, pc, receipt>>
      /\ qlock' \in Seq(InQ)
  BY <1>g, <1>i, GateParts
<1>u. /\ UNCHANGED <<arg, prompt, text, wakeup, watched, asked, withdrawn, sent, echo>>
      /\ UNCHANGED <<active, stop>> /\ starting' = "none"
  BY DEF WorkerReceipt, session, turns, history
<1> DEFINE m == arg.drain
<1>m. /\ m \in Msgs /\ starting = m /\ receipt[m] # "none"
      /\ at.drain = "receipt"
      /\ queue' = IF receipt[m] = "lost" THEN queue ELSE Without(queue, m)
  BY <1>i, Arguments DEF WorkerReceipt
<1>a. at' \in Places /\ at'.drain = "loop" /\ at'.cmd = at.cmd
  BY <1>t DEF WorkerReceipt, At, Places
<1> HIDE DEF m
<1>q. /\ queue' \in Seq(Msgs) /\ IsInjective(queue') /\ Len(queue') <= MaxQueue
      /\ \A n \in Msgs : Waits(queue', n) => Waits(queue, n)
      /\ Waits(queue', m) => receipt[m] = "lost"
  <2>1. CASE receipt[m] = "lost"
    BY <1>t, <1>m, <2>1
  <2>2. CASE receipt[m] # "lost"
    <3>1. /\ Moved(Msgs, queue, queue', m) /\ ~Waits(queue', m)
          /\ Len(queue') <= Len(queue)
      BY <1>t, <1>m, <2>2, OneLeaves
    <3>2. queue' \in Seq(Msgs) /\ Len(queue') <= MaxQueue
      <4>1. queue' \in Seq(Msgs)
        BY <3>1 DEF Moved
      <4>2. Len(queue') \in Nat /\ Len(queue) \in Nat
        BY <1>t, <4>1, LenProperties
      <4> QED
        BY <1>t, <3>1, <4>1, <4>2
    <3> QED
      BY <3>1, <3>2 DEF Moved
  <2> QED
    BY <2>1, <2>2
<1>1. TypeOK'
  BY <1>i, <1>g, <1>p, <1>u, <1>a, <1>q, GateTyped DEF TypeOK, Optional
<1>2. Prompts'
  <2> SUFFICES ASSUME NEW n \in Msgs
               PROVE  PromptOK(n)'
    BY DEF Prompts
  <2>1. PromptOK(n)
    BY <1>i DEF Prompts
  <2>2. ~AtReceipt(n)' /\ (AtReceipt(n) => n = m)
    BY <1>m, <1>a DEF AtReceipt
  <2>3. CASE n = m
    BY <1>p, <1>u, <1>m, <1>q, <2>1, <2>2, <2>3 DEF PromptOK
  <2>4. CASE n # m
    BY <1>p, <1>u, <1>q, <2>1, <2>2, <2>4 DEF PromptOK
  <2> QED
    BY <2>3, <2>4
<1>3. Offering'
  BY <1>i, <1>p, <1>u, <1>a, <1>q, Arguments DEF Offering
<1>4. Working'
  BY <1>i, <1>p, <1>u, <1>a, <1>q, Names DEF Working, Inside
<1>5. Alive'
  BY <1>i, <1>g, <1>a, GateIsAlive
<1> QED
  BY <1>p, <1>1, <1>2, <1>3, <1>4, <1>5 DEF IInv

(* The command lane changes the queue: m may come, old go.                 *)
LEMMA Requeued ==
  ASSUME IInv, GateSteps, at.cmd = "free", NEW m \in Msgs, NEW old,
         at' = [at EXCEPT !.drain = IF at.drain = "none" /\ queue' # <<>> THEN "loop"
                                    ELSE at.drain],
         UNCHANGED <<arg, prompt, starting, text, sent, echo, active, stop, watched>>,
         queue' \in Seq(Msgs), IsInjective(queue'), Len(queue') <= MaxQueue,
         \A n \in Msgs : Waits(queue', n) => Waits(queue, n) \/ (n = m /\ m \notin asked),
         asked \subseteq asked', asked' \subseteq Msgs, Waits(queue', m) => m \in asked',
         withdrawn' = withdrawn \cup old,
         \A n \in old : Waits(queue, n) /\ ~Waits(queue', n) /\ n # starting,
         starting # "none" => Waits(queue', starting),
         \A n, o \in Replacing : Waits(queue', n) /\ Waits(queue', o) => n = o,
         wakeup' \in BOOLEAN,
         at.drain = "wait" /\ ~wakeup' /\ queue' # <<>> => ~wakeup /\ queue # <<>>
  PROVE  IInv'
<1>i. TypeOK /\ Locks /\ ByEngine /\ Alone /\ Prompts /\ Offering /\ Working /\ Alive
  BY DEF IInv
<1>t. at \in Places /\ queue \in Seq(Msgs) /\ withdrawn \subseteq Msgs /\ watched \subseteq Msgs
  BY <1>i DEF TypeOK
<1>p. /\ Locks' /\ ByEngine' /\ Alone'
      /\ UNCHANGED <<engine, state, turnTask, followup, elock, pc, receipt>>
      /\ qlock' \in Seq(InQ)
      /\ \A n \in Msgs : Before(qlock, n, "drain") => Before(qlock', n, "drain")
  BY <1>i, GateParts
<1>a. /\ at' \in Places /\ at'.cmd = "free"
      /\ at'.drain = IF at.drain = "none" /\ queue' # <<>> THEN "loop" ELSE at.drain
  BY <1>t DEF Places
<1>o. old \subseteq Msgs
  BY <1>t, QueueFacts
<1>m. m \notin asked => pc[m] = "none" /\ sent[m] = <<>> /\ m \notin withdrawn
  BY <1>i DEF Prompts, PromptOK
<1>1. TypeOK'
  BY <1>i, <1>p, <1>t, <1>a, <1>o, GateTyped DEF TypeOK
<1>2. Prompts'
  <2> SUFFICES ASSUME NEW n \in Msgs
               PROVE  PromptOK(n)'
    BY DEF Prompts
  <2>1. PromptOK(n)
    BY <1>i DEF Prompts
  <2>2. AtReceipt(n)' <=> AtReceipt(n)
    BY <1>a DEF AtReceipt
  <2>3. n \in old => n \in asked /\ ~AtReceipt(n)
    BY <2>1 DEF PromptOK, AtReceipt
  <2>4. n \notin asked' => ~Waits(queue', n)
    BY <2>1 DEF PromptOK
  <2>5. n \notin asked => n \notin withdrawn'
    BY <2>1, <2>3 DEF PromptOK
  <2>6. CASE n = m /\ m \notin asked
    BY <1>p, <1>m, <2>1, <2>4, <2>5, <2>6 DEF PromptOK
  <2>7. CASE ~(n = m /\ m \notin asked)
    BY <1>p, <2>1, <2>2, <2>3, <2>4, <2>5, <2>7 DEF PromptOK
  <2> QED
    BY <2>6, <2>7
<1>3. Offering'
  BY <1>a DEF Offering
<1>4. Working'
  BY <1>i, <1>p, <1>a, <1>m DEF Working, Inside
<1>5. Alive'
  BY <1>i, <1>a, GateIsAlive
<1> QED
  BY <1>p, <1>1, <1>2, <1>3, <1>4, <1>5 DEF IInv

LEMMA CancelInvariant ==
  ASSUME IInv, NEW m \in Msgs, Cancel(m)
  PROVE  IInv'
<1>t. /\ at \in Places /\ queue \in Seq(Msgs) /\ IsInjective(queue)
      /\ Len(queue) <= MaxQueue /\ MaxQueue \in Nat /\ asked \subseteq Msgs
  BY Names DEF IInv, TypeOK
<1>g. GateSteps
  BY DEF GateSteps
<1>u. /\ at.cmd = "free" /\ Waits(queue, m) /\ m # starting /\ at' = at
      /\ UNCHANGED <<arg, prompt, starting, text, sent, echo, active, stop, watched, asked>>
      /\ queue' = Without(queue, m) /\ withdrawn' = withdrawn \cup {m} /\ wakeup' = TRUE
  BY DEF Cancel, turns, session
<1>1. /\ Moved(Msgs, queue, queue', m) /\ ~Waits(queue', m)
      /\ Len(queue') <= Len(queue)
  BY <1>t, <1>u, OneLeaves
<1>2. queue' \in Seq(Msgs) /\ IsInjective(queue')
  BY <1>1 DEF Moved
<1>3. Len(queue') <= MaxQueue
  <2>1. Len(queue') \in Nat /\ Len(queue) \in Nat
    BY <1>t, <1>2, LenProperties
  <2> QED
    BY <1>t, <1>1, <2>1
<1>4. /\ \A n \in Msgs : Waits(queue', n) => Waits(queue, n)
      /\ starting # "none" => Waits(queue', starting)
  <2>1. starting # "none" => starting \in Msgs /\ Waits(queue, starting)
    BY <1>t, QueueFacts DEF IInv, Working
  <2> QED
    BY <1>1, <1>u, <2>1 DEF Moved
<1>5. at' = [at EXCEPT !.drain = IF at.drain = "none" /\ queue' # <<>> THEN "loop"
                                 ELSE at.drain]
  <2>1. at.drain # "none"
    BY <1>u, <1>t, QueueFacts DEF IInv, Alive
  <2> QED
    BY <1>t, <1>u, <2>1 DEF Places
<1>6. \A n, o \in Replacing : Waits(queue', n) /\ Waits(queue', o) => n = o
  BY <1>4, Names DEF IInv, Working
<1>7. /\ \A n \in Msgs : Waits(queue', n) => Waits(queue, n) \/ (n = m /\ m \notin asked)
      /\ asked \subseteq asked' /\ asked' \subseteq Msgs
      /\ Waits(queue', m) => m \in asked'
      /\ starting # "none" => Waits(queue', starting)
  BY <1>t, <1>u, <1>1, <1>4
<1>o. PICK old : old = {m}
  OBVIOUS
<1>9. /\ withdrawn' = withdrawn \cup old
      /\ \A n \in old : Waits(queue, n) /\ ~Waits(queue', n) /\ n # starting
  BY <1>u, <1>o, <1>1
<1>8. /\ wakeup' \in BOOLEAN
      /\ at.drain = "wait" /\ ~wakeup' /\ queue' # <<>> => ~wakeup /\ queue # <<>>
  BY <1>u
<1> HIDE DEF IInv
<1> QED
  BY <1>g, <1>u, <1>2, <1>3, <1>5, <1>6, <1>7, <1>8, <1>9, Requeued

LEMMA UpdateInvariant ==
  ASSUME IInv, NEW m \in Msgs, Update(m)
  PROVE  IInv'
<1>i. TypeOK /\ Locks /\ ByEngine /\ Alone /\ Prompts /\ Offering /\ Working /\ Alive
  BY DEF IInv
<1>t. at \in Places /\ text \in [Msgs -> 0..MaxEdits] /\ MaxEdits \in Nat /\ queue \in Seq(Msgs)
  BY <1>i, Names DEF TypeOK
<1>g. GateSteps
  BY DEF GateSteps
<1>p. /\ Locks' /\ ByEngine' /\ Alone'
      /\ UNCHANGED <<engine, state, turnTask, followup, elock, pc, receipt>>
      /\ qlock' \in Seq(InQ)
      /\ \A n \in Msgs : Before(qlock, n, "drain") => Before(qlock', n, "drain")
  BY <1>g, <1>i, GateParts
<1>u. /\ at.cmd = "free" /\ Waits(queue, m) /\ m # starting /\ text[m] < MaxEdits
      /\ UNCHANGED <<arg, prompt, queue, starting, watched, sent, echo, asked, withdrawn>>
      /\ UNCHANGED <<active, stop>>
      /\ text' = [text EXCEPT ![m] = @ + 1] /\ Scheduled(queue, FALSE)
  BY DEF Update, turns, session
<1>s. /\ at' = [at EXCEPT !.drain = IF at.drain = "none" /\ queue # <<>> THEN "loop"
                                    ELSE at.drain]
      /\ wakeup' \in BOOLEAN /\ (at.drain # "none" => wakeup')
  BY <1>i, <1>t, <1>u, ScheduledIs, QueueFacts
<1>x. text' \in [Msgs -> 0..MaxEdits] /\ \A n \in Msgs : n # m => text'[n] = text[n]
  BY <1>t, <1>u
<1>a. /\ at' \in Places /\ at'.cmd = "free"
      /\ at'.drain = IF at.drain = "none" /\ queue # <<>> THEN "loop" ELSE at.drain
  BY <1>t, <1>u, <1>s DEF Places
<1>1. TypeOK'
  BY <1>i, <1>g, <1>p, <1>u, <1>s, <1>x, <1>a, GateTyped DEF TypeOK
<1>2. Prompts'
  <2> SUFFICES ASSUME NEW n \in Msgs
               PROVE  PromptOK(n)'
    BY DEF Prompts
  <2>1. PromptOK(n)
    BY <1>i DEF Prompts
  <2>2. AtReceipt(n)' <=> AtReceipt(n)
    BY <1>u, <1>a DEF AtReceipt
  <2>3. n = m => n \in asked /\ pc[n] # "launch"
    BY <1>u, <2>1 DEF PromptOK, AtReceipt
  <2> QED
    BY <1>p, <1>u, <1>x, <2>1, <2>2, <2>3 DEF PromptOK
<1>3. Offering'
  BY <1>a DEF Offering
<1>4. Working'
  <2>1. starting # "none" => starting \in Msgs /\ text'[starting] = text[starting]
    BY <1>i, <1>t, <1>u, <1>x, QueueFacts DEF Working
  <2> QED
    BY <1>i, <1>p, <1>u, <1>a, <2>1 DEF Working, Inside
<1>5. Alive'
  BY <1>i, <1>g, <1>u, <1>s, <1>a, GateIsAlive
<1> QED
  BY <1>p, <1>1, <1>2, <1>3, <1>4, <1>5 DEF IInv

(* What is put into the queue, and what leaves it for that.                *)
Old(m) == IF m \in Replacing THEN Replaceable ELSE {}

Kept(m) ==
  IF Old(m) = {} THEN queue ELSE Without(queue, CHOOSE item \in Old(m) : TRUE)

LEMMA EnqueueIs ==
  ASSUME NEW m \in Msgs, Enqueue(m)
  PROVE  /\ at.cmd = "free" /\ m \in Queued \cup Replacing
         /\ asked' = asked \cup {m} /\ (m \notin asked \/ Waits(queue, m))
         /\ UNCHANGED <<arg, prompt, starting, text, sent, echo, active, stop, watched>>
         /\ IF Waits(queue, m)
            THEN Scheduled(queue, FALSE) /\ UNCHANGED <<queue, withdrawn>>
            ELSE IF starting \notin Old(m) /\ Len(Kept(m)) < MaxQueue
            THEN /\ queue' = IF m \in Replacing THEN <<m>> \o Kept(m) ELSE Append(Kept(m), m)
                 /\ withdrawn' = withdrawn \cup Old(m)
                 /\ Scheduled(queue', FALSE)
            ELSE UNCHANGED <<queue, withdrawn, at, wakeup>>
  BY DEF Enqueue, Old, Kept, Repeated, turns, session

LEMMA KeptIs ==
  ASSUME TypeOK, Working, NEW m \in Msgs, ~Waits(queue, m)
  PROVE  /\ Kept(m) \in Seq(Msgs) /\ IsInjective(Kept(m)) /\ ~Waits(Kept(m), m)
         /\ \A n \in Msgs : Waits(Kept(m), n) <=> Waits(queue, n) /\ n \notin Old(m)
         /\ Old(m) \subseteq Msgs /\ \A n \in Old(m) : Waits(queue, n)
         /\ m \in Replacing => \A n \in Replacing : ~Waits(Kept(m), n)
<1>t. queue \in Seq(Msgs) /\ IsInjective(queue) /\ Replacing \subseteq Msgs
  BY Names DEF TypeOK
<1>1. /\ Old(m) \subseteq Msgs /\ \A n \in Old(m) : Waits(queue, n)
      /\ \A n, o \in Old(m) : n = o
      /\ m \in Replacing => \A n \in Replacing : Waits(queue, n) => n \in Old(m)
  BY <1>t DEF Old, Replaceable, Working
<1>2. CASE Old(m) = {}
  BY <1>t, <1>1, <1>2 DEF Kept
<1>3. CASE Old(m) # {}
  <2> DEFINE x == CHOOSE item \in Old(m) : TRUE
  <2>1. x \in Old(m)
    BY <1>3
  <2> HIDE DEF x
  <2>2. Kept(m) = Without(queue, x)
    BY <1>3 DEF Kept, x
  <2>3. Moved(Msgs, queue, Kept(m), x) /\ ~Waits(Kept(m), x)
    BY <1>t, <2>2, OneLeaves
  <2>4. \A n \in Msgs : n \in Old(m) <=> n = x
    BY <1>1, <2>1
  <2> QED
    BY <1>t, <1>1, <2>3, <2>4 DEF Moved
<1> QED
  BY <1>2, <1>3

LEMMA EnqueueInvariant ==
  ASSUME IInv, NEW m \in Msgs, Enqueue(m)
  PROVE  IInv'
<1>i. TypeOK /\ Locks /\ ByEngine /\ Alone /\ Prompts /\ Offering /\ Working /\ Alive
  BY DEF IInv
<1>t. /\ at \in Places /\ queue \in Seq(Msgs) /\ IsInjective(queue)
      /\ Len(queue) <= MaxQueue /\ MaxQueue \in Nat /\ asked \subseteq Msgs
      /\ wakeup \in BOOLEAN
  BY <1>i, Names DEF TypeOK
<1>g. GateSteps
  BY DEF GateSteps
<1>e. /\ at.cmd = "free" /\ asked' = asked \cup {m}
      /\ UNCHANGED <<arg, prompt, starting, text, sent, echo, active, stop, watched>>
  BY DEF Enqueue, turns, session
<1>u. /\ at.cmd = "free" /\ asked \subseteq asked' /\ asked' \subseteq Msgs /\ m \in asked'
      /\ UNCHANGED <<arg, prompt, starting, text, sent, echo, active, stop, watched>>
  BY <1>t, <1>e
<1>w. starting # "none" => starting \in Msgs /\ Waits(queue, starting)
  BY <1>i, <1>t, QueueFacts DEF Working
<1>x. \A n, o \in Replacing : Waits(queue, n) /\ Waits(queue, o) => n = o
  BY <1>i DEF Working
<1>d. at.drain = "none" => queue = <<>>
  BY <1>i DEF Alive
<1> HIDE DEF IInv
<1>1. CASE Waits(queue, m)
  <2>1. Scheduled(queue, FALSE) /\ queue' = queue /\ withdrawn' = withdrawn
    BY <1>1, EnqueueIs
  <2>2. /\ at' = [at EXCEPT !.drain = IF at.drain = "none" /\ queue' # <<>> THEN "loop"
                                      ELSE at.drain]
        /\ wakeup' \in BOOLEAN /\ (wakeup => wakeup')
    BY <1>i, <1>t, <2>1, ScheduledIs
  <2>3. PICK old : old = {}
    OBVIOUS
  <2>4. withdrawn' = withdrawn \cup old /\ \A n \in old : FALSE
    BY <2>1, <2>3
  <2> QED
    BY <1>t, <1>g, <1>u, <1>w, <1>x, <2>1, <2>2, <2>4, Requeued
<1>2. CASE ~Waits(queue, m) /\ starting \notin Old(m) /\ Len(Kept(m)) < MaxQueue
  <2> DEFINE old == Old(m)
             kept == Kept(m)
  <2>1. /\ queue' = IF m \in Replacing THEN <<m>> \o kept ELSE Append(kept, m)
        /\ withdrawn' = withdrawn \cup old /\ Scheduled(queue', FALSE)
        /\ m \notin asked
    BY <1>2, EnqueueIs
  <2>k. /\ kept \in Seq(Msgs) /\ IsInjective(kept) /\ ~Waits(kept, m)
        /\ \A n \in Msgs : Waits(kept, n) <=> Waits(queue, n) /\ n \notin old
        /\ old \subseteq Msgs /\ \A n \in old : Waits(queue, n)
        /\ m \in Replacing => \A n \in Replacing : ~Waits(kept, n)
    BY <1>i, <1>2, KeptIs
  <2>l. starting \notin old /\ Len(kept) < MaxQueue
    BY <1>2
  <2> HIDE DEF old, kept
  <2>2. /\ queue' \in Seq(Msgs) /\ IsInjective(queue') /\ Len(queue') = Len(kept) + 1
        /\ \A n \in Msgs : Waits(queue', n) <=> Waits(kept, n) \/ n = m
    <3>1. CASE m \in Replacing
      BY <2>1, <2>k, <3>1, GoesFirst
    <3>2. CASE m \notin Replacing
      BY <2>1, <2>k, <3>2, Joins DEF Moved
    <3> QED
      BY <3>1, <3>2
  <2>3. Len(queue') <= MaxQueue
    BY <1>t, <2>k, <2>l, <2>2, LenProperties
  <2>4. queue' # <<>>
    BY <2>2, NobodyWaits
  <2>5. /\ at' = [at EXCEPT !.drain = IF at.drain = "none" /\ queue' # <<>> THEN "loop"
                                      ELSE at.drain]
        /\ wakeup' \in BOOLEAN /\ (at.drain # "none" => wakeup')
    <3>1. PICK q : q = queue'
      OBVIOUS
    <3>2. Scheduled(q, FALSE)
      BY <2>1, <3>1
    <3>3. /\ at' = [at EXCEPT !.drain = IF at.drain = "none" /\ q # <<>> THEN "loop"
                                        ELSE at.drain]
          /\ wakeup' \in BOOLEAN /\ (at.drain # "none" /\ q # <<>> => wakeup')
      BY <1>i, <3>2, ScheduledIs
    <3> QED
      BY <2>4, <3>1, <3>3
  <2>6. \A n \in Msgs : Waits(queue', n) => Waits(queue, n) \/ (n = m /\ m \notin asked)
    BY <2>1, <2>2, <2>k
  <2>7. \A n \in old : Waits(queue, n) /\ ~Waits(queue', n) /\ n # starting
    BY <1>2, <2>2, <2>k, <2>l
  <2>8. starting # "none" => Waits(queue', starting)
    BY <1>w, <2>2, <2>k, <2>l
  <2>9. \A n, o \in Replacing : Waits(queue', n) /\ Waits(queue', o) => n = o
    <3>1. \A n \in Replacing : n \in Msgs
      BY Names
    <3> QED
      BY <1>x, <2>2, <2>k, <3>1
  <2> QED
    BY <1>g, <1>u, <2>1, <2>2, <2>3, <2>5, <2>6, <2>7, <2>8, <2>9, Requeued
<1>3. CASE ~Waits(queue, m) /\ ~(starting \notin Old(m) /\ Len(Kept(m)) < MaxQueue)
  <2>1. UNCHANGED <<queue, withdrawn, at, wakeup>>
    BY <1>3, EnqueueIs
  <2>2. at' = [at EXCEPT !.drain = IF at.drain = "none" /\ queue' # <<>> THEN "loop"
                                   ELSE at.drain]
    BY <1>t, <1>d, <2>1 DEF Places
  <2>3. PICK old : old = {}
    OBVIOUS
  <2>4. withdrawn' = withdrawn \cup old /\ \A n \in old : FALSE
    BY <2>1, <2>3
  <2> QED
    BY <1>t, <1>g, <1>u, <1>w, <1>x, <2>1, <2>2, <2>4, Requeued
<1> QED
  BY <1>1, <1>2, <1>3

-----------------------------------------------------------------------------
(* Claiming the session, and creating the task of the turn.                *)

(* Who is inside query_lock is alone there.                                *)
LEMMA OneInside ==
  ASSUME TypeOK, Locks, NEW a \in Launchers, at[a] \in Inside
  PROVE  /\ \A b \in Launchers : at[b] \in Inside => b = a
         /\ qlock # <<>> /\ ~Holds(qlock, "bg") /\ \A m \in Msgs : ~Holds(qlock, m)
<1>1. qlock \in Seq(InQ) /\ a # "bg" /\ a \notin Msgs
  BY LocksTyped, Names DEF Launchers
<1>2. \A b \in Launchers : at[b] \in Inside => Holds(qlock, b)
  BY DEF Locks
<1> QED
  BY <1>1, <1>2, QueueFacts

LEMMA ClaimInvariant ==
  ASSUME IInv, NEW a \in Launchers, Claim(a)
  PROVE  IInv'
<1>i. TypeOK /\ Locks /\ ByEngine /\ Alone /\ Prompts /\ Offering /\ Working /\ Alive
  BY DEF IInv
<1>t. /\ at \in Places /\ arg \in [cmd : Optional, drain : Optional]
      /\ elock \in Seq(InE) /\ IsInjective(elock)
      /\ a \in InE /\ Launchers \cap (Msgs \cup {"bg"}) = {}
      /\ Launchers \subseteq InE /\ Msgs \subseteq InE
  BY <1>i, LocksTyped, Names DEF TypeOK, Locks, InE, Launchers
<1>u. /\ at[a] = "preflight" /\ active' = arg[a] /\ state' = "running" /\ stop' = FALSE
      /\ UNCHANGED <<engine, turnTask, followup, qlock, arg, pc, receipt, prompt>>
      /\ UNCHANGED <<queue, starting, text, wakeup, watched, asked, withdrawn, sent, echo>>
  BY DEF Claim, turns, worker, history
<1>a. /\ at' \in Places /\ at'[a] = "emit" /\ at'.bg = at.bg
      /\ \A b \in Launchers : b # a => at'[b] = at[b]
      /\ at.drain # "receipt" => at'.drain # "receipt"
      /\ at.drain = "receipt" => at'.drain = "receipt"
  BY <1>t, <1>u DEF Claim, At, Places, Launchers
<1>e. Comes(InE, elock, elock', a)
  <2>1. ~Waits(elock, a)
    BY <1>i, <1>u DEF Locks
  <2> QED
    BY <1>t, <2>1, LockMoves DEF Claim
<1>1. TypeOK'
  <2>1. elock' \in Seq(InE)
    BY <1>e DEF Comes, Moved
  <2>2. \A b \in Launchers : at'[b] = "emit" => pc[arg[b]] \in {"none", "done"}
    BY <1>i, <1>u, <1>a, Arguments DEF TypeOK, Launchers, Inside
  <2>3. arg[a] \in Optional
    BY <1>t DEF Launchers
  <2> QED
    BY <1>i, <1>u, <1>a, <2>1, <2>2, <2>3 DEF TypeOK, InE, Launchers
<1>2. Locks'
  BY <1>i, <1>t, <1>u, <1>a, <1>e DEF Locks, InLine, Inside, Comes, Moved
<1>3. ByEngine'
  BY <1>i, <1>u, <1>a DEF ByEngine
<1>4. Alone'
  BY <1>i, <1>t, <1>u, <1>a, <1>e DEF Alone, Inside, Comes, Moved
<1>5. Prompts'
  BY <1>i, <1>u, <1>a DEF Prompts, PromptOK, AtReceipt
<1>6. Offering'
  BY <1>i, <1>u, <1>a DEF Offering, Launchers
<1>7. Working'
  BY <1>i, <1>u, <1>a DEF Working, Launchers, Inside
<1>8. Alive'
  <2>1. Unlocking'
    BY <1>a DEF Unlocking
  <2> QED
    BY <1>i, <1>u, <1>a, <2>1 DEF Alive, Launchers
<1> QED
  BY <1>1, <1>2, <1>3, <1>4, <1>5, <1>6, <1>7, <1>8 DEF IInv

LEMMA CreateInvariant ==
  ASSUME IInv, NEW a \in Launchers, Create(a)
  PROVE  IInv'
<1>i. TypeOK /\ Locks /\ ByEngine /\ Alone /\ Prompts /\ Offering /\ Working /\ Alive
  BY DEF IInv
<1>t. /\ at \in Places /\ pc \in [Msgs -> Stages]
      /\ receipt \in [Msgs -> {"none", "lost", "settled"}]
      /\ qlock \in Seq(InQ) /\ IsInjective(qlock) /\ elock \in Seq(InE) /\ IsInjective(elock)
      /\ a \in InE \cap InQ /\ Launchers \cap (Msgs \cup {"bg"}) = {}
      /\ "bg" \in InQ /\ "bg" \notin Msgs
      /\ Launchers \subseteq InE \cap InQ /\ Msgs \subseteq InE \cap InQ
  BY <1>i, LocksTyped, Names DEF TypeOK, Locks, InE, InQ, Launchers
<1> DEFINE m == arg[a]
<1>u. /\ at[a] = "emit" /\ turnTask' = m
      /\ pc' = [pc EXCEPT ![m] = "launch"] /\ receipt' = [receipt EXCEPT ![m] = "none"]
      /\ at' = [at EXCEPT ![a] = IF a = "cmd" THEN "free" ELSE "receipt"]
      /\ UNCHANGED <<engine, state, active, stop, followup, arg, prompt>>
      /\ UNCHANGED <<queue, starting, text, wakeup, watched, asked, withdrawn, sent, echo>>
  BY DEF Create, At, turns, worker, history
<1>q. Goes(InE, elock, elock', a) /\ Goes(InQ, qlock, qlock', a) /\ Holds(elock, a)
  <2>1. Holds(elock, a) /\ Holds(qlock, a)
    BY <1>i, <1>u DEF Create, Locks, Inside
  <2> QED
    BY <1>t, <2>1, LockMoves DEF Create
<1>m. /\ m \in Msgs /\ pc[m] \in {"none", "done"}
      /\ m \in asked \ withdrawn /\ sent[m] = <<>> /\ prompt[m] = text[m]
      /\ a = "cmd" => ~Waits(queue, m)
      /\ a = "drain" => starting = m /\ Waits(queue, m)
  <2>1. CASE a = "cmd"
    BY <1>i, <1>u, <2>1, Arguments DEF Offering
  <2>2. CASE a = "drain"
    <3>1. m \in Msgs /\ pc[m] \in {"none", "done"} /\ starting = m /\ Waits(queue, m)
      BY <1>i, <1>u, <2>2, Arguments DEF Inside
    <3>2. PromptOK(m) /\ ~AtReceipt(m) /\ m # "none"
      BY <1>i, <1>u, <2>2, <3>1, Names DEF Prompts, AtReceipt
    <3> QED
      BY <1>i, <2>2, <3>1, <3>2 DEF PromptOK, Working
  <2> QED
    BY <2>1, <2>2 DEF Launchers
<1>o. \A b \in Launchers : b # a => at[b] \notin Inside
  BY <1>i, <1>u, OneInside DEF Inside
<1> HIDE DEF m
<1>a. /\ at' \in Places /\ at'[a] = (IF a = "cmd" THEN "free" ELSE "receipt")
      /\ at'.bg = at.bg /\ \A b \in Launchers : b # a => at'[b] = at[b]
      /\ \A b \in Launchers : at'[b] \notin Inside
  BY <1>t, <1>u, <1>o DEF Places, Launchers, Inside
<1>p. /\ pc' \in [Msgs -> Stages] /\ pc'[m] = "launch" /\ receipt'[m] = "none"
      /\ \A n \in Msgs : n # m => pc'[n] = pc[n] /\ receipt'[n] = receipt[n]
      /\ receipt' \in [Msgs -> {"none", "lost", "settled"}]
  BY <1>t, <1>u, <1>m DEF Stages
<1>1. TypeOK'
  <2>1. elock' \in Seq(InE) /\ qlock' \in Seq(InQ)
    BY <1>q DEF Goes, Moved
  <2> QED
    BY <1>i, <1>u, <1>a, <1>m, <1>p, <2>1, ZenonT(60)
       DEF TypeOK, InE, InQ, Launchers, Inside, Optional
<1>2. Locks'
  BY <1>i, <1>t, <1>u, <1>a, <1>q, <1>m, <1>p DEF Locks, InLine, Inside, Goes, Moved
<1>3. ByEngine'
  <2>1. \A n \in Msgs : Waits(qlock', n) => Waits(qlock, n)
    BY <1>q, <1>t DEF Goes, Moved
  <2> QED
    BY <1>i, <1>u, <1>a, <1>p, <2>1 DEF ByEngine
<1>4. Alone'
  <2>1. \A n \in Msgs : pc[n] \notin Own /\ pc[n] # "idleEmit"
    <3> TAKE n \in Msgs
    <3>1. pc[n] \notin Own
      BY <1>i, <1>u DEF Alone, Inside
    <3>2. ASSUME pc[n] = "idleEmit"
          PROVE  FALSE
      <4>1. Before(elock, n, a) /\ Waits(elock, n)
        BY <1>i, <1>u, <3>2 DEF Alone, Locks
      <4> QED
        BY <1>t, <1>q, <4>1, QueueFacts
    <3> QED
      BY <3>1, <3>2
  <2>2. state' # "idle"
    BY <1>i, <1>u DEF Alone
  <2> QED
    BY <1>u, <1>a, <1>p, <2>1, <2>2 DEF Alone, Inside
<1>5. Prompts'
  <2> SUFFICES ASSUME NEW n \in Msgs
               PROVE  PromptOK(n)'
    BY DEF Prompts
  <2>1. PromptOK(n)
    BY <1>i DEF Prompts
  <2>2. CASE n = m
    <3>1. Waits(queue, n) => AtReceipt(n)'
      BY <1>u, <1>a, <1>m, <2>2 DEF AtReceipt, Launchers
    <3> QED
      BY <1>u, <1>m, <1>p, <2>2, <3>1 DEF PromptOK
  <2>3. CASE n # m
    <3>1. AtReceipt(n)' <=> AtReceipt(n)
      BY <1>u, <1>a, <1>m, <2>3 DEF AtReceipt, Launchers
    <3> QED
      BY <1>u, <1>p, <2>1, <2>3, <3>1 DEF PromptOK
  <2> QED
    BY <2>2, <2>3
<1>6. Offering'
  <2>1. at'.cmd # "free" => at.cmd # "free" /\ arg.cmd # m /\ arg.cmd \in Msgs
    BY <1>i, <1>u, <1>a, <1>m, Arguments DEF Offering, Launchers
  <2> QED
    BY <1>i, <1>u, <1>p, <2>1 DEF Offering
<1>7. Working'
  <2>1. CASE a = "drain"
    BY <1>i, <1>u, <1>a, <1>m, <1>p, <2>1 DEF Working, Inside, Launchers
  <2>2. CASE a = "cmd"
    <3>1. at'.drain = at.drain
      BY <1>a, <2>2 DEF Launchers
    <3>2. \A n \in Msgs : Before(qlock, n, "drain") => Before(qlock', n, "drain")
      BY <1>q, <1>t DEF Goes, Moved, Launchers
    <3> QED
      BY <1>i, <1>u, <1>a, <1>m, <1>p, <2>2, <3>1, <3>2 DEF Working, Launchers
  <2> QED
    BY <2>1, <2>2 DEF Launchers
<1>8. Alive'
  <2>1. Unlocking'
    BY <1>m, <1>p DEF Unlocking, Own
  <2> QED
    BY <1>i, <1>u, <1>a, <1>m, <1>p, <2>1 DEF Alive, Launchers, Own
<1> QED
  BY <1>1, <1>2, <1>3, <1>4, <1>5, <1>6, <1>7, <1>8 DEF IInv

-----------------------------------------------------------------------------
(* Steps that leave prompts, their tasks and the queue alone.              *)
Elsewhere ==
  /\ UNCHANGED <<engine, turnTask, arg, pc, receipt, prompt, queue, starting, text,
                 watched, asked, withdrawn, sent, echo>>
  /\ at'.cmd = at.cmd
  /\ \/ at'.drain = at.drain
     \/ at.drain = "none" /\ at'.drain = "loop"

LEMMA ElsewhereKeeps ==
  ASSUME IInv, Elsewhere, Moved(InQ, qlock, qlock', "bg"), at' \in Places,
         elock' \in Seq(InE), state' \in {"idle", "running", "interrupting"},
         active' \in Optional, stop' \in BOOLEAN, followup' \in BOOLEAN, wakeup' \in BOOLEAN
  PROVE  TypeOK' /\ Prompts' /\ Offering' /\ Working'
<1>i. TypeOK /\ Prompts /\ Offering /\ Working
  BY DEF IInv
<1>1. TypeOK'
  <2>1. qlock' \in Seq(InQ)
    BY DEF Moved
  <2> QED
    BY <1>i, <2>1 DEF Elsewhere, TypeOK, InE, InQ
<1>2. Prompts'
  BY <1>i DEF Elsewhere, Prompts, PromptOK, AtReceipt
<1>3. Offering'
  BY <1>i DEF Elsewhere, Offering
<1>4. Working'
  <2>1. \A m \in Msgs : Before(qlock, m, "drain") => Before(qlock', m, "drain")
    BY Names DEF Moved, InQ
  <2> QED
    BY <1>i, <2>1 DEF Elsewhere, Working, Inside
<1> QED
  BY <1>1, <1>2, <1>3, <1>4

LEMMA FollowupBeginInvariant ==
  ASSUME IInv, FollowupBegin
  PROVE  IInv'
<1>i. TypeOK /\ Locks /\ ByEngine /\ Alone /\ Prompts /\ Offering /\ Working /\ Alive
  BY DEF IInv
<1>t. /\ qlock \in Seq(InQ) /\ IsInjective(qlock) /\ at \in Places
      /\ elock \in Seq(InE) /\ wakeup \in BOOLEAN /\ stop \in BOOLEAN /\ active \in Optional
      /\ state \in {"idle", "running", "interrupting"}
  BY <1>i, LocksTyped DEF TypeOK, Locks
<1>u. /\ Elsewhere /\ UNCHANGED <<qlock, elock, at, active, stop>>
      /\ engine = "claude" /\ at.bg = "none" /\ followup' = TRUE
      /\ state' = IF state = "idle" THEN "running" ELSE state
      /\ wakeup' = (wakeup \/ state = "idle")
  BY DEF FollowupBegin, Elsewhere, locks, turns
<1>1. TypeOK' /\ Prompts' /\ Offering' /\ Working'
  <2>1. Moved(InQ, qlock, qlock', "bg")
    BY <1>t, <1>u, Stays
  <2>2. state' \in {"idle", "running", "interrupting"} /\ wakeup' \in BOOLEAN
    BY <1>t, <1>u
  <2> QED
    BY <1>t, <1>u, <2>1, <2>2, ElsewhereKeeps
<1>2. Locks' /\ ByEngine' /\ Alone'
  BY <1>i, <1>u DEF Elsewhere, Locks, ByEngine, Alone
<1>3. Alive'
  <2>1. Unlocking'
    BY <1>u DEF Elsewhere, Unlocking
  <2> QED
    BY <1>i, <1>u, <2>1 DEF Elsewhere, Alive
<1> QED
  BY <1>1, <1>2, <1>3 DEF IInv

(* Nobody owns or claims a session of Claude that has no task, and that    *)
(* nobody is inside query_lock of.                                         *)
LEMMA Unowned ==
  ASSUME Alone, engine = "claude", turnTask = "none"
  PROVE  \A m \in Msgs : pc[m] \notin Own
  BY Names DEF Alone

LEMMA FollowupEndInvariant ==
  ASSUME IInv, FollowupEnd
  PROVE  IInv'
<1>i. TypeOK /\ Locks /\ ByEngine /\ Alone /\ Prompts /\ Offering /\ Working /\ Alive
  BY DEF IInv
<1>t. /\ qlock \in Seq(InQ) /\ IsInjective(qlock) /\ at \in Places
      /\ elock \in Seq(InE) /\ wakeup \in BOOLEAN /\ stop \in BOOLEAN /\ active \in Optional
      /\ state \in {"idle", "running", "interrupting"} /\ "bg" \in InQ
      /\ Launchers \cap (Msgs \cup {"bg"}) = {} /\ "bg" \notin Msgs
      /\ Launchers \subseteq InQ /\ Msgs \subseteq InQ
      /\ turnTask \in Msgs \cup {"none"}
  BY <1>i, LocksTyped, Names DEF TypeOK, Locks, InQ, Launchers, Optional
<1>u. /\ followup /\ followup' = FALSE
      /\ UNCHANGED <<engine, turnTask, elock, arg, pc, receipt, prompt, queue, starting, text,
                     watched, asked, withdrawn, sent, echo>>
  BY DEF FollowupEnd, turns, history
<1>e. engine = "claude" /\ at.bg = "none"
  BY <1>i, <1>u, QueueAssumption DEF ByEngine, TypeOK
<1>1. CASE turnTask = "none" /\ qlock = <<>>
  <2>1. /\ state' = "idle" /\ active' = "none" /\ stop' = FALSE /\ qlock' = qlock
        /\ Scheduled(queue, TRUE)
    BY <1>1 DEF FollowupEnd
  <2>2. /\ at' = [at EXCEPT !.drain = IF at.drain = "none" /\ queue # <<>> THEN "loop"
                                      ELSE at.drain]
        /\ wakeup'
    BY <1>i, <2>1, ScheduledIs
  <2>3. /\ at' \in Places /\ at'.cmd = at.cmd /\ at'.bg = at.bg
        /\ at'.drain = IF at.drain = "none" /\ queue # <<>> THEN "loop" ELSE at.drain
    BY <1>t, <2>2 DEF Places
  <2>4. Elsewhere
    BY <1>u, <2>3 DEF Elsewhere
  <2>5. TypeOK' /\ Prompts' /\ Offering' /\ Working'
    <3>1. Moved(InQ, qlock, qlock', "bg")
      BY <1>t, <2>1, Stays
    <3>2. /\ elock' \in Seq(InE) /\ state' \in {"idle", "running", "interrupting"}
          /\ active' \in Optional /\ stop' \in BOOLEAN /\ followup' \in BOOLEAN
      BY <1>t, <1>u, <2>1 DEF Optional
    <3>3. wakeup' \in BOOLEAN
      BY <1>i, <2>1, ScheduledIs
    <3> QED
      BY <2>3, <2>4, <3>1, <3>2, <3>3, ElsewhereKeeps
  <2>6. \A a \in Launchers : at[a] \notin Inside
    BY <1>i, <1>1, OneInside
  <2>7. Locks' /\ ByEngine'
    BY <1>i, <1>u, <2>1, <2>3 DEF Locks, ByEngine, Launchers, InLine, Inside
  <2>8. Alone'
    BY <1>i, <1>e, <1>u, <1>1, <2>1, <2>3, <2>6, Unowned DEF Alone, Launchers, Inside
  <2>9. Alive'
    BY <1>i, <1>u, <2>1, <2>2, <2>3 DEF Alive
  <2> QED
    BY <2>5, <2>7, <2>8, <2>9 DEF IInv
<1>2. CASE turnTask = "none" /\ qlock # <<>>
  <2>1. /\ qlock' = Append(qlock, "bg") /\ at' = [at EXCEPT !["bg"] = "settle"]
        /\ UNCHANGED <<state, active, stop, wakeup>>
    BY <1>2 DEF FollowupEnd, At
  <2>2. Comes(InQ, qlock, qlock', "bg")
    <3>1. ~Waits(qlock, "bg")
      BY <1>i, <1>e DEF Locks
    <3> QED
      BY <1>t, <2>1, <3>1, LockMoves
  <2>3. /\ at' \in Places /\ at'.cmd = at.cmd /\ at'.drain = at.drain /\ at'.bg = "settle"
    BY <1>t, <2>1 DEF Places
  <2>4. Elsewhere
    BY <1>u, <2>3 DEF Elsewhere
  <2>5. TypeOK' /\ Prompts' /\ Offering' /\ Working'
    <3>1. Moved(InQ, qlock, qlock', "bg")
      BY <2>2 DEF Comes
    <3>2. /\ elock' \in Seq(InE) /\ state' \in {"idle", "running", "interrupting"}
          /\ active' \in Optional /\ stop' \in BOOLEAN /\ followup' \in BOOLEAN
          /\ wakeup' \in BOOLEAN
      BY <1>t, <1>u, <2>1
    <3> QED
      BY <2>3, <2>4, <3>1, <3>2, ElsewhereKeeps
  <2>6. Locks'
    BY <1>i, <1>t, <1>u, <2>2, <2>3 DEF Locks, Launchers, InLine, Inside, Comes, Moved
  <2>7. ByEngine' /\ Alone'
    BY <1>i, <1>e, <1>u, <2>1, <2>3 DEF ByEngine, Alone, Launchers
  <2>8. Alive'
    <3>1. Unlocking'
      BY <1>e, <1>u, <2>3 DEF Unlocking
    <3> QED
      BY <1>i, <1>u, <2>3, <3>1 DEF Alive
  <2> QED
    BY <2>5, <2>6, <2>7, <2>8 DEF IInv
<1>3. CASE turnTask # "none"
  <2>1. UNCHANGED <<state, active, stop, qlock>> /\ Scheduled(queue, FALSE)
    BY <1>3 DEF FollowupEnd
  <2>2. /\ at' = [at EXCEPT !.drain = IF at.drain = "none" /\ queue # <<>> THEN "loop"
                                      ELSE at.drain]
        /\ wakeup' \in BOOLEAN /\ (at.drain # "none" /\ queue # <<>> => wakeup')
    BY <1>i, <2>1, ScheduledIs
  <2>3. /\ at' \in Places /\ at'.cmd = at.cmd /\ at'.bg = at.bg
        /\ at'.drain = IF at.drain = "none" /\ queue # <<>> THEN "loop" ELSE at.drain
    BY <1>t, <2>2 DEF Places
  <2>4. Elsewhere
    BY <1>u, <2>3 DEF Elsewhere
  <2>5. TypeOK' /\ Prompts' /\ Offering' /\ Working'
    <3>1. Moved(InQ, qlock, qlock', "bg")
      BY <1>t, <2>1, Stays
    <3>2. /\ elock' \in Seq(InE) /\ state' \in {"idle", "running", "interrupting"}
          /\ active' \in Optional /\ stop' \in BOOLEAN /\ followup' \in BOOLEAN
      BY <1>t, <1>u, <2>1
    <3> QED
      BY <2>2, <2>3, <2>4, <3>1, <3>2, ElsewhereKeeps
  <2>6. Locks' /\ ByEngine' /\ Alone'
    BY <1>i, <1>e, <1>u, <2>1, <2>3 DEF Locks, ByEngine, Alone, Launchers, InLine, Inside
  <2>7. Alive'
    <3>1. pc[turnTask] \in Own \cup {"idleEmit"} /\ turnTask \in Msgs
      BY <1>i, <1>t, <1>e, <1>3 DEF Alive, ByEngine
    <3>2. Unlocking'
      BY <1>e, <1>u, <3>1 DEF Unlocking
    <3> QED
      BY <1>i, <1>u, <2>3, <3>2 DEF Alive
  <2> QED
    BY <2>5, <2>6, <2>7 DEF IInv
<1> QED
  BY <1>1, <1>2, <1>3

LEMMA SettleFollowupInvariant ==
  ASSUME IInv, SettleFollowup
  PROVE  IInv'
<1>i. TypeOK /\ Locks /\ ByEngine /\ Alone /\ Prompts /\ Offering /\ Working /\ Alive
  BY DEF IInv
<1>t. /\ qlock \in Seq(InQ) /\ IsInjective(qlock) /\ at \in Places
      /\ elock \in Seq(InE) /\ wakeup \in BOOLEAN /\ stop \in BOOLEAN /\ active \in Optional
      /\ state \in {"idle", "running", "interrupting"} /\ "bg" \in InQ
      /\ Launchers \cap (Msgs \cup {"bg"}) = {} /\ "bg" \notin Msgs
      /\ Launchers \subseteq InQ /\ Msgs \subseteq InQ
      /\ turnTask \in Msgs \cup {"none"} /\ followup \in BOOLEAN
  BY <1>i, LocksTyped, Names DEF TypeOK, Locks, InQ, Launchers, Optional
<1>u. /\ at.bg = "settle" /\ Holds(qlock, "bg") /\ wakeup' = TRUE /\ qlock' = Tail(qlock)
      /\ UNCHANGED <<engine, turnTask, followup, elock, arg, pc, receipt, prompt, queue,
                     starting, text, watched, asked, withdrawn, sent, echo>>
      /\ at' = [at EXCEPT !.bg = "none",
                          !.drain = IF @ = "none" /\ queue # <<>> THEN "loop" ELSE @]
      /\ Unlock(turnTask)
  BY DEF SettleFollowup, turns, history
<1>s. IF turnTask = "none" /\ ~followup
        THEN state' = "idle" /\ active' = "none" /\ stop' = FALSE
        ELSE UNCHANGED <<state, active, stop>>
  BY <1>u DEF Unlock, Quiet
<1>e. engine = "claude" /\ ~followup
  BY <1>i, <1>t, <1>u, QueueAssumption DEF ByEngine, TypeOK
<1>a. /\ at' \in Places /\ at'.cmd = at.cmd /\ at'.bg = "none"
      /\ at'.drain = IF at.drain = "none" /\ queue # <<>> THEN "loop" ELSE at.drain
  BY <1>t, <1>u DEF Places
<1>q. Goes(InQ, qlock, qlock', "bg")
  BY <1>t, <1>u, LockMoves
<1>o. \A a \in Launchers : at[a] \notin Inside
  BY <1>i, <1>u, OneInside
<1>1. TypeOK' /\ Prompts' /\ Offering' /\ Working'
  <2>1. Elsewhere
    BY <1>u, <1>a DEF Elsewhere
  <2>2. Moved(InQ, qlock, qlock', "bg")
    BY <1>q DEF Goes
  <2>3. /\ elock' \in Seq(InE) /\ state' \in {"idle", "running", "interrupting"}
        /\ active' \in Optional /\ stop' \in BOOLEAN /\ followup' \in BOOLEAN
        /\ wakeup' \in BOOLEAN
    BY <1>t, <1>u, <1>s DEF Optional
  <2> QED
    BY <1>a, <2>1, <2>2, <2>3, ElsewhereKeeps
<1>2. Locks'
  BY <1>i, <1>t, <1>u, <1>a, <1>q DEF Locks, Launchers, InLine, Inside, Goes, Moved
<1>3. ByEngine'
  BY <1>e, <1>i, <1>u, <1>a DEF ByEngine
<1>4. Alone'
  <2>1. \A a \in Launchers : at'[a] \notin Inside
    BY <1>o, <1>a DEF Launchers, Inside
  <2>2. CASE turnTask = "none"
    <3>1. \A m \in Msgs : pc[m] \notin Own
      BY <1>i, <1>e, <2>2, Unowned
    <3> QED
      BY <1>i, <1>u, <2>1, <3>1 DEF Alone, Inside
  <2>3. CASE turnTask # "none"
    BY <1>i, <1>u, <1>s, <2>1, <2>3 DEF Alone, Inside
  <2> QED
    BY <2>2, <2>3
<1>5. Alive'
  <2>1. state' # "idle" => Unlocking'
    <3> SUFFICES ASSUME state' # "idle"
                 PROVE  Unlocking'
      OBVIOUS
    <3>1. turnTask # "none"
      BY <1>e, <1>s
    <3>2. pc[turnTask] \in Own \cup {"idleEmit"} /\ turnTask \in Msgs
      BY <1>i, <1>t, <1>e, <3>1 DEF Alive, ByEngine
    <3> QED
      BY <1>e, <1>u, <3>2 DEF Unlocking
  <2> QED
    BY <1>i, <1>u, <1>a, <2>1 DEF Alive
<1> QED
  BY <1>1, <1>2, <1>3, <1>4, <1>5 DEF IInv

(* Steps that disturb nothing but a running state and emit_lock.           *)
LEMMA OtherInvariant ==
  ASSUME IInv, Interrupt \/ OtherEmit \/ OtherEmitted \/ UNCHANGED vars
  PROVE  IInv'
<1>i. TypeOK /\ Locks /\ ByEngine /\ Alone /\ Prompts /\ Offering /\ Working /\ Alive
  BY DEF IInv
<1>t. /\ qlock \in Seq(InQ) /\ IsInjective(qlock) /\ at \in Places
      /\ elock \in Seq(InE) /\ IsInjective(elock)
      /\ wakeup \in BOOLEAN /\ stop \in BOOLEAN /\ followup \in BOOLEAN /\ active \in Optional
      /\ state \in {"idle", "running", "interrupting"} /\ "other" \in InE
      /\ "other" \notin Launchers \cup Msgs
      /\ Launchers \subseteq InE /\ Msgs \subseteq InE
  BY <1>i, LocksTyped, Names, QueueAssumption DEF TypeOK, Locks, InE, Launchers
<1>u. /\ Elsewhere /\ UNCHANGED <<qlock, at, followup, active, wakeup>>
      /\ state' = state \/ (state = "running" /\ state' = "interrupting")
      /\ stop' \in BOOLEAN
  BY <1>t DEF Interrupt, OtherEmit, OtherEmitted, vars, Elsewhere, session, locks, turns,
              worker, history
<1>e. Moved(InE, elock, elock', "other")
  <2>1. CASE OtherEmit
    BY <1>t, <2>1, LockMoves DEF OtherEmit, Comes
  <2>2. CASE OtherEmitted
    BY <1>t, <2>2, LockMoves DEF OtherEmitted, Goes
  <2>3. CASE Interrupt \/ UNCHANGED vars
    <3>1. elock' = elock
      BY <2>3 DEF Interrupt, EmitNow, vars, locks
    <3> QED
      BY <1>t, <3>1, Stays
  <2> QED
    BY <2>1, <2>2, <2>3
<1>1. TypeOK' /\ Prompts' /\ Offering' /\ Working'
  <2>1. Moved(InQ, qlock, qlock', "bg")
    BY <1>t, <1>u, Stays
  <2>2. elock' \in Seq(InE)
    BY <1>e DEF Moved
  <2> QED
    BY <1>t, <1>u, <2>1, <2>2, ElsewhereKeeps
<1>2. Locks'
  BY <1>i, <1>t, <1>u, <1>e DEF Elsewhere, Locks, Moved
<1>3. ByEngine'
  BY <1>i, <1>u DEF Elsewhere, ByEngine
<1>4. Alone'
  BY <1>i, <1>t, <1>u, <1>e DEF Elsewhere, Alone, Moved
<1>5. Alive'
  BY <1>i, <1>u DEF Elsewhere, Alive, Unlocking
<1> QED
  BY <1>1, <1>2, <1>3, <1>4, <1>5 DEF IInv

-----------------------------------------------------------------------------
LEMMA InitIInv ==
  ASSUME Init
  PROVE  IInv
<1>1. /\ qlock = <<>> /\ elock = <<>> /\ queue = <<>> /\ starting = "none"
      /\ at = [cmd |-> "free", drain |-> "none", bg |-> "none"]
      /\ arg = [cmd |-> "none", drain |-> "none"]
      /\ state = "idle" /\ turnTask = "none" /\ followup = FALSE
      /\ \A m \in Msgs : /\ pc[m] = "none" /\ receipt[m] = "none" /\ sent[m] = <<>>
                         /\ text[m] = 0 /\ prompt[m] = 0
      /\ asked = {} /\ withdrawn = {}
  BY DEF Init
<1>2. IsInjective(<<>>) /\ Len(<<>>) = 0 /\ \A S : <<>> \in Seq(S)
  BY DEF IsInjective
<1>3. TypeOK
  <2>1. /\ at \in Places /\ arg \in [cmd : Optional, drain : Optional]
        /\ \A a \in {"cmd", "drain"} : at[a] # "emit"
    BY <1>1 DEF Places, Optional
  <2>2. /\ prompt \in [Msgs -> 0..MaxEdits] /\ text \in [Msgs -> 0..MaxEdits]
        /\ sent \in [Msgs -> Seq(0..MaxEdits)]
    BY <1>2, Names DEF Init
  <2>3. /\ pc \in [Msgs -> Stages] /\ receipt \in [Msgs -> {"none", "lost", "settled"}]
        /\ echo \in [Msgs -> Optional \cup {"uuid"}]
    BY DEF Init, Stages, Optional
  <2>4. /\ queue \in Seq(Msgs) /\ Len(queue) <= MaxQueue /\ IsInjective(queue)
        /\ qlock \in Seq(Msgs \cup {"cmd", "drain", "bg"})
        /\ elock \in Seq(Msgs \cup {"cmd", "drain", "other"})
    BY <1>1, <1>2, Names
  <2>5. /\ engine \in Engines /\ state \in {"idle", "running", "interrupting"}
        /\ active \in Optional /\ stop \in BOOLEAN /\ turnTask \in Optional
        /\ followup \in BOOLEAN /\ starting \in Optional
        /\ wakeup \in BOOLEAN /\ watched \subseteq Msgs
        /\ asked \subseteq Msgs /\ withdrawn \subseteq Msgs
    BY DEF Init, Optional
  <2> QED
    BY <2>1, <2>2, <2>3, <2>4, <2>5 DEF TypeOK
<1>4. Locks /\ ByEngine /\ Alone
  BY <1>1, <1>2, NobodyWaits DEF Locks, ByEngine, Alone, Own, Launchers, InLine, Inside
<1>5. Prompts /\ Offering /\ Working /\ Alive
  BY <1>1, NobodyWaits DEF Prompts, PromptOK, Offering, Working, Alive, Inside
<1> QED
  BY <1>3, <1>4, <1>5 DEF IInv

LEMMA Inductive ==
  ASSUME IInv, [Next]_vars
  PROVE  IInv'
<1>1. CASE \E m \in Msgs : Turn(m)
  BY <1>1, TurnInvariant
<1>2. CASE FollowupBegin \/ Followup
  BY <1>2, FollowupBeginInvariant, FollowupEndInvariant, SettleFollowupInvariant DEF Followup
<1>3. CASE \E a \in Launchers : Launcher(a)
  BY <1>3, CommandInvariant, RejectedInvariant, ClaimInvariant, CreateInvariant
     DEF Launcher, Launchers
<1>4. CASE Worker
  BY <1>3, <1>4, WorkerLoopInvariant, WorkerLockInvariant, WorkerReturns, ReceiptInvariant,
     RejectedInvariant DEF Worker, Launchers
<1>5. CASE Command
  BY <1>3, <1>5, CommandInvariant DEF Command, Launchers
<1>6. CASE User
  BY <1>6, CommandInvariant, EnqueueInvariant, CancelInvariant, UpdateInvariant,
     OtherInvariant DEF User
<1>7. CASE OtherEmit \/ OtherEmitted \/ UNCHANGED vars
  BY <1>7, OtherInvariant
<1> QED
  BY <1>1, <1>2, <1>4, <1>5, <1>6, <1>7 DEF Next

(* The inductive invariant holds of every behaviour.                       *)
THEOREM Invariance == Spec => []IInv
<1>1. Init => IInv
  BY InitIInv
<1>2. IInv /\ [Next]_vars => IInv'
  BY Inductive
<1> QED
  BY <1>1, <1>2, PTL DEF Spec

(* Every variable keeps its type, and no task of a prompt is created while *)
(* an earlier one of the same prompt is running (machine.py,               *)
(* _handle_immediate_query and _run_turn).                                 *)
THEOREM TypeCorrect == Spec => []TypeOK
<1>1. IInv => TypeOK
  BY DEF IInv
<1> QED
  BY <1>1, Invariance, PTL

(* When no coroutine has anything left to do, the session is idle and no   *)
(* deferred prompt waits: whatever ends last unlocks the session and wakes *)
(* the worker, however the turn, the follow-up and the worker's own sleep  *)
(* interleave (machine.py, _settle_claude_lifecycle_if_quiescent,          *)
(* _schedule_query_queue_drain and the worker's done callback).            *)
THEOREM NobodyIsStranded == Spec => []NobodyStranded
<1>1. IInv => NobodyStranded
  <2> SUFFICES ASSUME IInv, Finished
               PROVE  state = "idle" /\ queue = <<>>
    BY DEF NobodyStranded
  <2>1. ~Unlocking
    BY Names DEF Finished, Unlocking, Own, Launchers
  <2>2. state = "idle"
    BY <2>1 DEF IInv, Alive
  <2>3. watched \subseteq Msgs
    BY DEF IInv, TypeOK
  <2>4. queue = <<>>
    BY <2>1, <2>3 DEF IInv, Alive, Finished
  <2> QED
    BY <2>2, <2>4
<1> QED
  BY <1>1, Invariance, PTL

-----------------------------------------------------------------------------
(* TurnQueue implements PromptLedger.                                      *)

Offered(m) == arg.cmd = m /\ at.cmd # "free"

(* What the status of a prompt is, in a state of the invariant.            *)
Classified(m) ==
  /\ m \notin asked => StatusOf(m) = "new"
  /\ pc[m] = "launch" \/ (AtReceipt(m) /\ sent[m] = <<>>) => StatusOf(m) = "launched"
  /\ starting = m /\ ~AtReceipt(m) => StatusOf(m) = "held"
  /\ Offered(m) => StatusOf(m) = "offered"
  /\ Waits(queue, m) /\ starting # m => StatusOf(m) = "waiting"
  /\ m \in withdrawn => StatusOf(m) = "withdrawn"
  /\ m \in asked \ withdrawn /\ sent[m] = <<>> /\ pc[m] # "launch" /\ starting # m
     /\ ~Offered(m) /\ ~Waits(queue, m) => StatusOf(m) = "refused"

LEMMA Classes == IInv => \A m \in Msgs : Classified(m)
<1> SUFFICES ASSUME IInv, NEW m \in Msgs
             PROVE  Classified(m)
  OBVIOUS
<1>1. PromptOK(m) /\ Offering /\ m # "none"
  BY Names DEF IInv, Prompts
<1>2. starting = m => Waits(queue, m)
  BY <1>1 DEF IInv, Working
<1>3. StatusOf(m) = IF m \in withdrawn THEN "withdrawn"
                    ELSE IF sent[m] # <<>> THEN "submitted"
                    ELSE IF pc[m] = "launch" \/ AtReceipt(m) THEN "launched"
                    ELSE IF starting = m THEN "held"
                    ELSE IF Offered(m) THEN "offered"
                    ELSE IF Waits(queue, m) THEN "waiting"
                    ELSE IF m \in asked THEN "refused" ELSE "new"
  BY DEF StatusOf, AtReceipt, Offered
<1>4. Offered(m) => /\ m \in asked \ withdrawn /\ sent[m] = <<>> /\ pc[m] = "none"
                    /\ ~Waits(queue, m)
  BY <1>1 DEF Offering, Offered
<1>5. AtReceipt(m) => starting = m
  BY DEF AtReceipt
<1> HIDE DEF StatusOf
<1> QED
  BY <1>1, <1>2, <1>3, <1>4, <1>5 DEF Classified, PromptOK

LEMMA ClassesNext ==
  ASSUME IInv'
  PROVE  \A m \in Msgs : Classified(m)'
<1>1. (IInv => \A m \in Msgs : Classified(m))'
  BY Classes, PTL
<1> QED
  BY <1>1

Writers == {m \in Msgs : pc[m] \in {"submitted", "running"}}

(* Nothing that the ledger sees of n changes.                              *)
Unseen(n) ==
  /\ n \in withdrawn' <=> n \in withdrawn
  /\ n \in asked' <=> n \in asked
  /\ sent'[n] = sent[n]
  /\ pc'[n] = "launch" <=> pc[n] = "launch"
  /\ starting' = n <=> starting = n
  /\ AtReceipt(n)' <=> AtReceipt(n)
  /\ Offered(n)' <=> Offered(n)
  /\ Waits(queue', n) <=> Waits(queue, n)

LEMMA UnseenKeeps ==
  ASSUME NEW n, Unseen(n)
  PROVE  StatusOf(n)' = StatusOf(n)
  BY DEF Unseen, StatusOf, AtReceipt, Offered

Legal ==
  { <<"new", "waiting">>, <<"new", "offered">>, <<"waiting", "held">>,
    <<"offered", "launched">>, <<"held", "launched">>,
    <<"held", "waiting">>, <<"launched", "waiting">>, <<"waiting", "withdrawn">>,
    <<"new", "refused">>, <<"offered", "refused">>, <<"launched", "refused">> }

LEMMA LegalMove ==
  ASSUME NEW m \in Msgs, <<StatusOf(m), StatusOf(m)'>> \in Legal,
         \A n \in Msgs : n # m => StatusOf(n)' = StatusOf(n),
         UNCHANGED <<text, sent, Writers>>
  PROVE  Ledger!Next
<1>1. ASSUME NEW from, NEW to, StatusOf(m) \in from, StatusOf(m)' = to
      PROVE  Ledger!Move(m, from, to)
  BY <1>1 DEF Ledger!Move
<1>2. CASE StatusOf(m) = "new" /\ StatusOf(m)' = "waiting"
  <2>1. Ledger!Accept(m)
    BY <1>1, <1>2 DEF Ledger!Accept, Writers
  <2> QED
    BY <2>1 DEF Ledger!Next
<1>3. CASE \/ StatusOf(m) = "new" /\ StatusOf(m)' = "offered"
           \/ StatusOf(m) = "waiting" /\ StatusOf(m)' = "held"
  <2>1. Ledger!Check(m)
    BY <1>1, <1>3 DEF Ledger!Check, Writers
  <2> QED
    BY <2>1 DEF Ledger!Next
<1>4. CASE StatusOf(m) \in {"offered", "held"} /\ StatusOf(m)' = "launched"
  <2>1. Ledger!Launch(m)
    BY <1>1, <1>4 DEF Ledger!Launch, Writers
  <2> QED
    BY <2>1 DEF Ledger!Next
<1>5. CASE StatusOf(m) \in {"held", "launched"} /\ StatusOf(m)' = "waiting"
  <2>1. Ledger!PutBack(m)
    BY <1>1, <1>5 DEF Ledger!PutBack, Writers
  <2> QED
    BY <2>1 DEF Ledger!Next
<1>6. CASE StatusOf(m) = "waiting" /\ StatusOf(m)' = "withdrawn"
  <2>1. Ledger!Withdraw(m)
    BY <1>1, <1>6 DEF Ledger!Withdraw, Writers
  <2> QED
    BY <2>1 DEF Ledger!Next
<1>7. CASE StatusOf(m) \in {"new", "offered", "launched"} /\ StatusOf(m)' = "refused"
  <2>1. Ledger!Refuse(m)
    BY <1>1, <1>7 DEF Ledger!Refuse, Writers
  <2> QED
    BY <2>1 DEF Ledger!Next
<1>8. \A s, t : <<s, t>> \in Legal =>
        \/ s = "new" /\ t = "waiting"
        \/ s = "new" /\ t = "offered"
        \/ s = "waiting" /\ t = "held"
        \/ s \in {"offered", "held"} /\ t = "launched"
        \/ s \in {"held", "launched"} /\ t = "waiting"
        \/ s = "waiting" /\ t = "withdrawn"
        \/ s \in {"new", "offered", "launched"} /\ t = "refused"
  BY DEF Legal
<1> HIDE DEF StatusOf
<1> QED
  BY <1>2, <1>3, <1>4, <1>5, <1>6, <1>7, <1>8

LEMMA LedgerStutters ==
  ASSUME \A n \in Msgs : StatusOf(n)' = StatusOf(n), UNCHANGED <<text, sent, Writers>>
  PROVE  UNCHANGED Ledger!vars
  BY DEF Ledger!vars, Writers

(* A step of the ledger, or none.                                          *)
LedgerStep == Ledger!Next \/ UNCHANGED Ledger!vars

LEMMA NothingSeen ==
  ASSUME \A n \in Msgs : Unseen(n), UNCHANGED <<text, sent, Writers>>
  PROVE  LedgerStep
<1>1. \A n \in Msgs : StatusOf(n)' = StatusOf(n)
  BY UnseenKeeps
<1> QED
  BY <1>1, LedgerStutters DEF LedgerStep

LEMMA OneSeen ==
  ASSUME NEW m \in Msgs, <<StatusOf(m), StatusOf(m)'>> \in Legal,
         \A n \in Msgs : n # m => Unseen(n), UNCHANGED <<text, sent, Writers>>
  PROVE  LedgerStep
<1>1. \A n \in Msgs : n # m => StatusOf(n)' = StatusOf(n)
  BY UnseenKeeps
<1> QED
  BY <1>1, LegalMove DEF LedgerStep

(* The launch fails: of the worker's prompt the receipt decides, of the    *)
(* command lane's this is the end.                                         *)
LEMMA LaunchFailedLedger ==
  ASSUME IInv, IInv', NEW m \in Msgs, LaunchStopped(m) \/ LaunchFailed(m) \/ LaunchLost(m)
  PROVE  LedgerStep
<1>t. pc \in [Msgs -> Stages] /\ PromptOK(m) /\ Offering
  BY DEF IInv, TypeOK, Prompts
<1>u. /\ pc[m] = "launch" /\ pc' = [pc EXCEPT ![m] = "failed"]
      /\ UNCHANGED <<at, arg, queue, starting, text, asked, withdrawn, sent>>
  BY DEF LaunchStopped, LaunchFailed, LaunchLost, Goto, worker, history
<1>1. UNCHANGED <<text, sent, Writers>> /\ \A n \in Msgs : n # m => Unseen(n)
  BY <1>t, <1>u DEF Writers, Unseen, AtReceipt, Offered
<1>2. m \in asked \ withdrawn /\ sent[m] = <<>> /\ (Waits(queue, m) => AtReceipt(m))
  BY <1>t, <1>u DEF PromptOK
<1>c. Classified(m) /\ Classified(m)'
  BY Classes, ClassesNext
<1>3. StatusOf(m) = "launched"
  BY <1>c, <1>u DEF Classified
<1>4. CASE AtReceipt(m)
  <2>1. AtReceipt(m)' /\ sent'[m] = <<>>
    BY <1>u, <1>2, <1>4 DEF AtReceipt
  <2>2. StatusOf(m)' = "launched"
    BY <1>c, <2>1 DEF Classified
  <2>3. \A n \in Msgs : StatusOf(n)' = StatusOf(n)
    BY <1>1, <1>3, <2>2, UnseenKeeps
  <2> QED
    BY <1>1, <2>3, LedgerStutters DEF LedgerStep
<1>5. CASE ~AtReceipt(m)
  <2>1. ~Waits(queue, m) /\ starting # m
    BY <1>2, <1>5, Names DEF IInv, Working
  <2>2. ~Offered(m)
    BY <1>t, <1>u DEF Offering, Offered
  <2>3. /\ m \in asked' \ withdrawn' /\ sent'[m] = <<>> /\ pc'[m] # "launch"
        /\ starting' # m /\ ~Offered(m)' /\ ~Waits(queue', m)
    BY <1>t, <1>u, <1>2, <2>1, <2>2 DEF Offered
  <2>4. StatusOf(m)' = "refused"
    BY <1>c, <2>3 DEF Classified
  <2>5. <<StatusOf(m), StatusOf(m)'>> \in Legal
    BY <1>3, <2>4 DEF Legal
  <2> QED
    BY <1>1, <2>5, OneSeen
<1> QED
  BY <1>4, <1>5

LEMMA SubmitLedger ==
  ASSUME IInv, NEW m \in Msgs, Submit(m)
  PROVE  LedgerStep
<1>t. /\ pc \in [Msgs -> Stages] /\ PromptOK(m) /\ sent \in [Msgs -> Seq(0..MaxEdits)]
      /\ prompt \in [Msgs -> 0..MaxEdits]
      /\ \A k, n \in Msgs : pc[k] \in Own /\ pc[n] \in Own => k = n
  BY DEF IInv, TypeOK, Prompts, Alone
<1>u. /\ pc[m] = "launch" /\ pc' = [pc EXCEPT ![m] = "submitted"]
      /\ sent' = [sent EXCEPT ![m] = Append(@, prompt[m])]
      /\ UNCHANGED <<at, arg, queue, starting, text, asked, withdrawn>>
  BY DEF Submit, Goto, worker
<1>1. m \notin withdrawn /\ prompt[m] = text[m] /\ sent[m] = <<>>
  BY <1>t, <1>u DEF PromptOK
<1>2. Writers = {} /\ Writers' = {m}
  <2>1. \A n \in Msgs : pc[n] \notin {"submitted", "running"}
    BY <1>t, <1>u DEF Own
  <2> QED
    BY <1>t, <1>u, <2>1 DEF Writers
<1>3. StatusOf(m) = "launched"
  BY Classes, <1>u DEF Classified
<1>s. sent'[m] # <<>> /\ Last(sent'[m]) = text[m]
  <2>1. sent'[m] = Append(<<>>, text[m])
    BY <1>t, <1>u, <1>1
  <2>2. Append(<<>>, text[m]) = <<text[m]>>
    OBVIOUS
  <2>3. sent'[m] = <<text[m]>>
    BY <2>1, <2>2
  <2> QED
    BY <2>3 DEF Last
<1>4. StatusOf(m)' = "submitted"
  BY <1>u, <1>1, <1>s DEF StatusOf
<1>5. \A n \in Msgs : n # m => Unseen(n) /\ sent'[n] = sent[n]
  BY <1>t, <1>u DEF Unseen, AtReceipt, Offered
<1>6. \A n \in Msgs : n # m => StatusOf(n)' = StatusOf(n)
  BY <1>5, UnseenKeeps
<1>7. Ledger!Submit(m)
  <2>1. Ledger!Move(m, {"launched"}, "submitted")
    BY <1>3, <1>4, <1>6 DEF Ledger!Move
  <2>2. [n \in Msgs |-> IF sent[n] = <<>> THEN MaxEdits + 1 ELSE Last(sent[n])]'
          = [[n \in Msgs |-> IF sent[n] = <<>> THEN MaxEdits + 1 ELSE Last(sent[n])]
               EXCEPT ![m] = text[m]]
    BY <1>5, <1>s
  <2> QED
    BY <1>u, <1>2, <2>1, <2>2 DEF Ledger!Submit, Writers
<1> QED
  BY <1>7 DEF Ledger!Next, LedgerStep

LEMMA FinishLedger ==
  ASSUME IInv, NEW m \in Msgs, Result(m) \/ Crash(m)
  PROVE  LedgerStep
<1>t. /\ pc \in [Msgs -> Stages]
      /\ \A k, n \in Msgs : pc[k] \in Own /\ pc[n] \in Own => k = n
  BY DEF IInv, TypeOK, Alone
<1>u. /\ pc[m] \in {"submitted", "running"}
      /\ pc' = [pc EXCEPT ![m] = "result"] \/ pc' = [pc EXCEPT ![m] = "failed"]
      /\ UNCHANGED <<at, arg, queue, starting, text, asked, withdrawn, sent>>
  BY DEF Result, Crash, Goto, worker, history
<1>1. Writers' = {}
  <2>1. \A n \in Msgs : pc'[n] \notin {"submitted", "running"}
    BY <1>t, <1>u DEF Own
  <2> QED
    BY <2>1 DEF Writers
<1>2. \A n \in Msgs : Unseen(n)
  BY <1>t, <1>u DEF Unseen, AtReceipt, Offered
<1>3. \A n \in Msgs : StatusOf(n)' = StatusOf(n)
  BY <1>2, UnseenKeeps
<1>4. Ledger!Finish
  BY <1>u, <1>1, <1>3 DEF Ledger!Finish, Writers
<1> QED
  BY <1>4 DEF Ledger!Next, LedgerStep

LEMMA TurnLedger ==
  ASSUME IInv, IInv', NEW m \in Msgs, Turn(m)
  PROVE  LedgerStep
<1>t. pc \in [Msgs -> Stages] /\ at \in Places
  BY DEF IInv, TypeOK
<1>1. CASE Accepted(m)
  <2>1. /\ pc[m] = "submitted" /\ pc' = [pc EXCEPT ![m] = "running"]
        /\ UNCHANGED <<at, arg, queue, starting, text, asked, withdrawn, sent>>
    BY <1>1 DEF Accepted, Goto, worker
  <2>2. UNCHANGED <<text, sent, Writers>> /\ \A n \in Msgs : Unseen(n)
    BY <1>t, <2>1 DEF Writers, Unseen, AtReceipt, Offered
  <2> QED
    BY <2>2, NothingSeen
<1>2. CASE EndTurn(m) \/ IdleLock(m) \/ IdleEmitted(m) \/ Repaired(m) \/ SettleTurn(m)
  <2>1. Idles(m) \/ AwaitsIdle(m) \/ AwaitsSettling(m) \/ Ends(m) \/ Repairs(m)
    BY <1>2, TurnEnds DEF IInv, Parts
  <2>2. /\ pc[m] \notin {"launch", "submitted", "running"}
        /\ \E place \in Stages \ {"launch", "submitted", "running"} :
             pc' = [pc EXCEPT ![m] = place]
        /\ UNCHANGED <<arg, queue, starting, text, asked, withdrawn, sent>>
    BY <2>1 DEF Idles, AwaitsIdle, AwaitsSettling, Ends, Repairs, Finishing, Stages, worker,
                history
  <2>3. at'.cmd = at.cmd /\ (at'.drain = "receipt" <=> at.drain = "receipt")
    BY <1>t, <2>1 DEF Idles, AwaitsIdle, AwaitsSettling, Ends, Repairs, Places
  <2>4. UNCHANGED <<text, sent, Writers>> /\ \A n \in Msgs : Unseen(n)
    BY <1>t, <2>2, <2>3 DEF Writers, Unseen, AtReceipt, Offered
  <2> QED
    BY <2>4, NothingSeen
<1> QED
  BY <1>1, <1>2, LaunchFailedLedger, SubmitLedger, FinishLedger DEF Turn

LEMMA ElsewhereLedger ==
  ASSUME IInv, FollowupBegin \/ Followup \/ Interrupt \/ OtherEmit \/ OtherEmitted
  PROVE  LedgerStep
<1>t. at \in Places
  BY DEF IInv, TypeOK
<1>1. UNCHANGED <<arg, pc, queue, starting, text, asked, withdrawn, sent>>
  BY DEF FollowupBegin, Followup, FollowupEnd, SettleFollowup, Interrupt, OtherEmit,
         OtherEmitted, turns, worker, history
<1>2. at'.cmd = at.cmd /\ (at'.drain = "receipt" <=> at.drain = "receipt")
  BY <1>t DEF FollowupBegin, Followup, FollowupEnd, SettleFollowup, Interrupt, OtherEmit,
              OtherEmitted, Scheduled, At, Places
<1>3. UNCHANGED <<text, sent, Writers>> /\ \A n \in Msgs : Unseen(n)
  BY <1>1, <1>2 DEF Writers, Unseen, AtReceipt, Offered
<1> QED
  BY <1>3, NothingSeen

(* A prompt sent with delivery "immediate" is refused or checked.          *)
LEMMA QueryLedger ==
  ASSUME IInv, IInv', NEW m \in Msgs, Query(m)
  PROVE  LedgerStep
<1>t. at \in Places /\ arg \in [cmd : Optional, drain : Optional] /\ PromptOK(m)
  BY DEF IInv, TypeOK, Prompts
<1>u. /\ at.cmd = "free" /\ m \notin asked /\ asked' = asked \cup {m}
      /\ arg'.cmd = m /\ at'.drain = at.drain
      /\ UNCHANGED <<pc, queue, starting, text, withdrawn, sent>>
  BY <1>t DEF Query, CmdAdmitted, At, turns, worker, Places
<1>1. UNCHANGED <<text, sent, Writers>> /\ \A n \in Msgs : n # m => Unseen(n)
  BY <1>t, <1>u DEF Writers, Unseen, AtReceipt, Offered
<1>c. Classified(m) /\ Classified(m)'
  BY Classes, ClassesNext
<1>2. StatusOf(m) = "new"
  BY <1>c, <1>u DEF Classified
<1>3. CASE at'.cmd # "free"
  <2>1. Offered(m)'
    BY <1>u, <1>3 DEF Offered
  <2>2. <<StatusOf(m), StatusOf(m)'>> \in Legal
    BY <1>c, <1>2, <2>1 DEF Classified, Legal
  <2> QED
    BY <1>1, <2>2, OneSeen
<1>4. CASE at'.cmd = "free"
  <2>1. ~Offered(m)' /\ starting # m
    BY <1>t, <1>u, <1>4, Names DEF Offered, IInv, Working, PromptOK
  <2>2. /\ m \in asked' \ withdrawn' /\ sent'[m] = <<>> /\ pc'[m] # "launch"
        /\ starting' # m /\ ~Offered(m)' /\ ~Waits(queue', m)
    BY <1>t, <1>u, <2>1 DEF PromptOK
  <2>3. <<StatusOf(m), StatusOf(m)'>> \in Legal
    BY <1>c, <1>2, <2>2 DEF Classified, Legal
  <2> QED
    BY <1>1, <2>3, OneSeen
<1> QED
  BY <1>3, <1>4

(* The command lane goes on with its prompt, or refuses it.                *)
LEMMA CommandLedger ==
  ASSUME IInv, IInv', CmdLock \/ Reject("cmd") \/ Claim("cmd")
  PROVE  LedgerStep
<1> DEFINE m == arg.cmd
<1>t. at \in Places /\ arg \in [cmd : Optional, drain : Optional]
  BY DEF IInv, TypeOK
<1>u. /\ at.cmd # "free" /\ at'.drain = at.drain
      /\ UNCHANGED <<arg, pc, queue, starting, text, asked, withdrawn, sent>>
  BY <1>t DEF CmdLock, CmdAdmitted, Reject, Claim, At, turns, worker, history, Places
<1>m. /\ m \in asked \ withdrawn /\ m \in Msgs /\ sent[m] = <<>> /\ pc[m] = "none"
      /\ ~Waits(queue, m) /\ starting # m
  BY <1>u, Arguments, Names DEF IInv, Offering, Working
<1>1. CASE at'.cmd # "free"
  <2>1. UNCHANGED <<text, sent, Writers>> /\ \A n \in Msgs : Unseen(n)
    BY <1>u, <1>1 DEF Writers, Unseen, AtReceipt, Offered
  <2> QED
    BY <2>1, NothingSeen
<1>2. CASE at'.cmd = "free"
  <2>1. UNCHANGED <<text, sent, Writers>> /\ \A n \in Msgs : n # m => Unseen(n)
    BY <1>u, <1>2 DEF Writers, Unseen, AtReceipt, Offered
  <2> PICK k \in Msgs : k = m
    BY <1>m
  <2>c. Classified(k) /\ Classified(k)'
    BY Classes, ClassesNext
  <2>2. StatusOf(k) = "offered"
    BY <1>u, <2>c DEF Classified, Offered
  <2>3. /\ k \in asked' \ withdrawn' /\ sent'[k] = <<>> /\ pc'[k] # "launch"
        /\ starting' # k /\ ~Offered(k)' /\ ~Waits(queue', k)
    BY <1>u, <1>m, <1>2 DEF Offered
  <2>4. <<StatusOf(k), StatusOf(k)'>> \in Legal
    BY <2>c, <2>2, <2>3 DEF Classified, Legal
  <2> QED
    BY <2>1, <2>4, OneSeen
<1> QED
  BY <1>1, <1>2

(* The session is claimed: the turn of the checked prompt is launched.     *)
LEMMA CreateLedger ==
  ASSUME IInv, IInv', NEW a \in Launchers, Create(a)
  PROVE  LedgerStep
<1>t. /\ at \in Places /\ arg \in [cmd : Optional, drain : Optional]
      /\ pc \in [Msgs -> Stages] /\ Offering /\ Working
  BY DEF IInv, TypeOK
<1>u. /\ at[a] = "emit" /\ pc' = [pc EXCEPT ![arg[a]] = "launch"]
      /\ at' = [at EXCEPT ![a] = IF a = "cmd" THEN "free" ELSE "receipt"]
      /\ UNCHANGED <<arg, queue, starting, text, asked, withdrawn, sent>>
  BY DEF Create, At, worker, history
<1>m. arg[a] \in Msgs /\ pc[arg[a]] \in {"none", "done"}
  BY <1>t, <1>u, Arguments DEF IInv, Launchers, Inside
<1> PICK m \in Msgs : m = arg[a]
  BY <1>m
<1>a. /\ a = "cmd" => at'.cmd = "free" /\ at'.drain = at.drain
      /\ a = "drain" => at'.cmd = at.cmd /\ at'.drain = "receipt" /\ starting = m
  BY <1>t, <1>u DEF Places, Working, Inside
<1>1. UNCHANGED <<text, sent, Writers>> /\ \A n \in Msgs : n # m => Unseen(n)
  BY <1>t, <1>u, <1>m, <1>a DEF Writers, Unseen, AtReceipt, Offered, Launchers
<1>c. Classified(m) /\ Classified(m)'
  BY Classes, ClassesNext
<1>2. StatusOf(m) \in {"offered", "held"}
  <2>1. CASE a = "cmd"
    BY <1>u, <1>c, <2>1 DEF Classified, Offered
  <2>2. CASE a = "drain"
    BY <1>u, <1>a, <1>c, <2>2 DEF Classified, AtReceipt
  <2> QED
    BY <2>1, <2>2 DEF Launchers
<1>3. StatusOf(m)' = "launched"
  BY <1>t, <1>u, <1>c DEF Classified
<1>4. <<StatusOf(m), StatusOf(m)'>> \in Legal
  BY <1>2, <1>3 DEF Legal
<1> QED
  BY <1>1, <1>4, OneSeen

(* The worker takes up the head of the queue, or nobody notices its step.  *)
LEMMA WorkerAdmittedLedger ==
  ASSUME IInv, IInv', NEW waiters, WorkerAdmitted(waiters), at.drain \in {"loop", "lock"},
         UNCHANGED <<pc, text, asked, withdrawn, sent>>
  PROVE  LedgerStep
<1>t. /\ at \in Places /\ arg \in [cmd : Optional, drain : Optional]
      /\ queue \in Seq(Msgs) /\ starting = "none" /\ "none" \notin Msgs
  BY Names DEF IInv, TypeOK, Working, Inside
<1>1. CASE Blocked \/ queue = <<>>
  <2>1. /\ UNCHANGED <<arg, queue, starting>>
        /\ at'.cmd = at.cmd /\ at'.drain = "loop"
    BY <1>t, <1>1 DEF WorkerAdmitted, At, Places
  <2>2. UNCHANGED <<text, sent, Writers>> /\ \A n \in Msgs : Unseen(n)
    BY <2>1 DEF Writers, Unseen, AtReceipt, Offered
  <2> QED
    BY <2>2, NothingSeen
<1>2. CASE ~Blocked /\ queue # <<>>
  <2>0. Head(queue) \in Msgs /\ Waits(queue, Head(queue))
    BY <1>t, <1>2, QueueFacts
  <2> PICK m \in Msgs : m = Head(queue) /\ Waits(queue, m)
    BY <2>0
  <2>1. /\ starting' = m /\ queue' = queue /\ arg' = [arg EXCEPT !.drain = m]
        /\ at' = [at EXCEPT !.drain = "preflight"]
    BY <1>2 DEF WorkerAdmitted, At
  <2>2. at'.cmd = at.cmd /\ at'.drain = "preflight" /\ arg'.cmd = arg.cmd
    BY <1>t, <2>1 DEF Places
  <2>3. UNCHANGED <<text, sent, Writers>> /\ \A n \in Msgs : n # m => Unseen(n)
    BY <1>t, <2>1, <2>2 DEF Writers, Unseen, AtReceipt, Offered
  <2>c. Classified(m) /\ Classified(m)'
    BY Classes, ClassesNext
  <2>4. StatusOf(m) = "waiting"
    BY <1>t, <2>c DEF Classified
  <2>5. starting' = m /\ ~AtReceipt(m)'
    BY <2>1, <2>2 DEF AtReceipt
  <2>6. <<StatusOf(m), StatusOf(m)'>> \in Legal
    BY <2>c, <2>4, <2>5 DEF Classified, Legal
  <2> QED
    BY <2>3, <2>6, OneSeen
<1> QED
  BY <1>1, <1>2

LEMMA WorkerQuietLedger ==
  ASSUME IInv, UNCHANGED <<arg, pc, queue, starting, text, asked, withdrawn, sent>>,
         at'.cmd = at.cmd, at.drain # "receipt", at'.drain # "receipt"
  PROVE  LedgerStep
<1>1. UNCHANGED <<text, sent, Writers>> /\ \A n \in Msgs : Unseen(n)
  BY DEF Writers, Unseen, AtReceipt, Offered
<1> QED
  BY <1>1, NothingSeen

LEMMA WorkerLoopLedger ==
  ASSUME IInv, IInv', WorkerLoop \/ WorkerLock
  PROVE  LedgerStep
<1>t. at \in Places
  BY DEF IInv, TypeOK
<1>u. at.drain \in {"loop", "lock"} /\ UNCHANGED <<pc, text, asked, withdrawn, sent>>
  BY DEF WorkerLoop, WorkerLock, history
<1>1. CASE WorkerAdmitted(<<>>) \/ WorkerAdmitted(Tail(qlock))
  BY <1>u, <1>1, WorkerAdmittedLedger
<1>2. CASE /\ UNCHANGED <<arg, queue, starting>>
           /\ At("drain", "none") \/ At("drain", "wait") \/ At("drain", "lock")
  <2>1. at'.cmd = at.cmd /\ at.drain # "receipt" /\ at'.drain # "receipt"
    BY <1>t, <1>u, <1>2 DEF At, Places
  <2> QED
    BY <1>u, <1>2, <2>1, WorkerQuietLedger
<1> QED
  BY <1>1, <1>2 DEF WorkerLoop, WorkerLock

(* A launch the worker's prompt was rejected from puts it back.            *)
LEMMA RejectedLedger ==
  ASSUME IInv, IInv', WorkerRejected
  PROVE  LedgerStep
<1>t. /\ at \in Places /\ queue \in Seq(Msgs) /\ "none" \notin Msgs
      /\ starting # "none" /\ Waits(queue, starting)
  BY Names DEF IInv, TypeOK, Working, Inside, WorkerRejected
<1>u. /\ at.drain = "rejected" /\ at'.cmd = at.cmd /\ at'.drain = "retry"
      /\ starting' = "none" /\ UNCHANGED <<arg, pc, queue, text, asked, withdrawn, sent>>
  BY <1>t DEF WorkerRejected, At, Places, turns, history
<1>1. starting \in Msgs
  BY <1>t, QueueFacts
<1> PICK m \in Msgs : m = starting
  BY <1>1
<1>2. UNCHANGED <<text, sent, Writers>> /\ \A n \in Msgs : n # m => Unseen(n)
  BY <1>t, <1>u DEF Writers, Unseen, AtReceipt, Offered
<1>c. Classified(m) /\ Classified(m)'
  BY Classes, ClassesNext
<1>3. StatusOf(m) = "held"
  BY <1>u, <1>c DEF Classified, AtReceipt
<1>4. Waits(queue', m) /\ starting' # m
  BY <1>t, <1>u
<1>5. <<StatusOf(m), StatusOf(m)'>> \in Legal
  BY <1>c, <1>3, <1>4 DEF Classified, Legal
<1> QED
  BY <1>2, <1>5, OneSeen

(* The receipt of a prompt that was not submitted: it goes on waiting, or  *)
(* its turn has failed for all to see.                                     *)
LEMMA ReceiptLedger ==
  ASSUME IInv, IInv', WorkerReceipt
  PROVE  LedgerStep
<1>t. /\ at \in Places /\ queue \in Seq(Msgs) /\ IsInjective(queue) /\ "none" \notin Msgs
      /\ at.drain = "receipt" /\ arg.drain \in Msgs
      /\ starting = arg.drain /\ Waits(queue, arg.drain)
  BY Names, Arguments DEF IInv, TypeOK, WorkerReceipt
<1> PICK m \in Msgs : m = arg.drain
  BY <1>t
<1>u. /\ receipt[m] # "none" /\ at'.cmd = at.cmd /\ at'.drain = "loop"
      /\ queue' = IF receipt[m] = "lost" THEN queue ELSE Without(queue, m)
      /\ starting' = "none" /\ UNCHANGED <<arg, pc, text, asked, withdrawn, sent>>
  BY <1>t DEF WorkerReceipt, At, Places, turns, history
<1>q. /\ \A n \in Msgs : n # m => (Waits(queue', n) <=> Waits(queue, n))
      /\ Waits(queue', m) <=> receipt[m] = "lost"
  BY <1>t, <1>u, OneLeaves, ZenonT(60) DEF Moved
<1>1. UNCHANGED <<text, sent, Writers>> /\ \A n \in Msgs : n # m => Unseen(n)
  BY <1>t, <1>u, <1>q DEF Writers, Unseen, AtReceipt, Offered
<1>p. /\ m \in asked \ withdrawn /\ pc[m] # "launch" /\ AtReceipt(m) /\ ~Offered(m)
  BY <1>t, <1>u DEF IInv, Prompts, PromptOK, Offering, Offered, AtReceipt
<1>c. Classified(m) /\ Classified(m)'
  BY Classes, ClassesNext
<1>2. CASE sent[m] # <<>>
  <2>1. StatusOf(m) = "submitted" /\ StatusOf(m)' = "submitted"
    BY <1>u, <1>p, <1>2 DEF StatusOf
  <2>2. \A n \in Msgs : StatusOf(n)' = StatusOf(n)
    BY <1>1, <2>1, UnseenKeeps
  <2> QED
    BY <1>1, <2>2, LedgerStutters DEF LedgerStep
<1>3. CASE sent[m] = <<>>
  <2>1. StatusOf(m) = "launched"
    BY <1>c, <1>p, <1>3 DEF Classified
  <2>2. CASE receipt[m] = "lost"
    <3>1. Waits(queue', m) /\ starting' # m
      BY <1>t, <1>u, <1>q, <2>2
    <3>2. <<StatusOf(m), StatusOf(m)'>> \in Legal
      BY <1>c, <2>1, <3>1 DEF Classified, Legal
    <3> QED
      BY <1>1, <3>2, OneSeen
  <2>3. CASE receipt[m] # "lost"
    <3>1. /\ m \in asked' \ withdrawn' /\ sent'[m] = <<>> /\ pc'[m] # "launch"
          /\ starting' # m /\ ~Offered(m)' /\ ~Waits(queue', m)
      BY <1>t, <1>u, <1>q, <1>p, <1>3, <2>3 DEF Offered
    <3>2. <<StatusOf(m), StatusOf(m)'>> \in Legal
      BY <1>c, <2>1, <3>1 DEF Classified, Legal
    <3> QED
      BY <1>1, <3>2, OneSeen
  <2> QED
    BY <2>2, <2>3
<1> QED
  BY <1>2, <1>3

LEMMA WorkerLedger ==
  ASSUME IInv, IInv', Worker
  PROVE  LedgerStep
<1>t. at \in Places
  BY DEF IInv, TypeOK
<1>1. CASE WorkerWake \/ WorkerRetry \/ Reject("drain") \/ Claim("drain")
  <2>1. /\ UNCHANGED <<arg, pc, queue, starting, text, asked, withdrawn, sent>>
        /\ at'.cmd = at.cmd /\ at.drain # "receipt" /\ at'.drain # "receipt"
    BY <1>t, <1>1 DEF WorkerWake, WorkerRetry, Reject, Claim, At, Places, turns, worker, history
  <2> QED
    BY <2>1, WorkerQuietLedger
<1>2. CASE Create("drain")
  BY <1>2, CreateLedger DEF Launchers
<1> QED
  BY <1>1, <1>2, WorkerLoopLedger, RejectedLedger, ReceiptLedger DEF Worker, Launcher

(* A deferred prompt is accepted, takes the place of another, or is        *)
(* refused; a repeated one changes nothing.                                *)
LEMMA EnqueueLedger ==
  ASSUME IInv, IInv', NEW m \in Msgs, Enqueue(m)
  PROVE  LedgerStep
<1>t. at \in Places /\ queue \in Seq(Msgs) /\ PromptOK(m) /\ TypeOK /\ Working
  BY DEF IInv, TypeOK, Prompts
<1>e. /\ at.cmd = "free" /\ asked' = asked \cup {m}
      /\ UNCHANGED <<arg, pc, starting, text, sent>>
  BY DEF Enqueue, turns
<1>a. at'.cmd = at.cmd /\ (at'.drain = "receipt" <=> at.drain = "receipt")
  <2>1. at' = at \/ \E q : Scheduled(q, FALSE)
    BY DEF Enqueue
  <2> QED
    BY <1>t, <2>1 DEF Scheduled, Places
<1>w. UNCHANGED <<text, sent, Writers>>
  BY <1>e DEF Writers
<1>x. \A n \in Msgs : n # m => (n \in asked' <=> n \in asked)
  BY <1>e
<1>c. \A n \in Msgs : Classified(n) /\ Classified(n)'
  BY Classes, ClassesNext
<1>s. ~Waits(queue, m) => starting # m
  BY <1>t, Names DEF Working
<1>1. CASE Waits(queue, m)
  <2>1. queue' = queue /\ withdrawn' = withdrawn /\ m \in asked
    BY <1>t, <1>1, EnqueueIs DEF PromptOK
  <2>2. asked' = asked
    BY <1>e, <2>1
  <2>3. \A n \in Msgs : Unseen(n)
    BY <1>e, <1>a, <2>1, <2>2 DEF Unseen, AtReceipt, Offered
  <2> QED
    BY <1>w, <2>3, NothingSeen
<1>2. CASE ~Waits(queue, m)
  <2>n. m \notin asked
    BY <1>2, EnqueueIs
  <2>1. StatusOf(m) = "new"
    BY <1>c, <2>n DEF Classified
  <2>o. ~Offered(m)'
    BY <1>e, <1>a DEF Offered
  <2>2. CASE starting \notin Old(m) /\ Len(Kept(m)) < MaxQueue
    <3> PICK old, kept : old = Old(m) /\ kept = Kept(m)
      OBVIOUS
    <3>1. /\ queue' = IF m \in Replacing THEN <<m>> \o kept ELSE Append(kept, m)
          /\ withdrawn' = withdrawn \cup old
      BY <1>2, <2>2, EnqueueIs
    <3>2. /\ kept \in Seq(Msgs) /\ IsInjective(kept) /\ ~Waits(kept, m)
          /\ \A n \in Msgs : Waits(kept, n) <=> Waits(queue, n) /\ n \notin old
          /\ old \subseteq Msgs /\ \A n \in old : Waits(queue, n)
      BY <1>t, <1>2, KeptIs
    <3>3. \A n \in Msgs : Waits(queue', n) <=> Waits(kept, n) \/ n = m
      <4>1. CASE m \in Replacing
        BY <3>1, <3>2, <4>1, GoesFirst
      <4>2. CASE m \notin Replacing
        BY <3>1, <3>2, <4>2, Joins DEF Moved
      <4> QED
        BY <4>1, <4>2
    <3>4. StatusOf(m)' = "waiting"
      <4>1. Waits(queue', m) /\ starting' # m
        BY <1>e, <1>2, <1>s, <3>3
      <4> QED
        BY <1>c, <4>1 DEF Classified
    <3>5. \A n \in Msgs : n # m /\ n \notin old => Unseen(n)
      BY <1>e, <1>a, <1>x, <3>1, <3>2, <3>3 DEF Unseen, AtReceipt, Offered
    <3>6. CASE old = {}
      <4>1. <<StatusOf(m), StatusOf(m)'>> \in Legal
        BY <2>1, <3>4 DEF Legal
      <4> QED
        BY <1>w, <3>5, <3>6, <4>1, OneSeen
    <3>7. CASE old # {}
      <4>1. PICK x \in old : TRUE
        BY <3>7
      <4>2. x \in Msgs /\ x # m /\ Waits(queue, x) /\ starting # x
        BY <1>2, <2>2, <3>2, <4>1
      <4>3. \A n \in old : n = x
        <5>1. old \subseteq Replacing
          BY DEF Old, Replaceable
        <5> QED
          BY <1>t, <3>2, <4>1, <5>1 DEF Working
      <4>4. StatusOf(x) = "waiting"
        BY <1>c, <4>2 DEF Classified
      <4>5. StatusOf(x)' = "withdrawn"
        <5>1. x \in withdrawn'
          BY <3>1, <4>1
        <5> QED
          BY <1>c, <4>2, <5>1 DEF Classified
      <4>6. \A n \in Msgs : n # m /\ n # x => StatusOf(n)' = StatusOf(n)
        BY <3>5, <4>3, UnseenKeeps
      <4>7. Ledger!Replace(m, x)
        BY <1>w, <2>1, <3>4, <4>2, <4>4, <4>5, <4>6 DEF Ledger!Replace, Writers
      <4> QED
        BY <4>2, <4>7 DEF Ledger!Next, LedgerStep
    <3> QED
      BY <3>6, <3>7
  <2>3. CASE ~(starting \notin Old(m) /\ Len(Kept(m)) < MaxQueue)
    <3>1. UNCHANGED <<queue, withdrawn>>
      BY <1>2, <2>3, EnqueueIs
    <3>2. \A n \in Msgs : n # m => Unseen(n)
      BY <1>e, <1>a, <1>x, <3>1 DEF Unseen, AtReceipt, Offered
    <3>3. /\ m \in asked' \ withdrawn' /\ sent'[m] = <<>> /\ pc'[m] # "launch"
          /\ starting' # m /\ ~Waits(queue', m)
      BY <1>t, <1>e, <1>2, <1>s, <2>n, <3>1 DEF PromptOK
    <3>4. <<StatusOf(m), StatusOf(m)'>> \in Legal
      BY <1>c, <2>1, <2>o, <3>3 DEF Classified, Legal
    <3> QED
      BY <1>w, <3>2, <3>4, OneSeen
  <2> QED
    BY <2>2, <2>3
<1> QED
  BY <1>1, <1>2

LEMMA CancelLedger ==
  ASSUME IInv, IInv', NEW m \in Msgs, Cancel(m)
  PROVE  LedgerStep
<1>t. queue \in Seq(Msgs) /\ IsInjective(queue)
  BY DEF IInv, TypeOK
<1>u. /\ Waits(queue, m) /\ m # starting
      /\ queue' = Without(queue, m) /\ withdrawn' = withdrawn \cup {m}
      /\ UNCHANGED <<at, arg, pc, starting, text, asked, sent>>
  BY DEF Cancel, turns
<1>q. \A n \in Msgs : n # m => (Waits(queue', n) <=> Waits(queue, n))
  BY <1>t, <1>u, OneLeaves DEF Moved
<1>1. UNCHANGED <<text, sent, Writers>> /\ \A n \in Msgs : n # m => Unseen(n)
  BY <1>u, <1>q DEF Writers, Unseen, AtReceipt, Offered
<1>c. Classified(m) /\ Classified(m)'
  BY Classes, ClassesNext
<1>2. StatusOf(m) = "waiting" /\ StatusOf(m)' = "withdrawn"
  BY <1>c, <1>u DEF Classified
<1>3. <<StatusOf(m), StatusOf(m)'>> \in Legal
  BY <1>2 DEF Legal
<1> QED
  BY <1>1, <1>3, OneSeen

LEMMA UpdateLedger ==
  ASSUME IInv, NEW m \in Msgs, Update(m)
  PROVE  LedgerStep
<1>t. at \in Places
  BY DEF IInv, TypeOK
<1>u. /\ Waits(queue, m) /\ m # starting /\ text[m] < MaxEdits
      /\ text' = [text EXCEPT ![m] = @ + 1] /\ Scheduled(queue, FALSE)
      /\ UNCHANGED <<arg, pc, queue, starting, asked, withdrawn, sent>>
  BY DEF Update, turns
<1>a. at'.cmd = at.cmd /\ (at'.drain = "receipt" <=> at.drain = "receipt")
  BY <1>t, <1>u DEF Scheduled, Places
<1>1. \A n \in Msgs : Unseen(n)
  BY <1>u, <1>a DEF Unseen, AtReceipt, Offered
<1>2. \A n \in Msgs : StatusOf(n)' = StatusOf(n)
  BY <1>1, UnseenKeeps
<1>3. StatusOf(m) = "waiting"
  BY <1>u, Classes DEF Classified
<1>4. Ledger!Edit(m)
  BY <1>u, <1>2, <1>3 DEF Ledger!Edit
<1> QED
  BY <1>4 DEF Ledger!Next, LedgerStep

LEMMA LedgerInit ==
  ASSUME Init
  PROVE  Ledger!Init
<1>1. \A m \in Msgs : StatusOf(m) = "new"
  BY InitIInv, Classes DEF Classified, Init
<1>2. /\ sent = [m \in Msgs |-> <<>>] /\ pc = [m \in Msgs |-> "none"]
      /\ text = [m \in Msgs |-> 0]
  BY DEF Init
<1> QED
  BY <1>1, <1>2 DEF Ledger!Init, Ledger!NoText

LEMMA NextLedger ==
  ASSUME IInv, IInv', [Next]_vars
  PROVE  LedgerStep
<1>1. CASE Command
  BY <1>1, CommandLedger, CreateLedger DEF Command, Launcher, Launchers
<1>2. CASE User
  BY <1>2, QueryLedger, EnqueueLedger, CancelLedger, UpdateLedger, ElsewhereLedger DEF User
<1>3. CASE UNCHANGED vars
  <2>1. UNCHANGED <<text, sent, Writers>> /\ \A n \in Msgs : Unseen(n)
    BY <1>3 DEF vars, turns, worker, history, Writers, Unseen, AtReceipt, Offered
  <2> QED
    BY <2>1, NothingSeen
<1> QED
  BY <1>1, <1>2, <1>3, TurnLedger, ElsewhereLedger, WorkerLedger DEF Next

(* Whatever runs concurrently, prompts are handled as PromptLedger says:   *)
(* each is submitted at most once, alone, with the text saved last, never  *)
(* after it was withdrawn, and none leaves the queue unnoticed             *)
(* (machine.py, _drain_query_queue, _handle_immediate_query, _run_turn and *)
(* the commands that change the queue).                                    *)
THEOREM ImplementsLedger == Spec => KeepsLedger
<1>1. Init => Ledger!Init
  BY LedgerInit
<1>2. IInv /\ IInv' /\ [Next]_vars => [Ledger!Next]_Ledger!vars
  BY NextLedger DEF LedgerStep
<1> QED
  BY <1>1, <1>2, Invariance, PTL DEF Spec, KeepsLedger, Ledger!Spec
=============================================================================
