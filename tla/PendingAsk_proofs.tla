-------------------------- MODULE PendingAsk_proofs --------------------------
(***************************************************************************)
(* Proofs about PendingAsk, for every number of askers, questions, model   *)
(* switches and clients, and however often callers cancel, the user        *)
(* interrupts, clients leave and turns end.                                *)
(***************************************************************************)
EXTENDS PendingAsk, FiniteSetTheorems, SequenceTheorems, TLAPS

-----------------------------------------------------------------------------
(* The inductive invariant.                                                *)

Places == {"new", "retire", "retiring", "lock", "register", "emit", "wait", "close",
           "closing", "done"}

(* Where an asker holds ask_lock, and where it holds emit_lock or waits.   *)
Holding == {"register", "emit", "wait", "close", "closing"}
InLine == {"lock"} \cup Holding
Emitters == {"retire", "retiring", "register", "emit", "close", "closing"}

DataOK ==
  /\ TypeOK
  /\ page \in [Askers -> Nat]
  /\ closing \in [ids : SUBSET Asked, why : Reasons \cup {"open"}]
  /\ lane \in [cmd : {"free", "answer", "hello", "interrupt"}, q : Asked \cup {None},
               by : SUBSET Clients]
  /\ lane.cmd = "hello" => \E c \in Clients : lane.by = {c}

(* ask_lock: no asker is in the queue twice, its first is the one that has *)
(* a question, and a batch that has begun keeps it.                        *)
AskLock ==
  /\ IsInjective(asklock)
  /\ \A p \in ToSet(asklock) : at[p] \in InLine
  /\ \A p \in Askers : at[p] \in Holding => Holds(asklock, p)
  /\ \A p \in Batches : page[p] > 1 /\ at[p] # "done" => at[p] \in Holding

(* emit_lock: who emits or closes is its first.                            *)
EmitLock ==
  /\ \A p \in Askers : Ask(p) \in ToSet(emitlock) => at[p] \in Emitters
  /\ Lane \in ToSet(emitlock) => lane # Idle
  /\ \A p \in Askers : at[p] \in {"retiring", "emit", "closing"} => Holds(emitlock, Ask(p))
  /\ closing # Nothing =>
       /\ closing.why # "open"
       /\ \/ Holds(emitlock, Lane)
          \/ \E p \in Askers : at[p] \in {"retiring", "closing"} /\ Holds(emitlock, Ask(p))
  /\ \A p \in Askers : at[p] \in {"retiring", "closing"} => closing # Nothing

(* Questions: what is open or being closed has its asker at it, and what   *)
(* an asker is at is open, being closed or has its result.                 *)
Questions ==
  /\ \A q \in pending :
       /\ at[q[1]] \in {"emit", "wait", "close"}
       /\ page[q[1]] = q[2] /\ result[q] = "open"
  /\ \A q \in closing.ids :
       /\ at[q[1]] \in {"wait", "close", "closing"}
       /\ page[q[1]] = q[2] /\ result[q] = "open" /\ q \notin pending
  /\ \A q \in Asked : result[q] # "open" =>
       \/ q[2] < page[q[1]]
       \/ q[2] = page[q[1]] /\ at[q[1]] \in {"wait", "close", "done"}
  /\ \A p \in Askers :
       at[p] \in {"emit", "wait", "close"} =>
         Q(p) \in pending \cup closing.ids \/ result[Q(p)] # "open"
  /\ \A p \in Askers : at[p] = "closing" => closing.ids = {Q(p)}

(* What the clients show, also while an emit is under way.                 *)
Screens ==
  \A c \in synced :
    /\ shown[c] # None => \/ shown[c] \in pending \cup closing.ids
                          \/ <<c, shown[c]>> \in lost
    /\ \A q \in pending :
         at[q[1]] # "emit" /\ Eligible(c, q) /\ <<c, q>> \notin lost => shown[c] = q

IInv ==
  DataOK /\ AskLock /\ EmitLock /\ Questions /\ StopsAsking /\ SameVerdict /\ Screens

-----------------------------------------------------------------------------
(* The queues for the locks.                                               *)

(* Queue r is what x made of queue q: nobody else came, nobody is in it    *)
(* twice, and who else held the lock still does.                           *)
Moved(S, q, r, x) ==
  /\ r \in Seq(S) /\ IsInjective(r) /\ ToSet(r) \subseteq ToSet(q) \cup {x}
  /\ \A y \in S : y # x /\ Holds(q, y) => Holds(r, y)

LEMMA Joins ==
  ASSUME NEW S, NEW q \in Seq(S), NEW x \in S, NEW r, Moved(S, q, r, x), x \notin ToSet(r)
  PROVE  /\ Moved(S, q, Append(r, x), x)
         /\ r = <<>> => Holds(Append(r, x), x)
<1> DEFINE a == Append(r, x)
           n == Len(r)
<1>m. r \in Seq(S) /\ IsInjective(r) /\ ToSet(r) \subseteq ToSet(q) \cup {x}
  BY DEF Moved
<1>1. /\ a \in Seq(S) /\ a # <<>> /\ Len(a) = n + 1 /\ n \in Nat
      /\ \A i \in 1..n : a[i] = r[i]
      /\ a[n + 1] = x
      /\ DOMAIN r = 1..n /\ DOMAIN a = 1..(n + 1)
  BY <1>m, AppendProperties, LenProperties
<1>h. r # <<>> => Head(a) = Head(r)
  BY <1>m, HeadTailAppend
<1>e. r = <<>> => Head(a) = x
  BY <1>m, <1>1
<1> HIDE DEF a, n
<1>2. \A i \in 1..(n + 1) : i \in 1..n \/ i = n + 1
  BY <1>1
<1>3. ToSet(a) \subseteq ToSet(q) \cup {x}
  BY <1>m, <1>1, <1>2 DEF ToSet
<1>4. IsInjective(a)
  <2> SUFFICES ASSUME NEW i \in 1..(n + 1), NEW j \in 1..(n + 1), a[i] = a[j]
               PROVE  i = j
    BY <1>1 DEF IsInjective
  <2> QED
    BY <1>m, <1>1, <1>2 DEF ToSet, IsInjective
<1>5. \A y \in S : y # x /\ Holds(q, y) => Holds(a, y)
  BY <1>1, <1>h DEF Moved, Holds
<1> QED
  BY <1>1, <1>3, <1>4, <1>5, <1>e DEF Moved, Holds, a

LEMMA Stays ==
  ASSUME NEW S, NEW q \in Seq(S), IsInjective(q), NEW x
  PROVE  Moved(S, q, q, x)
  BY DEF Moved

LEMMA FirstLeaves ==
  ASSUME NEW S, NEW q \in Seq(S), IsInjective(q), NEW x \in S, Holds(q, x)
  PROVE  Moved(S, q, Tail(q), x) /\ x \notin ToSet(Tail(q))
<1> DEFINE n == Len(q)
           t == Tail(q)
<1>1. /\ q # <<>> /\ t \in Seq(S) /\ n \in Nat /\ n > 0 /\ Len(t) = n - 1
      /\ \A i \in 1..(n - 1) : t[i] = q[i + 1]
      /\ DOMAIN q = 1..n /\ DOMAIN t = 1..(n - 1)
      /\ q[1] = x
  BY HeadTailProperties, LenProperties, EmptySeq DEF Holds
<1> HIDE DEF n, t
<1>2. 1 \in 1..n /\ \A i \in 1..(n - 1) : i + 1 \in 1..n /\ i + 1 # 1
  BY <1>1
<1>3. ToSet(t) \subseteq ToSet(q) /\ x \notin ToSet(t)
  <2>1. \A i \in 1..(n - 1) : t[i] = q[i + 1] /\ i + 1 \in 1..n /\ q[i + 1] # q[1]
    BY <1>1, <1>2 DEF IsInjective
  <2>2. ASSUME NEW e \in ToSet(t)
        PROVE  e \in ToSet(q) /\ e # x
    <3>1. PICK i \in 1..(n - 1) : e = t[i]
      BY <1>1, <2>2 DEF ToSet
    <3>2. i + 1 \in DOMAIN q /\ e = q[i + 1] /\ e # x
      BY <1>1, <2>1, <3>1
    <3> QED
      BY <3>2 DEF ToSet
  <2> QED
    BY <2>2
<1>4. IsInjective(t)
  <2> SUFFICES ASSUME NEW i \in 1..(n - 1), NEW j \in 1..(n - 1), t[i] = t[j]
               PROVE  i = j
    BY <1>1 DEF IsInjective
  <2>1. i + 1 = j + 1
    BY <1>1, <1>2 DEF IsInjective
  <2> QED
    BY <2>1
<1>5. \A y \in S : y # x => ~Holds(q, y)
  BY DEF Holds
<1> QED
  BY <1>1, <1>3, <1>4, <1>5 DEF Moved, t

LEMMA OneLeaves ==
  ASSUME NEW S, NEW q \in Seq(S), IsInjective(q), NEW x
  PROVE  Moved(S, q, Without(q, x), x) /\ x \notin ToSet(Without(q, x))
<1>1. CASE x \notin ToSet(q)
  BY <1>1, Stays DEF Without
<1>2. CASE x \in ToSet(q)
  <2> DEFINE k == CHOOSE i \in DOMAIN q : q[i] = x
             n == Len(q)
             a == SubSeq(q, 1, k - 1)
             b == SubSeq(q, k + 1, n)
             r == Without(q, x)
  <2>0. k \in DOMAIN q /\ q[k] = x
    BY <1>2 DEF ToSet
  <2>r. r = a \o b
    BY <1>2 DEF Without, RemoveAt
  <2> HIDE DEF k, r
  <2>1. /\ n \in Nat /\ DOMAIN q = 1..n /\ k \in 1..n /\ \A i \in 1..n : q[i] \in S
    BY <2>0, LenProperties, ElementOfSeq
  <2>2. /\ a \in Seq(S) /\ Len(a) = k - 1 /\ \A i \in 1..(k - 1) : a[i] = q[i]
    <3>1. 1 \in Int /\ k - 1 \in Int /\ \A i \in 1..(k - 1) : q[i] \in S
      BY <2>1
    <3>2. /\ a \in Seq(S) /\ Len(a) = (IF 1 <= k - 1 THEN k - 1 - 1 + 1 ELSE 0)
          /\ \A i \in 1..(k - 1 - 1 + 1) : a[i] = q[1 + i - 1]
      BY <3>1, SubSeqProperties
    <3> QED
      BY <2>1, <3>2
  <2>3. /\ b \in Seq(S) /\ Len(b) = n - k /\ \A i \in 1..(n - k) : b[i] = q[k + i]
    <3>1. k + 1 \in Int /\ n \in Int /\ \A i \in (k + 1)..n : q[i] \in S
      BY <2>1
    <3>2. /\ b \in Seq(S) /\ Len(b) = (IF k + 1 <= n THEN n - (k + 1) + 1 ELSE 0)
          /\ \A i \in 1..(n - (k + 1) + 1) : b[i] = q[k + 1 + i - 1]
      BY <3>1, SubSeqProperties
    <3> HIDE DEF b, n
    <3>3. Len(b) = n - k
      BY <2>1, <3>2
    <3>4. ASSUME NEW i \in 1..(n - k)
          PROVE  b[i] = q[k + i]
      <4>1. i \in 1..(n - (k + 1) + 1) /\ k + 1 + i - 1 = k + i
        BY <2>1
      <4> QED
        BY <3>2, <4>1
    <3> QED
      BY <3>2, <3>3, <3>4
  <2> HIDE DEF a, b, n
  <2> DEFINE at_(i) == IF i < k THEN i ELSE i + 1
  <2>4. /\ r \in Seq(S) /\ Len(r) = n - 1 /\ DOMAIN r = 1..(n - 1)
        /\ \A i \in 1..(n - 1) : r[i] = q[at_(i)]
    <3>1. /\ r \in Seq(S) /\ Len(r) = Len(a) + Len(b)
          /\ \A i \in 1..(Len(a) + Len(b)) : r[i] = IF i <= Len(a) THEN a[i] ELSE b[i - Len(a)]
      BY <2>2, <2>3, <2>r, ConcatProperties
    <3>2. Len(a) + Len(b) = n - 1
      BY <2>1, <2>2, <2>3
    <3>3. ASSUME NEW i \in 1..(n - 1)
          PROVE  r[i] = q[at_(i)]
      <4>1. CASE i < k
        <5>1. i <= Len(a) /\ i \in 1..(k - 1)
          BY <2>1, <2>2, <4>1
        <5> QED
          BY <2>2, <3>1, <3>2, <4>1, <5>1
      <4>2. CASE ~(i < k)
        <5>1. ~(i <= Len(a)) /\ i - Len(a) \in 1..(n - k) /\ k + (i - Len(a)) = i + 1
          BY <2>1, <2>2, <4>2
        <5> QED
          BY <2>3, <3>1, <3>2, <4>2, <5>1
      <4> QED
        BY <4>1, <4>2
    <3> QED
      BY <3>1, <3>2, <3>3, LenProperties
  <2>5. \A i, j \in 1..(n - 1) : at_(i) \in 1..n /\ at_(i) # k /\ (at_(i) = at_(j) => i = j)
    BY <2>1
  <2> HIDE DEF at_
  <2>6. ToSet(r) \subseteq ToSet(q) /\ x \notin ToSet(r)
    BY <2>0, <2>1, <2>4, <2>5 DEF ToSet, IsInjective
  <2>7. IsInjective(r)
    BY <2>1, <2>4, <2>5 DEF IsInjective
  <2>8. ASSUME NEW y \in S, y # x, Holds(q, y)
        PROVE  Holds(r, y)
    <3>1. k # 1 /\ q[1] = y
      BY <2>0, <2>8 DEF Holds
    <3>2. 1 \in 1..(n - 1) /\ at_(1) = 1
      BY <2>1, <3>1 DEF at_
    <3>3. r[1] = y /\ r # <<>>
      BY <2>4, <3>1, <3>2, EmptySeq
    <3> QED
      BY <2>4, <3>3 DEF Holds
  <2> QED
    BY <2>4, <2>6, <2>7, <2>8 DEF Moved, r
<1> QED
  BY <1>1, <1>2

-----------------------------------------------------------------------------
(* Questions and actors.                                                   *)

LEMMA AskedIs ==
  ASSUME NEW q
  PROVE  /\ q \in Asked <=>
              \E p \in Askers : \E n \in 1..Pages[p] : q = <<p, n>>
         /\ q \in Asked => /\ q = <<q[1], q[2]>> /\ q[1] \in Askers
                           /\ q[2] \in 1..Pages[q[1]] /\ q # None
<1>1. q \in Asked <=> \E p \in Askers : q \in {p} \X (1..Pages[p])
  BY DEF Asked
<1>2. \A p \in Askers : q \in {p} \X (1..Pages[p]) <=> \E n \in 1..Pages[p] : q = <<p, n>>
  OBVIOUS
<1>3. q \in Asked <=> \E p \in Askers : \E n \in 1..Pages[p] : q = <<p, n>>
  BY <1>1, <1>2
<1> SUFFICES ASSUME q \in Asked
             PROVE  /\ q = <<q[1], q[2]>> /\ q[1] \in Askers
                    /\ q[2] \in 1..Pages[q[1]] /\ q # None
  BY <1>3
<1>p. PICK p \in Askers : \E n \in 1..Pages[p] : q = <<p, n>>
  BY <1>3
<1>4. PICK n \in 1..Pages[p] : q = <<p, n>>
  BY <1>p
<1>5. q[1] = p /\ q[2] = n /\ Len(q) = 2 /\ Len(None) = 0
  BY <1>4 DEF None
<1> QED
  BY <1>4, <1>5

LEMMA PagesAre ==
  ASSUME NEW p \in Askers
  PROVE  /\ Pages[p] \in Nat \ {0} /\ 1 \in 1..Pages[p]
         /\ \A n \in 1..Pages[p] : n \in Nat /\ <<p, n>> \in Asked
<1>1. Pages[p] \in Nat \ {0}
  BY AskAssumption DEF AskAssumption
<1>2. 1 \in 1..Pages[p] /\ \A n \in 1..Pages[p] : n \in Nat
  BY <1>1
<1>3. \A n \in 1..Pages[p] : <<p, n>> \in Asked
  BY AskedIs
<1> QED
  BY <1>1, <1>2, <1>3

LEMMA ActorsAre ==
  /\ Lane \in Actors
  /\ \A p \in Askers : Ask(p) \in Actors /\ Ask(p) # Lane
  /\ \A p, y \in Askers : Ask(p) = Ask(y) => p = y
  /\ \A x \in Actors : x = Lane \/ \E p \in Askers : x = Ask(p)
<1>1. \A p \in Askers : Len(Ask(p)) = 2
  BY DEF Ask
<1>2. Len(Lane) = 1
  BY DEF Lane
<1>3. \A p, y \in Askers : Ask(p) = Ask(y) => p = y
  BY DEF Ask
<1> QED
  BY <1>1, <1>2, <1>3 DEF Actors

-----------------------------------------------------------------------------
(* What an asker's step does to its place in the queues.                   *)

Goes(p) ==
  /\ at[p] # "done" /\ at'[p] \in Places /\ at' = [at EXCEPT ![p] = at'[p]]
  /\ Moved(Askers, asklock, asklock', p)
  /\ p \in ToSet(asklock') => at'[p] \in InLine
  /\ at'[p] \in Holding => Holds(asklock', p)
  /\ Moved(Actors, emitlock, emitlock', Ask(p))
  /\ Ask(p) \in ToSet(emitlock') => at'[p] \in Emitters
  /\ at'[p] \in {"retiring", "emit", "closing"} => Holds(emitlock', Ask(p))

(* It stays with its question, or goes on to the next one.                 *)
PageStays(p) ==
  /\ page' = page
  /\ at[p] \in Holding => at'[p] \in Holding \cup {"done"}

PageTurns(p) ==
  /\ page' = [page EXCEPT ![p] = page[p] + 1] /\ page[p] < Pages[p]
  /\ at'[p] \in {"register", "lock"}
  /\ p \in Batches => at'[p] = "register"

(* What the invariant says of the queues and of one asker.                 *)
LEMMA Standing ==
  ASSUME IInv
  PROVE  /\ at \in [Askers -> Places]
         /\ page \in [Askers -> Nat]
         /\ asklock \in Seq(Askers) /\ IsInjective(asklock)
         /\ emitlock \in Seq(Actors) /\ IsInjective(emitlock)
         /\ \A p \in Askers :
              /\ at[p] \in Places
              /\ page[p] \in 1..Pages[p] /\ page[p] \in Nat /\ Q(p) \in Asked
              /\ p \in ToSet(asklock) => at[p] \in InLine
              /\ at[p] \in Holding => Holds(asklock, p)
              /\ Ask(p) \in ToSet(emitlock) => at[p] \in Emitters
              /\ at[p] \in {"retiring", "emit", "closing"} => Holds(emitlock, Ask(p))

<1>1. /\ at \in [Askers -> Places] /\ page \in [Askers -> Nat]
      /\ \A p \in Askers : page[p] \in 1..Pages[p]
      /\ asklock \in Seq(Askers) /\ emitlock \in Seq(Actors)
  BY DEF IInv, DataOK, TypeOK, Places
<1>2. IsInjective(emitlock)
  BY DEF IInv, DataOK, TypeOK, IsInjective
<1>3. \A p \in Askers : Q(p) \in Asked
  BY <1>1, PagesAre DEF Q
<1>4. IsInjective(asklock) /\ \A p \in ToSet(asklock) : at[p] \in InLine
  BY DEF IInv, AskLock
<1>5. \A p \in Askers : at[p] \in Holding => Holds(asklock, p)
  BY DEF IInv, AskLock
<1>6. \A p \in Askers :
        /\ Ask(p) \in ToSet(emitlock) => at[p] \in Emitters
        /\ at[p] \in {"retiring", "emit", "closing"} => Holds(emitlock, Ask(p))
  BY DEF IInv, EmitLock
<1>7. \A p \in Askers : at[p] \in Places /\ page[p] \in Nat
  BY <1>1
<1> HIDE DEF IInv
<1>8. \A p \in Askers : p \in ToSet(asklock) => at[p] \in InLine
  BY <1>4
<1> QED
  BY <1>1, <1>2, <1>3, <1>4, <1>5, <1>6, <1>7, <1>8

LEMMA Finishes ==
  ASSUME IInv, NEW p \in Askers, NEW what, Finish(p, what), at[p] # "done", page' = page,
         Moved(Actors, emitlock, emitlock', Ask(p)), Ask(p) \notin ToSet(emitlock')
  PROVE  Goes(p) /\ at'[p] = "done" /\ PageStays(p)
<1>1. at' = [at EXCEPT ![p] = "done"] /\ at \in [Askers -> Places]
  BY Standing DEF Finish, Goto
<1>2. at'[p] = "done" /\ "done" \in Places
  BY <1>1 DEF Places
<1>3. Moved(Askers, asklock, asklock', p) /\ p \notin ToSet(asklock')
  BY OneLeaves, Standing DEF Finish
<1> QED
  BY <1>1, <1>2, <1>3 DEF Goes, PageStays, Holding

LEMMA TakesAskLock ==
  ASSUME IInv, NEW p \in Askers, NEW waiters, NEW emitters, at[p] # "done",
         TakeAskLock(p, waiters, emitters),
         Moved(Askers, asklock, waiters, p), p \notin ToSet(waiters),
         Moved(Actors, emitlock, emitters, Ask(p)), Ask(p) \notin ToSet(emitters)
  PROVE  Goes(p) /\ at'[p] \in {"register", "lock"}
<1>1. /\ Moved(Askers, asklock, asklock', p)
      /\ waiters = <<>> => Holds(asklock', p)
  BY Joins, Standing DEF TakeAskLock
<1>2. Moved(Actors, emitlock, Append(emitters, Ask(p)), Ask(p))
  BY Joins, Standing, ActorsAre
<1>s. at \in [Askers -> Places]
  BY Standing
<1>3. CASE waiters = <<>>
  <2>1. at' = [at EXCEPT ![p] = "register"] /\ emitlock' = Append(emitters, Ask(p))
    BY <1>3 DEF TakeAskLock, Goto
  <2> QED
    BY <1>1, <1>2, <1>3, <1>s, <2>1 DEF Goes, Places, InLine, Holding, Emitters
<1>4. CASE waiters # <<>>
  <2>1. at' = [at EXCEPT ![p] = "lock"] /\ emitlock' = emitters
    BY <1>4 DEF TakeAskLock, Goto
  <2> QED
    BY <1>1, <1>s, <2>1 DEF Goes, Places, InLine, Holding, Emitters
<1> QED
  BY <1>3, <1>4

LEMMA Resumes ==
  ASSUME IInv, NEW p \in Askers, NEW emitters, NEW what, at[p] \in Holding,
         Resume(p, emitters, what),
         Moved(Actors, emitlock, emitters, Ask(p)), Ask(p) \notin ToSet(emitters)
  PROVE  /\ Goes(p)
         /\ \/ PageStays(p) /\ at'[p] = "done" /\ outcome' = [outcome EXCEPT ![p] = what]
            \/ PageTurns(p) /\ UNCHANGED outcome
<1>a. at[p] # "done" /\ Holds(asklock, p)
  BY Standing DEF Holding
<1>1. CASE what = "answered" /\ page[p] < Pages[p]
  <2>1. More(p, emitters) /\ UNCHANGED outcome
    BY <1>1 DEF Resume
  <2>2. page' = [page EXCEPT ![p] = page[p] + 1]
    BY <2>1 DEF More
  <2>3. CASE p \in Batches
    <3>1. /\ asklock' = asklock /\ emitlock' = Append(emitters, Ask(p))
          /\ at' = [at EXCEPT ![p] = "register"]
      BY <2>1, <2>3 DEF More, Goto
    <3>2. at'[p] = "register" /\ at \in [Askers -> Places]
      BY <3>1, Standing
    <3>3. Moved(Actors, emitlock, emitlock', Ask(p))
      BY <3>1, Joins, Standing, ActorsAre
    <3>4. Moved(Askers, asklock, asklock', p)
      BY <3>1, Stays, Standing
    <3> QED
      BY <1>1, <1>a, <2>1, <2>2, <3>1, <3>2, <3>3, <3>4
         DEF Goes, PageTurns, Places, InLine, Holding, Emitters
  <2>4. CASE p \notin Batches
    <3>1. TakeAskLock(p, Tail(asklock), emitters)
      BY <2>1, <2>4 DEF More
    <3>2. Moved(Askers, asklock, Tail(asklock), p) /\ p \notin ToSet(Tail(asklock))
      BY <1>a, FirstLeaves, Standing
    <3>3. Goes(p) /\ at'[p] \in {"register", "lock"}
      BY <1>a, <3>1, <3>2, TakesAskLock
    <3> QED
      BY <1>1, <2>1, <2>2, <2>4, <3>3 DEF PageTurns
  <2> QED
    BY <2>3, <2>4
<1>2. CASE ~(what = "answered" /\ page[p] < Pages[p])
  <2>1. Finish(p, what) /\ emitlock' = emitters /\ UNCHANGED page
    BY <1>2 DEF Resume
  <2> QED
    BY <1>a, <2>1, Finishes DEF Finish
<1> QED
  BY <1>1, <1>2

(* How an asker's place in one queue, and the other, moves.                *)
LEMMA Queues ==
  ASSUME IInv, NEW p \in Askers
  PROVE  /\ Moved(Askers, asklock, asklock, p)
         /\ Moved(Actors, emitlock, emitlock, Ask(p))
         /\ Holds(emitlock, Ask(p)) => /\ Moved(Actors, emitlock, Tail(emitlock), Ask(p))
                                       /\ Ask(p) \notin ToSet(Tail(emitlock))
         /\ at[p] \notin Emitters => /\ Moved(Actors, emitlock, Append(emitlock, Ask(p)), Ask(p))
                                     /\ Ask(p) \notin ToSet(emitlock)
         /\ at[p] \notin InLine => p \notin ToSet(asklock)
  BY Stays, FirstLeaves, Joins, Standing, ActorsAre

LEMMA StartGoes ==
  ASSUME IInv, NEW p \in Askers, Start(p)
  PROVE  Goes(p) /\ PageStays(p)
<1>1. at[p] = "new" /\ page' = page /\ at \in [Askers -> Places]
  BY Standing DEF Start
<1>2. PageStays(p)
  BY <1>1 DEF PageStays, Holding
<1>q. /\ Moved(Askers, asklock, asklock, p) /\ p \notin ToSet(asklock)
      /\ Moved(Actors, emitlock, emitlock, Ask(p)) /\ Ask(p) \notin ToSet(emitlock)
      /\ Moved(Actors, emitlock, Append(emitlock, Ask(p)), Ask(p))
  BY <1>1, Queues DEF Emitters, InLine, Holding
<1>3. CASE TakeAskLock(p, asklock, emitlock)
  BY <1>1, <1>2, <1>3, <1>q, TakesAskLock
<1>4. CASE ~TakeAskLock(p, asklock, emitlock)
  <2>1. /\ at' = [at EXCEPT ![p] = "retire"] /\ emitlock' = Append(emitlock, Ask(p))
        /\ asklock' = asklock
    BY <1>4 DEF Start, Goto, Confirm
  <2> QED
    BY <1>1, <1>2, <1>q, <2>1 DEF Goes, Places, InLine, Holding, Emitters
<1> QED
  BY <1>3, <1>4

LEMMA RetireGoes ==
  ASSUME IInv, NEW p \in Askers, Retire(p) \/ Retired(p)
  PROVE  Goes(p) /\ PageStays(p)
<1>1. /\ at[p] \in {"retire", "retiring"} /\ page' = page /\ at \in [Askers -> Places]
      /\ Holds(emitlock, Ask(p))
  BY Standing DEF Retire, Retired, Proceeds
<1>2. PageStays(p)
  BY <1>1 DEF PageStays, Holding
<1>q. /\ Moved(Askers, asklock, asklock, p) /\ p \notin ToSet(asklock)
      /\ Moved(Actors, emitlock, emitlock, Ask(p))
      /\ Moved(Actors, emitlock, Tail(emitlock), Ask(p)) /\ Ask(p) \notin ToSet(Tail(emitlock))
  BY <1>1, Queues DEF InLine, Holding
<1>3. CASE TakeAskLock(p, asklock, Tail(emitlock))
  BY <1>1, <1>2, <1>3, <1>q, TakesAskLock
<1>4. CASE ~TakeAskLock(p, asklock, Tail(emitlock))
  <2>1. at' = [at EXCEPT ![p] = "retiring"] /\ UNCHANGED <<emitlock, asklock>>
    BY <1>4 DEF Retire, Retired, Goto, Confirm
  <2> QED
    BY <1>1, <1>2, <1>q, <2>1 DEF Goes, Places, InLine, Holding, Emitters
<1> QED
  BY <1>3, <1>4

LEMMA LockedGoes ==
  ASSUME IInv, NEW p \in Askers, Locked(p)
  PROVE  Goes(p) /\ PageStays(p)
<1>1. /\ at[p] = "lock" /\ page' = page /\ at \in [Askers -> Places]
      /\ Holds(asklock, p)
  BY Standing DEF Locked, Admitted
<1>q. /\ Moved(Askers, asklock, asklock, p)
      /\ Moved(Actors, emitlock, emitlock, Ask(p)) /\ Ask(p) \notin ToSet(emitlock)
      /\ Moved(Actors, emitlock, Append(emitlock, Ask(p)), Ask(p))
  BY <1>1, Queues DEF Emitters, Holding
<1>3. CASE p \in Models /\ confirming # <<p, 1>>
  <2>1. Finish(p, "superseded") /\ emitlock' = emitlock
    BY <1>3 DEF Locked
  <2> QED
    BY <1>1, <1>q, <2>1, Finishes
<1>4. CASE ~(p \in Models /\ confirming # <<p, 1>>)
  <2>1. /\ at' = [at EXCEPT ![p] = "register"] /\ emitlock' = Append(emitlock, Ask(p))
        /\ asklock' = asklock
    BY <1>4 DEF Locked, Goto
  <2> QED
    BY <1>1, <1>q, <2>1 DEF Goes, PageStays, Places, InLine, Holding, Emitters
<1> QED
  BY <1>3, <1>4

LEMMA RegisterGoes ==
  ASSUME IInv, NEW p \in Askers, Register(p)
  PROVE  Goes(p) /\ PageStays(p)
<1>1. /\ at[p] = "register" /\ page' = page /\ at \in [Askers -> Places]
      /\ Holds(asklock, p) /\ Holds(emitlock, Ask(p))
  BY Standing DEF Register, Proceeds, Holding
<1>q. /\ Moved(Askers, asklock, asklock, p)
      /\ Moved(Actors, emitlock, emitlock, Ask(p))
      /\ Moved(Actors, emitlock, Tail(emitlock), Ask(p)) /\ Ask(p) \notin ToSet(Tail(emitlock))
  BY <1>1, Queues
<1>3. CASE Gated
  <2>1. Finish(p, "cancelled") /\ emitlock' = Tail(emitlock)
    BY <1>3 DEF Register
  <2> QED
    BY <1>1, <1>q, <2>1, Finishes
<1>4. CASE ~Gated
  <2>1. at' = [at EXCEPT ![p] = "emit"] /\ UNCHANGED <<asklock, emitlock>>
    BY <1>4 DEF Register, Goto
  <2> QED
    BY <1>1, <1>q, <2>1 DEF Goes, PageStays, Places, InLine, Holding, Emitters
<1> QED
  BY <1>3, <1>4

LEMMA WaitGoes ==
  ASSUME IInv, NEW p \in Askers, Emitted(p) \/ TimeUp(p)
  PROVE  Goes(p) /\ PageStays(p)
<1>1. /\ at[p] \in {"emit", "wait"} /\ page' = page /\ asklock' = asklock
      /\ at \in [Askers -> Places] /\ Holds(asklock, p)
  BY Standing DEF Emitted, TimeUp, Holding
<1>q. /\ Moved(Askers, asklock, asklock, p)
      /\ Holds(emitlock, Ask(p)) =>
           Moved(Actors, emitlock, Tail(emitlock), Ask(p)) /\ Ask(p) \notin ToSet(Tail(emitlock))
      /\ at[p] \notin Emitters => Moved(Actors, emitlock, Append(emitlock, Ask(p)), Ask(p))
  BY Queues
<1>3. CASE Emitted(p)
  <2>1. /\ at[p] = "emit" /\ Holds(emitlock, Ask(p)) /\ emitlock' = Tail(emitlock)
        /\ at' = [at EXCEPT ![p] = "wait"]
    BY <1>3, Standing DEF Emitted, Goto
  <2> QED
    BY <1>1, <1>q, <2>1 DEF Goes, PageStays, Places, InLine, Holding
<1>4. CASE TimeUp(p)
  <2>1. /\ at[p] = "wait" /\ emitlock' = Append(emitlock, Ask(p))
        /\ at' = [at EXCEPT ![p] = "close"]
    BY <1>4 DEF TimeUp, Goto
  <2> QED
    BY <1>1, <1>q, <2>1 DEF Goes, PageStays, Places, InLine, Holding, Emitters
<1> QED
  BY <1>3, <1>4

(* The asker is done with the outcome what, or turns to its next question. *)
Ends(p, what) ==
  \/ PageStays(p) /\ at'[p] = "done" /\ outcome' = [outcome EXCEPT ![p] = what]
  \/ PageTurns(p) /\ UNCHANGED outcome

LEMMA ResolvedGoes ==
  ASSUME IInv, NEW p \in Askers, Resolved(p)
  PROVE  Goes(p) /\ Ends(p, result[Q(p)])
<1>1. at[p] \in Holding /\ at[p] \notin Emitters /\ Resume(p, emitlock, result[Q(p)])
  BY DEF Resolved, Holding, Emitters
<1> QED
  BY <1>1, Queues, Resumes DEF Ends

LEMMA CloseOwnGoes ==
  ASSUME IInv, NEW p \in Askers, CloseOwn(p)
  PROVE  /\ Goes(p)
         /\ \/ at' = [at EXCEPT ![p] = "closing"] /\ PageStays(p) /\ UNCHANGED outcome
            \/ Q(p) \notin pending /\ Ends(p, Verdict(p, result))
<1>1. at[p] = "close" /\ at[p] \in Holding /\ Holds(emitlock, Ask(p)) /\ at \in [Askers -> Places]
  BY Standing DEF CloseOwn, Proceeds, Holding
<1>q. /\ Moved(Askers, asklock, asklock, p) /\ Holds(asklock, p)
      /\ Moved(Actors, emitlock, emitlock, Ask(p))
      /\ Moved(Actors, emitlock, Tail(emitlock), Ask(p)) /\ Ask(p) \notin ToSet(Tail(emitlock))
  BY <1>1, Queues, Standing
<1>3. CASE Q(p) \in pending
  <2>1. at' = [at EXCEPT ![p] = "closing"] /\ UNCHANGED <<page, outcome, asklock, emitlock>>
    BY <1>3 DEF CloseOwn, Goto
  <2> QED
    BY <1>1, <1>q, <2>1 DEF Goes, PageStays, Places, InLine, Holding, Emitters
<1>4. CASE Q(p) \notin pending
  <2>1. Resume(p, Tail(emitlock), Verdict(p, result))
    BY <1>4 DEF CloseOwn
  <2> QED
    BY <1>1, <1>4, <1>q, <2>1, Resumes DEF Ends
<1> QED
  BY <1>3, <1>4

LEMMA ClosedOwnGoes ==
  ASSUME IInv, NEW p \in Askers, ClosedOwn(p)
  PROVE  Goes(p) /\ Ends(p, Verdict(p, result'))
<1>1. /\ at[p] = "closing" /\ at[p] \in Holding /\ Holds(emitlock, Ask(p))
      /\ Resume(p, Tail(emitlock), Verdict(p, result'))
  BY Standing DEF ClosedOwn, Holding
<1> QED
  BY <1>1, Queues, Resumes DEF Ends

LEMMA CancelGoes ==
  ASSUME IInv, NEW p \in Askers, Cancel(p)
  PROVE  /\ Goes(p) /\ PageStays(p)
         /\ \/ at[p] \in {"lock", "register"} /\ at'[p] = "done"
            \/ at[p] \in {"emit", "wait", "close", "closing"} /\ at'[p] = "close"
<1>1. /\ at[p] \in {"lock", "register", "emit", "wait", "close", "closing"}
      /\ page' = page /\ at \in [Askers -> Places] /\ Abandoned(p)
  BY Standing DEF Cancel
<1> DEFINE e == Without(emitlock, Ask(p))
<1>2. Moved(Actors, emitlock, e, Ask(p)) /\ Ask(p) \notin ToSet(e)
  BY OneLeaves, Standing
<1>3. Moved(Actors, emitlock, Append(e, Ask(p)), Ask(p))
  BY <1>2, Joins, Standing, ActorsAre
<1>4. CASE at[p] \in {"lock", "register"}
  <2>1. Finish(p, "aborted") /\ emitlock' = e
    BY <1>1, <1>4 DEF Abandoned
  <2> HIDE DEF e
  <2> QED
    BY <1>1, <1>2, <1>4, <2>1, Finishes
<1>5. CASE at[p] \notin {"lock", "register"}
  <2>1. /\ emitlock' = Append(e, Ask(p)) /\ at' = [at EXCEPT ![p] = "close"]
        /\ asklock' = asklock
    BY <1>1, <1>5 DEF Abandoned, Goto
  <2>2. Moved(Askers, asklock, asklock, p) /\ Holds(asklock, p)
    BY <1>1, <1>5, Queues, Standing DEF Holding
  <2> HIDE DEF e
  <2> QED
    BY <1>1, <1>3, <1>5, <2>1, <2>2 DEF Goes, PageStays, Places, InLine, Holding, Emitters
<1> QED
  BY <1>4, <1>5

AskerStep(p) == Start(p) \/ AskStep(p) \/ Cancel(p)

LEMMA AskerGoes ==
  ASSUME IInv, NEW p \in Askers, AskerStep(p)
  PROVE  Goes(p) /\ (PageStays(p) \/ PageTurns(p))
  BY StartGoes, RetireGoes, LockedGoes, RegisterGoes, WaitGoes, ResolvedGoes, CloseOwnGoes,
     ClosedOwnGoes, CancelGoes DEF AskerStep, AskStep, Ends

(* No step but an asker's own concerns the askers or ask_lock.             *)
OthersStep ==
  \/ \E c \in Clients : Answer(c) \/ Disconnect(c) \/ TakeAnswer(c) \/ TakeHello(c)
  \/ TakeInterrupt \/ LaneStep
  \/ \E q \in Asked : Expire(q)
  \/ EndTurn \/ StartTurn
  \/ UNCHANGED vars

LEMMA Steps ==
  ASSUME [Next]_vars
  PROVE  OthersStep \/ \E p \in Askers : AskerStep(p)
  BY DEF Next, OthersStep, AskerStep

LEMMA OthersKeep ==
  ASSUME OthersStep
  PROVE  UNCHANGED <<asker, asklock, confirming>>
<1>1. CASE \E c \in Clients : Answer(c) \/ Disconnect(c) \/ TakeAnswer(c) \/ TakeHello(c)
  BY <1>1 DEF Answer, Disconnect, TakeAnswer, TakeHello, Take, asks, locks
<1>2. CASE TakeInterrupt
  BY <1>2 DEF TakeInterrupt, Take, asks
<1>3. CASE LaneStep
  BY <1>3 DEF LaneStep, HandleAnswer, HandleInterrupt, HandleHello, LaneClosed
<1>4. CASE (\E q \in Asked : Expire(q)) \/ EndTurn \/ StartTurn
  BY <1>4 DEF Expire, EndTurn, StartTurn, asks, locks
<1>5. CASE UNCHANGED vars
  BY <1>5 DEF vars, asks, locks
<1> QED
  BY <1>1, <1>2, <1>3, <1>4, <1>5 DEF OthersStep

(* The others' places and pages stay as they are.                          *)
LEMMA OthersRest ==
  ASSUME IInv, NEW p \in Askers, AskerStep(p)
  PROVE  /\ at' \in [Askers -> Places] /\ page' \in [Askers -> Nat]
         /\ \A y \in Askers : page'[y] \in 1..Pages[y]
         /\ \A y \in Askers \ {p} : at'[y] = at[y] /\ page'[y] = page[y] /\ Q(y)' = Q(y)
<1>1. /\ at \in [Askers -> Places] /\ page \in [Askers -> Nat]
      /\ \A y \in Askers : page[y] \in 1..Pages[y] /\ page[y] \in Nat /\ Pages[y] \in Nat
  BY Standing, PagesAre
<1>2. at' \in [Askers -> Places] /\ \A y \in Askers \ {p} : at'[y] = at[y]
  BY <1>1, AskerGoes DEF Goes
<1>3. page' = page \/ (page' = [page EXCEPT ![p] = page[p] + 1] /\ page[p] < Pages[p])
  <2>1. PageStays(p) \/ PageTurns(p)
    BY AskerGoes
  <2> QED
    BY <2>1 DEF PageStays, PageTurns
<1>4. page' \in [Askers -> Nat] /\ \A y \in Askers \ {p} : page'[y] = page[y]
  BY <1>1, <1>3
<1>5. page'[p] \in 1..Pages[p]
  BY <1>1, <1>3
<1> QED
  BY <1>1, <1>2, <1>4, <1>5 DEF Q

LEMMA AskLockStep ==
  ASSUME IInv, [Next]_vars
  PROVE  /\ at' \in [Askers -> Places] /\ page' \in [Askers -> Nat]
         /\ \A y \in Askers : page'[y] \in 1..Pages[y]
         /\ asklock' \in Seq(Askers) /\ AskLock'
<1>1. CASE OthersStep
  <2>1. UNCHANGED <<at, page, asklock>>
    BY <1>1, OthersKeep DEF asker
  <2>2. AskLock
    BY DEF IInv
  <2> QED
    BY <2>1, <2>2, Standing DEF AskLock, Holds
<1>2. ASSUME NEW p \in Askers, AskerStep(p)
      PROVE  /\ at' \in [Askers -> Places] /\ page' \in [Askers -> Nat]
             /\ \A y \in Askers : page'[y] \in 1..Pages[y]
             /\ asklock' \in Seq(Askers) /\ AskLock'
  <2>g. Goes(p) /\ (PageStays(p) \/ PageTurns(p))
    BY <1>2, AskerGoes
  <2>r. /\ at' \in [Askers -> Places] /\ page' \in [Askers -> Nat]
        /\ \A y \in Askers : page'[y] \in 1..Pages[y]
        /\ \A y \in Askers \ {p} : at'[y] = at[y] /\ page'[y] = page[y]
    BY <1>2, OthersRest
  <2>m. /\ asklock' \in Seq(Askers) /\ IsInjective(asklock')
        /\ ToSet(asklock') \subseteq ToSet(asklock) \cup {p}
        /\ \A y \in Askers : y # p /\ Holds(asklock, y) => Holds(asklock', y)
    BY <2>g DEF Goes, Moved
  <2>i. /\ \A y \in ToSet(asklock) : at[y] \in InLine
        /\ \A y \in Askers : at[y] \in Holding => Holds(asklock, y)
        /\ \A y \in Batches : page[y] > 1 /\ at[y] # "done" => at[y] \in Holding
    BY DEF IInv, AskLock
  <2>s. ToSet(asklock') \subseteq Askers
    BY <2>m, ElementOfSeq, LenProperties DEF ToSet
  <2>1. \A y \in ToSet(asklock') : at'[y] \in InLine
    BY <2>g, <2>r, <2>m, <2>i, <2>s DEF Goes
  <2>2. \A y \in Askers : at'[y] \in Holding => Holds(asklock', y)
    BY <2>g, <2>r, <2>m, <2>i DEF Goes
  <2>3. ASSUME NEW y \in Batches, page'[y] > 1, at'[y] # "done"
        PROVE  at'[y] \in Holding
    <3>1. y \in Askers
      BY AskAssumption DEF AskAssumption
    <3>2. CASE y # p
      BY <2>r, <2>i, <2>3, <3>1, <3>2
    <3>3. CASE y = p /\ PageStays(p)
      BY <2>g, <2>i, <2>3, <3>3 DEF Goes, PageStays
    <3>4. CASE y = p /\ PageTurns(p)
      BY <3>4 DEF PageTurns, Holding
    <3> QED
      BY <2>g, <3>2, <3>3, <3>4
  <2>4. Holds(asklock', p) <=> Holds(asklock, p)'
    BY DEF Holds
  <2> QED
    BY <2>r, <2>m, <2>1, <2>2, <2>3 DEF AskLock, Holds
<1> QED
  BY <1>1, <1>2, Steps

-----------------------------------------------------------------------------
(* What a step does to the questions: nothing, or it opens one, or begins  *)
(* to close some, or ends it.                                              *)

Closers == {"retiring", "closing"}

Still == UNCHANGED <<pending, result, closing>>

Opens(p) ==
  /\ pending' = pending \cup {Q(p)} /\ UNCHANGED <<result, closing>>
  /\ at[p] = "register" /\ at'[p] = "emit"
  /\ ~Emitting /\ Holds(emitlock, Ask(p)) /\ state # "interrupting"

Begins ==
  /\ ~Emitting /\ UNCHANGED result
  /\ \E ids \in SUBSET pending, why \in Reasons : BeginClose(ids, why)

Frees == Forget /\ UNCHANGED pending

AskerEffect(p) ==
  \/ Still /\ at[p] \notin Closers /\ at'[p] \notin Closers \cup {"emit"}
  \/ Opens(p)
  \/ /\ Begins /\ at[p] \in {"retire", "close"} /\ Holds(emitlock', Ask(p))
     /\ \/ at'[p] = "retiring"
        \/ at'[p] = "closing" /\ at[p] = "close" /\ closing'.ids = {Q(p)}
  \/ Frees /\ at[p] \in Closers /\ at'[p] \notin Closers

LEMMA ResumeStill ==
  ASSUME NEW p \in Askers, Goes(p), NEW what, Ends(p, what)
  PROVE  at'[p] \in {"done", "register", "lock"} /\ at'[p] \notin Closers \cup {"emit"}
  BY DEF Ends, PageTurns, Closers

LEMMA AskerHasEffect ==
  ASSUME IInv, NEW p \in Askers, AskerStep(p)
  PROVE  AskerEffect(p)
<1>g. at \in [Askers -> Places] /\ Goes(p)
  BY Standing, AskerGoes
<1>1. CASE Start(p)
  <2>1. at[p] = "new" /\ Still
    BY <1>1 DEF Start, Still
  <2>2. at'[p] \notin Closers \cup {"emit"}
    BY <1>1, <1>g DEF Start, Goto, Confirm, TakeAskLock, Closers
  <2> QED
    BY <2>1, <2>2 DEF AskerEffect, Closers
<1>2. CASE Retire(p)
  <2>1. CASE old[p] \in pending
    <3>1. BeginClose({old[p]}, "superseded") /\ Goto(p, "retiring") /\ result' = result
          /\ emitlock' = emitlock /\ Proceeds(Ask(p)) /\ at[p] = "retire"
      BY <1>2, <2>1 DEF Retire
    <3>2. {old[p]} \in SUBSET pending /\ "superseded" \in Reasons
      BY <2>1 DEF Reasons
    <3>3. Begins
      BY <3>1, <3>2 DEF Begins, Proceeds
    <3> QED
      BY <1>g, <3>1, <3>3 DEF AskerEffect, Goto, Proceeds
  <2>2. CASE old[p] \notin pending
    <3>1. Confirm(p, Tail(emitlock)) /\ Still /\ at[p] = "retire"
      BY <1>2, <2>2 DEF Retire, Still
    <3>2. at'[p] \in {"register", "lock"}
      BY <1>g, <3>1 DEF Confirm, TakeAskLock, Goto
    <3> QED
      BY <3>1, <3>2 DEF AskerEffect, Closers
  <2> QED
    BY <2>1, <2>2
<1>3. CASE Retired(p)
  <2>1. Confirm(p, Tail(emitlock)) /\ Frees /\ at[p] = "retiring"
    BY <1>3 DEF Retired, Frees, EndClose
  <2>2. at'[p] \in {"register", "lock"}
    BY <1>g, <2>1 DEF Confirm, TakeAskLock, Goto
  <2> QED
    BY <2>1, <2>2 DEF AskerEffect, Closers
<1>4. CASE Locked(p)
  <2>1. at[p] = "lock" /\ Still /\ at'[p] \in {"done", "register"}
    BY <1>4, <1>g DEF Locked, Still, Finish, Goto
  <2> QED
    BY <2>1 DEF AskerEffect, Closers
<1>5. CASE Register(p)
  <2>1. at[p] = "register" /\ UNCHANGED <<result, closing>> /\ Proceeds(Ask(p))
    BY <1>5 DEF Register
  <2>2. CASE Gated
    <3>1. at'[p] = "done" /\ pending' = pending
      BY <1>5, <1>g, <2>2 DEF Register, Finish, Goto
    <3> QED
      BY <2>1, <3>1 DEF AskerEffect, Still, Closers
  <2>3. CASE ~Gated
    <3>1. at'[p] = "emit" /\ pending' = pending \cup {Q(p)}
      BY <1>5, <1>g, <2>3 DEF Register, Goto
    <3> QED
      BY <2>1, <2>3, <3>1 DEF AskerEffect, Opens, Gated, Proceeds
  <2> QED
    BY <2>2, <2>3
<1>6. CASE Emitted(p) \/ TimeUp(p)
  <2>1. at[p] \in {"emit", "wait"} /\ Still /\ at'[p] \in {"wait", "close"}
    BY <1>6, <1>g DEF Emitted, TimeUp, asks, Goto, Still
  <2> QED
    BY <2>1 DEF AskerEffect, Closers
<1>7. CASE Resolved(p)
  <2>1. at[p] = "wait" /\ Still
    BY <1>7 DEF Resolved, Still
  <2> QED
    BY <1>7, <1>g, <2>1, ResolvedGoes, ResumeStill DEF AskerEffect, Closers
<1>8. CASE CloseOwn(p)
  <2>1. at[p] = "close" /\ UNCHANGED result
    BY <1>8 DEF CloseOwn
  <2>2. CASE Q(p) \in pending
    <3>1. /\ BeginClose({Q(p)}, IF p \in aborted THEN "cancelled" ELSE "timeout")
          /\ Goto(p, "closing") /\ emitlock' = emitlock /\ Proceeds(Ask(p))
      BY <1>8, <2>2 DEF CloseOwn
    <3>2. {Q(p)} \in SUBSET pending
          /\ (IF p \in aborted THEN "cancelled" ELSE "timeout") \in Reasons
      BY <2>2 DEF Reasons
    <3>3. Begins
      BY <2>1, <3>1, <3>2 DEF Begins, Proceeds
    <3>4. closing'.ids = {Q(p)} /\ at'[p] = "closing"
      BY <1>g, <3>1 DEF BeginClose, Goto
    <3> QED
      BY <2>1, <3>1, <3>3, <3>4 DEF AskerEffect, Proceeds
  <2>3. CASE Q(p) \notin pending
    <3>1. Still
      BY <1>8, <2>1, <2>3 DEF CloseOwn, Still
    <3>2. at'[p] \in {"done", "register", "lock"}
      <4>1. Resume(p, Tail(emitlock), Verdict(p, result))
        BY <1>8, <2>3 DEF CloseOwn
      <4> QED
        BY <1>g, <4>1 DEF Resume, More, Finish, TakeAskLock, Goto
    <3> QED
      BY <2>1, <3>1, <3>2 DEF AskerEffect, Closers
  <2> QED
    BY <2>2, <2>3
<1>9. CASE ClosedOwn(p)
  <2>1. at[p] = "closing" /\ Frees
    BY <1>9 DEF ClosedOwn, EndClose, Frees
  <2> QED
    BY <1>9, <1>g, <2>1, ClosedOwnGoes, ResumeStill DEF AskerEffect, Closers
<1>10. CASE Cancel(p)
  <2>1. pending' = pending /\ Abandoned(p)
        /\ at[p] \in {"lock", "register", "emit", "wait", "close", "closing"}
    BY <1>10 DEF Cancel
  <2>2. at'[p] \in {"done", "close"}
    BY <1>10, CancelGoes
  <2>3. CASE at[p] = "closing"
    <3>1. Forget
      BY <2>1, <2>3 DEF Abandoned
    <3> QED
      BY <2>1, <2>2, <2>3, <3>1 DEF AskerEffect, Frees, Closers
  <2>4. CASE at[p] # "closing"
    <3>1. UNCHANGED <<result, closing>>
      BY <2>1, <2>4 DEF Abandoned
    <3> QED
      BY <2>1, <2>2, <2>4, <3>1 DEF AskerEffect, Still, Closers
  <2> QED
    BY <2>3, <2>4
<1> QED
  BY <1>1, <1>2, <1>3, <1>4, <1>5, <1>6, <1>7, <1>8, <1>9, <1>10 DEF AskerStep, AskStep

LaneData ==
  /\ lane \in [cmd : {"free", "answer", "hello", "interrupt"}, q : Asked \cup {None},
               by : SUBSET Clients]
  /\ lane.cmd = "hello" => \E c \in Clients : lane.by = {c}

(* The lane's place in emit_lock, and what it does.                        *)
LaneGoes ==
  /\ Moved(Actors, emitlock, emitlock', Lane)
  /\ Lane \in ToSet(emitlock') => lane' # Idle
  /\ LaneData'

OthersEffect ==
  /\ LaneGoes
  /\ \/ /\ Still
        /\ closing # Nothing /\ Holds(emitlock, Lane) => Holds(emitlock', Lane)
     \/ Begins /\ Holds(emitlock', Lane)
     \/ Frees /\ Holds(emitlock, Lane)

LEMMA LaneStays ==
  ASSUME IInv, UNCHANGED <<lane, emitlock>>
  PROVE  LaneGoes
<1>1. LaneData /\ (Lane \in ToSet(emitlock) => lane # Idle)
  BY DEF IInv, DataOK, LaneData, EmitLock
<1>2. LaneData'
  BY <1>1 DEF LaneData
<1> QED
  BY <1>1, <1>2, Standing, Stays DEF LaneGoes

LEMMA LaneLeaves ==
  ASSUME IInv, LaneFree, Holds(emitlock, Lane)
  PROVE  LaneGoes
<1>1. Moved(Actors, emitlock, emitlock', Lane) /\ Lane \notin ToSet(emitlock')
  BY Standing, ActorsAre, FirstLeaves DEF LaneFree
<1>2. LaneData'
  BY DEF LaneFree, LaneData, Idle
<1> QED
  BY <1>1, <1>2 DEF LaneGoes

LEMMA HoldsIsIn ==
  ASSUME NEW S, NEW q \in Seq(S), NEW x, Holds(q, x)
  PROVE  x \in ToSet(q)
<1>1. q # <<>> /\ q[1] = x /\ DOMAIN q = 1..Len(q)
  BY LenProperties DEF Holds
<1>2. 1 \in DOMAIN q
  BY <1>1, LenProperties, EmptySeq
<1> QED
  BY <1>1, <1>2 DEF ToSet

LEMMA LaneTakes ==
  ASSUME IInv, NEW cmd \in {"answer", "hello", "interrupt"}, NEW q \in Asked \cup {None},
         NEW by \in SUBSET Clients, cmd = "hello" => \E c \in Clients : by = {c},
         Take(cmd, q, by)
  PROVE  LaneGoes /\ Still /\ ~Holds(emitlock, Lane)
<1>1. lane' = [cmd |-> cmd, q |-> q, by |-> by] /\ lane = Idle
      /\ emitlock' = Append(emitlock, Lane) /\ Still
  BY DEF Take, asks, Still
<1>2. Lane \notin ToSet(emitlock)
  BY <1>1 DEF IInv, EmitLock
<1>3. Moved(Actors, emitlock, emitlock', Lane)
  BY <1>1, <1>2, Standing, ActorsAre, Stays, Joins
<1>4. LaneData' /\ lane' # Idle
  BY <1>1 DEF LaneData, Idle
<1> QED
  BY <1>1, <1>2, <1>3, <1>4, HoldsIsIn, Standing, ActorsAre DEF LaneGoes

LEMMA OthersHaveEffect ==
  ASSUME IInv, OthersStep
  PROVE  OthersEffect
<1>t. reply \in [Clients -> Asked \cup {None}]
  BY DEF IInv, DataOK, TypeOK
<1>1. CASE \E c \in Clients : Answer(c) \/ Disconnect(c)
  BY <1>1, LaneStays DEF Answer, Disconnect, asks, locks, Still, OthersEffect
<1>2. CASE \E c \in Clients : TakeAnswer(c) \/ TakeHello(c)
  <2>1. PICK c \in Clients : TakeAnswer(c) \/ TakeHello(c)
    BY <1>2
  <2>2. Take("answer", reply[c], {c}) \/ Take("hello", None, {c})
    BY <2>1 DEF TakeAnswer, TakeHello
  <2>3. reply[c] \in Asked \cup {None} /\ {c} \in SUBSET Clients
    BY <1>t
  <2> QED
    BY <2>2, <2>3, LaneTakes DEF OthersEffect
<1>3. CASE TakeInterrupt
  <2>1. Take("interrupt", None, {})
    BY <1>3 DEF TakeInterrupt
  <2> QED
    BY <2>1, LaneTakes DEF OthersEffect
<1>4. CASE HandleAnswer
  <2>1. Proceeds(Lane) /\ UNCHANGED result
    BY <1>4 DEF HandleAnswer
  <2>2. CASE lane.q \in pending
    <3>1. /\ BeginClose({lane.q}, IF lane.q \in late THEN "timeout" ELSE "answered")
          /\ UNCHANGED <<lane, emitlock>>
      BY <1>4, <2>2 DEF HandleAnswer
    <3>2. /\ {lane.q} \in SUBSET pending
          /\ (IF lane.q \in late THEN "timeout" ELSE "answered") \in Reasons
      BY <2>2 DEF Reasons
    <3>3. Begins
      BY <2>1, <3>1, <3>2 DEF Begins, Proceeds
    <3> QED
      BY <2>1, <3>1, <3>3, LaneStays DEF OthersEffect, Proceeds
  <2>3. CASE lane.q \notin pending
    <3>1. LaneFree /\ Still
      BY <1>4, <2>3 DEF HandleAnswer, Still
    <3> QED
      BY <2>1, <3>1, LaneLeaves DEF OthersEffect, Proceeds, Emitting
  <2> QED
    BY <2>2, <2>3
<1>5. CASE HandleInterrupt
  <2>1. Proceeds(Lane) /\ UNCHANGED result
    BY <1>5 DEF HandleInterrupt
  <2>2. CASE state = "running" /\ pending # {}
    <3>1. BeginClose(pending, "cancelled") /\ UNCHANGED <<lane, emitlock>>
      BY <1>5, <2>2 DEF HandleInterrupt
    <3>3. Begins
      BY <2>1, <3>1 DEF Begins, Proceeds, Reasons
    <3> QED
      BY <2>1, <3>1, <3>3, LaneStays DEF OthersEffect, Proceeds
  <2>3. CASE ~(state = "running" /\ pending # {})
    <3>1. LaneFree /\ Still
      BY <1>5, <2>3 DEF HandleInterrupt, Still
    <3> QED
      BY <2>1, <3>1, LaneLeaves DEF OthersEffect, Proceeds, Emitting
  <2> QED
    BY <2>2, <2>3
<1>6. CASE HandleHello
  <2>1. Proceeds(Lane) /\ UNCHANGED result
    BY <1>6 DEF HandleHello
  <2>2. CASE pending \cap late # {}
    <3>1. BeginClose(pending \cap late, "timeout") /\ UNCHANGED <<lane, emitlock>>
      BY <1>6, <2>2 DEF HandleHello
    <3>2. pending \cap late \in SUBSET pending /\ "timeout" \in Reasons
      BY DEF Reasons
    <3>3. Begins
      BY <2>1, <3>1, <3>2 DEF Begins, Proceeds
    <3> QED
      BY <2>1, <3>1, <3>3, LaneStays DEF OthersEffect, Proceeds
  <2>3. CASE pending \cap late = {}
    <3>1. LaneFree /\ Still
      BY <1>6, <2>3 DEF HandleHello, Still, Seeded
    <3> QED
      BY <2>1, <3>1, LaneLeaves DEF OthersEffect, Proceeds, Emitting
  <2> QED
    BY <2>2, <2>3
<1>7. CASE LaneClosed
  <2>1. Holds(emitlock, Lane) /\ Frees /\ LaneFree
    BY <1>7 DEF LaneClosed, EndClose, Frees, Seeded
  <2> QED
    BY <2>1, LaneLeaves DEF OthersEffect
<1>8. CASE (\E q \in Asked : Expire(q)) \/ EndTurn \/ StartTurn
  BY <1>8, LaneStays DEF Expire, EndTurn, StartTurn, asks, locks, Still, OthersEffect
<1>9. CASE UNCHANGED vars
  BY <1>9, LaneStays DEF vars, asks, locks, Still, OthersEffect
<1> QED
  BY <1>1, <1>2, <1>3, <1>4, <1>5, <1>6, <1>7, <1>8, <1>9 DEF OthersStep, LaneStep

LEMMA AskersKeep ==
  ASSUME NEW p \in Askers, AskerStep(p)
  PROVE  UNCHANGED <<lane, state, synced, reply>>
<1>1. CASE Start(p)
  BY <1>1 DEF Start, client
<1>2. CASE Retire(p) \/ Retired(p)
  BY <1>2 DEF Retire, Retired, client
<1>3. CASE Locked(p) \/ Register(p) \/ Emitted(p) \/ Resolved(p) \/ TimeUp(p)
  BY <1>3 DEF Locked, Register, Emitted, Resolved, TimeUp, client
<1>4. CASE CloseOwn(p) \/ ClosedOwn(p) \/ Cancel(p)
  BY <1>4 DEF CloseOwn, ClosedOwn, Cancel, client
<1> QED
  BY <1>1, <1>2, <1>3, <1>4 DEF AskerStep, AskStep

LEMMA OneHolds ==
  ASSUME NEW q, NEW x, NEW y, Holds(q, x), Holds(q, y)
  PROVE  x = y
  BY DEF Holds

LEMMA BeginsToClose ==
  ASSUME IInv, Begins
  PROVE  /\ closing = Nothing /\ closing' # Nothing /\ closing'.why # "open"
         /\ closing' \in [ids : SUBSET Asked, why : Reasons \cup {"open"}]
         /\ closing'.ids \subseteq pending /\ pending' = pending \ closing'.ids
         /\ \A p \in Askers : at[p] \notin {"emit", "retiring", "closing"}
<1>1. PICK ids \in SUBSET pending, why \in Reasons : BeginClose(ids, why)
  BY DEF Begins
<1>2. pending \subseteq Asked
  BY DEF IInv, DataOK, TypeOK
<1>3. closing' = [ids |-> ids, why |-> why] /\ pending' = pending \ ids
  BY <1>1 DEF BeginClose
<1>4. closing = Nothing /\ \A p \in Askers : at[p] # "emit"
  BY DEF Begins, Emitting
<1>5. \A p \in Askers : at[p] \notin {"retiring", "closing"}
  BY <1>4 DEF IInv, EmitLock
<1> QED
  BY <1>2, <1>3, <1>4, <1>5 DEF Nothing, Reasons

(* The types of what is being closed and of the lane, and emit_lock.       *)
EmitLockIsOK ==
  /\ emitlock \in Seq(Actors) /\ IsInjective(emitlock) /\ LaneData
  /\ closing \in [ids : SUBSET Asked, why : Reasons \cup {"open"}]
  /\ EmitLock

LEMMA EmitLockStands ==
  ASSUME IInv
  PROVE  EmitLockIsOK
<1>1. /\ LaneData /\ closing \in [ids : SUBSET Asked, why : Reasons \cup {"open"}]
      /\ EmitLock
  BY DEF IInv, DataOK, LaneData
<1> QED
  BY <1>1, Standing DEF EmitLockIsOK

LEMMA EmitLockAskers ==
  ASSUME IInv, NEW p \in Askers, AskerStep(p)
  PROVE  EmitLockIsOK'
<1>a. EmitLockIsOK /\ AskerEffect(p) /\ Goes(p)
  BY EmitLockStands, AskerHasEffect, AskerGoes
<1>k. lane' = lane
  BY AskersKeep
<1>r. at' \in [Askers -> Places] /\ \A y \in Askers \ {p} : at'[y] = at[y]
  BY OthersRest
<1>m. /\ emitlock' \in Seq(Actors) /\ IsInjective(emitlock')
      /\ ToSet(emitlock') \subseteq ToSet(emitlock) \cup {Ask(p)}
      /\ \A y \in Actors : y # Ask(p) /\ Holds(emitlock, y) => Holds(emitlock', y)
  BY <1>a DEF Goes, Moved
<1>n. /\ Lane \in Actors /\ Lane # Ask(p)
      /\ \A y \in Askers \ {p} : Ask(y) \in Actors /\ Ask(y) # Ask(p)
  BY ActorsAre
<1>e. EmitLock
  BY <1>a DEF EmitLockIsOK
<1>1. \A y \in Askers : Ask(y) \in ToSet(emitlock') => at'[y] \in Emitters
  BY <1>a, <1>r, <1>m, <1>n, <1>e DEF Goes, EmitLock
<1>2. Lane \in ToSet(emitlock') => lane' # Idle
  BY <1>k, <1>m, <1>n, <1>e DEF EmitLock
<1>3. \A y \in Askers : at'[y] \in {"retiring", "emit", "closing"} => Holds(emitlock', Ask(y))
  BY <1>a, <1>r, <1>m, <1>n, <1>e DEF Goes, EmitLock
<1>4. LaneData'
  BY <1>a, <1>k DEF EmitLockIsOK, LaneData
<1>c. closing \in [ids : SUBSET Asked, why : Reasons \cup {"open"}]
  BY <1>a DEF EmitLockIsOK
<1>5. /\ closing' \in [ids : SUBSET Asked, why : Reasons \cup {"open"}]
      /\ closing' # Nothing =>
           /\ closing'.why # "open"
           /\ \/ Holds(emitlock', Lane)
              \/ \E y \in Askers : at'[y] \in Closers /\ Holds(emitlock', Ask(y))
      /\ \A y \in Askers : at'[y] \in Closers => closing' # Nothing
  <2>1. CASE closing' = closing /\ at[p] \notin Closers /\ at'[p] \notin Closers
    <3>1. ASSUME closing # Nothing
          PROVE  /\ closing.why # "open"
                 /\ \/ Holds(emitlock', Lane)
                    \/ \E y \in Askers : at'[y] \in Closers /\ Holds(emitlock', Ask(y))
      <4>1. closing.why # "open"
        BY <1>e, <3>1 DEF EmitLock
      <4>2. CASE Holds(emitlock, Lane)
        BY <1>m, <1>n, <4>1, <4>2
      <4>3. CASE \E y \in Askers : at[y] \in Closers /\ Holds(emitlock, Ask(y))
        BY <1>m, <1>n, <1>r, <2>1, <4>1, <4>3
      <4> QED
        BY <1>e, <3>1, <4>2, <4>3 DEF EmitLock, Closers
    <3>2. \A y \in Askers : at'[y] \in Closers => closing # Nothing
      BY <1>r, <1>e, <2>1 DEF EmitLock, Closers
    <3> QED
      BY <1>c, <2>1, <3>1, <3>2
  <2>2. CASE Begins /\ at'[p] \in Closers /\ Holds(emitlock', Ask(p))
    BY <2>2, BeginsToClose
  <2>3. CASE Frees /\ at[p] \in Closers /\ at'[p] \notin Closers
    <3>1. closing' = Nothing
      BY <2>3 DEF Frees, Forget
    <3>2. \A y \in Askers \ {p} : at[y] \notin Closers
      BY <1>e, <1>n, <2>3, OneHolds DEF EmitLock, Closers
    <3> QED
      BY <1>r, <2>3, <3>1, <3>2 DEF Nothing
  <2> QED
    BY <1>a, <2>1, <2>2, <2>3 DEF AskerEffect, Still, Opens, Closers
<1> QED
  BY <1>m, <1>1, <1>2, <1>3, <1>4, <1>5 DEF EmitLockIsOK, EmitLock, Closers, Holds

LEMMA EmitLockOthers ==
  ASSUME IInv, OthersStep
  PROVE  EmitLockIsOK'
<1>a. EmitLockIsOK /\ OthersEffect
  BY EmitLockStands, OthersHaveEffect
<1>k. at' = at
  BY OthersKeep DEF asker
<1>m. /\ emitlock' \in Seq(Actors) /\ IsInjective(emitlock')
      /\ ToSet(emitlock') \subseteq ToSet(emitlock) \cup {Lane}
      /\ \A y \in Actors : y # Lane /\ Holds(emitlock, y) => Holds(emitlock', y)
      /\ Lane \in ToSet(emitlock') => lane' # Idle
      /\ LaneData'
  BY <1>a DEF OthersEffect, LaneGoes, Moved
<1>n. \A y \in Askers : Ask(y) \in Actors /\ Ask(y) # Lane
  BY ActorsAre
<1>e. /\ EmitLock /\ closing \in [ids : SUBSET Asked, why : Reasons \cup {"open"}]
  BY <1>a DEF EmitLockIsOK
<1>1. \A y \in Askers : Ask(y) \in ToSet(emitlock') => at'[y] \in Emitters
  BY <1>k, <1>m, <1>n, <1>e DEF EmitLock
<1>3. \A y \in Askers : at'[y] \in {"retiring", "emit", "closing"} => Holds(emitlock', Ask(y))
  BY <1>k, <1>m, <1>n, <1>e DEF EmitLock
<1>5. /\ closing' \in [ids : SUBSET Asked, why : Reasons \cup {"open"}]
      /\ closing' # Nothing =>
           /\ closing'.why # "open"
           /\ \/ Holds(emitlock', Lane)
              \/ \E y \in Askers : at'[y] \in Closers /\ Holds(emitlock', Ask(y))
      /\ \A y \in Askers : at'[y] \in Closers => closing' # Nothing
  <2>1. CASE Still /\ closing = Nothing
    BY <1>k, <1>e, <2>1 DEF Still, EmitLock, Closers
  <2>2. CASE /\ Still /\ closing # Nothing
             /\ Holds(emitlock, Lane) => Holds(emitlock', Lane)
    BY <1>k, <1>m, <1>n, <1>e, <2>2 DEF Still, EmitLock, Closers
  <2>3. CASE Begins /\ Holds(emitlock', Lane)
    BY <1>k, <2>3, BeginsToClose
  <2>4. CASE Frees /\ Holds(emitlock, Lane)
    <3>1. closing' = Nothing
      BY <2>4 DEF Frees, Forget
    <3>2. \A y \in Askers : at[y] \notin Closers
      BY <1>e, <1>n, <2>4, OneHolds DEF EmitLock, Closers
    <3> QED
      BY <1>k, <3>1, <3>2 DEF Nothing
  <2> QED
    BY <1>a, <2>1, <2>2, <2>3, <2>4 DEF OthersEffect
<1> QED
  BY <1>m, <1>1, <1>3, <1>5 DEF EmitLockIsOK, EmitLock, Closers, Holds

-----------------------------------------------------------------------------
(* The questions, one by one.                                              *)

QuestionOK(q) ==
  /\ q \in pending =>
       /\ at[q[1]] \in {"emit", "wait", "close"}
       /\ page[q[1]] = q[2] /\ result[q] = "open"
  /\ q \in closing.ids =>
       /\ at[q[1]] \in {"wait", "close", "closing"}
       /\ page[q[1]] = q[2] /\ result[q] = "open" /\ q \notin pending
  /\ result[q] # "open" =>
       \/ q[2] < page[q[1]]
       \/ q[2] = page[q[1]] /\ at[q[1]] \in {"wait", "close", "done"}
  /\ page[q[1]] = q[2] /\ at[q[1]] \in {"emit", "wait", "close"} =>
       q \in pending \cup closing.ids \/ result[q] # "open"

LEMMA QuestionsAre ==
  ASSUME IInv
  PROVE  /\ \A q \in Asked : QuestionOK(q)
         /\ \A p \in Askers : at[p] = "closing" => closing.ids = {Q(p)}
         /\ \A q \in pending \cup closing.ids : q \in Asked
         /\ \A q \in closing.ids : closing.why # "open"
         /\ result \in [Asked -> Reasons \cup {"open"}]
<1>1. /\ pending \subseteq Asked /\ closing.ids \subseteq Asked
      /\ result \in [Asked -> Reasons \cup {"open"}]
  BY DEF IInv, DataOK, TypeOK
<1>2. ASSUME NEW q \in Asked
      PROVE  QuestionOK(q)
  <2>1. q[1] \in Askers /\ q = <<q[1], q[2]>>
    BY AskedIs
  <2>2. page[q[1]] = q[2] => Q(q[1]) = q
    BY <2>1 DEF Q
  <2> QED
    BY <2>1, <2>2 DEF IInv, Questions, QuestionOK
<1>3. \A p \in Askers : at[p] = "closing" => closing.ids = {Q(p)}
  BY DEF IInv, Questions
<1>4. \A q \in closing.ids : closing.why # "open"
  BY DEF IInv, EmitLock, Nothing
<1> QED
  BY <1>1, <1>2, <1>3, <1>4

(* A question of an asker that rests.                                      *)
LEMMA RestingQuestion ==
  ASSUME IInv, NEW q \in Asked, at'[q[1]] = at[q[1]], page'[q[1]] = page[q[1]],
         \/ Still
         \/ \E p \in Askers : p # q[1] /\ Opens(p)
         \/ Begins
         \/ Frees /\ at[q[1]] # "closing"
  PROVE  QuestionOK(q)'
<1>0. /\ QuestionOK(q) /\ (q \in closing.ids => closing.why # "open")
      /\ result \in [Asked -> Reasons \cup {"open"}]
  BY QuestionsAre
<1>1. CASE Still
  BY <1>0, <1>1 DEF Still, QuestionOK
<1>2. CASE \E p \in Askers : p # q[1] /\ Opens(p)
  <2>1. PICK p \in Askers : p # q[1] /\ Opens(p)
    BY <1>2
  <2>2. q # Q(p)
    BY <2>1 DEF Q
  <2>3. UNCHANGED <<result, closing>> /\ (q \in pending' <=> q \in pending)
    BY <2>1, <2>2 DEF Opens
  <2> QED
    BY <1>0, <2>3 DEF QuestionOK
<1>3. CASE Begins
  <2>1. /\ closing = Nothing /\ closing'.ids \subseteq pending /\ result' = result
        /\ pending' = pending \ closing'.ids
    BY <1>3, BeginsToClose DEF Begins
  <2>2. at[q[1]] # "emit"
    BY <1>3, AskedIs DEF Begins, Emitting
  <2> QED
    BY <1>0, <2>1, <2>2 DEF QuestionOK, Nothing
<1>4. CASE Frees /\ at[q[1]] # "closing"
  <2>1. /\ closing'.ids = {} /\ pending' = pending
        /\ result'[q] = IF q \in closing.ids /\ result[q] = "open" THEN closing.why
                        ELSE result[q]
    BY <1>4 DEF Frees, Forget, Released, Nothing
  <2> QED
    BY <1>0, <1>4, <2>1 DEF QuestionOK
<1> QED
  BY <1>1, <1>2, <1>3, <1>4

(* Where an asker can go, and what becomes of its question.                *)
AskerMoves(p) ==
  \/ /\ at[p] \in {"new", "retire", "retiring"} /\ page'[p] = page[p]
     /\ at'[p] \in {"retire", "retiring", "register", "lock"}
  \/ at[p] = "lock" /\ at'[p] \in {"register", "done"} /\ page'[p] = page[p]
  \/ at[p] = "register" /\ at'[p] \in {"emit", "done"} /\ page'[p] = page[p]
  \/ at[p] \in {"emit", "wait", "close"} /\ at'[p] \in {"wait", "close"} /\ page'[p] = page[p]
  \/ at[p] = "close" /\ at'[p] = "closing" /\ page'[p] = page[p]
  \/ at[p] = "closing" /\ at'[p] = "close" /\ page'[p] = page[p]
  \/ /\ at[p] \in {"wait", "close", "closing"}
     /\ Q(p) \notin pending /\ (at[p] # "closing" => Q(p) \notin closing.ids)
     /\ \/ at'[p] = "done" /\ page'[p] = page[p]
        \/ at'[p] \in {"register", "lock"} /\ page'[p] = page[p] + 1

LEMMA AskerDoesMove ==
  ASSUME IInv, NEW p \in Askers, AskerStep(p)
  PROVE  AskerMoves(p)
<1>s. /\ at \in [Askers -> Places] /\ page \in [Askers -> Nat]
      /\ QuestionOK(Q(p)) /\ Q(p)[1] = p /\ Q(p)[2] = page[p]
      /\ at[p] = "closing" => closing.ids = {Q(p)}
  BY Standing, QuestionsAre DEF Q
<1>1. CASE Start(p)
  BY <1>1, <1>s, StartGoes DEF Start, Goto, Confirm, TakeAskLock, AskerMoves
<1>2. CASE Retire(p) \/ Retired(p)
  BY <1>2, <1>s DEF Retire, Retired, Goto, Confirm, TakeAskLock, AskerMoves
<1>3. CASE Locked(p) \/ Register(p)
  BY <1>3, <1>s DEF Locked, Register, Goto, Finish, AskerMoves
<1>4. CASE Emitted(p) \/ TimeUp(p)
  BY <1>4, <1>s DEF Emitted, TimeUp, Goto, AskerMoves
<1>5. ASSUME NEW what, Ends(p, what)
      PROVE  \/ at'[p] = "done" /\ page'[p] = page[p]
             \/ at'[p] \in {"register", "lock"} /\ page'[p] = page[p] + 1
  BY <1>s, <1>5 DEF Ends, PageStays, PageTurns
<1>6. CASE Resolved(p)
  <2>1. at[p] = "wait" /\ Q(p) \notin pending /\ Q(p) \notin closing.ids
    BY <1>6, <1>s DEF Resolved, QuestionOK
  <2> QED
    BY <1>5, <1>6, <2>1, ResolvedGoes DEF AskerMoves
<1>7. CASE CloseOwn(p)
  <2>1. at[p] = "close" /\ Q(p) \notin closing.ids
    BY <1>7 DEF CloseOwn, Proceeds, Emitting, Nothing
  <2>2. CASE at' = [at EXCEPT ![p] = "closing"] /\ PageStays(p)
    BY <1>s, <2>1, <2>2 DEF PageStays, AskerMoves
  <2>3. CASE Q(p) \notin pending /\ Ends(p, Verdict(p, result))
    BY <1>5, <2>1, <2>3 DEF AskerMoves
  <2> QED
    BY <1>7, <2>2, <2>3, CloseOwnGoes
<1>8. CASE ClosedOwn(p)
  <2>1. at[p] = "closing" /\ Q(p) \notin pending
    BY <1>8, <1>s DEF ClosedOwn, QuestionOK
  <2> QED
    BY <1>5, <1>8, <2>1, ClosedOwnGoes DEF AskerMoves
<1>9. CASE Cancel(p)
  <2>1. page' = page
    BY <1>9 DEF Cancel
  <2> QED
    BY <1>9, <2>1, CancelGoes DEF AskerMoves
<1> QED
  BY <1>1, <1>2, <1>3, <1>4, <1>6, <1>7, <1>8, <1>9 DEF AskerStep, AskStep

(* A question of the asker that moves.                                     *)
LEMMA OwnQuestion ==
  ASSUME IInv, NEW p \in Askers, AskerEffect(p), AskerMoves(p), page'[p] \in Nat,
         NEW q \in Asked, q[1] = p
  PROVE  QuestionOK(q)'
<1>0. /\ QuestionOK(q) /\ QuestionOK(Q(p)) /\ (q \in closing.ids => closing.why # "open")
      /\ result \in [Asked -> Reasons \cup {"open"}]
      /\ page[p] \in Nat /\ q[2] \in Nat /\ (at[p] = "closing" => closing.ids = {Q(p)})
      /\ Q(p)[1] = p /\ Q(p)[2] = page[p] /\ (q = Q(p) <=> q[2] = page[p])
  <2>1. q = <<q[1], q[2]>> /\ q[1] \in Askers /\ q[2] \in Nat
    BY AskedIs, PagesAre
  <2> QED
    BY <2>1, QuestionsAre, Standing DEF Q
<1>1. CASE Still /\ at[p] \notin Closers /\ at'[p] \notin Closers \cup {"emit"}
  <2>1. pending' = pending /\ closing' = closing /\ result' = result
    BY <1>1 DEF Still
  <2> QED
    BY <1>0, <1>1, <2>1 DEF AskerMoves, QuestionOK, Closers
<1>2. CASE Opens(p)
  <2>1. /\ pending' = pending \cup {Q(p)} /\ closing' = closing /\ result' = result
        /\ at[p] = "register" /\ at'[p] = "emit"
    BY <1>2 DEF Opens
  <2>2. page'[p] = page[p]
    BY <2>1 DEF AskerMoves
  <2> QED
    BY <1>0, <2>1, <2>2 DEF QuestionOK
<1>3. CASE /\ Begins /\ at[p] \in {"retire", "close"}
           /\ \/ at'[p] = "retiring"
              \/ at'[p] = "closing" /\ at[p] = "close" /\ closing'.ids = {Q(p)}
  <2>1. /\ closing.ids = {} /\ closing'.ids \subseteq pending /\ result' = result
        /\ pending' = pending \ closing'.ids
    BY <1>3, BeginsToClose DEF Begins, Nothing
  <2>2. page'[p] = page[p] /\ (at'[p] = "retiring" => at[p] = "retire")
    BY <1>3 DEF AskerMoves
  <2> QED
    BY <1>0, <1>3, <2>1, <2>2 DEF QuestionOK
<1>4. CASE Frees /\ at[p] \in Closers /\ at'[p] \notin Closers
  <2>1. /\ closing'.ids = {} /\ pending' = pending
        /\ result'[q] = IF q \in closing.ids /\ result[q] = "open" THEN closing.why
                        ELSE result[q]
    BY <1>4 DEF Frees, Forget, Released, Nothing
  <2> QED
    BY <1>0, <1>4, <2>1 DEF QuestionOK, AskerMoves, Closers
<1> QED
  BY <1>1, <1>2, <1>3, <1>4 DEF AskerEffect

(* The questions together, with the types of pending and result.           *)
QuestionsOK ==
  /\ pending \subseteq Asked /\ result \in [Asked -> Reasons \cup {"open"}]
  /\ Questions

LEMMA OneByOne ==
  ASSUME pending' \subseteq Asked, closing'.ids \subseteq Asked,
         \A q \in Asked : QuestionOK(q)',
         \A y \in Askers : page'[y] \in 1..Pages[y],
         \A y \in Askers : at'[y] = "closing" => closing'.ids = {Q(y)'}
  PROVE  Questions'
<1>1. \A y \in Askers : Q(y)' \in Asked /\ Q(y)'[1] = y /\ Q(y)'[2] = page'[y]
  BY PagesAre DEF Q
<1> QED
  BY <1>1 DEF Questions, QuestionOK

LEMMA TypesOfEffects ==
  ASSUME IInv, Still \/ Begins \/ Frees \/ \E p \in Askers : Opens(p)
  PROVE  pending' \subseteq Asked /\ result' \in [Asked -> Reasons \cup {"open"}]
<1>1. /\ pending \subseteq Asked /\ result \in [Asked -> Reasons \cup {"open"}]
      /\ closing.why \in Reasons \cup {"open"}
  BY DEF IInv, DataOK, TypeOK
<1>2. pending' \subseteq Asked
  BY <1>1, BeginsToClose, Standing DEF Still, Frees, Opens
<1>3. result' = result \/ result' = Released
  BY DEF Still, Begins, Frees, Forget, Opens
<1>4. Released \in [Asked -> Reasons \cup {"open"}]
  BY <1>1 DEF Released
<1> QED
  BY <1>1, <1>2, <1>3, <1>4

LEMMA QuestionsAskers ==
  ASSUME IInv, NEW p \in Askers, AskerStep(p)
  PROVE  QuestionsOK'
<1>a. AskerEffect(p) /\ AskerMoves(p) /\ EmitLockIsOK' /\ EmitLockIsOK
  BY AskerHasEffect, AskerDoesMove, EmitLockAskers, EmitLockStands
<1>r. /\ \A y \in Askers : page'[y] \in 1..Pages[y] /\ page'[y] \in Nat
      /\ \A y \in Askers \ {p} : at'[y] = at[y] /\ page'[y] = page[y] /\ Q(y)' = Q(y)
  BY OthersRest, PagesAre
<1>t. pending' \subseteq Asked /\ result' \in [Asked -> Reasons \cup {"open"}]
  BY <1>a, TypesOfEffects DEF AskerEffect
<1>c. closing'.ids \subseteq Asked
  BY <1>a DEF EmitLockIsOK
<1>h. \A y \in Askers \ {p} : at[p] \in Closers => at[y] # "closing"
  BY <1>a, ActorsAre, OneHolds DEF EmitLockIsOK, EmitLock, Closers
<1>1. ASSUME NEW q \in Asked
      PROVE  QuestionOK(q)'
  <2>1. CASE q[1] = p
    BY <1>a, <1>r, <2>1, OwnQuestion
  <2>2. CASE q[1] # p
    <3>1. q[1] \in Askers /\ at'[q[1]] = at[q[1]] /\ page'[q[1]] = page[q[1]]
      BY <1>r, <2>2, AskedIs
    <3>2. \/ Still \/ Opens(p) \/ Begins
          \/ Frees /\ at[q[1]] # "closing"
      BY <1>a, <1>h, <2>2, <3>1 DEF AskerEffect
    <3> QED
      BY <2>2, <3>1, <3>2, RestingQuestion
  <2> QED
    BY <2>1, <2>2
<1>2. ASSUME NEW y \in Askers, at'[y] = "closing"
      PROVE  closing'.ids = {Q(y)'}
  <2>1. CASE y = p
    <3>1. at[p] = "close" /\ page'[p] = page[p]
      BY <1>2, <2>1, <1>a DEF AskerMoves
    <3>2. closing'.ids = {Q(p)}
      BY <1>2, <2>1, <1>a, <3>1 DEF AskerEffect, Closers, Opens
    <3> QED
      BY <2>1, <3>1, <3>2 DEF Q
  <2>2. CASE y # p
    <3>1. at[y] = "closing" /\ Q(y)' = Q(y) /\ at[p] \notin Closers
      BY <1>2, <1>r, <1>h, <2>2
    <3>2. closing.ids = {Q(y)} /\ ~Begins
      BY <3>1, QuestionsAre, BeginsToClose
    <3>3. closing' = closing
      BY <1>a, <3>1, <3>2 DEF AskerEffect, Still, Opens
    <3> QED
      BY <3>1, <3>2, <3>3
  <2> QED
    BY <2>1, <2>2
<1>3. Questions'
  BY <1>1, <1>2, <1>r, <1>t, <1>c, OneByOne
<1> QED
  BY <1>t, <1>3 DEF QuestionsOK

LEMMA QuestionsOthers ==
  ASSUME IInv, OthersStep
  PROVE  QuestionsOK'
<1>a. OthersEffect /\ EmitLockIsOK' /\ EmitLockIsOK
  BY OthersHaveEffect, EmitLockOthers, EmitLockStands
<1>k. UNCHANGED <<at, page>> /\ \A y \in Askers : Q(y)' = Q(y)
  BY OthersKeep DEF asker, Q
<1>t. pending' \subseteq Asked /\ result' \in [Asked -> Reasons \cup {"open"}]
  BY <1>a, TypesOfEffects DEF OthersEffect
<1>c. closing'.ids \subseteq Asked
  BY <1>a DEF EmitLockIsOK
<1>h. Frees => \A y \in Askers : at[y] # "closing"
  <2>1. ASSUME Frees, NEW y \in Askers, at[y] = "closing"
        PROVE  FALSE
    <3>1. Holds(emitlock, Ask(y)) /\ closing # Nothing
      BY <1>a, <2>1 DEF EmitLockIsOK, EmitLock
    <3>2. closing' = Nothing
      BY <2>1 DEF Frees, Forget
    <3>3. Holds(emitlock, Lane)
      BY <1>a, <3>1, <3>2, BeginsToClose DEF OthersEffect, Still
    <3> QED
      BY <3>1, <3>3, ActorsAre, OneHolds
  <2> QED
    BY <2>1
<1>1. ASSUME NEW q \in Asked
      PROVE  QuestionOK(q)'
  <2>1. q[1] \in Askers
    BY AskedIs
  <2> QED
    BY <1>a, <1>k, <1>h, <2>1, RestingQuestion DEF OthersEffect
<1>2. ASSUME NEW y \in Askers, at'[y] = "closing"
      PROVE  closing'.ids = {Q(y)'}
  <2>1. at[y] = "closing" /\ ~Begins /\ ~Frees
    BY <1>2, <1>k, <1>h, BeginsToClose
  <2>2. closing' = closing /\ closing.ids = {Q(y)}
    BY <1>a, <2>1, QuestionsAre DEF OthersEffect, Still
  <2> QED
    BY <1>k, <2>2
<1>3. Questions'
  BY <1>1, <1>2, <1>t, <1>c, <1>k, OneByOne, Standing
<1> QED
  BY <1>t, <1>3 DEF QuestionsOK

-----------------------------------------------------------------------------
(* What the callers are given.                                             *)

(* The asker goes on, or is done with an outcome that is the future's,     *)
(* unless it was cancelled or its question never had an answer.            *)
OutcomeGoes(p) ==
  /\ aborted \subseteq aborted' /\ aborted' \subseteq aborted \cup {p}
  /\ \/ at'[p] # "done" /\ UNCHANGED outcome
     \/ /\ at'[p] = "done" /\ page' = page
        /\ \E what \in Reasons \cup {"aborted"} :
             /\ outcome' = [outcome EXCEPT ![p] = what]
             /\ p \in aborted' \/ result'[Q(p)] = "open" \/ what = result'[Q(p)]

LEMMA EndsGiving ==
  ASSUME NEW p \in Askers, Goes(p), NEW what \in Reasons \cup {"aborted"}, Ends(p, what),
         UNCHANGED aborted, p \in aborted \/ what = result'[Q(p)]
  PROVE  OutcomeGoes(p)
  BY DEF Ends, PageStays, PageTurns, OutcomeGoes

LEMMA FinishGiving ==
  ASSUME NEW p \in Askers, at \in [Askers -> Places],
         NEW what \in Reasons \cup {"aborted"}, Finish(p, what), UNCHANGED page,
         aborted' = aborted \cup {p} \/ (aborted' = aborted /\ result'[Q(p)] = "open")
  PROVE  OutcomeGoes(p)
  BY DEF Finish, Goto, OutcomeGoes

LEMMA NotDone ==
  ASSUME NEW p \in Askers, at'[p] # "done", UNCHANGED outcome,
         aborted' = aborted \/ aborted' = aborted \cup {p}
  PROVE  OutcomeGoes(p)
  BY DEF OutcomeGoes

LEMMA OutcomesGo ==
  ASSUME IInv, NEW p \in Askers, AskerStep(p)
  PROVE  OutcomeGoes(p)
<1>s. /\ at \in [Askers -> Places] /\ QuestionOK(Q(p)) /\ Q(p) \in Asked
      /\ Q(p)[1] = p /\ Q(p)[2] = page[p] /\ page[p] \in Nat
      /\ at[p] = "closing" => closing.ids = {Q(p)}
      /\ result \in [Asked -> Reasons \cup {"open"}] /\ closing.why \in Reasons \cup {"open"}
      /\ \A q \in closing.ids : closing.why # "open"
  <2>1. closing.why \in Reasons \cup {"open"}
    BY DEF IInv, DataOK, TypeOK
  <2> QED
    BY <2>1, Standing, QuestionsAre DEF Q
<1>1. CASE Start(p)
  <2>1. at'[p] # "done" /\ UNCHANGED <<outcome, aborted>>
    BY <1>1, <1>s DEF Start, Goto, Confirm, TakeAskLock
  <2> QED
    BY <2>1, NotDone
<1>2. CASE Retire(p) \/ Retired(p)
  <2>1. at'[p] # "done" /\ UNCHANGED <<outcome, aborted>>
    BY <1>2, <1>s DEF Retire, Retired, Goto, Confirm, TakeAskLock
  <2> QED
    BY <2>1, NotDone
<1>o. at[p] \in {"lock", "register"} => result[Q(p)] = "open"
  BY <1>s DEF QuestionOK
<1>3. CASE Locked(p)
  <2>1. at[p] = "lock" /\ UNCHANGED <<page, aborted, result>>
    BY <1>3 DEF Locked
  <2>2. CASE p \in Models /\ confirming # <<p, 1>>
    <3>1. Finish(p, "superseded") /\ "superseded" \in Reasons
      BY <1>3, <2>2 DEF Locked, Reasons
    <3> QED
      BY <1>s, <1>o, <2>1, <3>1, FinishGiving DEF Q
  <2>3. CASE ~(p \in Models /\ confirming # <<p, 1>>)
    <3>1. at'[p] # "done" /\ UNCHANGED outcome
      BY <1>3, <1>s, <2>3 DEF Locked, Goto
    <3> QED
      BY <2>1, <3>1, NotDone
  <2> QED
    BY <2>2, <2>3
<1>4. CASE Register(p)
  <2>1. at[p] = "register" /\ UNCHANGED <<page, aborted, result>>
    BY <1>4 DEF Register
  <2>2. CASE Gated
    <3>1. Finish(p, "cancelled") /\ "cancelled" \in Reasons
      BY <1>4, <2>2 DEF Register, Reasons
    <3> QED
      BY <1>s, <1>o, <2>1, <3>1, FinishGiving DEF Q
  <2>3. CASE ~Gated
    <3>1. at'[p] # "done" /\ UNCHANGED outcome
      BY <1>4, <1>s, <2>3 DEF Register, Goto
    <3> QED
      BY <2>1, <3>1, NotDone
  <2> QED
    BY <2>2, <2>3
<1>5. CASE Emitted(p) \/ TimeUp(p)
  <2>1. at'[p] # "done" /\ UNCHANGED <<outcome, aborted>>
    BY <1>5, <1>s DEF Emitted, TimeUp, Goto
  <2> QED
    BY <2>1, NotDone
<1>6. CASE Resolved(p)
  <2>1. UNCHANGED <<result, aborted>> /\ result[Q(p)] # "open"
    BY <1>6 DEF Resolved
  <2>2. result[Q(p)] \in Reasons \cup {"aborted"}
    BY <1>s, <2>1
  <2> QED
    BY <1>6, <2>1, <2>2, ResolvedGoes, EndsGiving
<1>7. CASE CloseOwn(p)
  <2>1. UNCHANGED <<result, aborted>> /\ at[p] = "close" /\ Q(p) \notin closing.ids
    BY <1>7 DEF CloseOwn, Proceeds, Emitting, Nothing
  <2>2. CASE at' = [at EXCEPT ![p] = "closing"] /\ UNCHANGED outcome
    <3>1. at'[p] # "done"
      BY <1>s, <2>2
    <3> QED
      BY <2>1, <2>2, <3>1, NotDone
  <2>3. CASE Q(p) \notin pending /\ Ends(p, Verdict(p, result))
    <3>1. result[Q(p)] # "open"
      BY <1>s, <2>1, <2>3 DEF QuestionOK
    <3>2. /\ Verdict(p, result) \in Reasons \cup {"aborted"}
          /\ p \in aborted \/ Verdict(p, result) = result'[Q(p)]
      BY <1>s, <2>1, <3>1 DEF Verdict
    <3> QED
      BY <1>7, <2>1, <2>3, <3>2, CloseOwnGoes, EndsGiving
  <2> QED
    BY <1>7, <2>2, <2>3, CloseOwnGoes
<1>8. CASE ClosedOwn(p)
  <2>1. UNCHANGED aborted /\ at[p] = "closing" /\ result' = Released
    BY <1>8 DEF ClosedOwn, EndClose, Forget
  <2>2. result'[Q(p)] \in Reasons
    BY <1>s, <2>1 DEF Released
  <2>3. /\ Verdict(p, result') \in Reasons \cup {"aborted"}
        /\ p \in aborted \/ Verdict(p, result') = result'[Q(p)]
    BY <2>2 DEF Verdict
  <2> QED
    BY <1>8, <2>1, <2>3, ClosedOwnGoes, EndsGiving
<1>9. CASE Cancel(p)
  <2>1. aborted' = aborted \cup {p} /\ Abandoned(p) /\ UNCHANGED page
    BY <1>9 DEF Cancel
  <2>2. CASE at[p] \in {"lock", "register"}
    <3>1. Finish(p, "aborted")
      BY <2>1, <2>2 DEF Abandoned
    <3> QED
      BY <1>s, <2>1, <3>1, FinishGiving
  <2>3. CASE at[p] \notin {"lock", "register"}
    <3>1. at'[p] # "done" /\ UNCHANGED outcome
      BY <1>s, <2>1, <2>3 DEF Abandoned, Goto
    <3> QED
      BY <2>1, <3>1, NotDone
  <2> QED
    BY <2>2, <2>3
<1> QED
  BY <1>1, <1>2, <1>3, <1>4, <1>5, <1>6, <1>7, <1>8, <1>9 DEF AskerStep, AskStep

LEMMA OutcomeStep ==
  ASSUME IInv, [Next]_vars
  PROVE  /\ aborted' \subseteq Askers
         /\ outcome' \in [Askers -> Reasons \cup {"none", "aborted"}]
         /\ SameVerdict'
<1>t. /\ aborted \subseteq Askers /\ at \in [Askers -> Places]
      /\ outcome \in [Askers -> Reasons \cup {"none", "aborted"}]
      /\ SameVerdict
  BY Standing DEF IInv, DataOK, TypeOK
<1>r. ASSUME Still \/ Begins \/ Frees \/ (\E p \in Askers : Opens(p)),
             NEW y \in Askers, at[y] = "done"
      PROVE  result'[Q(y)] = result[Q(y)]
  <2>1. Q(y) \in Asked /\ Q(y)[1] = y /\ QuestionOK(Q(y))
    BY Standing, QuestionsAre DEF Q
  <2>2. Q(y) \notin closing.ids
    BY <1>r, <2>1 DEF QuestionOK
  <2> QED
    BY <1>r, <2>1, <2>2 DEF Still, Begins, Frees, Opens, Forget, Released
<1>1. CASE OthersStep
  <2>1. UNCHANGED <<at, page, aborted, outcome>>
    BY <1>1, OthersKeep DEF asker
  <2>2. \A y \in Askers : at[y] = "done" => result'[Q(y)] = result[Q(y)]
    BY <1>1, <1>r, OthersHaveEffect DEF OthersEffect
  <2> QED
    BY <1>t, <2>1, <2>2 DEF SameVerdict, Q
<1>2. ASSUME NEW p \in Askers, AskerStep(p)
      PROVE  /\ aborted' \subseteq Askers
             /\ outcome' \in [Askers -> Reasons \cup {"none", "aborted"}]
             /\ SameVerdict'
  <2>g. OutcomeGoes(p) /\ AskerEffect(p)
    BY <1>2, OutcomesGo, AskerHasEffect
  <2>o. \A y \in Askers \ {p} : at'[y] = at[y] /\ Q(y)' = Q(y)
    BY <1>2, OthersRest
  <2>1. aborted' \subseteq Askers
    BY <1>t, <2>g DEF OutcomeGoes
  <2>2. outcome' \in [Askers -> Reasons \cup {"none", "aborted"}]
    BY <1>t, <2>g DEF OutcomeGoes
  <2>3. ASSUME NEW y \in Askers, at'[y] = "done", y \notin aborted', result'[Q(y)'] # "open"
        PROVE  outcome'[y] = result'[Q(y)']
    <3>1. CASE y = p
      <4>1. Q(p)' = Q(p)
        BY <2>g, <2>3, <3>1 DEF OutcomeGoes, Q
      <4> QED
        BY <1>t, <2>g, <2>3, <3>1, <4>1 DEF OutcomeGoes
    <3>2. CASE y # p
      <4>1. at[y] = "done" /\ Q(y)' = Q(y) /\ y \notin aborted
        BY <2>g, <2>o, <2>3, <3>2 DEF OutcomeGoes
      <4>2. result'[Q(y)] = result[Q(y)]
        BY <1>r, <2>g, <4>1 DEF AskerEffect
      <4>3. outcome'[y] = outcome[y]
        BY <1>t, <2>g, <3>2 DEF OutcomeGoes
      <4> QED
        BY <1>t, <2>3, <4>1, <4>2, <4>3 DEF SameVerdict
    <3> QED
      BY <3>1, <3>2
  <2> QED
    BY <2>1, <2>2, <2>3 DEF SameVerdict
<1> QED
  BY <1>1, <1>2, Steps

-----------------------------------------------------------------------------
(* While a turn is being stopped.                                          *)

LEMMA StopsStep ==
  ASSUME IInv, [Next]_vars
  PROVE  StopsAsking'
<1>i. StopsAsking
  BY DEF IInv
<1>e. ASSUME Still \/ Begins \/ Frees
      PROVE  pending' \subseteq pending
  BY <1>e, BeginsToClose DEF Still, Frees
<1>1. ASSUME NEW p \in Askers, AskerStep(p)
      PROVE  StopsAsking'
  <2>1. state' = state /\ AskerEffect(p)
    BY <1>1, AskersKeep, AskerHasEffect
  <2> QED
    BY <1>i, <1>e, <2>1 DEF AskerEffect, Opens, StopsAsking
<1>2. CASE OthersStep
  <2>1. pending' \subseteq pending
    BY <1>2, <1>e, OthersHaveEffect DEF OthersEffect
  <2>2. CASE HandleInterrupt
    BY <1>i, <2>1, <2>2 DEF HandleInterrupt, BeginClose, StopsAsking
  <2>3. CASE ~HandleInterrupt
    <3>1. state' \in {state, "idle", "running"}
      <4>1. CASE \E c \in Clients : Answer(c) \/ Disconnect(c) \/ TakeAnswer(c) \/ TakeHello(c)
        BY <4>1 DEF Answer, Disconnect, TakeAnswer, TakeHello, Take
      <4>2. CASE TakeInterrupt \/ HandleAnswer \/ HandleHello \/ LaneClosed
        BY <4>2 DEF TakeInterrupt, Take, HandleAnswer, HandleHello, LaneClosed
      <4>3. CASE (\E q \in Asked : Expire(q)) \/ EndTurn \/ StartTurn \/ UNCHANGED vars
        BY <4>3 DEF Expire, EndTurn, StartTurn, vars
      <4> QED
        BY <1>2, <2>3, <4>1, <4>2, <4>3 DEF OthersStep, LaneStep
    <3> QED
      BY <1>i, <2>1, <3>1 DEF StopsAsking
  <2> QED
    BY <2>2, <2>3
<1> QED
  BY <1>1, <1>2, Steps

-----------------------------------------------------------------------------
(* Only one question is open.                                              *)

LEMMA OneIsOpen ==
  ASSUME IInv
  PROVE  /\ \A q, r \in pending : q = r
         /\ \A q \in pending, p \in Askers : at[p] = "emit" => q = Q(p)
<1>1. ASSUME NEW q \in pending
      PROVE  /\ q[1] \in Askers /\ q = <<q[1], page[q[1]]>> /\ Holds(asklock, q[1])
  <2>1. q \in Asked /\ QuestionOK(q)
    BY QuestionsAre
  <2>2. q[1] \in Askers /\ q = <<q[1], q[2]>>
    BY <2>1, AskedIs
  <2> QED
    BY <2>1, <2>2, Standing DEF QuestionOK, Holding
<1>2. \A p \in Askers : at[p] = "emit" => Holds(asklock, p)
  BY Standing DEF Holding
<1> QED
  BY <1>1, <1>2, OneHolds DEF Q

-----------------------------------------------------------------------------
(* What one client shows.                                                  *)

ScreenOK(c) ==
  /\ shown[c] # None => \/ shown[c] \in pending \cup closing.ids
                        \/ <<c, shown[c]>> \in lost
  /\ \A q \in pending :
       at[q[1]] # "emit" /\ Eligible(c, q) /\ <<c, q>> \notin lost => shown[c] = q

LEMMA ScreensAre ==
  ASSUME IInv
  PROVE  /\ shown \in [Clients -> Asked \cup {None}] /\ synced \subseteq Clients
         /\ lost \subseteq Clients \X Asked
         /\ \A c \in synced : ScreenOK(c)
  BY DEF IInv, DataOK, TypeOK, Screens, ScreenOK

(* The emit of a question that is open goes on.                            *)
Waits == \A q \in pending' : at'[q[1]] # "emit" => q \in pending /\ at[q[1]] # "emit"

LEMMA ScreenQuiet ==
  ASSUME IInv, NEW c \in synced, shown'[c] = shown[c], Waits,
         \A q : <<c, q>> \in lost => <<c, q>> \in lost',
         pending \cup closing.ids \subseteq pending' \cup closing'.ids
  PROVE  ScreenOK(c)'
<1>1. ScreenOK(c)
  BY ScreensAre
<1> QED
  BY <1>1 DEF ScreenOK, Waits, Eligible

(* The question is emitted, or the emit is cut short.                      *)
LEMMA ScreenShows ==
  ASSUME IInv, NEW c \in synced, NEW p \in Askers, at[p] = "emit", Still,
         shown' = Shows(Q(p)), lost' = lost
  PROVE  ScreenOK(c)'
<1>1. ScreenOK(c) /\ c \in Clients /\ pending' = pending /\ closing' = closing
  BY ScreensAre DEF Still
<1>2. Q(p) \in pending \cup closing.ids /\ \A q \in pending : q = Q(p)
  <2>1. QuestionOK(Q(p)) /\ Q(p)[1] = p /\ Q(p)[2] = page[p] /\ page[p] \in Nat
    BY QuestionsAre, Standing DEF Q
  <2>2. Q(p) \in pending \cup closing.ids
    BY <2>1 DEF QuestionOK
  <2> QED
    BY <2>2, OneIsOpen
<1>3. shown'[c] = IF Eligible(c, Q(p)) THEN Q(p) ELSE shown[c]
  BY <1>1 DEF Shows
<1> HIDE DEF Q, Eligible
<1> QED
  BY <1>1, <1>2, <1>3 DEF ScreenOK

LEMMA ScreenCut ==
  ASSUME IInv, NEW c \in synced, NEW p \in Askers, at[p] = "emit", Still,
         shown' = shown, lost' = lost \cup (Clients \X {Q(p)})
  PROVE  ScreenOK(c)'
<1>1. ScreenOK(c) /\ c \in Clients /\ pending' = pending /\ closing' = closing
  BY ScreensAre DEF Still
<1>2. \A q \in pending : q = Q(p)
  BY OneIsOpen
<1> HIDE DEF Q, Eligible
<1>3. <<c, Q(p)>> \in lost'
  BY <1>1
<1> QED
  BY <1>1, <1>2, <1>3 DEF ScreenOK

(* The clients are told what is closed, or the emit is cut short.          *)
LEMMA ScreenTold ==
  ASSUME IInv, NEW c \in synced, Frees, shown'[c] = Told[c], Waits,
         \A x \in lost : x[1] = c /\ x[2] \notin closing.ids => x \in lost'
  PROVE  ScreenOK(c)'
<1>1. ScreenOK(c) /\ c \in Clients /\ pending' = pending /\ closing'.ids = {}
  BY ScreensAre DEF Frees, Forget, Nothing
<1>2. shown'[c] = IF shown[c] \in closing.ids THEN None ELSE shown[c]
  BY <1>1 DEF Told
<1>3. \A q \in pending : q \notin closing.ids
  BY QuestionsAre DEF QuestionOK
<1>4. \A q : <<c, q>> \in lost /\ q \notin closing.ids => <<c, q>> \in lost'
  <2>1. ASSUME NEW q, <<c, q>> \in lost, q \notin closing.ids
        PROVE  <<c, q>> \in lost'
    <3>1. <<c, q>>[1] = c /\ <<c, q>>[2] = q
      OBVIOUS
    <3> QED
      BY <2>1, <3>1
  <2> QED
    BY <2>1
<1> HIDE DEF Eligible
<1>5. shown'[c] # None => shown'[c] \in pending \/ <<c, shown'[c]>> \in lost'
  BY <1>1, <1>2, <1>4 DEF ScreenOK
<1>6. ASSUME NEW q \in pending, at'[q[1]] # "emit", Eligible(c, q), <<c, q>> \notin lost'
      PROVE  shown'[c] = q
  BY <1>1, <1>2, <1>3, <1>4, <1>6 DEF ScreenOK, Waits
<1> QED
  BY <1>1, <1>5, <1>6 DEF ScreenOK

LEMMA ScreenUntold ==
  ASSUME IInv, NEW c \in synced, NEW p \in Askers, at[p] = "closing", Frees, Waits,
         shown' = shown, lost' = lost \cup (Clients \X {Q(p)})
  PROVE  ScreenOK(c)'
<1>1. ScreenOK(c) /\ c \in Clients /\ pending' = pending
  BY ScreensAre DEF Frees
<1>2. closing.ids = {Q(p)}
  BY QuestionsAre
<1> HIDE DEF Q, Eligible
<1>3. <<c, Q(p)>> \in lost'
  BY <1>1
<1>4. shown'[c] # None => shown'[c] \in pending \/ <<c, shown'[c]>> \in lost'
  BY <1>1, <1>2, <1>3 DEF ScreenOK
<1>5. ASSUME NEW q \in pending, at'[q[1]] # "emit", Eligible(c, q), <<c, q>> \notin lost'
      PROVE  shown'[c] = q
  BY <1>1, <1>5 DEF ScreenOK, Waits
<1> QED
  BY <1>1, <1>4, <1>5 DEF ScreenOK

ScreensOK ==
  /\ shown \in [Clients -> Asked \cup {None}] /\ synced \subseteq Clients
  /\ lost \subseteq Clients \X Asked
  /\ \A c \in synced : ScreenOK(c)

LEMMA ScreenTypes ==
  ASSUME IInv
  PROVE  /\ Told \in [Clients -> Asked \cup {None}]
         /\ \A q \in Asked : Shows(q) \in [Clients -> Asked \cup {None}]
         /\ \A q \in Asked : Clients \X {q} \subseteq Clients \X Asked
         /\ shown \in [Clients -> Asked \cup {None}]
         /\ lost \subseteq Clients \X Asked /\ synced \subseteq Clients
  BY ScreensAre DEF Told, Shows

LEMMA ScreensAskers ==
  ASSUME IInv, NEW p \in Askers, AskerStep(p)
  PROVE  ScreensOK'
<1>t. /\ Told \in [Clients -> Asked \cup {None}]
      /\ Shows(Q(p)) \in [Clients -> Asked \cup {None}]
      /\ Clients \X {Q(p)} \subseteq Clients \X Asked
      /\ shown \in [Clients -> Asked \cup {None}]
      /\ lost \subseteq Clients \X Asked /\ synced \subseteq Clients
  BY ScreenTypes, ScreensAre, Standing
<1>a. AskerEffect(p) /\ synced' = synced /\ at \in [Askers -> Places]
  BY AskerHasEffect, AskersKeep, Standing
<1>w. ASSUME at[p] # "emit"
      PROVE  Waits
  <2>1. ASSUME NEW q \in pending', at'[q[1]] # "emit"
        PROVE  q \in pending /\ at[q[1]] # "emit"
    <3>1. q \in pending
      <4>1. Opens(p) => at'[p] = "emit" /\ (q \in pending \/ q = Q(p)) /\ Q(p)[1] = p
        BY <2>1 DEF Opens, Q
      <4>2. ~Opens(p) => q \in pending
        BY <1>a, BeginsToClose DEF AskerEffect, Still, Frees
      <4> QED
        BY <2>1, <4>1, <4>2
    <3>2. q[1] \in Askers
      BY <3>1, QuestionsAre, AskedIs
    <3>3. q[1] # p => at'[q[1]] = at[q[1]]
      BY <3>2, OthersRest
    <3> QED
      BY <1>w, <2>1, <3>1, <3>3
  <2> QED
    BY <2>1 DEF Waits
<1>1. CASE UNCHANGED <<shown, lost>> /\ at[p] \notin {"emit", "retiring", "closing"}
  <2>1. pending \cup closing.ids \subseteq pending' \cup closing'.ids
    <3>1. Still \/ Opens(p) \/ Begins
      BY <1>a, <1>1 DEF AskerEffect, Closers
    <3> QED
      BY <3>1, BeginsToClose DEF Still, Opens, Nothing
  <2>2. \A c \in synced : ScreenOK(c)'
    BY <1>1, <1>w, <2>1, ScreenQuiet
  <2> QED
    BY <1>1, <1>a, <1>t, <2>2 DEF ScreensOK
<1>2. CASE at[p] = "emit" /\ shown' = Shows(Q(p)) /\ UNCHANGED lost
  <2>1. Still
    BY <1>2, <1>a DEF AskerEffect, Opens, Closers
  <2>2. \A c \in synced : ScreenOK(c)'
    BY <1>2, <2>1, ScreenShows
  <2> QED
    BY <1>2, <1>a, <1>t, <2>2 DEF ScreensOK
<1>3. CASE at[p] = "emit" /\ UNCHANGED shown /\ lost' = lost \cup (Clients \X {Q(p)})
  <2>1. Still
    BY <1>3, <1>a DEF AskerEffect, Opens, Closers
  <2>2. \A c \in synced : ScreenOK(c)'
    BY <1>3, <2>1, ScreenCut
  <2> QED
    BY <1>3, <1>a, <1>t, <2>2 DEF ScreensOK
<1>4. CASE /\ at[p] \in Closers /\ shown' = Told /\ lost' \subseteq lost
           /\ \A x \in lost : x[2] \notin closing.ids => x \in lost'
  <2>1. Frees
    BY <1>4, <1>a DEF AskerEffect, Opens, Closers
  <2>2. Waits
    BY <1>4, <1>w DEF Closers
  <2>3. \A c \in synced : ScreenOK(c)'
    BY <1>4, <2>1, <2>2, ScreenTold
  <2> QED
    BY <1>4, <1>a, <1>t, <2>3 DEF ScreensOK
<1>5. CASE at[p] = "closing" /\ UNCHANGED shown /\ lost' = lost \cup (Clients \X {Q(p)})
  <2>1. Frees
    BY <1>5, <1>a DEF AskerEffect, Opens, Closers
  <2>2. Waits
    BY <1>5, <1>w
  <2>3. \A c \in synced : ScreenOK(c)'
    BY <1>5, <2>1, <2>2, ScreenUntold
  <2> QED
    BY <1>5, <1>a, <1>t, <2>3 DEF ScreensOK
<1>6. CASE Start(p) \/ Retire(p) \/ Locked(p) \/ Register(p)
  BY <1>1, <1>6 DEF Start, Retire, Locked, Register, client
<1>7. CASE Resolved(p) \/ TimeUp(p) \/ CloseOwn(p)
  BY <1>1, <1>7 DEF Resolved, TimeUp, CloseOwn, client
<1>8. CASE Emitted(p)
  BY <1>2, <1>8 DEF Emitted
<1>9. CASE Retired(p) \/ ClosedOwn(p)
  <2>1. at[p] \in Closers /\ EndClose
    BY <1>9 DEF Retired, ClosedOwn, Closers
  <2>2. shown' = Told /\ lost' = {x \in lost : x[2] \notin closing.ids}
    BY <2>1 DEF EndClose
  <2> QED
    BY <1>4, <2>1, <2>2
<1>10. CASE Cancel(p)
  <2>1. /\ at[p] \in {"lock", "register", "emit", "wait", "close", "closing"}
        /\ Abandoned(p)
    BY <1>10 DEF Cancel
  <2>2. CASE at[p] \in {"lock", "register", "wait", "close"}
    <3>1. UNCHANGED <<shown, lost>>
      BY <2>1, <2>2 DEF Abandoned
    <3> QED
      BY <1>1, <2>2, <3>1
  <2>3. CASE at[p] = "emit"
    <3>1. \/ shown' = Shows(Q(p)) /\ UNCHANGED lost
          \/ UNCHANGED shown /\ lost' = lost \cup (Clients \X {Q(p)})
      BY <2>1, <2>3 DEF Abandoned
    <3> QED
      BY <1>2, <1>3, <2>3, <3>1
  <2>4. CASE at[p] = "closing"
    <3>1. \/ shown' = Told /\ UNCHANGED lost
          \/ UNCHANGED shown /\ lost' = lost \cup (Clients \X {Q(p)})
      BY <2>1, <2>4 DEF Abandoned
    <3> QED
      BY <1>4, <1>5, <2>4, <3>1 DEF Closers
  <2> QED
    BY <2>1, <2>2, <2>3, <2>4
<1> QED
  BY <1>6, <1>7, <1>8, <1>9, <1>10 DEF AskerStep, AskStep

(* A client that said hello is seeded, what it showed before is forgotten. *)
LEMMA ScreensSeeded ==
  ASSUME IInv, NEW d \in Clients, lane.by = {d},
         NEW view \in [Clients -> Asked \cup {None}], Seeded(view),
         UNCHANGED <<pending, at>>,
         \/ view = shown /\ closing' = closing /\ closing = Nothing
         \/ view = Told /\ Frees
  PROVE  ScreensOK'
<1> DEFINE open == {q \in pending : Eligible(d, q)}
           seed == Seeds(d, view)
<1>1. /\ shown' = [view EXCEPT ![d] = seed]
      /\ synced' = synced \cup {d}
      /\ lost' = {x \in lost : x[1] # d /\ x[2] \notin closing.ids}
  BY DEF Seeded
<1>t. /\ pending \subseteq Asked /\ synced \subseteq Clients
      /\ lost \subseteq Clients \X Asked
  BY ScreensAre, QuestionsAre
<1>2. seed \in pending \cup {None} /\ \A q \in open : seed = q
  <2>1. CASE open = {}
    BY <2>1 DEF Seeds
  <2>2. CASE open # {}
    <3>1. seed = CHOOSE q \in open : TRUE
      BY <2>2 DEF Seeds
    <3>2. seed \in open
      BY <2>2, <3>1
    <3> QED
      BY <3>2, OneIsOpen
  <2> QED
    BY <2>1, <2>2
<1> HIDE DEF seed
<1>3. ScreenOK(d)'
  <2>1. shown'[d] = seed /\ pending' = pending
    BY <1>1
  <2> QED
    BY <1>2, <2>1 DEF ScreenOK, Eligible
<1>w. Waits
  BY DEF Waits
<1>4. ASSUME NEW c \in synced, c # d
      PROVE  ScreenOK(c)'
  <2>1. shown'[c] = view[c] /\ c \in Clients
    BY <1>1, <1>4, <1>t
  <2>2. \A q : <<c, q>> \in lost /\ q \notin closing.ids => <<c, q>> \in lost'
    <3>1. ASSUME NEW q, <<c, q>> \in lost, q \notin closing.ids
          PROVE  <<c, q>> \in lost'
      <4>1. <<c, q>>[1] = c /\ <<c, q>>[2] = q
        OBVIOUS
      <4> QED
        BY <1>1, <1>4, <3>1, <4>1
    <3> QED
      BY <3>1
  <2>3. CASE view = shown /\ closing' = closing /\ closing = Nothing
    <3>1. \A q : <<c, q>> \in lost => <<c, q>> \in lost'
      BY <2>2, <2>3 DEF Nothing
    <3>2. pending \cup closing.ids \subseteq pending' \cup closing'.ids
      BY <2>3
    <3> QED
      BY <1>w, <2>1, <2>3, <3>1, <3>2, ScreenQuiet
  <2>4. CASE view = Told /\ Frees
    <3>1. \A x \in lost : x[1] = c /\ x[2] \notin closing.ids => x \in lost'
      BY <1>1, <1>4
    <3> QED
      BY <1>w, <2>1, <2>4, <3>1, ScreenTold
  <2> QED
    BY <2>3, <2>4
<1>5. shown' \in [Clients -> Asked \cup {None}]
  BY <1>1, <1>2, <1>t
<1> HIDE DEF ScreenOK
<1>6. synced' \subseteq Clients /\ lost' \subseteq Clients \X Asked
      /\ \A c \in synced' : ScreenOK(c)'
  BY <1>1, <1>3, <1>4, <1>t
<1> QED
  BY <1>5, <1>6 DEF ScreensOK

LEMMA ScreensQuiet ==
  ASSUME IInv, UNCHANGED <<at, shown, lost>>, synced' \subseteq synced, Still \/ Begins
  PROVE  ScreensOK'
<1>1. Waits /\ pending \cup closing.ids \subseteq pending' \cup closing'.ids
  BY BeginsToClose DEF Waits, Still, Nothing
<1>2. \A c \in synced : ScreenOK(c)'
  BY <1>1, ScreenQuiet
<1> QED
  BY <1>2, ScreensAre DEF ScreensOK

LEMMA ScreensOthers ==
  ASSUME IInv, OthersStep
  PROVE  ScreensOK'
<1>t. /\ Told \in [Clients -> Asked \cup {None}]
      /\ shown \in [Clients -> Asked \cup {None}]
      /\ lost \subseteq Clients \X Asked /\ synced \subseteq Clients
      /\ pending \subseteq Asked /\ closing.ids \subseteq Asked
      /\ \A c \in synced : ScreenOK(c)
  BY ScreenTypes, ScreensAre, QuestionsAre
<1>k. at' = at /\ OthersEffect
  BY OthersKeep, OthersHaveEffect DEF asker
<1>h. lane.cmd = "hello" => \E d \in Clients : lane.by = {d}
  BY LaneStays DEF IInv, DataOK
<1>1. ASSUME NEW c \in Clients, Answer(c)
      PROVE  ScreensOK'
  <2>1. /\ shown' = [shown EXCEPT ![c] = None] /\ lost' = lost \cup {<<c, shown[c]>>}
        /\ synced' = synced /\ Still /\ shown[c] # None
    BY <1>1 DEF Answer, asks, locks, Still
  <2>2. ASSUME NEW e \in synced
        PROVE  ScreenOK(e)'
    <3>1. CASE e = c
      <4>1. ScreenOK(c) /\ shown'[c] = None /\ <<c, shown[c]>> \in lost' /\ lost \subseteq lost'
            /\ pending' = pending
        BY <1>t, <2>1, <2>2, <3>1 DEF Still
      <4> QED
        BY <1>k, <3>1, <4>1 DEF ScreenOK, Eligible
    <3>2. CASE e # c
      <4>1. shown'[e] = shown[e] /\ lost \subseteq lost' /\ Waits
            /\ pending \cup closing.ids \subseteq pending' \cup closing'.ids
        BY <1>t, <1>k, <2>1, <2>2, <3>2 DEF Waits, Still
      <4> QED
        BY <4>1, ScreenQuiet
    <3> QED
      BY <3>1, <3>2
  <2>3. shown' \in [Clients -> Asked \cup {None}] /\ lost' \subseteq Clients \X Asked
    BY <1>t, <2>1
  <2> QED
    BY <1>t, <2>1, <2>2, <2>3 DEF ScreensOK
<1>2. ASSUME NEW c \in Clients, Disconnect(c) \/ TakeAnswer(c) \/ TakeHello(c)
      PROVE  ScreensOK'
  BY <1>2, <1>k, ScreensQuiet DEF Disconnect, TakeAnswer, TakeHello, Take, asks, locks, client, Still
<1>3. CASE TakeInterrupt \/ StartTurn \/ (\E q \in Asked : Expire(q)) \/ UNCHANGED vars
  BY <1>3, <1>k, ScreensQuiet DEF TakeInterrupt, Take, StartTurn, Expire, vars, asks, locks,
                                  client, Still
<1>4. ASSUME Frees, closing = Nothing
      PROVE  Still
  <2>1. Released = result
    <3>1. result \in [Asked -> Reasons \cup {"open"}]
      BY QuestionsAre
    <3> QED
      BY <1>4, <3>1 DEF Released, Nothing
  <2> QED
    BY <1>4, <2>1 DEF Frees, Forget, Still
<1>5. CASE HandleAnswer \/ HandleInterrupt
  <2>1. closing = Nothing /\ UNCHANGED <<shown, lost, synced>>
    BY <1>5 DEF HandleAnswer, HandleInterrupt, Proceeds, Emitting, client
  <2>2. Still \/ Begins
    BY <1>k, <1>4, <2>1 DEF OthersEffect
  <2> QED
    BY <1>k, <2>1, <2>2, ScreensQuiet
<1>6. CASE HandleHello
  <2>1. closing = Nothing /\ \E d \in Clients : lane.by = {d}
    BY <1>6, <1>h DEF HandleHello, Proceeds, Emitting
  <2>2. CASE pending \cap late # {}
    <3>1. UNCHANGED <<shown, lost, synced>>
      BY <1>6, <2>2 DEF HandleHello
    <3>2. Still \/ Begins
      BY <1>k, <1>4, <2>1 DEF OthersEffect
    <3> QED
      BY <1>k, <3>1, <3>2, ScreensQuiet
  <2>3. CASE pending \cap late = {}
    <3>1. Seeded(shown) /\ UNCHANGED <<pending, closing>>
      BY <1>6, <2>3 DEF HandleHello
    <3> QED
      BY <1>k, <1>t, <2>1, <3>1, ScreensSeeded
  <2> QED
    BY <2>2, <2>3
<1>7. CASE LaneClosed
  <2>1. CASE lane.cmd = "hello"
    <3>1. Frees /\ Seeded(Told)
      BY <1>7, <2>1 DEF LaneClosed, Frees
    <3> QED
      BY <1>k, <1>t, <1>h, <2>1, <3>1, ScreensSeeded DEF Frees
  <2>2. CASE lane.cmd # "hello"
    <3>1. Frees /\ EndClose /\ synced' = synced
      BY <1>7, <2>2 DEF LaneClosed, Frees, EndClose
    <3>2. shown' = Told /\ lost' = {x \in lost : x[2] \notin closing.ids}
      BY <3>1 DEF EndClose
    <3>3. Waits
      BY <1>k, <3>1 DEF Waits, Frees
    <3>4. \A c \in synced : ScreenOK(c)'
      BY <3>1, <3>2, <3>3, ScreenTold
    <3> QED
      BY <1>t, <3>1, <3>2, <3>4 DEF ScreensOK
  <2> QED
    BY <2>1, <2>2
<1>8. CASE EndTurn
  <2>1. /\ shown' = [c \in Clients |-> IF c \in synced THEN None ELSE shown[c]]
        /\ lost' = lost \cup {<<c, shown[c]>> : c \in {d \in synced : shown[d] # None}}
        /\ synced' = synced /\ pending' = pending
    BY <1>8 DEF EndTurn, asks
  <2>2. ASSUME NEW c \in synced
        PROVE  ScreenOK(c)'
    <3>1. c \in Clients /\ shown'[c] = None /\ ScreenOK(c)
      BY <1>t, <2>1, <2>2
    <3>2. \A q \in pending : shown[c] = q => <<c, q>> \in lost'
      BY <2>1, AskedIs, <1>t
    <3>3. \A q : <<c, q>> \in lost => <<c, q>> \in lost'
      BY <2>1
    <3> QED
      BY <1>k, <2>1, <3>1, <3>2, <3>3 DEF ScreenOK, Eligible
  <2>3. shown' \in [Clients -> Asked \cup {None}]
    BY <1>t, <2>1
  <2>4. lost' \subseteq Clients \X Asked
    <3>1. ASSUME NEW c \in synced, shown[c] # None
          PROVE  <<c, shown[c]>> \in Clients \X Asked
      BY <1>t, <3>1
    <3> QED
      BY <1>t, <2>1, <3>1
  <2> QED
    BY <1>t, <2>1, <2>2, <2>3, <2>4 DEF ScreensOK
<1> QED
  BY <1>1, <1>2, <1>3, <1>5, <1>6, <1>7, <1>8 DEF OthersStep, LaneStep

-----------------------------------------------------------------------------
(* The types of what is left.                                              *)

RestOK ==
  /\ old \in [Askers -> Asked \cup {None}]
  /\ confirming \in Asked \cup {None}
  /\ late \subseteq Asked
  /\ state \in {"idle", "running", "interrupting"}
  /\ reply \in [Clients -> Asked \cup {None}]

LEMMA RestStep ==
  ASSUME IInv, [Next]_vars
  PROVE  RestOK'
<1>t. /\ RestOK /\ shown \in [Clients -> Asked \cup {None}]
      /\ \A p \in Askers : <<p, 1>> \in Asked
  BY PagesAre DEF IInv, DataOK, TypeOK, RestOK
<1>1. ASSUME NEW p \in Askers, AskerStep(p)
      PROVE  RestOK'
  <2>1. UNCHANGED <<state, reply>>
    BY <1>1, AskersKeep
  <2>2. CASE Start(p)
    BY <1>t, <2>1, <2>2 DEF Start, Confirm, RestOK
  <2>3. CASE Retire(p) \/ Retired(p)
    BY <1>t, <2>1, <2>3 DEF Retire, Retired, EndClose, Forget, Confirm, RestOK
  <2>4. CASE Locked(p) \/ Register(p)
    BY <1>t, <2>1, <2>4 DEF Locked, Register, Finish, RestOK
  <2>5. CASE Emitted(p) \/ TimeUp(p)
    BY <1>t, <2>1, <2>5 DEF Emitted, TimeUp, asks, RestOK
  <2>6. CASE Resolved(p)
    BY <1>t, <2>1, <2>6 DEF Resolved, Resume, Finish, RestOK
  <2>7. CASE CloseOwn(p)
    BY <1>t, <2>1, <2>7 DEF CloseOwn, Resume, Finish, RestOK
  <2>8. CASE ClosedOwn(p)
    BY <1>t, <2>1, <2>8 DEF ClosedOwn, EndClose, Forget, Resume, Finish, RestOK
  <2>9. CASE Cancel(p)
    <3>1. late' \subseteq late /\ confirming' \in {confirming, None} /\ old' = old
      <4>1. Abandoned(p) /\ old' = old
            /\ at[p] \in {"lock", "register", "emit", "wait", "close", "closing"}
        BY <2>9 DEF Cancel
      <4>2. CASE at[p] \in {"lock", "register"}
        BY <4>1, <4>2 DEF Abandoned, Finish
      <4>3. CASE at[p] \notin {"lock", "register"}
        BY <4>1, <4>3 DEF Abandoned, Forget
      <4> QED
        BY <4>2, <4>3
    <3> QED
      BY <1>t, <2>1, <3>1 DEF RestOK
  <2> QED
    BY <1>1, <2>2, <2>3, <2>4, <2>5, <2>6, <2>7, <2>8, <2>9 DEF AskerStep, AskStep
<1>2. CASE OthersStep
  <2>1. UNCHANGED <<old, confirming>>
    BY <1>2, OthersKeep DEF asker
  <2>2. CASE \E c \in Clients : Answer(c) \/ Disconnect(c) \/ TakeAnswer(c) \/ TakeHello(c)
    BY <1>t, <2>1, <2>2 DEF Answer, Disconnect, TakeAnswer, TakeHello, Take, asks, client, RestOK
  <2>3. CASE TakeInterrupt \/ HandleAnswer \/ HandleInterrupt
    BY <1>t, <2>1, <2>3 DEF TakeInterrupt, Take, HandleAnswer, HandleInterrupt, asks, client,
                           RestOK
  <2>4. CASE HandleHello \/ LaneClosed
    BY <1>t, <2>1, <2>4 DEF HandleHello, LaneClosed, EndClose, Forget, RestOK
  <2>5. CASE (\E q \in Asked : Expire(q)) \/ EndTurn \/ StartTurn \/ UNCHANGED vars
    BY <1>t, <2>1, <2>5 DEF Expire, EndTurn, StartTurn, vars, asks, client, RestOK
  <2> QED
    BY <1>2, <2>2, <2>3, <2>4, <2>5 DEF OthersStep, LaneStep
<1> QED
  BY <1>1, <1>2, Steps

-----------------------------------------------------------------------------
LEMMA InitIsOK == Init => IInv
<1> SUFFICES ASSUME Init
             PROVE  IInv
  OBVIOUS
<1> USE DEF Init
<1>1. \A p \in Askers : 1 \in 1..Pages[p]
  BY PagesAre
<1>2. asklock = <<>> /\ emitlock = <<>> /\ ToSet(<<>>) = {} /\ IsInjective(<<>>)
  BY DEF ToSet, IsInjective
<1>3. /\ <<>> \in Seq(Askers) /\ <<>> \in Seq(Actors) /\ DOMAIN <<>> = {}
  OBVIOUS
<1>4. TypeOK
  BY <1>1, <1>2, <1>3 DEF TypeOK, Nothing, Idle
<1>5. DataOK
  BY <1>4 DEF DataOK, Nothing, Idle, Reasons
<1>6. AskLock
  <2>1. \A p \in Askers : at[p] = "new" /\ page[p] = 1
    OBVIOUS
  <2>2. Batches \subseteq Askers
    BY AskAssumption DEF AskAssumption
  <2>3. ToSet(asklock) = {} /\ IsInjective(asklock)
    BY <1>2
  <2> QED
    BY <2>1, <2>2, <2>3 DEF AskLock, InLine, Holding
<1>7. EmitLock
  BY <1>2 DEF EmitLock, Nothing
<1>8. Questions
  BY DEF Questions, Nothing
<1>9. StopsAsking /\ SameVerdict /\ Screens
  BY DEF StopsAsking, SameVerdict, Screens
<1> QED
  BY <1>5, <1>6, <1>7, <1>8, <1>9 DEF IInv

LEMMA StepIsOK == IInv /\ [Next]_vars => IInv'
<1> SUFFICES ASSUME IInv, [Next]_vars
             PROVE  IInv'
  OBVIOUS
<1>1. /\ at' \in [Askers -> Places] /\ page' \in [Askers -> Nat]
      /\ \A p \in Askers : page'[p] \in 1..Pages[p]
      /\ asklock' \in Seq(Askers) /\ AskLock'
  BY AskLockStep
<1>2. EmitLockIsOK' /\ QuestionsOK' /\ ScreensOK'
  BY Steps, EmitLockAskers, EmitLockOthers, QuestionsAskers, QuestionsOthers,
     ScreensAskers, ScreensOthers
<1>3. /\ aborted' \subseteq Askers
      /\ outcome' \in [Askers -> Reasons \cup {"none", "aborted"}]
      /\ SameVerdict'
  BY OutcomeStep
<1>4. StopsAsking' /\ RestOK'
  BY StopsStep, RestStep
<1>5. Screens'
  BY <1>2 DEF ScreensOK, Screens, ScreenOK
<1>6. TypeOK'
  BY <1>1, <1>2, <1>3, <1>4 DEF TypeOK, EmitLockIsOK, QuestionsOK, ScreensOK, RestOK,
                               LaneData, IsInjective, Places
<1>7. DataOK'
  BY <1>1, <1>2, <1>6 DEF DataOK, EmitLockIsOK, LaneData
<1> QED
  BY <1>1, <1>2, <1>3, <1>4, <1>5, <1>7 DEF IInv, EmitLockIsOK, QuestionsOK

(* The inductive invariant holds in every state of the session.            *)
THEOREM Invariance == Spec => []IInv
<1>1. Init => IInv
  BY InitIsOK
<1>2. IInv /\ [Next]_vars => IInv'
  BY StepIsOK
<1> QED
  BY <1>1, <1>2, PTL DEF Spec

-----------------------------------------------------------------------------
LEMMA OneQuestionFollows == IInv => OneQuestion
<1> SUFFICES ASSUME IInv
             PROVE  OneQuestion
  OBVIOUS
<1>1. TypeOK
  BY DEF IInv, DataOK
<1>2. OneOpen
  <2>1. CASE pending = {}
    BY <2>1, FS_EmptySet DEF OneOpen
  <2>2. CASE pending # {}
    <3>1. PICK q \in pending : pending = {q}
      BY <2>2, OneIsOpen
    <3>2. Cardinality(pending) = 1
      BY <3>1, FS_Singleton
    <3> QED
      BY <3>2 DEF OneOpen
  <2> QED
    BY <2>1, <2>2
<1>3. NoOrphan
  BY DEF IInv, Questions, NoOrphan
<1>4. BatchWhole
  <2>1. ASSUME NEW p \in Batches, page[p] > 1, at[p] # "done", NEW q \in pending
        PROVE  q[1] = p
    <3>1. p \in Askers /\ at[p] \in Holding
      BY <2>1, AskAssumption DEF IInv, AskLock, AskAssumption
    <3>2. q[1] \in Askers /\ at[q[1]] \in Holding
      BY QuestionsAre, AskedIs DEF QuestionOK, Holding
    <3> QED
      BY <3>1, <3>2, Standing, OneHolds
  <2> QED
    BY <2>1 DEF BatchWhole
<1> QED
  BY <1>1, <1>2, <1>3, <1>4 DEF OneQuestion

(* One question of a session is open at a time; who asked it is at it and  *)
(* will close it; nobody else's comes between those of a batch             *)
(* (_on_ask_locked, _close_pending_ask_locked, ask_lock).                  *)
THEOREM OneAtATime == Spec => []OneQuestion
<1>1. IInv => OneQuestion
  BY OneQuestionFollows
<1> QED
  BY <1>1, Invariance, PTL

(* While a turn is being stopped no question is open: _handle_interrupt    *)
(* closes them all, and the gate of _on_ask_locked lets no new one in.     *)
THEOREM StoppingClosesAll == Spec => []StopsAsking
<1>1. IInv => StopsAsking
  BY DEF IInv
<1> QED
  BY <1>1, Invariance, PTL

(* The caller is given what the question was closed with, and so what the  *)
(* clients were told, unless the caller itself gave up.                    *)
THEOREM OneVerdict == Spec => []SameVerdict
<1>1. IInv => SameVerdict
  BY DEF IInv
<1> QED
  BY <1>1, Invariance, PTL

(* Between two emits no client in contact shows a question that is closed, *)
(* and each shows the open one that is addressed to it, unless it took the *)
(* card away itself or an emit was cut short (AskUserSync and the replay   *)
(* of open questions in _handle_client_hello).                             *)
THEOREM ScreensAreTrue == Spec => []ScreenTrue
<1>1. IInv => ScreenTrue
  <2> SUFFICES ASSUME IInv, ~Emitting
               PROVE  ScreenTrue
    BY DEF ScreenTrue
  <2>1. closing.ids = {} /\ \A p \in Askers : at[p] # "emit"
    BY DEF Emitting, Nothing
  <2>2. \A q \in pending : at[q[1]] # "emit"
    BY <2>1, QuestionsAre, AskedIs
  <2>3. \A c \in synced : ScreenOK(c)
    BY ScreensAre
  <2> QED
    BY <2>1, <2>2, <2>3 DEF ScreenTrue, ScreenOK
<1> QED
  BY <1>1, Invariance, PTL
=============================================================================
