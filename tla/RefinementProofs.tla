--------------------------- MODULE RefinementProofs ---------------------------
(***************************************************************************)
(* The two components that are shown to implement an abstract              *)
(* specification others rely on, for every value of their constants.       *)
(*                                                                         *)
(* AuditQueue, with a buffer of at least two slots, implements AuditTrail: *)
(* the queue hands every event to the writer in the order of the calls.    *)
(* EventManager implements Settlement: only operations on chain are        *)
(* settled, each with its outcome.  What is proved is the safety part of   *)
(* each, and the shape of the state of both.                               *)
(***************************************************************************)
EXTENDS AuditQueue, EventManager, Sums

-----------------------------------------------------------------------------
(* The audit queue *)

Entry == [chain : Chain, hops : 1 .. LockHops]

(* Sequences: a queue is popped at the front and pushed at the back. *)

LEMMA WakeIsAppend ==
  ASSUME NEW S, NEW r \in Seq(S), NEW x \in S
  PROVE  r \o <<x>> = Append(r, x) /\ r \o <<>> = r
OBVIOUS

LEMMA Popped ==
  ASSUME NEW S, NEW r \in Seq(S), r # <<>>
  PROVE  /\ Head(r) \in S /\ Head(r) = r[1] /\ 1 \in 1..Len(r)
         /\ Tail(r) \in Seq(S) /\ Len(Tail(r)) = Len(r) - 1
         /\ Len(r) \in Nat \ {0}
         /\ \A i \in 1..Len(Tail(r)) : Tail(r)[i] = r[i + 1] /\ i + 1 \in 1..Len(r)
         /\ \A i \in 1..Len(r) : i # 1 => i - 1 \in 1..Len(Tail(r))
                                          /\ r[i] = Tail(r)[i - 1]
OBVIOUS

LEMMA Pushed ==
  ASSUME NEW S, NEW r \in Seq(S), NEW x \in S
  PROVE  /\ Append(r, x) \in Seq(S)
         /\ Len(r) \in Nat
         /\ Len(Append(r, x)) = Len(r) + 1
         /\ \A i \in 1..Len(r) : Append(r, x)[i] = r[i]
         /\ Append(r, x)[Len(r) + 1] = x
OBVIOUS

------------------------------------------------------------------------------
(* The microtask queue *)

\* A queue r holds the chains of `others`, one continuation each, and the calls
\* that have a slot but have not asked for the lock: events a+1 .. b of the log l.
\* These are in the order of the log, with one promise to go, and before the
\* worker.
Orderly(r, others, l, a, b) ==
  /\ \A i \in 1..Len(r) :
       \/ r[i].chain \in others
       \/ \E m \in (a + 1)..b : r[i].chain = l[m] /\ r[i].hops = 1
  /\ \A i, j \in 1..Len(r) : r[i].chain = r[j].chain => i = j
  /\ \A c \in others : \E i \in 1..Len(r) : r[i].chain = c
  /\ \A m \in (a + 1)..b : \E i \in 1..Len(r) : r[i].chain = l[m]
  /\ \A m, n \in (a + 1)..b : \A i, j \in 1..Len(r) :
       m < n /\ r[i].chain = l[m] /\ r[j].chain = l[n] => i < j
  /\ \A m \in (a + 1)..b : \A i, j \in 1..Len(r) :
       r[i].chain = l[m] /\ r[j].chain = Worker => i < j

\* A chain that is not such a call leaves; if it is the worker, no such call is left.
LEMMA PopOther ==
  ASSUME NEW r \in Seq(Entry), r # <<>>, NEW others, NEW l, NEW a \in Nat, NEW b \in Nat,
         Orderly(r, others, l, a, b),
         \A m \in (a + 1)..b : l[m] # Head(r).chain
  PROVE  /\ Head(r).chain \in others
         /\ Orderly(Tail(r), others \ {Head(r).chain}, l, a, b)
         /\ Head(r).chain = Worker => b <= a
<1> DEFINE t == Tail(r)
           c == r[1].chain
<1>1. /\ Head(r) = r[1] /\ 1 \in 1..Len(r) /\ Len(t) = Len(r) - 1 /\ Len(r) \in Nat \ {0}
      /\ \A i \in 1..Len(t) : t[i] = r[i + 1] /\ i + 1 \in 1..Len(r)
      /\ \A i \in 1..Len(r) : i # 1 => i - 1 \in 1..Len(t) /\ r[i] = t[i - 1]
  BY Popped
<1> HIDE DEF t
<1>2. c \in others
  <2> SUFFICES ASSUME NEW m \in (a + 1)..b, r[1].chain = l[m] /\ r[1].hops = 1
               PROVE  FALSE
    BY <1>1 DEF Orderly
  <2> QED
    BY <1>1
<1>3. \A i \in 1..Len(t) : t[i].chain # c
  <2> SUFFICES ASSUME NEW i \in 1..Len(t), t[i].chain = c PROVE FALSE
    OBVIOUS
  <2>1. r[i + 1].chain = r[1].chain /\ i + 1 \in 1..Len(r)
    BY <1>1
  <2>2. i + 1 = 1
    BY <1>1, <2>1 DEF Orderly
  <2> QED
    BY <2>2
<1>4. ASSUME c = Worker PROVE b <= a
  <2> SUFFICES ASSUME ~(b <= a) PROVE FALSE
    OBVIOUS
  <2>1. b \in (a + 1)..b
    OBVIOUS
  <2>2. PICK i \in 1..Len(r) : r[i].chain = l[b]
    BY <2>1 DEF Orderly
  <2>3. i < 1
    BY <1>1, <1>4, <2>1, <2>2 DEF Orderly
  <2> QED
    BY <2>3
<1>5. Orderly(t, others \ {c}, l, a, b)
  <2>1. ASSUME NEW i \in 1..Len(t)
        PROVE  \/ t[i].chain \in others \ {c}
               \/ \E m \in (a + 1)..b : t[i].chain = l[m] /\ t[i].hops = 1
    <3>1. i + 1 \in 1..Len(r) /\ t[i] = r[i + 1] /\ t[i].chain # c
      BY <1>1, <1>3
    <3>2. \/ r[i + 1].chain \in others
          \/ \E m \in (a + 1)..b : r[i + 1].chain = l[m] /\ r[i + 1].hops = 1
      BY <3>1 DEF Orderly
    <3> QED
      BY <3>1, <3>2
  <2>2. ASSUME NEW i \in 1..Len(t), NEW j \in 1..Len(t), t[i].chain = t[j].chain
        PROVE  i = j
    <3>1. i + 1 = j + 1
      <4>1. /\ i + 1 \in 1..Len(r) /\ j + 1 \in 1..Len(r)
            /\ r[i + 1].chain = r[j + 1].chain
        BY <1>1, <2>2
      <4> QED
        BY <4>1 DEF Orderly
    <3> QED
      BY <3>1
  <2>3. ASSUME NEW d \in others \ {c}
        PROVE  \E i \in 1..Len(t) : t[i].chain = d
    <3>1. PICK i \in 1..Len(r) : r[i].chain = d
      BY DEF Orderly
    <3> QED
      BY <1>1, <3>1
  <2>4. ASSUME NEW m \in (a + 1)..b
        PROVE  \E i \in 1..Len(t) : t[i].chain = l[m]
    <3>1. PICK i \in 1..Len(r) : r[i].chain = l[m]
      BY DEF Orderly
    <3>2. i # 1
      BY <3>1
    <3> QED
      BY <1>1, <3>1, <3>2
  <2>5. ASSUME NEW m \in (a + 1)..b, NEW n \in (a + 1)..b,
               NEW i \in 1..Len(t), NEW j \in 1..Len(t),
               m < n, t[i].chain = l[m], t[j].chain = l[n]
        PROVE  i < j
    <3>1. i + 1 < j + 1
      BY <1>1, <2>5 DEF Orderly
    <3> QED
      BY <3>1
  <2>6. ASSUME NEW m \in (a + 1)..b, NEW i \in 1..Len(t), NEW j \in 1..Len(t),
               t[i].chain = l[m], t[j].chain = Worker
        PROVE  i < j
    <3>1. i + 1 < j + 1
      BY <1>1, <2>6 DEF Orderly
    <3> QED
      BY <3>1
  <2> DEFINE rest == others \ {c}
  <2> HIDE DEF c
  <2>7. /\ \A i \in 1..Len(t) :
             \/ t[i].chain \in rest
             \/ \E m \in (a + 1)..b : t[i].chain = l[m] /\ t[i].hops = 1
        /\ \A d \in rest : \E i \in 1..Len(t) : t[i].chain = d
    BY <2>1, <2>3
  <2> HIDE DEF rest
  <2>8. Orderly(t, rest, l, a, b)
    BY <2>2, <2>4, <2>5, <2>6, <2>7 DEF Orderly
  <2> QED
    BY <2>8 DEF rest
<1> QED
  BY <1>1, <1>2, <1>4, <1>5 DEF t

\* Such a call leaves: it is the first of them.
LEMMA PopSlot ==
  ASSUME NEW r \in Seq(Entry), r # <<>>, NEW others, NEW l, NEW a \in Nat, NEW b \in Nat,
         Orderly(r, others, l, a, b), Head(r).chain \notin others,
         \A m, n \in (a + 1)..b : l[m] = l[n] => m = n
  PROVE  /\ a + 1 <= b /\ Head(r).chain = l[a + 1]
         /\ Orderly(Tail(r), others, l, a + 1, b)
<1> DEFINE t == Tail(r)
           c == r[1].chain
<1>1. /\ Head(r) = r[1] /\ 1 \in 1..Len(r) /\ Len(t) = Len(r) - 1 /\ Len(r) \in Nat \ {0}
      /\ \A i \in 1..Len(t) : t[i] = r[i + 1] /\ i + 1 \in 1..Len(r)
      /\ \A i \in 1..Len(r) : i # 1 => i - 1 \in 1..Len(t) /\ r[i] = t[i - 1]
  BY Popped
<1> HIDE DEF t
<1>2. PICK k \in (a + 1)..b : r[1].chain = l[k] /\ r[1].hops = 1
  BY <1>1 DEF Orderly
<1>3. a + 1 <= b /\ a + 1 \in (a + 1)..b
  BY <1>2
<1>4. k = a + 1
  <2> SUFFICES ASSUME a + 1 < k PROVE FALSE
    BY <1>2, <1>3
  <2>1. PICK i \in 1..Len(r) : r[i].chain = l[a + 1]
    BY <1>3 DEF Orderly
  <2>2. i < 1
    BY <1>1, <1>2, <1>3, <2>1 DEF Orderly
  <2> QED
    BY <2>2
<1>5. c = l[a + 1]
  BY <1>2, <1>4
<1>6. \A i \in 1..Len(t) : t[i].chain # c
  <2> SUFFICES ASSUME NEW i \in 1..Len(t), t[i].chain = c PROVE FALSE
    OBVIOUS
  <2>1. r[i + 1].chain = r[1].chain /\ i + 1 \in 1..Len(r)
    BY <1>1
  <2>2. i + 1 = 1
    BY <1>1, <2>1 DEF Orderly
  <2> QED
    BY <2>2
<1>7. \A m \in (a + 2)..b : m \in (a + 1)..b /\ l[m] # c
  <2> SUFFICES ASSUME NEW m \in (a + 2)..b PROVE m \in (a + 1)..b /\ l[m] # l[a + 1]
    BY <1>5
  <2>1. m \in (a + 1)..b /\ m # a + 1
    OBVIOUS
  <2> QED
    BY <1>3, <2>1
<1>8. (a + 1) + 1 = a + 2 /\ \A m \in (a + 1)..b : m = a + 1 \/ m \in (a + 2)..b
  OBVIOUS
<1>9. Orderly(t, others, l, a + 1, b)
  <2>1. ASSUME NEW i \in 1..Len(t)
        PROVE  \/ t[i].chain \in others
               \/ \E m \in (a + 2)..b : t[i].chain = l[m] /\ t[i].hops = 1
    <3>1. t[i] = r[i + 1] /\ i + 1 \in 1..Len(r)
      BY <1>1
    <3>2. CASE r[i + 1].chain \in others
      BY <3>1, <3>2
    <3>3. ASSUME NEW m \in (a + 1)..b, r[i + 1].chain = l[m] /\ r[i + 1].hops = 1
          PROVE  m \in (a + 2)..b
      BY <1>5, <1>6, <1>8, <3>1, <3>3
    <3>4. \/ r[i + 1].chain \in others
          \/ \E m \in (a + 1)..b : r[i + 1].chain = l[m] /\ r[i + 1].hops = 1
      BY <3>1 DEF Orderly
    <3> QED
      BY <3>1, <3>2, <3>3, <3>4
  <2>2. ASSUME NEW i \in 1..Len(t), NEW j \in 1..Len(t), t[i].chain = t[j].chain
        PROVE  i = j
    <3>1. i + 1 = j + 1
      <4>1. /\ i + 1 \in 1..Len(r) /\ j + 1 \in 1..Len(r)
            /\ r[i + 1].chain = r[j + 1].chain
        BY <1>1, <2>2
      <4> QED
        BY <4>1 DEF Orderly
    <3> QED
      BY <3>1
  <2>3. ASSUME NEW d \in others
        PROVE  \E i \in 1..Len(t) : t[i].chain = d
    <3>1. PICK i \in 1..Len(r) : r[i].chain = d
      BY DEF Orderly
    <3> QED
      BY <1>1, <3>1
  <2>4. ASSUME NEW m \in (a + 2)..b
        PROVE  \E i \in 1..Len(t) : t[i].chain = l[m]
    <3>1. PICK i \in 1..Len(r) : r[i].chain = l[m]
      BY <1>7 DEF Orderly
    <3>2. i # 1
      BY <1>1, <1>7, <3>1
    <3> QED
      BY <1>1, <3>1, <3>2
  <2>5. ASSUME NEW m \in (a + 2)..b, NEW n \in (a + 2)..b,
               NEW i \in 1..Len(t), NEW j \in 1..Len(t),
               m < n, t[i].chain = l[m], t[j].chain = l[n]
        PROVE  i < j
    <3>1. i + 1 < j + 1
      <4>1. /\ m \in (a + 1)..b /\ n \in (a + 1)..b
            /\ i + 1 \in 1..Len(r) /\ j + 1 \in 1..Len(r)
            /\ r[i + 1].chain = l[m] /\ r[j + 1].chain = l[n]
        BY <1>1, <1>7, <2>5
      <4> QED
        BY <2>5, <4>1 DEF Orderly
    <3> QED
      BY <3>1
  <2>6. ASSUME NEW m \in (a + 2)..b, NEW i \in 1..Len(t), NEW j \in 1..Len(t),
               t[i].chain = l[m], t[j].chain = Worker
        PROVE  i < j
    <3>1. i + 1 < j + 1
      <4>1. /\ m \in (a + 1)..b /\ i + 1 \in 1..Len(r) /\ j + 1 \in 1..Len(r)
            /\ r[i + 1].chain = l[m] /\ r[j + 1].chain = Worker
        BY <1>1, <1>7, <2>6
      <4> QED
        BY <4>1 DEF Orderly
    <3> QED
      BY <3>1
  <2> QED
    BY <1>8, <2>1, <2>2, <2>3, <2>4, <2>5, <2>6 DEF Orderly
<1> QED
  BY <1>1, <1>3, <1>5, <1>9 DEF t

\* A chain that is not there yet is pushed, the worker or the next holder of the
\* lock.
LEMMA PushOther ==
  ASSUME NEW r \in Seq(Entry), NEW others, NEW l, NEW a \in Nat, NEW b \in Nat,
         Orderly(r, others, l, a, b), NEW x \in Entry,
         x.chain \notin others, \A m \in (a + 1)..b : l[m] # x.chain
  PROVE  Orderly(Append(r, x), others \cup {x.chain}, l, a, b)
<1> DEFINE p == Append(r, x)
           k == Len(r) + 1
<1>1. /\ Len(r) \in Nat /\ Len(p) = k /\ p[k] = x
      /\ \A i \in 1..Len(r) : p[i] = r[i] /\ i \in 1..Len(p)
      /\ \A i \in 1..Len(p) : i = k \/ i \in 1..Len(r)
  BY Pushed
<1>2. k \in 1..Len(p) /\ \A i \in 1..Len(r) : i < k
  BY <1>1
<1> HIDE DEF p, k
<1>3. \A i \in 1..Len(r) : r[i].chain # x.chain
  <2> SUFFICES ASSUME NEW i \in 1..Len(r), NEW m \in (a + 1)..b,
                      r[i].chain = l[m] /\ r[i].hops = 1
               PROVE  r[i].chain # x.chain
    BY DEF Orderly
  <2> QED
    OBVIOUS
<1>4. \A i \in 1..Len(p) :
        \/ p[i].chain \in others \cup {x.chain}
        \/ \E m \in (a + 1)..b : p[i].chain = l[m] /\ p[i].hops = 1
  BY <1>1 DEF Orderly
<1>5. \A i, j \in 1..Len(p) : p[i].chain = p[j].chain => i = j
  BY <1>1, <1>3 DEF Orderly
<1>6. \A c \in others \cup {x.chain} : \E i \in 1..Len(p) : p[i].chain = c
  BY <1>1, <1>2 DEF Orderly
<1>7. ASSUME NEW m \in (a + 1)..b PROVE \E i \in 1..Len(p) : p[i].chain = l[m]
  <2>1. PICK i \in 1..Len(r) : r[i].chain = l[m]
    BY DEF Orderly
  <2> QED
    BY <1>1, <2>1
<1>8. \A m, n \in (a + 1)..b : \A i, j \in 1..Len(p) :
        m < n /\ p[i].chain = l[m] /\ p[j].chain = l[n] => i < j
  <2> SUFFICES ASSUME NEW m \in (a + 1)..b, NEW n \in (a + 1)..b,
                      NEW i \in 1..Len(p), NEW j \in 1..Len(p),
                      m < n, p[i].chain = l[m], p[j].chain = l[n]
               PROVE  i < j
    OBVIOUS
  <2>1. i \in 1..Len(r) /\ j \in 1..Len(r) /\ p[i] = r[i] /\ p[j] = r[j]
    BY <1>1
  <2> QED
    BY <2>1 DEF Orderly
<1>9. \A m \in (a + 1)..b : \A i, j \in 1..Len(p) :
        p[i].chain = l[m] /\ p[j].chain = Worker => i < j
  <2> SUFFICES ASSUME NEW m \in (a + 1)..b, NEW i \in 1..Len(p), NEW j \in 1..Len(p),
                      p[i].chain = l[m], p[j].chain = Worker
               PROVE  i < j
    OBVIOUS
  <2>1. CASE j = k
    <3>1. i # k
      BY <1>1, <1>3, <2>1 DEF Orderly
    <3> QED
      BY <1>1, <1>2, <2>1, <3>1
  <2>2. CASE j # k /\ i # k
    <3>1. i \in 1..Len(r) /\ j \in 1..Len(r) /\ r[i].chain = l[m] /\ r[j].chain = Worker
      BY <1>1, <2>2
    <3> QED
      BY <3>1 DEF Orderly
  <2>3. CASE j # k /\ i = k
    BY <1>1, <2>3 DEF Orderly
  <2> QED
    BY <2>1, <2>2, <2>3
<1> QED
  BY <1>4, <1>5, <1>6, <1>7, <1>8, <1>9 DEF Orderly, p

\* The next call gets a slot, while the worker is not in the queue.
LEMMA PushSlot ==
  ASSUME NEW r \in Seq(Entry), NEW others, NEW l, NEW a \in Nat, NEW b \in Nat, a <= b,
         Orderly(r, others, l, a, b), NEW x \in Entry,
         x = [chain |-> l[b + 1], hops |-> 1],
         x.chain \notin others, \A m \in (a + 1)..b : l[m] # x.chain,
         Worker \notin others, x.chain # Worker, \A m \in (a + 1)..b : l[m] # Worker
  PROVE  Orderly(Append(r, x), others, l, a, b + 1)
<1> DEFINE p == Append(r, x)
           k == Len(r) + 1
<1>1. /\ Len(r) \in Nat /\ Len(p) = k /\ p[k] = x
      /\ \A i \in 1..Len(r) : p[i] = r[i] /\ i \in 1..Len(p)
      /\ \A i \in 1..Len(p) : i = k \/ i \in 1..Len(r)
  BY Pushed
<1>2. k \in 1..Len(p) /\ \A i \in 1..Len(r) : i < k
  BY <1>1
<1>a. /\ \A m \in (a + 1)..(b + 1) : m = b + 1 \/ m \in (a + 1)..b
      /\ \A m \in (a + 1)..b : m \in (a + 1)..(b + 1) /\ m < b + 1
      /\ b + 1 \in (a + 1)..(b + 1)
  OBVIOUS
<1>b. x.chain = l[b + 1]
  OBVIOUS
<1> HIDE DEF p, k
<1>3. \A i \in 1..Len(r) : r[i].chain # x.chain /\ r[i].chain # Worker
  <2> SUFFICES ASSUME NEW i \in 1..Len(r), NEW m \in (a + 1)..b,
                      r[i].chain = l[m] /\ r[i].hops = 1
               PROVE  r[i].chain # x.chain /\ r[i].chain # Worker
    BY DEF Orderly
  <2> QED
    OBVIOUS
<1>4. \A i \in 1..Len(p) :
        \/ p[i].chain \in others
        \/ \E m \in (a + 1)..(b + 1) : p[i].chain = l[m] /\ p[i].hops = 1
  BY <1>1, <1>a DEF Orderly
<1>5. ASSUME NEW i \in 1..Len(p), NEW j \in 1..Len(p), p[i].chain = p[j].chain
      PROVE  i = j
  <2>1. CASE i \in 1..Len(r) /\ j \in 1..Len(r)
    BY <1>1, <1>5, <2>1 DEF Orderly
  <2>2. CASE i = k \/ j = k
    <3>1. i = k /\ j = k
      BY <1>1, <1>3, <1>5, <2>2
    <3> QED
      BY <3>1
  <2> QED
    BY <1>1, <2>1, <2>2
<1>6. \A c \in others : \E i \in 1..Len(p) : p[i].chain = c
  BY <1>1 DEF Orderly
<1>7. ASSUME NEW m \in (a + 1)..(b + 1)
      PROVE  \E i \in 1..Len(p) : p[i].chain = l[m]
  <2>1. CASE m = b + 1
    BY <1>1, <1>2, <1>b, <2>1
  <2>2. CASE m \in (a + 1)..b
    <3>1. PICK i \in 1..Len(r) : r[i].chain = l[m]
      BY <2>2 DEF Orderly
    <3> QED
      BY <1>1, <3>1
  <2> QED
    BY <1>a, <2>1, <2>2
<1>8. ASSUME NEW m \in (a + 1)..(b + 1), NEW n \in (a + 1)..(b + 1),
             NEW i \in 1..Len(p), NEW j \in 1..Len(p),
             m < n, p[i].chain = l[m], p[j].chain = l[n]
      PROVE  i < j
  <2>1. m \in (a + 1)..b /\ i \in 1..Len(r)
    <3>1. m \in (a + 1)..b
      BY <1>8, <1>a
    <3>2. l[m] # x.chain
      BY <3>1
    <3> QED
      BY <1>1, <1>8, <3>1, <3>2
  <2>2. CASE n = b + 1
    <3>1. j = k
      BY <1>1, <1>3, <1>8, <1>b, <2>2
    <3> QED
      BY <1>2, <2>1, <3>1
  <2>3. CASE n \in (a + 1)..b
    <3>1. l[n] # x.chain
      BY <2>3
    <3>2. j \in 1..Len(r)
      BY <1>1, <1>8, <3>1
    <3> QED
      BY <1>1, <1>8, <2>1, <2>3, <3>2 DEF Orderly
  <2> QED
    BY <1>a, <2>2, <2>3
<1>9. \A m \in (a + 1)..(b + 1) : \A i, j \in 1..Len(p) :
        p[i].chain = l[m] /\ p[j].chain = Worker => i < j
  BY <1>1, <1>3
<1>10. Orderly(p, others, l, a, b + 1)
  BY ONLY <1>4, <1>5, <1>6, <1>7, <1>8, <1>9 DEF Orderly
<1> QED
  BY <1>10 DEF p

\* The order does not depend on what is logged later.
LEMMA LogGrows ==
  ASSUME NEW r \in Seq(Entry), NEW others, NEW l, NEW k, NEW a \in Nat, NEW b \in Nat,
         Orderly(r, others, l, a, b), \A m \in (a + 1)..b : k[m] = l[m]
  PROVE  Orderly(r, others, k, a, b)
<1>1. \A i \in 1..Len(r) :
        \/ r[i].chain \in others
        \/ \E m \in (a + 1)..b : r[i].chain = k[m] /\ r[i].hops = 1
  BY DEF Orderly
<1>2. \A m, n \in (a + 1)..b : \A i, j \in 1..Len(r) :
        m < n /\ r[i].chain = k[m] /\ r[j].chain = k[n] => i < j
  BY DEF Orderly
<1> QED
  BY <1>1, <1>2 DEF Orderly

------------------------------------------------------------------------------
(* The lock *)

\* The lock's queue q holds the calls that have asked for the lock, from event
\* s + 1 on, in the order of the log l, and the worker at position w if w is one.
Queued(q, w, l, s) ==
  /\ w \in 1..(Len(q) + 1)
  /\ w <= Len(q) => q[w] = Worker
  /\ \A j \in 1..Len(q) : /\ j < w => q[j] = l[s + j]
                          /\ j > w => q[j] = l[s + j - 1]

LEMMA QueueCall ==
  ASSUME NEW q \in Seq(Chain), NEW w, NEW l, NEW s \in Nat, Queued(q, w, l, s),
         NEW e \in Chain,
         e = l[s + Len(q) + (IF w <= Len(q) THEN 0 ELSE 1)]
  PROVE  Queued(Append(q, e), IF w <= Len(q) THEN w ELSE w + 1, l, s)
<1> DEFINE p == Append(q, e)
<1>1. /\ Len(q) \in Nat /\ Len(p) = Len(q) + 1 /\ p[Len(q) + 1] = e
      /\ \A i \in 1..Len(q) : p[i] = q[i]
      /\ \A i \in 1..Len(p) : i = Len(q) + 1 \/ i \in 1..Len(q)
  BY Pushed
<1> HIDE DEF p
<1>2. CASE w <= Len(q)
  BY <1>1, <1>2 DEF Queued, p
<1>3. CASE w = Len(q) + 1
  <2>1. e = l[s + (Len(q) + 1)]
    BY <1>1, <1>3
  <2>2. ASSUME NEW j \in 1..Len(p)
        PROVE  p[j] = l[s + j] /\ j < w + 1
    <3>1. j \in 1..Len(q) => q[j] = l[s + j]
      BY <1>1, <1>3 DEF Queued
    <3> QED
      BY <1>1, <1>3, <2>1, <3>1
  <2> QED
    BY <1>1, <1>3, <2>2 DEF Queued, p
<1> QED
  BY <1>1, <1>2, <1>3 DEF Queued

LEMMA QueueWorker ==
  ASSUME NEW q \in Seq(Chain), NEW w, NEW l, NEW s \in Nat, Queued(q, w, l, s),
         w = Len(q) + 1
  PROVE  Queued(Append(q, Worker), w, l, s)
<1> DEFINE p == Append(q, Worker)
<1>1. /\ Len(q) \in Nat /\ Len(p) = Len(q) + 1 /\ p[Len(q) + 1] = Worker
      /\ \A i \in 1..Len(q) : p[i] = q[i]
      /\ \A i \in 1..Len(p) : i = Len(q) + 1 \/ i \in 1..Len(q)
  BY Pushed DEF Chain
<1> HIDE DEF p
<1> QED
  BY <1>1 DEF Queued, p

\* The call that holds the lock leaves.
LEMMA UnqueueCall ==
  ASSUME NEW q \in Seq(Chain), q # <<>>, NEW w, NEW l, NEW s \in Nat,
         Queued(q, w, l, s), w # 1
  PROVE  /\ Head(q) = l[s + 1]
         /\ Queued(Tail(q), w - 1, l, s + 1)
<1> DEFINE t == Tail(q)
<1>1. /\ Head(q) = q[1] /\ 1 \in 1..Len(q) /\ Len(t) = Len(q) - 1 /\ Len(q) \in Nat \ {0}
      /\ \A i \in 1..Len(t) : t[i] = q[i + 1] /\ i + 1 \in 1..Len(q)
  BY Popped
<1> HIDE DEF t
<1>2. w \in 2..(Len(q) + 1)
  BY <1>1 DEF Queued
<1>3. q[1] = l[s + 1]
  BY <1>1, <1>2 DEF Queued
<1>4. ASSUME NEW j \in 1..Len(t)
      PROVE  /\ j < w - 1 => t[j] = l[(s + 1) + j]
             /\ j > w - 1 => t[j] = l[(s + 1) + j - 1]
  <2>1. /\ j + 1 \in 1..Len(q) /\ t[j] = q[j + 1]
        /\ j + 1 < w => q[j + 1] = l[s + (j + 1)]
        /\ j + 1 > w => q[j + 1] = l[s + (j + 1) - 1]
    BY <1>1 DEF Queued
  <2>2. s + (j + 1) = (s + 1) + j /\ s + (j + 1) - 1 = (s + 1) + j - 1
    BY <1>1
  <2> QED
    BY <1>1, <1>2, <2>1, <2>2
<1>5. w - 1 <= Len(t) => t[w - 1] = Worker
  <2>1. ASSUME w - 1 <= Len(t) PROVE t[w - 1] = q[(w - 1) + 1] /\ w <= Len(q)
    BY <1>1, <1>2, <2>1
  <2> QED
    BY <1>2, <2>1 DEF Queued
<1>6. w - 1 \in 1..(Len(t) + 1)
  BY <1>1, <1>2
<1> QED
  BY <1>1, <1>3, <1>4, <1>5, <1>6 DEF Queued, t

\* The worker leaves.
LEMMA UnqueueWorker ==
  ASSUME NEW q \in Seq(Chain), q # <<>>, NEW l, NEW s \in Nat, Queued(q, 1, l, s)
  PROVE  /\ Head(q) = Worker
         /\ Queued(Tail(q), Len(q), l, s)
<1> DEFINE t == Tail(q)
<1>1. /\ Head(q) = q[1] /\ 1 \in 1..Len(q) /\ Len(t) = Len(q) - 1 /\ Len(q) \in Nat \ {0}
      /\ \A i \in 1..Len(t) : t[i] = q[i + 1] /\ i + 1 \in 1..Len(q)
  BY Popped
<1> HIDE DEF t
<1>2. ASSUME NEW j \in 1..Len(t)
      PROVE  t[j] = l[s + j]
  <2>1. t[j] = q[j + 1] /\ q[j + 1] = l[s + (j + 1) - 1]
    BY <1>1 DEF Queued
  <2>2. s + (j + 1) - 1 = s + j
    OBVIOUS
  <2> QED
    BY <2>1, <2>2
<1> QED
  BY <1>1, <1>2 DEF Queued, t

------------------------------------------------------------------------------
(* The ring buffer *)

\* The slot k places after one.
SlotAt(first, k) ==
  IF first + k < BufferCapacity THEN first + k ELSE first + k - BufferCapacity

LEMMA NextIs ==
  ASSUME NEW i \in Index
  PROVE  NextIndex(i) = IF i + 1 = BufferCapacity THEN 0 ELSE i + 1
<1>1. BufferCapacity \in Nat \ {0} /\ i \in Nat /\ i < BufferCapacity
  BY QueueAssumption DEF Index
<1>2. \A c \in Nat \ {0}, j \in Nat : j < c => j % c = j
  OBVIOUS
<1>3. \A c \in Nat \ {0} : c % c = 0
  OBVIOUS
<1> QED
  BY <1>1, <1>2, <1>3 DEF NextIndex

LEMMA SlotFacts ==
  ASSUME NEW first \in Index, NEW k \in 0..(BufferCapacity - 1)
  PROVE  /\ SlotAt(first, k) \in Index
         /\ SlotAt(first, 0) = first
         /\ NextIndex(SlotAt(first, k)) = SlotAt(first, k + 1)
         /\ SlotAt(NextIndex(first), k) = SlotAt(first, k + 1)
         /\ \A j \in 0..(BufferCapacity - 1) :
              SlotAt(first, j) = SlotAt(first, k) => j = k
         /\ NextIndex(first) \in Index
<1>1. BufferCapacity \in Nat \ {0}
  BY QueueAssumption
<1>2. SlotAt(first, k) \in Index
  BY <1>1 DEF SlotAt, Index
<1>3. /\ NextIndex(SlotAt(first, k)) =
           IF SlotAt(first, k) + 1 = BufferCapacity THEN 0 ELSE SlotAt(first, k) + 1
      /\ NextIndex(first) = IF first + 1 = BufferCapacity THEN 0 ELSE first + 1
  BY <1>2, NextIs
<1> QED
  BY <1>1, <1>2, <1>3 DEF SlotAt, Index

------------------------------------------------------------------------------
(* The shape of the state *)

LEMMA EntryType ==
  ASSUME NEW c \in Chain
  PROVE  /\ [chain |-> c, hops |-> 1] \in Entry
         /\ [chain |-> c, hops |-> LockHops] \in Entry
BY QueueAssumption DEF Entry

LEMMA GrantedType ==
  ASSUME NEW r \in Seq(Entry), NEW q \in Seq(Chain)
  PROVE  r \o Granted(q) \in Seq(Entry)
<1>1. CASE q = <<>>
  BY <1>1 DEF Granted
<1>2. CASE q # <<>>
  <2> DEFINE x == [chain |-> Head(q), hops |-> LockHops]
  <2>1. x \in Entry
    BY <1>2, Popped, EntryType
  <2>2. r \o Granted(q) = r \o <<x>>
    BY <1>2 DEF Granted, Wake
  <2> HIDE DEF x
  <2> QED
    BY <2>1, <2>2
<1> QED
  BY <1>1, <1>2

LEMMA WakeType ==
  ASSUME NEW r \in Seq(Entry), NEW c \in Chain, NEW k \in {1, LockHops}
  PROVE  r \o Wake(c, k) \in Seq(Entry)
<1> DEFINE x == [chain |-> c, hops |-> k]
<1>1. x \in Entry
  BY EntryType
<1>2. r \o Wake(c, k) = r \o <<x>>
  BY DEF Wake
<1> HIDE DEF x
<1> QED
  BY <1>1, <1>2

LEMMA AcquireType ==
  ASSUME NEW c \in Chain, NEW q \in Seq(Chain), NEW r \in Seq(Entry),
         AcquireLock(c, q, r)
  PROVE  lockQueue' \in Seq(Chain) /\ ready' \in Seq(Entry)
<1>1. lockQueue' \in Seq(Chain)
  BY Pushed DEF AcquireLock
<1>2. ready' = r \/ ready' = r \o Wake(c, LockHops)
  BY WakeIsAppend DEF AcquireLock
<1> QED
  BY <1>1, <1>2, WakeType

LEMMA DrainType ==
  ASSUME NEW k, NEW q \in Seq(Chain), NEW r \in Seq(Entry), DrainTest(k, q, r)
  PROVE  /\ worker' \in {"lock", "drained"}
         /\ lockQueue' \in Seq(Chain)
         /\ ready' \in Seq(Entry)
<1>1. Worker \in Chain
  BY DEF Chain
<1> QED
  BY <1>1, AcquireType, WakeType DEF DrainTest

LEMMA ReleaseType ==
  ASSUME QueueTypeOK, NEW q \in Seq(Chain), NEW r \in Seq(Entry), ReleaseSlot(q, r),
         emptySlots < BufferCapacity
  PROVE  /\ worker' \in {"lock", "drained"}
         /\ lockQueue' \in Seq(Chain)
         /\ ready' \in Seq(Entry)
         /\ emptySlots' \in 0..BufferCapacity
         /\ slotQueue' \in Seq(Event)
<1>1. CASE slotQueue = <<>>
  BY <1>1, DrainType, QueueAssumption DEF ReleaseSlot, QueueTypeOK
<1>2. CASE slotQueue # <<>>
  <2>1. Head(slotQueue) \in Chain /\ slotQueue' \in Seq(Event)
    <3>1. slotQueue \in Seq(Event)
      BY DEF QueueTypeOK
    <3>2. Head(slotQueue) \in Event /\ Tail(slotQueue) \in Seq(Event)
      BY <1>2, <3>1, Popped
    <3>3. slotQueue' = Tail(slotQueue)
      BY <1>2 DEF ReleaseSlot
    <3> QED
      BY <3>2, <3>3 DEF Chain
  <2>2. r \o Wake(Head(slotQueue), 1) \in Seq(Entry)
    BY <2>1, WakeType
  <2> QED
    BY <1>2, <2>1, <2>2, DrainType DEF ReleaseSlot, QueueTypeOK
<1> QED
  BY <1>1, <1>2

------------------------------------------------------------------------------
(* The inductive invariant                                                  *)
(*                                                                          *)
(* The events of the log are, in this order: handed to the writer, in the   *)
(* buffer (up to event s), waiting for the lock (up to a), holding a slot   *)
(* but not asking for the lock yet (up to b), waiting for a slot.           *)

Contending == IF worker = "lock" THEN 1 ELSE 0
Held == IF worker \in {"write", "written"} THEN 1 ELSE 0

HeadSet(q) == IF q # <<>> THEN {Head(q)} ELSE {}
Awake(wk) == IF wk \in {"written", "drained"} THEN {Worker} ELSE {}

\* Where the call of each event is.
Placed(s, a, b) ==
  /\ Len(handed) <= s /\ s <= a /\ a <= b
  /\ b + Len(slotQueue) = Len(logged)
  /\ \A i \in 1..Len(handed) : handed[i] = logged[i]
  /\ \A i, j \in 1..Len(logged) : logged[i] = logged[j] => i = j
  /\ \A i \in 1..Len(logged) :
       call[logged[i]] = IF i <= s THEN "stored" ELSE IF i <= a THEN "lock" ELSE "slot"
  /\ \A e \in Event : call[e] # "new" => \E i \in 1..Len(logged) : logged[i] = e
  /\ \A j \in 1..Len(slotQueue) : slotQueue[j] = logged[b + j]

\* What the buffer holds, from the head on.
Filled(s) ==
  /\ \A k \in 0..(s - Len(handed) - 1) :
       eventBuffer[SlotAt(eventBufferHead, k)] = logged[Len(handed) + 1 + k]
  /\ eventBufferTail = SlotAt(eventBufferHead, s - Len(handed))

\* Every slot is free, reserved or filled, or its event is being written.
Counted(b) ==
  /\ emptySlots + (b - Len(handed)) + Held = BufferCapacity
  /\ slotQueue # <<>> => emptySlots = 0
  /\ worker = "lock" => emptySlots < BufferCapacity

\* The worker, at position w of the lock's queue if it is in it, has at most one
\* reserved slot that will still be unwritten when its turn comes, and if it has
\* one all other slots are in use.
Locked(s, a, b, w) ==
  /\ Queued(lockQueue, w, logged, s)
  /\ Len(lockQueue) = (a - s) + Contending
  /\ worker = "lock" <=> w <= Len(lockQueue)
  /\ worker = "lock" => b <= s + w /\ (b = s + w => emptySlots = 0)

\* The microtask queue; no request runs while the worker is in it.
Scheduled(a, b) ==
  /\ Orderly(ready, HeadSet(lockQueue) \cup Awake(worker), logged, a, b)
  /\ turn = "requests" => worker \in {"write", "sleep", "done"}

Inv(s, a, b, w) ==
  Placed(s, a, b) /\ Filled(s) /\ Counted(b) /\ Locked(s, a, b, w) /\ Scheduled(a, b)

AuditInv == QueueTypeOK /\ \E s, a, b, w \in Nat : Inv(s, a, b, w)

LEMMA InitInv == QueueInit => AuditInv
<1> SUFFICES ASSUME QueueInit PROVE QueueTypeOK /\ Inv(0, 0, 0, 1)
  BY DEF AuditInv
<1> USE QueueAssumption DEF QueueInit
<1>1. ready = <<[chain |-> Worker, hops |-> 1]>>
  BY DEF Wake
<1>2. QueueTypeOK
  <2>1. ready \in Seq([chain : Chain, hops : 1..LockHops])
    <3> DEFINE x == [chain |-> Worker, hops |-> 1]
    <3>1. x \in Entry
      BY EntryType DEF Chain
    <3> HIDE DEF x
    <3>2. <<x>> \in Seq(Entry)
      BY <3>1
    <3> QED
      BY <1>1, <3>2 DEF x, Entry
  <2>2. eventBufferHead \in Index /\ eventBufferTail \in Index
        /\ emptySlots \in 0..BufferCapacity
    BY DEF Index
  <2>3. /\ eventBuffer \in [Index -> Event \cup {NoEvent}]
        /\ call \in [Event -> {"new", "slot", "lock", "stored"}]
    OBVIOUS
  <2>4. /\ slotQueue \in Seq(Event) /\ lockQueue \in Seq(Chain)
        /\ logged \in Seq(Event) /\ handed \in Seq(Event) /\ Len(logged) = 0
    OBVIOUS
  <2>5. /\ turn \in {"requests", "worker"}
        /\ worker \in {"lock", "write", "written", "drained", "sleep", "done"}
    OBVIOUS
  <2>6. running \in BOOLEAN /\ final \in BOOLEAN
    OBVIOUS
  <2>7. owed \in 0..Len(logged)
    <3>1. owed = 0 /\ 0 \in 0..0
      OBVIOUS
    <3> HIDE DEF QueueInit
    <3> QED
      BY <2>4, <3>1
  <2> HIDE DEF QueueInit
  <2> QED
    BY <2>1, <2>2, <2>3, <2>4, <2>5, <2>6, <2>7 DEF QueueTypeOK
<1>3. Placed(0, 0, 0) /\ Counted(0)
  BY DEF Placed, Counted, Held
<1>4. Filled(0)
  <2>1. Len(handed) = 0 /\ eventBufferHead = 0 /\ eventBufferTail = 0
        /\ BufferCapacity \in Nat \ {0}
    OBVIOUS
  <2>2. SlotAt(0, 0) = 0
    BY <2>1 DEF SlotAt
  <2>3. 0..(0 - 0 - 1) = {} /\ 0 - 0 = 0
    OBVIOUS
  <2> QED
    BY <2>1, <2>2, <2>3 DEF Filled
<1>5. Locked(0, 0, 0, 1)
  BY DEF Locked, Queued, Contending
<1>6. Scheduled(0, 0)
  <2>1. HeadSet(lockQueue) \cup Awake(worker) = {Worker}
    BY DEF HeadSet, Awake
  <2>2. Len(ready) = 1 /\ ready[1].chain = Worker
    BY <1>1
  <2>3. Orderly(ready, {Worker}, logged, 0, 0)
    BY <2>2 DEF Orderly
  <2> QED
    BY <2>1, <2>3 DEF Scheduled
<1> QED
  BY <1>2, <1>3, <1>4, <1>5, <1>6 DEF Inv

------------------------------------------------------------------------------
(* What follows from the invariant *)

LEMMA Lengths ==
  ASSUME QueueTypeOK
  PROVE  /\ Len(logged) \in Nat /\ Len(handed) \in Nat /\ Len(slotQueue) \in Nat
         /\ Len(lockQueue) \in Nat /\ Len(ready) \in Nat
         /\ ready \in Seq(Entry) /\ lockQueue \in Seq(Chain)
         /\ logged \in Seq(Event) /\ handed \in Seq(Event) /\ slotQueue \in Seq(Event)
         /\ \A i \in 1..Len(logged) : logged[i] \in Event /\ logged[i] # Worker
         /\ BufferCapacity \in Nat \ {0}
BY QueueAssumption DEF QueueTypeOK, Entry

\* The head of the lock's queue is the worker or the first call that waits.
LEMMA HeadIs ==
  ASSUME QueueTypeOK, NEW s \in Nat, NEW a \in Nat, NEW b \in Nat, NEW w \in Nat,
         Inv(s, a, b, w), lockQueue # <<>>
  PROVE  /\ w = 1 => Head(lockQueue) = Worker /\ worker = "lock"
         /\ w # 1 => /\ Head(lockQueue) = logged[s + 1] /\ s + 1 <= a
                     /\ s + 1 \in 1..Len(logged)
                     /\ call[Head(lockQueue)] = "lock"
<1>1. Queued(lockQueue, w, logged, s) /\ Len(lockQueue) = (a - s) + Contending
      /\ (worker = "lock" <=> w <= Len(lockQueue))
  BY DEF Inv, Locked
<1>2. Len(lockQueue) \in Nat \ {0} /\ Head(lockQueue) = lockQueue[1]
  BY Popped, Lengths
<1>3. CASE w = 1
  BY <1>1, <1>2, <1>3 DEF Queued
<1>4. CASE w # 1
  <2>1. Head(lockQueue) = logged[s + 1]
    <3>1. 1 < w /\ 1 \in 1..Len(lockQueue)
      BY <1>1, <1>2, <1>4 DEF Queued
    <3>2. lockQueue[1] = logged[s + 1]
      BY <1>1, <3>1 DEF Queued
    <3> QED
      BY <1>2, <3>2
  <2>2. s + 1 <= a
    <3>1. CASE worker = "lock"
      <4>1. Contending = 1 /\ w \in 1..(Len(lockQueue) + 1)
        BY <1>1, <3>1 DEF Contending, Queued
      <4>2. Len(lockQueue) >= 2
        BY <1>1, <1>2, <1>4, <3>1, <4>1
      <4> QED
        BY <1>1, <4>1, <4>2
    <3>2. CASE worker # "lock"
      BY <1>1, <1>2, <3>2 DEF Contending
    <3> QED
      BY <3>1, <3>2
  <2>3. s + 1 \in 1..Len(logged) /\ call[logged[s + 1]] = "lock"
    BY <2>2, Lengths DEF Inv, Placed
  <2> QED
    BY <1>4, <2>1, <2>2, <2>3
<1> QED
  BY <1>3, <1>4

\* Nobody who holds or is given the lock, nor the worker, is a call in its slot.
LEMMA SlotsApart ==
  ASSUME QueueTypeOK, NEW s \in Nat, NEW a \in Nat, NEW b \in Nat, NEW w \in Nat,
         Inv(s, a, b, w)
  PROVE  \A m \in (a + 1)..b :
           /\ m \in 1..Len(logged)
           /\ logged[m] \in Event /\ logged[m] # Worker
           /\ call[logged[m]] = "slot"
           /\ logged[m] \notin HeadSet(lockQueue) \cup Awake(worker)
           /\ \A n \in 1..Len(logged) : logged[n] = logged[m] => n = m
<1> SUFFICES ASSUME NEW m \in (a + 1)..b
             PROVE  /\ m \in 1..Len(logged)
                    /\ logged[m] \in Event /\ logged[m] # Worker
                    /\ call[logged[m]] = "slot"
                    /\ logged[m] \notin HeadSet(lockQueue) \cup Awake(worker)
                    /\ \A n \in 1..Len(logged) : logged[n] = logged[m] => n = m
  OBVIOUS
<1>1. m \in 1..Len(logged)
  BY Lengths DEF Inv, Placed
<1>2. logged[m] \in Event /\ logged[m] # Worker
  BY <1>1, Lengths
<1>3. call[logged[m]] = "slot"
  BY <1>1 DEF Inv, Placed
<1>4. logged[m] \notin HeadSet(lockQueue)
  BY <1>2, <1>3, HeadIs DEF HeadSet
<1>5. \A n \in 1..Len(logged) : logged[n] = logged[m] => n = m
  BY <1>1 DEF Inv, Placed
<1> QED
  BY <1>1, <1>2, <1>3, <1>4, <1>5 DEF Awake

\* When nothing is ready, no call is between its slot and the buffer and the
\* lock is free.
LEMMA NothingReady ==
  ASSUME QueueTypeOK, NEW s \in Nat, NEW a \in Nat, NEW b \in Nat, NEW w \in Nat,
         Inv(s, a, b, w), ready = <<>>
  PROVE  /\ lockQueue = <<>> /\ w = 1 /\ a = s /\ b = s
         /\ worker \in {"write", "sleep", "done"}
<1>1. Orderly(ready, HeadSet(lockQueue) \cup Awake(worker), logged, a, b)
  BY DEF Inv, Scheduled
<1>2. 1..Len(ready) = {}
  OBVIOUS
<1>3. HeadSet(lockQueue) \cup Awake(worker) = {}
  BY <1>1, <1>2 DEF Orderly
<1>4. lockQueue = <<>> /\ worker \notin {"written", "drained"}
  BY <1>3 DEF HeadSet, Awake
<1>5. worker # "lock" /\ w = 1 /\ a = s
  <2>1. Len(lockQueue) = 0 /\ w \in 1..(Len(lockQueue) + 1)
        /\ Len(lockQueue) = (a - s) + Contending
        /\ (worker = "lock" <=> w <= Len(lockQueue))
    BY <1>4 DEF Inv, Locked, Queued
  <2> QED
    BY <2>1 DEF Contending
<1>6. b <= a
  <2> SUFFICES ASSUME ~(b <= a) PROVE FALSE
    OBVIOUS
  <2>1. b \in (a + 1)..b
    OBVIOUS
  <2> QED
    BY <1>1, <1>2, <2>1 DEF Orderly
<1>7. a <= b
  BY DEF Inv, Placed
<1> QED
  BY <1>4, <1>5, <1>6, <1>7 DEF QueueTypeOK

\* The call at the front that has its slot is the first of them.
LEMMA SlotRuns ==
  ASSUME QueueTypeOK, NEW s \in Nat, NEW a \in Nat, NEW b \in Nat, NEW w \in Nat,
         Inv(s, a, b, w), NEW e \in Event, Runs(e), call[e] = "slot"
  PROVE  /\ e = logged[a + 1] /\ a + 1 <= b
         /\ Tail(ready) \in Seq(Entry)
         /\ Orderly(Tail(ready), HeadSet(lockQueue) \cup Awake(worker), logged,
                    a + 1, b)
<1> DEFINE others == HeadSet(lockQueue) \cup Awake(worker)
<1>1. ready # <<>> /\ Head(ready).chain = e /\ ready \in Seq(Entry)
  BY Lengths DEF Runs
<1>2. e \notin others
  <2>1. e # Worker
    BY QueueAssumption
  <2>2. lockQueue # <<>> => Head(lockQueue) # e
    BY <2>1, HeadIs
  <2> QED
    BY <2>1, <2>2 DEF HeadSet, Awake
<1>3. \A m, n \in (a + 1)..b : logged[m] = logged[n] => m = n
  BY SlotsApart
<1>4. Orderly(ready, others, logged, a, b)
  BY DEF Inv, Scheduled
<1> HIDE DEF others
<1>5. /\ a + 1 <= b /\ Head(ready).chain = logged[a + 1]
      /\ Orderly(Tail(ready), others, logged, a + 1, b)
  BY <1>1, <1>2, <1>3, <1>4, PopSlot
<1> QED
  BY <1>1, <1>5, Popped DEF others

\* Any other chain at the front holds the lock or is the awake worker.
LEMMA OtherRuns ==
  ASSUME QueueTypeOK, NEW s \in Nat, NEW a \in Nat, NEW b \in Nat, NEW w \in Nat,
         Inv(s, a, b, w), NEW c \in Chain, Runs(c), c \in Event => call[c] # "slot"
  PROVE  /\ c \in HeadSet(lockQueue) \cup Awake(worker)
         /\ Tail(ready) \in Seq(Entry)
         /\ Orderly(Tail(ready), (HeadSet(lockQueue) \cup Awake(worker)) \ {c},
                    logged, a, b)
         /\ c = Worker => a = b
<1> DEFINE others == HeadSet(lockQueue) \cup Awake(worker)
<1>1. ready # <<>> /\ Head(ready).chain = c /\ ready \in Seq(Entry)
  BY Lengths DEF Runs
<1>2. \A m \in (a + 1)..b : logged[m] # Head(ready).chain
  BY <1>1, SlotsApart
<1>3. Orderly(ready, others, logged, a, b)
  BY DEF Inv, Scheduled
<1> HIDE DEF others
<1>4. /\ Head(ready).chain \in others
      /\ Orderly(Tail(ready), others \ {Head(ready).chain}, logged, a, b)
      /\ Head(ready).chain = Worker => b <= a
  BY <1>1, <1>2, <1>3, PopOther
<1>5. a <= b
  BY DEF Inv, Placed
<1>6. Tail(ready) \in Seq(Entry)
  BY <1>1, Popped
<1>7. Orderly(Tail(ready), others \ {c}, logged, a, b)
  BY <1>1, <1>4
<1>8. c = Worker => a = b
  BY <1>1, <1>4, <1>5
<1> QED
  BY <1>1, <1>4, <1>6, <1>7, <1>8 DEF others

------------------------------------------------------------------------------
(* Handing over *)

LEMMA GrantedOrderly ==
  ASSUME NEW r \in Seq(Entry), NEW others, NEW l, NEW a \in Nat, NEW b \in Nat,
         Orderly(r, others, l, a, b), NEW q \in Seq(Chain),
         q # <<>> => Head(q) \notin others,
         q # <<>> => \A m \in (a + 1)..b : l[m] # Head(q)
  PROVE  Orderly(r \o Granted(q), others \cup HeadSet(q), l, a, b)
<1>1. CASE q = <<>>
  <2>1. r \o Granted(q) = r /\ others \cup HeadSet(q) = others
    BY <1>1 DEF Granted, HeadSet
  <2> QED
    BY <2>1
<1>2. CASE q # <<>>
  <2> DEFINE x == [chain |-> Head(q), hops |-> LockHops]
  <2>1. x \in Entry /\ x.chain = Head(q)
    BY <1>2, Popped, EntryType
  <2>2. r \o Granted(q) = r \o <<x>> /\ HeadSet(q) = {Head(q)}
    BY <1>2 DEF Granted, Wake, HeadSet
  <2> HIDE DEF x
  <2>3. Orderly(Append(r, x), others \cup {x.chain}, l, a, b)
    BY <1>2, <2>1, PushOther
  <2> QED
    BY <2>1, <2>2, <2>3, WakeIsAppend
<1> QED
  BY <1>1, <1>2

LEMMA WakeOrderly ==
  ASSUME NEW r \in Seq(Entry), NEW others, NEW l, NEW a \in Nat, NEW b \in Nat,
         Orderly(r, others, l, a, b), NEW c \in Chain, NEW k \in {1, LockHops},
         c \notin others, \A m \in (a + 1)..b : l[m] # c
  PROVE  Orderly(r \o Wake(c, k), others \cup {c}, l, a, b)
<1> DEFINE x == [chain |-> c, hops |-> k]
<1>1. x \in Entry /\ x.chain = c
  BY EntryType
<1>2. r \o Wake(c, k) = r \o <<x>>
  BY DEF Wake
<1> HIDE DEF x
<1>3. Orderly(Append(r, x), others \cup {x.chain}, l, a, b)
  BY <1>1, PushOther
<1> QED
  BY <1>1, <1>2, <1>3, WakeIsAppend

\* A chain that asks for the lock has it at once or waits behind its holder.
LEMMA AcquireOrderly ==
  ASSUME NEW r \in Seq(Entry), NEW others, NEW l, NEW a \in Nat, NEW b \in Nat,
         NEW q \in Seq(Chain), NEW c \in Chain, AcquireLock(c, q, r),
         Orderly(r, others \cup HeadSet(q), l, a, b),
         c \notin others \cup HeadSet(q), \A m \in (a + 1)..b : l[m] # c
  PROVE  Orderly(ready', others \cup HeadSet(lockQueue'), l, a, b)
<1>1. CASE q = <<>>
  <2>1. lockQueue' = <<c>> /\ ready' = r \o Wake(c, LockHops)
    BY <1>1 DEF AcquireLock
  <2>2. Orderly(ready', (others \cup HeadSet(q)) \cup {c}, l, a, b)
    BY <2>1, WakeOrderly
  <2>3. HeadSet(q) = {} /\ HeadSet(lockQueue') = {c}
    BY <1>1, <2>1 DEF HeadSet
  <2> QED
    BY <2>2, <2>3
<1>2. CASE q # <<>>
  <2>1. lockQueue' = Append(q, c) /\ ready' = r
    BY <1>2, WakeIsAppend DEF AcquireLock
  <2>2. Append(q, c) # <<>> /\ Head(Append(q, c)) = Head(q)
    BY <1>2
  <2>3. HeadSet(lockQueue') = HeadSet(q)
    BY <1>2, <2>1, <2>2 DEF HeadSet
  <2> QED
    BY <2>1, <2>3
<1> QED
  BY <1>1, <1>2

\* The head of the lock's queue, when the worker is not in it, is not the worker.
LEMMA NoWorker ==
  ASSUME QueueTypeOK, NEW s \in Nat, NEW a \in Nat, NEW b \in Nat, NEW w \in Nat,
         Inv(s, a, b, w), worker # "lock"
  PROVE  /\ Worker \notin HeadSet(lockQueue)
         /\ w = Len(lockQueue) + 1 /\ Len(lockQueue) = a - s
<1>1. Worker \notin HeadSet(lockQueue)
  BY HeadIs, Lengths DEF HeadSet
<1>2. /\ w \in 1..(Len(lockQueue) + 1)
      /\ worker = "lock" <=> w <= Len(lockQueue)
      /\ Len(lockQueue) = (a - s) + Contending
  BY DEF Inv, Locked, Queued
<1>3. Contending = 0
  BY DEF Contending
<1> QED
  BY <1>1, <1>2, <1>3, Lengths

\* The worker tests the loop of drain.
LEMMA DrainStep ==
  ASSUME NEW s \in Nat, NEW a \in Nat, NEW b \in Nat,
         NEW q \in Seq(Chain), NEW r \in Seq(Entry), NEW k, DrainTest(k, q, r),
         Orderly(r, HeadSet(q), logged, a, b), Worker \notin HeadSet(q),
         \A m \in (a + 1)..b : logged[m] # Worker,
         Queued(q, Len(q) + 1, logged, s), Len(q) = a - s, s <= a,
         b <= a + 1, b = a + 1 => k = 0,
         k = emptySlots', logged' = logged, turn' # "requests"
  PROVE  /\ \A v \in Nat : v = Len(q) + 1 => Locked(s, a, b, v)'
         /\ Scheduled(a, b)'
         /\ Held' = 0
         /\ worker' = "lock" => emptySlots' < BufferCapacity
<1>1. /\ Orderly(ready', HeadSet(lockQueue') \cup Awake(worker'), logged, a, b)
      /\ Queued(lockQueue', Len(q) + 1, logged, s)
      /\ Len(lockQueue') = Len(q) + Contending'
      /\ worker' \in {"lock", "drained"}
      /\ worker' = "lock" <=> Len(q) + 1 <= Len(lockQueue')
      /\ worker' = "lock" => k < BufferCapacity
  <2>0. Worker \in Chain /\ Len(q) \in Nat
    BY DEF Chain
  <2>1. CASE k < BufferCapacity
    <3>1. worker' = "lock" /\ AcquireLock(Worker, q, r)
      BY <2>1 DEF DrainTest
    <3>2. Orderly(r, {} \cup HeadSet(q), logged, a, b) /\ Worker \notin {} \cup HeadSet(q)
      OBVIOUS
    <3>3. Orderly(ready', {} \cup HeadSet(lockQueue'), logged, a, b)
      BY <2>0, <3>1, <3>2, AcquireOrderly
    <3>4. HeadSet(lockQueue') \cup Awake(worker') = {} \cup HeadSet(lockQueue')
      BY <3>1 DEF Awake
    <3>5. lockQueue' = Append(q, Worker) /\ Len(lockQueue') = Len(q) + 1
      BY <2>0, <3>1, Pushed DEF AcquireLock
    <3>6. Queued(lockQueue', Len(q) + 1, logged, s)
      BY <3>5, QueueWorker
    <3> QED
      <4>1. Contending' = 1
        BY <3>1 DEF Contending
      <4>2. Orderly(ready', HeadSet(lockQueue') \cup Awake(worker'), logged, a, b)
        BY <3>3, <3>4
      <4>3. Len(lockQueue') = Len(q) + Contending'
            /\ Len(q) + 1 <= Len(lockQueue')
        BY <2>0, <3>5, <4>1
      <4> QED
        BY <2>1, <3>1, <3>6, <4>2, <4>3
  <2>2. CASE ~(k < BufferCapacity)
    <3>1. worker' = "drained" /\ lockQueue' = q /\ ready' = r \o Wake(Worker, 1)
      BY <2>2 DEF DrainTest
    <3>2. Orderly(ready', HeadSet(q) \cup {Worker}, logged, a, b)
      BY <2>0, <3>1, WakeOrderly
    <3> QED
      BY <2>0, <3>1, <3>2 DEF Awake, Contending
  <2> QED
    BY <2>1, <2>2
<1>2. Scheduled(a, b)'
  BY <1>1 DEF Scheduled
<1>3. ASSUME NEW v \in Nat, v = Len(q) + 1
      PROVE  Locked(s, a, b, v)'
  <2>1. s + v = a + 1
    BY <1>3
  <2> QED
    BY <1>1, <1>3, <2>1 DEF Locked
<1> QED
  BY <1>1, <1>2, <1>3 DEF Held

------------------------------------------------------------------------------
(* The steps *)

LEMMA HopStep ==
  ASSUME QueueTypeOK, NEW s \in Nat, NEW a \in Nat, NEW b \in Nat, NEW w \in Nat,
         Inv(s, a, b, w), Hop
  PROVE  QueueTypeOK' /\ Inv(s, a, b, w)'
<1> DEFINE others == HeadSet(lockQueue) \cup Awake(worker)
           x == [Head(ready) EXCEPT !.hops = @ - 1]
           c == Head(ready).chain
<1>1. ready # <<>> /\ ready \in Seq(Entry) /\ Head(ready).hops > 1
      /\ ready' = Append(Tail(ready), x)
  BY Lengths DEF Hop
<1>2. x \in Entry /\ x.chain = c
  <2>1. Head(ready) \in Entry
    BY <1>1, Popped
  <2> QED
    <3>1. /\ x = [chain |-> c, hops |-> Head(ready).hops - 1]
          /\ c \in Chain /\ Head(ready).hops \in 1..LockHops
      BY <2>1 DEF Entry
    <3>2. Head(ready).hops - 1 \in 1..LockHops
      BY <1>1, <3>1, QueueAssumption
    <3> QED
      BY <3>1, <3>2 DEF Entry
<1>3. Orderly(ready, others, logged, a, b)
  BY DEF Inv, Scheduled
<1>4. c \in others
  <2>1. 1 \in 1..Len(ready) /\ ready[1] = Head(ready)
    BY <1>1, Popped
  <2>2. \/ ready[1].chain \in others
        \/ \E m \in (a + 1)..b : ready[1].chain = logged[m] /\ ready[1].hops = 1
    BY <1>3, <2>1 DEF Orderly
  <2> QED
    BY <1>1, <2>1, <2>2
<1>5. \A m \in (a + 1)..b : logged[m] # c
  BY <1>4, SlotsApart
<1> HIDE DEF others, x
<1>6. Orderly(Tail(ready), others \ {c}, logged, a, b) /\ Tail(ready) \in Seq(Entry)
  BY <1>1, <1>3, <1>5, PopOther, Popped
<1>7. Orderly(ready', (others \ {c}) \cup {c}, logged, a, b)
  BY <1>1, <1>2, <1>5, <1>6, PushOther
<1>8. Orderly(ready', others, logged, a, b)
  <2>1. (others \ {c}) \cup {c} = others
    BY <1>4
  <2> QED
    BY <1>7, <2>1
<1>9. Scheduled(a, b)'
  BY <1>8 DEF Scheduled, Inv, Hop, trail, others
<1>10. Placed(s, a, b)' /\ Filled(s)' /\ Counted(b)' /\ Locked(s, a, b, w)'
  BY DEF Hop, Inv, Placed, Filled, Counted, Locked, Held, Contending, buffer, trail
<1>11. ready' \in Seq(Entry)
  BY <1>1, <1>2, <1>6, Pushed
<1> QED
  BY <1>9, <1>10, <1>11 DEF Inv, QueueTypeOK, Entry, Hop, buffer, trail

LEMMA EnterLockStep ==
  ASSUME QueueTypeOK, NEW s \in Nat, NEW a \in Nat, NEW b \in Nat, NEW w \in Nat,
         Inv(s, a, b, w), NEW e \in Event, EnterLock(e)
  PROVE  QueueTypeOK' /\ \E v \in Nat : Inv(s, a + 1, b, v)'
<1>0. PICK v \in Nat : v = IF w <= Len(lockQueue) THEN w ELSE w + 1
  OBVIOUS
<1>1. /\ e = logged[a + 1] /\ a + 1 <= b
      /\ Tail(ready) \in Seq(Entry)
      /\ Orderly(Tail(ready), HeadSet(lockQueue) \cup Awake(worker), logged, a + 1, b)
  BY SlotRuns DEF EnterLock
<1>2. /\ e \notin HeadSet(lockQueue) \cup Awake(worker)
      /\ a + 1 \in 1..Len(logged)
      /\ \A n \in 1..Len(logged) : logged[n] = e => n = a + 1
  <2>1. a + 1 \in (a + 1)..b
    BY <1>1
  <2> QED
    BY <1>1, <2>1, SlotsApart
<1>3. \A m \in (a + 1 + 1)..b : logged[m] # e
  <2> SUFFICES ASSUME NEW m \in (a + 1 + 1)..b PROVE logged[m] # e
    OBVIOUS
  <2>1. m \in (a + 1)..b /\ m # a + 1
    OBVIOUS
  <2> QED
    BY <1>2, <2>1, SlotsApart
<1>4. AcquireLock(e, lockQueue, Tail(ready))
  BY DEF EnterLock
<1>5. e \in Chain /\ lockQueue \in Seq(Chain)
  BY Lengths DEF Chain
<1>6. Orderly(ready', Awake(worker) \cup HeadSet(lockQueue'), logged, a + 1, b)
  <2>1. HeadSet(lockQueue) \cup Awake(worker) = Awake(worker) \cup HeadSet(lockQueue)
    OBVIOUS
  <2>2. Orderly(Tail(ready), Awake(worker) \cup HeadSet(lockQueue), logged, a + 1, b)
    BY <1>1, <2>1
  <2>3. e \notin Awake(worker) \cup HeadSet(lockQueue)
    BY <1>2
  <2>4. a + 1 \in Nat
    OBVIOUS
  <2> QED
    BY <1>1, <1>3, <1>4, <1>5, <2>2, <2>3, <2>4, AcquireOrderly
<1>7. Scheduled(a + 1, b)'
  <2>1. Awake(worker) \cup HeadSet(lockQueue') = HeadSet(lockQueue') \cup Awake(worker)
    OBVIOUS
  <2> QED
    BY <1>6, <2>1 DEF Scheduled, Inv, EnterLock, trail
<1>8. Placed(s, a + 1, b)'
  <2>1. \A i \in 1..Len(logged) :
          call'[logged[i]] = IF i <= s THEN "stored"
                             ELSE IF i <= a + 1 THEN "lock" ELSE "slot"
    <3> SUFFICES ASSUME NEW i \in 1..Len(logged)
                 PROVE  call'[logged[i]] = IF i <= s THEN "stored"
                                           ELSE IF i <= a + 1 THEN "lock" ELSE "slot"
      OBVIOUS
    <3>1. call' = [call EXCEPT ![e] = "lock"] /\ call \in [Event -> {"new", "slot", "lock", "stored"}]
          /\ logged[i] \in Event
      BY Lengths DEF EnterLock, QueueTypeOK
    <3>2. CASE i = a + 1
      BY <1>1, <3>1, <3>2 DEF Inv, Placed
    <3>3. CASE i # a + 1
      <4>1. logged[i] # e
        BY <1>2, <3>3
      <4>2. call'[logged[i]] = call[logged[i]]
        BY <3>1, <4>1
      <4>3. call[logged[i]] = IF i <= s THEN "stored" ELSE IF i <= a THEN "lock" ELSE "slot"
        BY DEF Inv, Placed
      <4> QED
        BY <3>3, <4>2, <4>3, Lengths
    <3> QED
      BY <3>2, <3>3
  <2>2. \A d \in Event : call'[d] # "new" => \E i \in 1..Len(logged) : logged[i] = d
    <3> SUFFICES ASSUME NEW d \in Event, call'[d] # "new"
                 PROVE  \E i \in 1..Len(logged) : logged[i] = d
      OBVIOUS
    <3>1. CASE d = e
      BY <1>1, <1>2, <3>1
    <3>2. CASE d # e
      <4>1. call'[d] = call[d]
        BY <3>2 DEF EnterLock, QueueTypeOK
      <4> QED
        BY <4>1 DEF Inv, Placed
    <3> QED
      BY <3>1, <3>2
  <2> QED
    BY <1>1, <2>1, <2>2 DEF Placed, Inv, EnterLock, trail
<1>9. Filled(s)' /\ Counted(b)'
  BY DEF EnterLock, Inv, Filled, Counted, Held, buffer, trail
<1>10. Locked(s, a + 1, b, v)' /\ v \in Nat
  <2>1. /\ Queued(lockQueue, w, logged, s) /\ Len(lockQueue) = (a - s) + Contending
        /\ worker = "lock" <=> w <= Len(lockQueue)
        /\ worker = "lock" => b <= s + w /\ (b = s + w => emptySlots = 0)
        /\ w \in 1..(Len(lockQueue) + 1)
    BY DEF Inv, Locked, Queued
  <2>2. s + Len(lockQueue) + (IF w <= Len(lockQueue) THEN 0 ELSE 1) = a + 1
    BY <2>1, Lengths DEF Contending
  <2>3. /\ lockQueue' = Append(lockQueue, e) /\ Len(lockQueue') = Len(lockQueue) + 1
        /\ worker' = worker /\ emptySlots' = emptySlots /\ logged' = logged
    BY <1>5, Pushed DEF EnterLock, AcquireLock, trail
  <2>4. Queued(lockQueue', v, logged, s)
    BY <1>0, <1>1, <1>5, <2>1, <2>2, <2>3, QueueCall
  <2>5. Contending' = Contending /\ Contending \in Nat
    BY <2>3 DEF Contending
  <2>6. /\ v \in Nat /\ Len(lockQueue') = ((a + 1) - s) + Contending'
        /\ worker' = "lock" <=> v <= Len(lockQueue')
        /\ worker' = "lock" => v = w
    BY <1>0, <2>1, <2>3, <2>5, Lengths
  <2>7. worker' = "lock" => b <= s + v /\ (b = s + v => emptySlots' = 0)
    BY <2>1, <2>3, <2>6
  <2> QED
    BY <2>3, <2>4, <2>6, <2>7 DEF Locked
<1>11. QueueTypeOK'
  <2>1. lockQueue' \in Seq(Chain) /\ ready' \in Seq(Entry)
    BY <1>1, <1>4, <1>5, AcquireType
  <2>2. call' \in [Event -> {"new", "slot", "lock", "stored"}]
    BY DEF EnterLock, QueueTypeOK
  <2> QED
    BY <2>1, <2>2 DEF QueueTypeOK, Entry, EnterLock, buffer, trail
<1> QED
  BY <1>7, <1>8, <1>9, <1>10, <1>11 DEF Inv

LEMMA StoreStep ==
  ASSUME QueueTypeOK, NEW s \in Nat, NEW a \in Nat, NEW b \in Nat, NEW w \in Nat,
         Inv(s, a, b, w), NEW e \in Event, Store(e)
  PROVE  QueueTypeOK' /\ \E v \in Nat : Inv(s + 1, a, b, v)'
<1>0. PICK v \in Int : v = w - 1
  OBVIOUS
<1>1. Runs(e) /\ call[e] = "lock" /\ e \in Chain /\ e # Worker
  BY QueueAssumption DEF Store, Chain
<1>2. /\ e \in HeadSet(lockQueue) \cup Awake(worker)
      /\ Tail(ready) \in Seq(Entry)
      /\ Orderly(Tail(ready), (HeadSet(lockQueue) \cup Awake(worker)) \ {e}, logged, a, b)
  BY <1>1, OtherRuns
<1>3. lockQueue # <<>> /\ Head(lockQueue) = e
  BY <1>1, <1>2 DEF HeadSet, Awake
<1>4. /\ w # 1 /\ e = logged[s + 1] /\ s + 1 <= a /\ s + 1 \in 1..Len(logged)
  BY <1>1, <1>3, HeadIs
<1>5. \A n \in 1..Len(logged) : logged[n] = e => n = s + 1
  BY <1>4 DEF Inv, Placed
<1> DEFINE q == Tail(lockQueue)
<1>6. q \in Seq(Chain) /\ Len(lockQueue) \in Nat \ {0} /\ Len(q) = Len(lockQueue) - 1
  BY <1>3, Lengths, Popped
<1>7. /\ Queued(lockQueue, w, logged, s) /\ Len(lockQueue) = (a - s) + Contending
      /\ worker = "lock" <=> w <= Len(lockQueue)
      /\ worker = "lock" => b <= s + w /\ (b = s + w => emptySlots = 0)
      /\ w \in 1..(Len(lockQueue) + 1)
  BY DEF Inv, Locked, Queued
<1>8. Queued(q, v, logged, s + 1) /\ v \in Nat
  <2>1. Queued(q, w - 1, logged, s + 1)
    BY <1>3, <1>4, <1>7, UnqueueCall, Lengths
  <2> HIDE DEF q
  <2>2. w - 1 \in Nat
    BY <1>7, Lengths
  <2> QED
    BY <1>0, <2>1, <2>2
<1>9. Orderly(Tail(ready), Awake(worker), logged, a, b)
  <2>1. e \notin Awake(worker)
    BY <1>1 DEF Awake
  <2>2. HeadSet(lockQueue) = {e}
    BY <1>3 DEF HeadSet
  <2>3. (HeadSet(lockQueue) \cup Awake(worker)) \ {e} = Awake(worker)
    BY <2>1, <2>2
  <2> QED
    BY <1>2, <2>3
<1>10. ASSUME q # <<>>
       PROVE  Head(q) \notin Awake(worker) /\ \A m \in (a + 1)..b : logged[m] # Head(q)
  <2>1. CASE v = 1
    <3>1. Head(q) = Worker /\ worker = "lock"
      <4>1. Len(q) \in Nat \ {0}
        BY <1>6, <1>10, Popped
      <4> HIDE DEF q
      <4>2. Head(q) = Worker
        BY <1>6, <1>8, <1>10, <2>1, UnqueueWorker
      <4>3. w <= Len(lockQueue)
        BY <1>0, <1>6, <2>1, <4>1
      <4> QED
        BY <1>7, <4>2, <4>3
    <3> QED
      <4>1. Awake(worker) = {}
        BY <3>1 DEF Awake
      <4>2. \A m \in (a + 1)..b : logged[m] # Worker
        BY SlotsApart
      <4> QED
        BY <3>1, <4>1, <4>2
  <2>2. CASE v # 1
    <3> HIDE DEF q
    <3>1. Head(q) = logged[s + 1 + 1]
      BY <1>6, <1>8, <1>10, <2>2, UnqueueCall
    <3>2. s + 2 <= a /\ s + 2 \in 1..Len(logged) /\ s + 1 + 1 = s + 2
      <4>1. Len(q) \in Nat \ {0}
        BY <1>6, <1>10, Popped
      <4>2. s + 2 <= a
        <5>1. CASE worker = "lock"
          <6>1. Contending = 1 /\ v >= 2
            BY <1>0, <1>4, <1>7, <2>2, <5>1, Lengths DEF Contending
          <6>2. Len(lockQueue) >= 3
            BY <1>0, <1>6, <1>7, <5>1, <6>1
          <6> QED
            BY <1>6, <1>7, <6>1, <6>2
        <5>2. CASE worker # "lock"
          BY <1>6, <1>7, <4>1, <5>2 DEF Contending
        <5> QED
          BY <5>1, <5>2
      <4> QED
        BY <4>2, Lengths DEF Inv, Placed
    <3>3. Head(q) # Worker
      BY <3>1, <3>2, Lengths
    <3>4. \A m \in (a + 1)..b : m # s + 2
      BY <3>2
    <3>5. \A m \in (a + 1)..b : logged[m] # Head(q)
      BY <3>1, <3>2, <3>4, SlotsApart
    <3> QED
      BY <3>3, <3>5 DEF Awake
  <2> QED
    BY <2>1, <2>2
<1>11. ready' = Tail(ready) \o Granted(q) /\ lockQueue' = q
  BY DEF Store
<1> HIDE DEF q
<1>12. Scheduled(a, b)'
  <2>1. Orderly(ready', Awake(worker) \cup HeadSet(q), logged, a, b)
    BY <1>2, <1>6, <1>9, <1>10, <1>11, GrantedOrderly
  <2>2. Awake(worker) \cup HeadSet(q) = HeadSet(q) \cup Awake(worker)
    OBVIOUS
  <2> QED
    BY <1>11, <2>1, <2>2 DEF Scheduled, Inv, Store, trail
<1>13. Locked(s + 1, a, b, v)'
  <2>1. /\ worker' = worker /\ emptySlots' = emptySlots /\ logged' = logged
    BY DEF Store, trail
  <2>2. Contending' = Contending /\ Contending \in Nat
    BY <2>1 DEF Contending
  <2>3. Len(lockQueue') = (a - (s + 1)) + Contending'
    BY <1>6, <1>7, <1>11, <2>2
  <2>4. worker' = "lock" <=> v <= Len(lockQueue')
    BY <1>0, <1>6, <1>7, <1>11, <2>1
  <2>5. worker' = "lock" => b <= (s + 1) + v /\ (b = (s + 1) + v => emptySlots' = 0)
    BY <1>0, <1>7, <2>1
  <2> QED
    BY <1>8, <1>11, <2>1, <2>3, <2>4, <2>5 DEF Locked
<1>14. Placed(s + 1, a, b)'
  <2>1. call' = [call EXCEPT ![e] = "stored"] /\ call \in [Event -> {"new", "slot", "lock", "stored"}]
    BY DEF Store, QueueTypeOK
  <2>2. ASSUME NEW i \in 1..Len(logged)
        PROVE  call'[logged[i]] = IF i <= s + 1 THEN "stored"
                                  ELSE IF i <= a THEN "lock" ELSE "slot"
    <3>1. logged[i] \in Event
      BY Lengths
    <3>2. CASE i = s + 1
      BY <1>4, <2>1, <3>2
    <3>3. CASE i # s + 1
      <4>1. call'[logged[i]] = call[logged[i]]
        BY <1>5, <2>1, <3>1, <3>3
      <4>2. call[logged[i]] = IF i <= s THEN "stored" ELSE IF i <= a THEN "lock" ELSE "slot"
        BY DEF Inv, Placed
      <4> QED
        BY <3>3, <4>1, <4>2, Lengths
    <3> QED
      BY <3>2, <3>3
  <2>3. ASSUME NEW d \in Event, call'[d] # "new"
        PROVE  \E i \in 1..Len(logged) : logged[i] = d
    <3>1. CASE d = e
      BY <1>4, <3>1
    <3>2. CASE d # e
      BY <2>1, <2>3, <3>2 DEF Inv, Placed
    <3> QED
      BY <3>1, <3>2
  <2>4. Len(handed) <= s + 1
    BY Lengths DEF Inv, Placed
  <2> QED
    BY <1>4, <2>2, <2>3, <2>4 DEF Placed, Inv, Store, trail
<1>15. Counted(b)'
  BY DEF Store, Inv, Counted, Held, trail
<1> DEFINE h == Len(handed)
           first == eventBufferHead
<1>16. /\ h \in Nat /\ h <= s /\ s - h \in 0..(BufferCapacity - 1)
       /\ eventBufferTail = SlotAt(first, s - h) /\ first \in Index /\ eventBufferTail \in Index
       /\ \A k \in 0..(s - h - 1) : eventBuffer[SlotAt(first, k)] = logged[h + 1 + k]
  <2>1. h \in Nat /\ h <= s /\ a <= b /\ emptySlots \in Nat
    BY Lengths DEF Inv, Placed, QueueTypeOK
  <2>2. emptySlots + (b - h) + Held = BufferCapacity /\ Held \in Nat
    BY DEF Inv, Counted, Held
  <2>3. s - h <= BufferCapacity - 1
    BY <1>4, <2>1, <2>2, Lengths
  <2> QED
    BY <2>1, <2>3, Lengths DEF Inv, Filled, QueueTypeOK
<1> HIDE DEF h, first
<1>a. BufferCapacity \in Nat
  BY Lengths
<1>17. Filled(s + 1)'
  <2>1. /\ eventBuffer' = [eventBuffer EXCEPT ![eventBufferTail] = e]
        /\ eventBufferTail' = NextIndex(eventBufferTail)
        /\ eventBufferHead' = first /\ Len(handed') = h /\ logged' = logged
        /\ eventBuffer \in [Index -> Event \cup {NoEvent}]
    BY DEF Store, trail, QueueTypeOK, h, first
  <2>2. s + 1 - h = (s - h) + 1 /\ (s + 1) - h - 1 = s - h
    BY <1>16
  <2>3. eventBufferTail' = SlotAt(first, s + 1 - h)
    <3>1. NextIndex(SlotAt(first, s - h)) = SlotAt(first, (s - h) + 1)
      BY <1>16, SlotFacts
    <3> QED
      BY <1>16, <2>1, <2>2, <3>1
  <2>4. ASSUME NEW k \in 0..(s - h)
        PROVE  eventBuffer'[SlotAt(first, k)] = logged[h + 1 + k]
    <3>1. k \in 0..(BufferCapacity - 1)
      BY <1>16, <1>a
    <3>2. SlotAt(first, k) \in Index
      BY <1>16, <3>1, SlotFacts
    <3>3. CASE k = s - h
      <4>1. h + 1 + k = s + 1
        BY <1>16, <3>3
      <4> QED
        BY <1>4, <1>16, <2>1, <3>3, <4>1
    <3>4. CASE k # s - h
      <4>1. SlotAt(first, k) # eventBufferTail
        BY <1>16, <3>1, <3>4, SlotFacts
      <4>2. eventBuffer'[SlotAt(first, k)] = eventBuffer[SlotAt(first, k)]
        BY <2>1, <3>2, <4>1
      <4>3. k \in 0..(s - h - 1)
        BY <1>16, <3>4
      <4> QED
        BY <1>16, <4>2, <4>3
    <3> QED
      BY <3>3, <3>4
  <2> QED
    BY <2>1, <2>2, <2>3, <2>4 DEF Filled
<1>18. QueueTypeOK'
  <2>1. ready' \in Seq([chain : Chain, hops : 1..LockHops])
    BY <1>2, <1>6, <1>11, GrantedType DEF Entry
  <2>2. call' \in [Event -> {"new", "slot", "lock", "stored"}]
    BY DEF Store, QueueTypeOK
  <2>3. eventBuffer' \in [Index -> Event \cup {NoEvent}]
    BY DEF Store, QueueTypeOK
  <2>4. eventBufferTail' \in Index
    <3>1. eventBufferTail' = NextIndex(eventBufferTail) /\ 0 \in 0..(BufferCapacity - 1)
      BY Lengths DEF Store
    <3> QED
      BY <1>16, <3>1, SlotFacts
  <2> QED
    BY <1>6, <1>11, <2>1, <2>2, <2>3, <2>4 DEF QueueTypeOK, Store, trail
<1> QED
  BY <1>8, <1>12, <1>13, <1>14, <1>15, <1>17, <1>18 DEF Inv

LEMMA LogStep ==
  ASSUME QueueTypeOK, NEW s \in Nat, NEW a \in Nat, NEW b \in Nat, NEW w \in Nat,
         Inv(s, a, b, w), NEW e \in Event, Log(e)
  PROVE  QueueTypeOK' /\ \E d \in Nat : Inv(s, a, d, w)'
<1> DEFINE n == Len(logged)
<1>0. n \in Nat /\ logged \in Seq(Event) /\ slotQueue \in Seq(Event) /\ e \in Chain
  BY Lengths DEF Chain
<1>1. worker \in {"write", "sleep", "done"}
  <2>1. CASE ready = <<>>
    BY <2>1, NothingReady
  <2>2. CASE turn = "requests"
    BY <2>2 DEF Inv, Scheduled
  <2> QED
    BY <2>1, <2>2 DEF Log
<1>2. /\ Worker \notin HeadSet(lockQueue)
      /\ w = Len(lockQueue) + 1 /\ Len(lockQueue) = a - s
  BY <1>1, NoWorker
<1>3. /\ Len(handed) <= s /\ s <= a /\ a <= b /\ b + Len(slotQueue) = n
      /\ Len(handed) \in Nat /\ Len(slotQueue) \in Nat
  BY Lengths DEF Inv, Placed
<1>4. /\ logged' = Append(logged, e) /\ Len(logged') = n + 1 /\ logged'[n + 1] = e
      /\ logged' \in Seq(Event)
      /\ \A i \in 1..n : logged'[i] = logged[i]
      /\ \A i \in 1..(n + 1) : i = n + 1 \/ i \in 1..n
      /\ \A i \in 1..n : i \in 1..(n + 1)
      /\ n + 1 \in 1..(n + 1)
  <2>1. logged' = Append(logged, e)
    BY DEF Log
  <2> QED
    BY <1>0, <2>1, Pushed
<1>5. /\ call' = [call EXCEPT ![e] = "slot"] /\ call[e] = "new"
      /\ call \in [Event -> {"new", "slot", "lock", "stored"}]
      /\ \A i \in 1..n : logged[i] \in Event
  BY Lengths DEF Log, QueueTypeOK
<1>6. \A i \in 1..n : /\ call[logged[i]] = IF i <= s THEN "stored"
                                           ELSE IF i <= a THEN "lock" ELSE "slot"
                      /\ logged[i] # e
  <2> SUFFICES ASSUME NEW i \in 1..n
               PROVE  /\ call[logged[i]] = IF i <= s THEN "stored"
                                           ELSE IF i <= a THEN "lock" ELSE "slot"
                      /\ logged[i] # e
    OBVIOUS
  <2>1. call[logged[i]] = IF i <= s THEN "stored" ELSE IF i <= a THEN "lock" ELSE "slot"
    BY DEF Inv, Placed
  <2> QED
    BY <1>5, <2>1
<1> HIDE DEF n
<1>7. /\ handed' = handed /\ eventBuffer' = eventBuffer
      /\ eventBufferHead' = eventBufferHead /\ eventBufferTail' = eventBufferTail
      /\ lockQueue' = lockQueue /\ running' = running /\ worker' = worker
      /\ final' = final /\ turn' = "requests"
      /\ owed' = (IF running THEN Len(logged') ELSE owed)
  BY DEF Log, buffer
<1>8. Filled(s)'
  <2>1. \A k \in 0..(s - Len(handed) - 1) :
          eventBuffer[SlotAt(eventBufferHead, k)] = logged'[Len(handed) + 1 + k]
    <3> SUFFICES ASSUME NEW k \in 0..(s - Len(handed) - 1)
                 PROVE  eventBuffer[SlotAt(eventBufferHead, k)] = logged'[Len(handed) + 1 + k]
      OBVIOUS
    <3>1. Len(handed) + 1 + k \in 1..n
      BY <1>0, <1>3
    <3>2. eventBuffer[SlotAt(eventBufferHead, k)] = logged[Len(handed) + 1 + k]
      BY DEF Inv, Filled
    <3> QED
      BY <1>4, <3>1, <3>2
  <2> QED
    BY <1>7, <2>1 DEF Filled, Inv
<1>9. Queued(lockQueue, w, logged', s)
  <2>1. Queued(lockQueue, w, logged, s)
    BY DEF Inv, Locked
  <2>2. ASSUME NEW j \in 1..Len(lockQueue)
        PROVE  /\ j < w /\ ~(j > w)
               /\ lockQueue[j] = logged'[s + j]
    <3>1. j < w /\ ~(j > w) /\ s + j \in 1..n
      BY <1>0, <1>2, <1>3
    <3> QED
      BY <1>4, <2>1, <3>1 DEF Queued
  <2>3. w \in 1..(Len(lockQueue) + 1) /\ ~(w <= Len(lockQueue))
    BY <1>2, Lengths
  <2> QED
    BY <2>2, <2>3 DEF Queued
<1>10. \A d \in Nat : Locked(s, a, d, w)'
  <2>1. Len(lockQueue) = (a - s) + Contending /\ (worker = "lock" <=> w <= Len(lockQueue))
    BY DEF Inv, Locked
  <2>2. Contending' = Contending /\ worker # "lock"
    BY <1>1, <1>7 DEF Contending
  <2> QED
    BY <1>7, <1>9, <2>1, <2>2 DEF Locked
<1>11. Orderly(ready, HeadSet(lockQueue), logged', a, b)
  <2>1. \A m \in (a + 1)..b : logged'[m] = logged[m]
    BY <1>0, <1>3, <1>4
  <2>2. Orderly(ready, HeadSet(lockQueue), logged, a, b)
    <3>1. HeadSet(lockQueue) \cup Awake(worker) = HeadSet(lockQueue)
      BY <1>1 DEF Awake
    <3> QED
      BY <3>1 DEF Inv, Scheduled
  <2> QED
    BY <2>1, <2>2, LogGrows, Lengths
<1>12. ASSUME NEW d \in Nat, b <= d, d + Len(slotQueue') = n + 1,
              \A j \in 1..Len(slotQueue') : slotQueue'[j] = logged'[d + j]
       PROVE  Placed(s, a, d)'
  <2>1. \A i \in 1..Len(handed) : handed[i] = logged'[i]
    <3>1. \A i \in 1..Len(handed) : handed[i] = logged[i] /\ i \in 1..n
      BY <1>0, <1>3 DEF Inv, Placed
    <3> QED
      BY <1>4, <3>1
  <2>2. \A i, j \in 1..(n + 1) : logged'[i] = logged'[j] => i = j
    <3>1. \A i, j \in 1..n : logged[i] = logged[j] => i = j
      BY DEF Inv, Placed, n
    <3> QED
      BY <1>4, <1>6, <3>1
  <2>3. \A i \in 1..(n + 1) :
          call'[logged'[i]] = IF i <= s THEN "stored" ELSE IF i <= a THEN "lock" ELSE "slot"
    <3> SUFFICES ASSUME NEW i \in 1..(n + 1)
                 PROVE  call'[logged'[i]] = IF i <= s THEN "stored"
                                            ELSE IF i <= a THEN "lock" ELSE "slot"
      OBVIOUS
    <3>1. CASE i = n + 1
      <4>1. ~(i <= s) /\ ~(i <= a)
        BY <1>0, <1>3, <3>1
      <4> QED
        BY <1>4, <1>5, <3>1, <4>1
    <3>2. CASE i \in 1..n
      <4>1. logged'[i] = logged[i] /\ logged[i] \in Event /\ logged[i] # e
        BY <1>4, <1>5, <1>6, <3>2
      <4>2. call'[logged'[i]] = call[logged[i]]
        BY <1>5, <4>1
      <4> QED
        BY <1>6, <3>2, <4>2
    <3> QED
      BY <1>4, <3>1, <3>2
  <2>4. \A c \in Event : call'[c] # "new" => \E i \in 1..(n + 1) : logged'[i] = c
    <3> SUFFICES ASSUME NEW c \in Event, call'[c] # "new"
                 PROVE  \E i \in 1..(n + 1) : logged'[i] = c
      OBVIOUS
    <3>1. CASE c = e
      BY <1>4, <3>1
    <3>2. CASE c # e
      <4>1. call[c] # "new"
        BY <1>5, <3>2
      <4>2. PICK i \in 1..n : logged[i] = c
        BY <4>1 DEF Inv, Placed, n
      <4> QED
        BY <1>4, <4>2
    <3> QED
      BY <3>1, <3>2
  <2>5. a <= d
    BY <1>3, <1>12
  <2> QED
    <3>1. /\ Len(handed') <= s /\ s <= a /\ a <= d
          /\ d + Len(slotQueue') = Len(logged')
      BY <1>3, <1>4, <1>7, <1>12, <2>5
    <3>2. \A i \in 1..Len(handed') : handed'[i] = logged'[i]
      BY <1>7, <2>1
    <3>3. Len(logged') = n + 1
      BY <1>4
    <3> QED
      BY <1>12, <2>2, <2>3, <2>4, <3>1, <3>2, <3>3 DEF Placed
<1>13. CASE emptySlots > 0
  <2>1. /\ emptySlots' = emptySlots - 1 /\ ready' = ready \o Wake(e, 1)
        /\ slotQueue' = slotQueue
    BY <1>13 DEF Log
  <2>2. slotQueue = <<>> /\ b = n
    <3>1. slotQueue # <<>> => emptySlots = 0
      BY DEF Inv, Counted
    <3>2. slotQueue = <<>>
      BY <1>13, <3>1
    <3> QED
      BY <1>0, <1>3, <3>2
  <2>3. Placed(s, a, b + 1)'
    <3>1. b + 1 \in Nat /\ b <= b + 1 /\ b + 1 + Len(slotQueue') = n + 1
          /\ Len(slotQueue') = 0
      BY <1>3, <2>1, <2>2
    <3>2. \A j \in 1..Len(slotQueue') : slotQueue'[j] = logged'[(b + 1) + j]
      BY <3>1
    <3> QED
      BY <1>12, <3>1, <3>2
  <2>4. Counted(b + 1)'
    <3>1. /\ emptySlots + (b - Len(handed)) + Held = BufferCapacity /\ Held \in Nat
          /\ emptySlots \in Nat
      BY DEF Inv, Counted, Held, QueueTypeOK
    <3>2. Held' = Held
      BY <1>7 DEF Held
    <3>3. emptySlots' + ((b + 1) - Len(handed)) + Held = BufferCapacity
      BY <1>3, <2>1, <3>1
    <3> QED
      BY <1>1, <1>7, <2>1, <2>2, <3>2, <3>3 DEF Counted
  <2>5. Scheduled(a, b + 1)'
    <3> DEFINE x == [chain |-> e, hops |-> 1]
    <3>1. x \in Entry /\ x = [chain |-> logged'[b + 1], hops |-> 1] /\ x.chain = e
      BY <1>0, <1>4, <2>2, EntryType
    <3>2. ready' = ready \o <<x>>
      BY <2>1 DEF Wake
    <3> HIDE DEF x
    <3>3. e \notin HeadSet(lockQueue)
      <4>1. ASSUME lockQueue # <<>> PROVE call[Head(lockQueue)] = "lock"
        BY <1>2, <4>1, HeadIs DEF HeadSet
      <4> QED
        BY <1>5, <4>1 DEF HeadSet
    <3>4. \A m \in (a + 1)..b : logged'[m] # e /\ logged'[m] # Worker
      BY <1>0, <1>3, <1>4, <1>6, SlotsApart
    <3>5. e # Worker
      BY QueueAssumption
    <3>6. Orderly(Append(ready, x), HeadSet(lockQueue), logged', a, b + 1)
      BY <1>2, <1>3, <1>11, <3>1, <3>3, <3>4, <3>5, PushSlot, Lengths
    <3>7. HeadSet(lockQueue) = HeadSet(lockQueue) \cup Awake(worker)
      BY <1>1 DEF Awake
    <3>8. Orderly(ready', HeadSet(lockQueue) \cup Awake(worker), logged', a, b + 1)
      BY <3>1, <3>2, <3>6, <3>7, WakeIsAppend, Lengths
    <3> QED
      BY <1>1, <1>7, <3>8 DEF Scheduled
  <2>6. Inv(s, a, b + 1, w)'
    BY <1>8, <1>10, <2>3, <2>4, <2>5 DEF Inv
  <2>7. QueueTypeOK'
    <3>1. ready' \in Seq(Entry)
      BY <1>0, <2>1, WakeType, Lengths
    <3>2. emptySlots' \in 0..BufferCapacity
      <4>1. emptySlots \in 0..BufferCapacity /\ BufferCapacity \in Nat
        BY QueueAssumption DEF QueueTypeOK
      <4> QED
        BY <1>13, <2>1, <4>1
    <3>3. call' \in [Event -> {"new", "slot", "lock", "stored"}]
      BY <1>5
    <3>4. owed' \in 0..Len(logged')
      BY <1>0, <1>4, <1>7 DEF QueueTypeOK, n
    <3> QED
      BY <1>4, <1>7, <2>1, <3>1, <3>2, <3>3, <3>4 DEF QueueTypeOK, Entry
  <2> QED
    BY <2>6, <2>7
<1>14. CASE ~(emptySlots > 0)
  <2>1. emptySlots' = emptySlots /\ ready' = ready /\ slotQueue' = Append(slotQueue, e)
    BY <1>14 DEF Log
  <2>2. /\ Len(slotQueue') = Len(slotQueue) + 1 /\ slotQueue' \in Seq(Event)
        /\ slotQueue'[Len(slotQueue) + 1] = e
        /\ \A j \in 1..Len(slotQueue) : slotQueue'[j] = slotQueue[j]
    BY <1>0, <2>1, Pushed
  <2>3. Placed(s, a, b)'
    <3>1. ASSUME NEW j \in 1..Len(slotQueue')
          PROVE  slotQueue'[j] = logged'[b + j]
      <4>1. CASE j = Len(slotQueue) + 1
        BY <1>3, <1>4, <2>2, <4>1
      <4>2. CASE j \in 1..Len(slotQueue)
        <5>1. b + j \in 1..n /\ slotQueue[j] = logged[b + j]
          <6>1. b + j \in 1..n
            BY <1>0, <1>3, <4>2
          <6>2. slotQueue[j] = logged[b + j]
            BY <4>2 DEF Inv, Placed
          <6> QED
            BY <6>1, <6>2
        <5> QED
          BY <1>4, <2>2, <4>2, <5>1
      <4> QED
        BY <1>3, <2>2, <4>1, <4>2
    <3>2. b + Len(slotQueue') = n + 1
      BY <1>3, <2>2
    <3> QED
      BY <1>12, <3>1, <3>2
  <2>4. Counted(b)'
    <3>1. emptySlots = 0
      BY <1>14 DEF QueueTypeOK
    <3> QED
      BY <1>7, <2>1, <3>1 DEF Counted, Inv, Held
  <2>5. Scheduled(a, b)'
    <3>1. HeadSet(lockQueue) = HeadSet(lockQueue) \cup Awake(worker)
      BY <1>1 DEF Awake
    <3>2. Orderly(ready', HeadSet(lockQueue) \cup Awake(worker), logged', a, b)
      BY <1>11, <2>1, <3>1
    <3> QED
      BY <1>1, <1>7, <3>2 DEF Scheduled
  <2>6. Inv(s, a, b, w)'
    BY <1>8, <1>10, <2>3, <2>4, <2>5 DEF Inv
  <2>7. QueueTypeOK'
    <3>1. owed' \in 0..Len(logged')
      BY <1>0, <1>4, <1>7 DEF QueueTypeOK, n
    <3>2. call' \in [Event -> {"new", "slot", "lock", "stored"}]
      BY <1>5
    <3> QED
      BY <1>4, <1>7, <2>1, <2>2, <3>1, <3>2 DEF QueueTypeOK
  <2> QED
    BY <2>6, <2>7
<1> QED
  BY <1>13, <1>14

\* The worker takes the oldest event that has not been handed: its slot is
\* written.  With a single slot it may still be reserved only.
LEMMA TakeStep ==
  ASSUME BufferCapacity >= 2,
         QueueTypeOK, NEW s \in Nat, NEW a \in Nat, NEW b \in Nat, NEW w \in Nat,
         Inv(s, a, b, w), TakeEvent
  PROVE  /\ QueueTypeOK' /\ \E v \in Nat : Inv(s, a, b, v)'
         /\ Len(handed) < Len(logged)
         /\ handed' = Append(handed, logged[Len(handed) + 1])
<1> DEFINE h == Len(handed)
           first == eventBufferHead
           q == Tail(lockQueue)
           event == eventBuffer[eventBufferHead]
<1>0. PICK v \in Nat : v = Len(lockQueue)
  BY Lengths
<1>1. Runs(Worker) /\ worker = "lock" /\ Worker \in Chain /\ Worker \notin Event
  BY QueueAssumption DEF TakeEvent, Chain
<1>2. Awake(worker) = {} /\ Held = 0
  BY <1>1 DEF Awake, Held
<1>3. /\ Worker \in HeadSet(lockQueue)
      /\ Tail(ready) \in Seq(Entry)
      /\ Orderly(Tail(ready), (HeadSet(lockQueue) \cup Awake(worker)) \ {Worker},
                 logged, a, b)
      /\ a = b
  BY <1>1, <1>2, OtherRuns
<1>4. lockQueue # <<>> /\ Head(lockQueue) = Worker
  BY <1>3 DEF HeadSet
<1>5. w = 1
  BY <1>4, HeadIs, Lengths
<1>6. q \in Seq(Chain) /\ Len(lockQueue) \in Nat \ {0} /\ Len(q) = Len(lockQueue) - 1
  BY <1>4, Lengths, Popped
<1>7. /\ Queued(lockQueue, 1, logged, s) /\ Len(lockQueue) = (a - s) + 1
      /\ b <= s + 1
      /\ b = s + 1 => emptySlots = 0
  BY <1>1, <1>5 DEF Inv, Locked, Contending
<1>8. Queued(q, v, logged, s)
  BY <1>0, <1>4, <1>7, UnqueueWorker, Lengths
<1>9. /\ h \in Nat /\ h <= s /\ s <= a /\ BufferCapacity \in Nat /\ emptySlots \in Nat
      /\ emptySlots + (b - h) = BufferCapacity /\ emptySlots < BufferCapacity
      /\ h <= Len(logged) /\ Len(logged) \in Nat /\ b <= Len(logged)
  <2>1. /\ Len(handed) <= s /\ s <= a /\ a <= b
        /\ b + Len(slotQueue) = Len(logged)
    BY DEF Inv, Placed
  <2>2. /\ emptySlots + (b - Len(handed)) + Held = BufferCapacity
        /\ worker = "lock" => emptySlots < BufferCapacity
    BY DEF Inv, Counted
  <2>3. emptySlots \in Nat
    BY DEF QueueTypeOK
  <2>4. /\ Len(logged) \in Nat /\ Len(handed) \in Nat /\ Len(slotQueue) \in Nat
        /\ BufferCapacity \in Nat
    BY Lengths
  <2> QED
    BY <1>1, <1>2, <2>1, <2>2, <2>3, <2>4
<1>10. /\ Orderly(Tail(ready), {}, logged, a, b)
  <2>1. (HeadSet(lockQueue) \cup Awake(worker)) \ {Worker} = {}
    BY <1>2, <1>4 DEF HeadSet
  <2> QED
    BY <1>3, <2>1
<1> HIDE DEF h, first, q
<1>11. h < s /\ s - h \in 1..BufferCapacity /\ h + 1 \in 1..Len(logged)
  BY <1>3, <1>7, <1>9
<1>12. Worker \notin HeadSet(q) /\ \A m \in (a + 1)..b : logged[m] # Worker
  <2>1. ASSUME q # <<>> PROVE Head(q) # Worker
    <3>1. Len(q) \in Nat \ {0}
      BY <1>6, <2>1, Popped
    <3>2. v # 1 /\ s + 1 \in 1..Len(logged)
      BY <1>0, <1>3, <1>6, <1>7, <1>9, <3>1
    <3>3. Head(q) = logged[s + 1]
      BY <1>6, <1>8, <2>1, <3>2, UnqueueCall
    <3> QED
      BY <3>2, <3>3, Lengths
  <2> QED
    BY <2>1, SlotsApart DEF HeadSet
<1>13. Orderly(Tail(ready) \o Granted(q), HeadSet(q), logged, a, b)
  <2>1. \A m \in (a + 1)..b : FALSE
    BY <1>3
  <2>2. Orderly(Tail(ready) \o Granted(q), {} \cup HeadSet(q), logged, a, b)
    BY <1>3, <1>6, <1>10, <2>1, GrantedOrderly
  <2>3. {} \cup HeadSet(q) = HeadSet(q)
    OBVIOUS
  <2> QED
    BY <2>2, <2>3
<1>14. /\ SlotAt(first, 0) = first /\ first \in Index
       /\ \A k \in 0..(s - h - 1) : eventBuffer[SlotAt(first, k)] = logged[h + 1 + k]
       /\ eventBufferTail = SlotAt(first, s - h)
  <2>1. first \in Index /\ 0 \in 0..(BufferCapacity - 1)
    BY <1>9, <1>11 DEF QueueTypeOK, first
  <2>2. SlotAt(first, 0) = first
    BY <2>1, SlotFacts
  <2> QED
    BY <2>1, <2>2 DEF Inv, Filled, h, first
<1>15. event = logged[h + 1] /\ event \in Event /\ event # NoEvent
  <2>1. 0 \in 0..(s - h - 1) /\ h + 1 + 0 = h + 1
    BY <1>9, <1>11
  <2>2. event = logged[h + 1]
    BY <1>14, <2>1 DEF first
  <2> QED
    BY <1>11, <2>2, Lengths, QueueAssumption
<1> HIDE DEF event
<1>16. /\ handed' = Append(handed, event)
       /\ lockQueue' = q
       /\ emptySlots' = emptySlots /\ slotQueue' = slotQueue
       /\ \/ worker' = "write" /\ ready' = Tail(ready) \o Granted(q)
          \/ worker' = "written" /\ ready' = (Tail(ready) \o Granted(q)) \o Wake(Worker, 1)
  BY <1>15 DEF TakeEvent, event, q
<1>17. /\ eventBuffer' = [eventBuffer EXCEPT ![first] = NoEvent]
       /\ eventBufferHead' = NextIndex(first) /\ eventBufferTail' = eventBufferTail
       /\ running' = running /\ call' = call /\ final' = final /\ turn' = turn
       /\ logged' = logged /\ owed' = owed
  BY DEF TakeEvent, first
<1>18. /\ Len(handed') = h + 1 /\ handed' \in Seq(Event)
       /\ \A i \in 1..(h + 1) : handed'[i] = logged[i]
  <2>1. /\ \A i \in 1..h : handed'[i] = handed[i]
        /\ handed'[h + 1] = event
        /\ Len(handed') = h + 1 /\ handed' \in Seq(Event)
    BY <1>15, <1>16, Lengths, Pushed DEF h
  <2>2. \A i \in 1..h : handed[i] = logged[i]
    BY DEF Inv, Placed, h
  <2>3. \A i \in 1..(h + 1) : i = h + 1 \/ i \in 1..h
    BY <1>9
  <2> QED
    BY <1>15, <2>1, <2>2, <2>3
<1>19. Placed(s, a, b)'
  <2>1. h + 1 <= s
    BY <1>9, <1>11
  <2>2. \A i \in 1..Len(handed') : handed'[i] = logged[i]
    BY <1>18
  <2>3. Len(handed') <= s
    BY <1>18, <2>1
  <2> QED
    BY <1>16, <1>17, <2>2, <2>3 DEF Placed, Inv
<1>20. Filled(s)'
  <2>1. /\ h + 1 \in Nat /\ s - (h + 1) = (s - h) - 1 /\ (s - h) - 1 \in 0..(BufferCapacity - 1)
    BY <1>9, <1>11
  <2>2. eventBufferTail' = SlotAt(NextIndex(first), s - (h + 1))
    <3>1. SlotAt(NextIndex(first), (s - h) - 1) = SlotAt(first, ((s - h) - 1) + 1)
      BY <1>14, <2>1, SlotFacts
    <3>2. ((s - h) - 1) + 1 = s - h
      BY <1>9
    <3> QED
      BY <1>14, <1>17, <2>1, <3>1, <3>2
  <2>3. ASSUME NEW k \in 0..(s - (h + 1) - 1)
        PROVE  eventBuffer'[SlotAt(NextIndex(first), k)] = logged[h + 1 + 1 + k]
    <3>1. /\ k \in 0..(BufferCapacity - 1) /\ k + 1 \in 0..(BufferCapacity - 1)
          /\ k + 1 \in 0..(s - h - 1) /\ 0 \in 0..(BufferCapacity - 1) /\ k + 1 # 0
          /\ h + 1 + 1 + k = h + 1 + (k + 1)
      BY <1>9, <1>11
    <3>2. SlotAt(NextIndex(first), k) = SlotAt(first, k + 1)
      BY <1>14, <3>1, SlotFacts
    <3>3. SlotAt(first, k + 1) # first /\ SlotAt(first, k + 1) \in Index
      BY <1>14, <3>1, SlotFacts
    <3>4. eventBuffer'[SlotAt(first, k + 1)] = eventBuffer[SlotAt(first, k + 1)]
      BY <1>17, <3>3 DEF QueueTypeOK
    <3> QED
      BY <1>14, <3>1, <3>2, <3>4
  <2> QED
    BY <1>17, <1>18, <2>2, <2>3 DEF Filled
<1>21. Counted(b)'
  <2>1. Held' = 1 /\ worker' # "lock"
    BY <1>16 DEF Held
  <2>2. emptySlots + (b - (h + 1)) + 1 = BufferCapacity
    BY <1>9
  <2>3. slotQueue # <<>> => emptySlots = 0
    BY DEF Inv, Counted
  <2> QED
    BY <1>16, <1>18, <2>1, <2>2, <2>3 DEF Counted
<1>22. Locked(s, a, b, v)'
  <2>1. Contending' = 0 /\ worker' # "lock"
    BY <1>16 DEF Contending
  <2>2. Len(q) = (a - s) + 0 /\ ~(v <= Len(q))
    BY <1>0, <1>6, <1>7, <1>9
  <2> QED
    BY <1>8, <1>16, <1>17, <2>1, <2>2 DEF Locked
<1>23. Scheduled(a, b)'
  <2>1. Tail(ready) \o Granted(q) \in Seq(Entry)
    BY <1>3, <1>6, GrantedType
  <2>2. ~(turn = "requests")
    BY <1>1 DEF Inv, Scheduled
  <2>3. CASE worker' = "write" /\ ready' = Tail(ready) \o Granted(q)
    <3>1. HeadSet(q) \cup Awake(worker') = HeadSet(q)
      BY <2>3 DEF Awake
    <3> QED
      BY <1>13, <1>16, <1>17, <2>2, <2>3, <3>1 DEF Scheduled
  <2>4. CASE worker' = "written" /\ ready' = (Tail(ready) \o Granted(q)) \o Wake(Worker, 1)
    <3>1. HeadSet(q) \cup Awake(worker') = HeadSet(q) \cup {Worker}
      BY <2>4 DEF Awake
    <3>2. Orderly(ready', HeadSet(q) \cup {Worker}, logged, a, b)
      BY <1>1, <1>12, <1>13, <2>1, <2>4, WakeOrderly
    <3> QED
      BY <1>16, <1>17, <2>2, <3>1, <3>2 DEF Scheduled
  <2> QED
    BY <1>16, <2>3, <2>4
<1>24. QueueTypeOK'
  <2>1. ready' \in Seq(Entry)
    BY <1>1, <1>3, <1>6, <1>16, GrantedType, WakeType
  <2>2. eventBuffer' \in [Index -> Event \cup {NoEvent}]
    BY <1>17 DEF QueueTypeOK
  <2>3. eventBufferHead' \in Index
    BY <1>9, <1>11, <1>14, <1>17, SlotFacts
  <2>4. worker' \in {"lock", "write", "written", "drained", "sleep", "done"}
    BY <1>16
  <2> QED
    BY <1>6, <1>16, <1>17, <1>18, <2>1, <2>2, <2>3, <2>4 DEF QueueTypeOK, Entry
<1>25. Inv(s, a, b, v)'
  BY <1>19, <1>20, <1>21, <1>22, <1>23 DEF Inv
<1> QED
  BY <1>9, <1>11, <1>15, <1>16, <1>24, <1>25 DEF h

\* A write has settled: its slot goes to the first waiting call.
LEMMA WrittenStep ==
  ASSUME QueueTypeOK, NEW s \in Nat, NEW a \in Nat, NEW b \in Nat, NEW w \in Nat,
         Inv(s, a, b, w), Written
  PROVE  QueueTypeOK' /\ \E d, v \in Nat : Inv(s, a, d, v)'
<1> DEFINE h == Len(handed)
           q == lockQueue
           r == Tail(ready)
<1>0. PICK v \in Nat : v = Len(lockQueue) + 1
  BY Lengths
<1>1. /\ Runs(Worker) /\ worker = "written" /\ Worker \in Chain /\ Worker \notin Event
      /\ ReleaseSlot(lockQueue, Tail(ready))
      /\ turn # "requests"
  BY QueueAssumption DEF Written, Chain, Inv, Scheduled
<1>2. /\ Worker \notin HeadSet(q) /\ w = v /\ Len(q) = a - s /\ q \in Seq(Chain)
  BY <1>0, <1>1, NoWorker, Lengths
<1>3. Orderly(r, HeadSet(q), logged, a, b) /\ r \in Seq(Entry) /\ a = b
  <2>1. (HeadSet(lockQueue) \cup Awake(worker)) \ {Worker} = HeadSet(q)
    BY <1>1, <1>2 DEF Awake
  <2>2. /\ Orderly(r, (HeadSet(lockQueue) \cup Awake(worker)) \ {Worker}, logged, a, b)
        /\ r \in Seq(Entry) /\ a = b
    BY <1>1, OtherRuns
  <2> QED
    BY <2>1, <2>2
<1>4. Queued(q, v, logged, s)
  BY <1>2 DEF Inv, Locked
<1>5. /\ h \in Nat /\ h <= s /\ s <= a /\ BufferCapacity \in Nat /\ emptySlots \in Nat
      /\ emptySlots + (b - h) + 1 = BufferCapacity
      /\ b + Len(slotQueue) = Len(logged) /\ Len(logged) \in Nat /\ Len(slotQueue) \in Nat
  <2>1. Held = 1
    BY <1>1 DEF Held
  <2> QED
    BY <2>1, Lengths DEF Inv, Placed, Counted, QueueTypeOK
<1>6. /\ handed' = handed /\ logged' = logged /\ owed' = owed
      /\ eventBuffer' = eventBuffer
      /\ eventBufferHead' = eventBufferHead /\ eventBufferTail' = eventBufferTail
      /\ running' = running /\ call' = call /\ final' = final /\ turn' = turn
  BY DEF Written, buffer, trail
<1>7. Filled(s)'
  BY <1>6 DEF Filled, Inv
<1>8. QueueTypeOK'
  <2>1. emptySlots < BufferCapacity
    BY <1>3, <1>5
  <2>2. /\ worker' \in {"lock", "drained"} /\ lockQueue' \in Seq(Chain)
        /\ ready' \in Seq(Entry) /\ emptySlots' \in 0..BufferCapacity
        /\ slotQueue' \in Seq(Event)
    BY <1>1, <1>2, <1>3, <2>1, ReleaseType
  <2> QED
    BY <1>6, <2>2 DEF QueueTypeOK, Entry
<1> HIDE DEF h, q, r
<1>9. CASE slotQueue = <<>>
  <2>1. /\ emptySlots' = emptySlots + 1 /\ slotQueue' = slotQueue
        /\ DrainTest(emptySlots + 1, q, r)
    BY <1>1, <1>9 DEF ReleaseSlot, q, r
  <2>2. \A m \in (a + 1)..b : logged[m] # Worker
    BY SlotsApart
  <2>3. /\ Locked(s, a, b, v)' /\ Scheduled(a, b)' /\ Held' = 0
        /\ worker' = "lock" => emptySlots' < BufferCapacity
    <3>0. PICK k \in Nat : k = emptySlots + 1
      BY <1>5
    <3>1. b <= a + 1 /\ (b = a + 1 => k = 0) /\ s <= a
      BY <1>3, <1>5
    <3>2. v = Len(q) + 1 /\ Queued(q, Len(q) + 1, logged, s)
      BY <1>0, <1>4 DEF q
    <3>3. k = emptySlots' /\ turn' # "requests" /\ DrainTest(k, q, r)
      BY <1>1, <1>6, <2>1, <3>0
    <3> QED
      BY <1>2, <1>3, <1>6, <2>2, <3>1, <3>2, <3>3, DrainStep
  <2>5. Counted(b)'
    <3>1. emptySlots' + (b - Len(handed')) + Held' = BufferCapacity
      BY <1>3, <1>5, <1>6, <2>1, <2>3 DEF h
    <3> QED
      BY <1>9, <2>1, <2>3, <3>1 DEF Counted
  <2>6. Placed(s, a, b)'
    BY <1>6, <2>1 DEF Placed, Inv
  <2> QED
    BY <1>7, <1>8, <2>3, <2>5, <2>6 DEF Inv
<1>10. CASE slotQueue # <<>>
  <2> DEFINE e == Head(slotQueue)
             x == [chain |-> e, hops |-> 1]
  <2>1. /\ emptySlots' = emptySlots /\ slotQueue' = Tail(slotQueue)
        /\ DrainTest(emptySlots, q, r \o Wake(e, 1))
        /\ emptySlots = 0
    BY <1>1, <1>10 DEF ReleaseSlot, q, r, Inv, Counted
  <2>2. /\ e \in Event /\ e = slotQueue[1] /\ Len(slotQueue') = Len(slotQueue) - 1
        /\ Len(slotQueue) \in Nat \ {0} /\ 1 \in 1..Len(slotQueue)
        /\ \A i \in 1..Len(slotQueue') : slotQueue'[i] = slotQueue[i + 1]
                                         /\ i + 1 \in 1..Len(slotQueue)
    BY <1>10, <2>1, Lengths, Popped
  <2>3. e = logged[b + 1] /\ b + 1 \in 1..Len(logged)
    <3>1. b + 1 \in 1..Len(logged)
      BY <1>5, <2>2
    <3>2. slotQueue[1] = logged[b + 1]
      BY <2>2 DEF Inv, Placed
    <3> QED
      BY <2>2, <3>1, <3>2
  <2>4. x \in Entry /\ x.chain = e /\ x = [chain |-> logged[b + 1], hops |-> 1]
        /\ r \o Wake(e, 1) = r \o <<x>>
    <3>1. e \in Chain
      BY <2>2 DEF Chain
    <3>2. x \in Entry /\ x.chain = e
      BY <3>1, EntryType
    <3> QED
      BY <2>3, <3>2 DEF Wake
  <2> HIDE DEF e, x
  <2>5. e \notin HeadSet(q) /\ e # Worker
    <3>1. call[e] = "slot"
      <4>1. call[logged[b + 1]] = IF b + 1 <= s THEN "stored"
                                  ELSE IF b + 1 <= a THEN "lock" ELSE "slot"
        BY <2>3 DEF Inv, Placed
      <4>2. ~(b + 1 <= s) /\ ~(b + 1 <= a)
        BY <1>3, <1>5
      <4> QED
        BY <2>3, <4>1, <4>2
    <3>2. ASSUME lockQueue # <<>> PROVE call[Head(lockQueue)] = "lock"
      BY <1>2, <3>2, HeadIs DEF HeadSet, q
    <3> QED
      BY <1>1, <2>2, <3>1, <3>2 DEF HeadSet, q
  <2>6. Orderly(r \o Wake(e, 1), HeadSet(q), logged, a, b + 1)
        /\ r \o Wake(e, 1) \in Seq(Entry)
    <3>1. /\ \A m \in (a + 1)..b : logged[m] # x.chain /\ logged[m] # Worker
          /\ a <= b /\ x.chain \notin HeadSet(q) /\ x.chain # Worker
      BY <1>3, <2>4, <2>5
    <3>2. Orderly(Append(r, x), HeadSet(q), logged, a, b + 1)
      BY <1>2, <1>3, <2>4, <3>1, PushSlot
    <3> QED
      BY <1>3, <2>4, <3>2, WakeIsAppend, Pushed
  <2>7. \A m \in (a + 1)..(b + 1) : logged[m] # Worker
    BY <1>3, <2>3, <2>5
  <2>8. /\ Locked(s, a, b + 1, v)' /\ Scheduled(a, b + 1)' /\ Held' = 0
        /\ worker' = "lock" => emptySlots' < BufferCapacity
    <3>1. b + 1 \in Nat /\ b + 1 <= a + 1 /\ (b + 1 = a + 1 => emptySlots = 0) /\ s <= a
      BY <1>3, <1>5, <2>1
    <3>2. v = Len(q) + 1 /\ Queued(q, Len(q) + 1, logged, s)
      BY <1>0, <1>4 DEF q
    <3>3. emptySlots = emptySlots' /\ turn' # "requests"
      BY <1>1, <1>6, <2>1
    <3> QED
      BY <1>2, <1>6, <2>1, <2>6, <2>7, <3>1, <3>2, <3>3, DrainStep
  <2>10. Counted(b + 1)'
    <3>1. emptySlots' + ((b + 1) - Len(handed')) + Held' = BufferCapacity
      BY <1>3, <1>5, <1>6, <2>1, <2>8 DEF h
    <3> QED
      BY <2>1, <2>8, <3>1 DEF Counted
  <2>11. Placed(s, a, b + 1)'
    <3>1. ASSUME NEW j \in 1..Len(slotQueue')
          PROVE  slotQueue'[j] = logged[(b + 1) + j]
      <4>1. slotQueue[j + 1] = logged[b + (j + 1)] /\ slotQueue'[j] = slotQueue[j + 1]
        BY <2>2 DEF Inv, Placed
      <4>2. b + (j + 1) = (b + 1) + j
        OBVIOUS
      <4> QED
        BY <4>1, <4>2
    <3>2. (b + 1) + Len(slotQueue') = Len(logged) /\ a <= b + 1
      BY <1>3, <1>5, <2>2
    <3>3. \A i \in 1..Len(logged) :
            call[logged[i]] = IF i <= s THEN "stored" ELSE IF i <= a THEN "lock" ELSE "slot"
      BY DEF Inv, Placed
    <3> QED
      BY <1>6, <3>1, <3>2, <3>3 DEF Placed, Inv
  <2>12. b + 1 \in Nat
    OBVIOUS
  <2>13. Inv(s, a, b + 1, v)'
    BY <1>7, <2>8, <2>10, <2>11 DEF Inv
  <2> QED
    BY <1>8, <2>12, <2>13
<1> QED
  BY <1>9, <1>10

LEMMA DrainedStep ==
  ASSUME QueueTypeOK, NEW s \in Nat, NEW a \in Nat, NEW b \in Nat, NEW w \in Nat,
         Inv(s, a, b, w), Drained
  PROVE  QueueTypeOK' /\ Inv(s, a, b, w)'
<1> DEFINE q == lockQueue
           r == Tail(ready)
<1>1. /\ Runs(Worker) /\ worker = "drained" /\ Worker \in Chain /\ Worker \notin Event
      /\ turn # "requests"
  BY QueueAssumption DEF Drained, Chain, Inv, Scheduled
<1>2. /\ Worker \notin HeadSet(q) /\ w = Len(q) + 1 /\ Len(q) = a - s /\ q \in Seq(Chain)
  BY <1>1, NoWorker, Lengths
<1>3. Orderly(r, HeadSet(q), logged, a, b) /\ r \in Seq(Entry) /\ a = b
  <2>1. (HeadSet(lockQueue) \cup Awake(worker)) \ {Worker} = HeadSet(q)
    BY <1>1, <1>2 DEF Awake
  <2>2. /\ r \in Seq(Entry)
        /\ Orderly(r, (HeadSet(lockQueue) \cup Awake(worker)) \ {Worker}, logged, a, b)
        /\ a = b
    BY <1>1, OtherRuns
  <2> QED
    BY <2>1, <2>2
<1>4. Queued(q, w, logged, s)
  BY DEF Inv, Locked
<1>5. /\ handed' = handed /\ logged' = logged /\ owed' = owed
      /\ eventBuffer' = eventBuffer
      /\ eventBufferHead' = eventBufferHead /\ eventBufferTail' = eventBufferTail
      /\ running' = running /\ call' = call /\ turn' = turn
      /\ emptySlots' = emptySlots /\ slotQueue' = slotQueue
  BY DEF Drained, buffer, trail
<1>6. Placed(s, a, b)' /\ Filled(s)'
  BY <1>5 DEF Filled, Placed, Inv
<1>7. Held = 0 /\ s <= a
  BY <1>1 DEF Held, Inv, Placed
<1>8. /\ Locked(s, a, b, w)' /\ Scheduled(a, b)' /\ Counted(b)'
      /\ lockQueue' \in Seq(Chain) /\ ready' \in Seq(Entry)
      /\ worker' \in {"lock", "drained", "sleep", "done"} /\ final' \in BOOLEAN
  <2>1. CASE ~running /\ ~final
    <3>1. DrainTest(emptySlots, q, r) /\ final' = TRUE
      BY <2>1 DEF Drained
    <3>2. \A m \in (a + 1)..b : logged[m] # Worker
      BY SlotsApart
    <3>3. b <= a + 1 /\ b # a + 1 /\ turn' # "requests"
      BY <1>1, <1>3, <1>5
    <3>a. Queued(q, Len(q) + 1, logged, s)
      BY <1>2, <1>4
    <3> HIDE DEF q, r
    <3>4. /\ Locked(s, a, b, w)' /\ Scheduled(a, b)' /\ Held' = 0
          /\ worker' = "lock" => emptySlots' < BufferCapacity
      BY <1>2, <1>3, <1>5, <1>7, <3>a, <3>1, <3>2, <3>3, DrainStep
    <3>6. Counted(b)'
      BY <1>5, <1>7, <3>4 DEF Counted, Inv
    <3>7. /\ lockQueue' \in Seq(Chain) /\ ready' \in Seq(Entry)
          /\ worker' \in {"lock", "drained"}
      BY <1>2, <1>3, <3>1, DrainType
    <3> QED
      BY <3>1, <3>4, <3>6, <3>7
  <2>2. CASE ~(~running /\ ~final)
    <3>1. /\ worker' \in {"done", "sleep"} /\ ready' = r
          /\ final' = final /\ lockQueue' = q
      BY <2>2 DEF Drained
    <3>2. /\ HeadSet(q) \cup Awake(worker') = HeadSet(q) /\ Held' = 0
          /\ Contending' = 0 /\ Contending = 0 /\ worker' # "lock"
      BY <1>1, <3>1 DEF Awake, Held, Contending
    <3>3. Counted(b)'
      BY <1>5, <1>7, <3>2 DEF Counted, Inv
    <3>4. Scheduled(a, b)'
      BY <1>3, <1>5, <3>1, <3>2 DEF Scheduled
    <3>5. Locked(s, a, b, w)'
      BY <1>1, <1>5, <3>1, <3>2 DEF Locked, Inv
    <3> QED
      BY <1>2, <1>3, <3>1, <3>3, <3>4, <3>5 DEF QueueTypeOK
  <2> QED
    BY <2>1, <2>2
<1> QED
  BY <1>5, <1>6, <1>8 DEF QueueTypeOK, Entry, Inv

LEMMA FlushStep ==
  ASSUME QueueTypeOK, NEW s \in Nat, NEW a \in Nat, NEW b \in Nat, NEW w \in Nat,
         Inv(s, a, b, w), Flush
  PROVE  QueueTypeOK' /\ Inv(s, a, b, w)'
<1>1. /\ worker = "sleep" /\ ready = <<>> /\ turn' = "worker" /\ final' = ~running
      /\ DrainTest(emptySlots, lockQueue, <<>>)
  BY DEF Flush
<1>2. lockQueue = <<>> /\ w = 1 /\ a = s /\ b = s
  BY <1>1, NothingReady
<1>3. /\ handed' = handed /\ logged' = logged /\ owed' = owed
      /\ eventBuffer' = eventBuffer
      /\ eventBufferHead' = eventBufferHead /\ eventBufferTail' = eventBufferTail
      /\ running' = running /\ call' = call
      /\ emptySlots' = emptySlots /\ slotQueue' = slotQueue
  BY DEF Flush, buffer, trail
<1>4. Placed(s, a, b)' /\ Filled(s)'
  BY <1>3 DEF Filled, Placed, Inv
<1>5. /\ Worker \notin HeadSet(lockQueue) /\ w = Len(lockQueue) + 1
      /\ Len(lockQueue) = a - s /\ lockQueue \in Seq(Chain)
  BY <1>1, NoWorker, Lengths
<1>6. Orderly(ready, HeadSet(lockQueue), logged, a, b) /\ ready \in Seq(Entry)
  <2>1. HeadSet(lockQueue) \cup Awake(worker) = HeadSet(lockQueue)
    BY <1>1 DEF Awake
  <2> QED
    BY <2>1, Lengths DEF Inv, Scheduled
<1>7. Queued(lockQueue, Len(lockQueue) + 1, logged, s)
  BY <1>5 DEF Inv, Locked
<1> DEFINE q == lockQueue
           r == ready
<1>8. DrainTest(emptySlots, q, r)
  BY <1>1
<1>9. \A m \in (a + 1)..b : logged[m] # Worker
  BY SlotsApart
<1>10. b <= a + 1 /\ b # a + 1 /\ s <= a /\ turn' # "requests"
  BY <1>1, <1>2
<1>11. /\ Worker \notin HeadSet(q) /\ w = Len(q) + 1 /\ Len(q) = a - s /\ q \in Seq(Chain)
       /\ Orderly(r, HeadSet(q), logged, a, b) /\ r \in Seq(Entry)
       /\ Queued(q, Len(q) + 1, logged, s)
  BY <1>5, <1>6, <1>7
<1> HIDE DEF q, r
<1>12. /\ Locked(s, a, b, w)' /\ Scheduled(a, b)' /\ Held' = 0
       /\ worker' = "lock" => emptySlots' < BufferCapacity
  BY <1>3, <1>8, <1>9, <1>10, <1>11, DrainStep
<1>13. Held = 0
  BY <1>1 DEF Held
<1>14. Counted(b)'
  BY <1>3, <1>12, <1>13 DEF Counted, Inv
<1>15. /\ lockQueue' \in Seq(Chain) /\ ready' \in Seq(Entry)
       /\ worker' \in {"lock", "drained"}
  BY <1>8, <1>11, DrainType
<1>16. final' \in BOOLEAN
  BY <1>1
<1> QED
  BY <1>1, <1>3, <1>4, <1>12, <1>14, <1>15, <1>16 DEF QueueTypeOK, Entry, Inv

LEMMA WriteSettledStep ==
  ASSUME QueueTypeOK, NEW s \in Nat, NEW a \in Nat, NEW b \in Nat, NEW w \in Nat,
         Inv(s, a, b, w), WriteSettled
  PROVE  QueueTypeOK' /\ Inv(s, a, b, w)'
<1>1. /\ worker = "write" /\ ready = <<>> /\ turn' = "worker" /\ worker' = "written"
      /\ ready' = Wake(Worker, 1) /\ Worker \in Chain
  BY DEF WriteSettled, Chain
<1>2. lockQueue = <<>> /\ a = b
  BY <1>1, NothingReady
<1>3. /\ handed' = handed /\ logged' = logged /\ owed' = owed
      /\ eventBuffer' = eventBuffer
      /\ eventBufferHead' = eventBufferHead /\ eventBufferTail' = eventBufferTail
      /\ running' = running /\ call' = call /\ lockQueue' = lockQueue /\ final' = final
      /\ emptySlots' = emptySlots /\ slotQueue' = slotQueue
  BY DEF WriteSettled, buffer, trail
<1>4. Placed(s, a, b)' /\ Filled(s)'
  BY <1>3 DEF Filled, Placed, Inv
<1>5. Held = 1 /\ Held' = 1 /\ Contending = 0 /\ Contending' = 0
  BY <1>1 DEF Held, Contending
<1>6. Counted(b)' /\ Locked(s, a, b, w)'
  BY <1>1, <1>3, <1>5 DEF Counted, Locked, Inv
<1>7. ready' = ready \o Wake(Worker, 1) /\ ready \in Seq(Entry)
  <2>1. <<>> \o Wake(Worker, 1) = Wake(Worker, 1)
    BY DEF Wake
  <2> QED
    BY <1>1, <2>1, Lengths
<1>8. Scheduled(a, b)'
  <2>1. HeadSet(lockQueue) \cup Awake(worker) = {} /\ HeadSet(lockQueue) \cup Awake(worker') = {Worker}
    BY <1>1, <1>2 DEF HeadSet, Awake
  <2>2. Orderly(ready, {}, logged, a, b)
    BY <2>1 DEF Inv, Scheduled
  <2>3. \A m \in (a + 1)..b : logged[m] # Worker
    BY SlotsApart
  <2>4. Orderly(ready', {} \cup {Worker}, logged, a, b)
    BY <1>1, <1>7, <2>2, <2>3, WakeOrderly
  <2>5. {} \cup {Worker} = {Worker}
    OBVIOUS
  <2> QED
    BY <1>1, <1>3, <2>1, <2>4, <2>5 DEF Scheduled
<1>9. ready' \in Seq(Entry)
  BY <1>1, <1>7, WakeType
<1> QED
  BY <1>1, <1>3, <1>4, <1>6, <1>8, <1>9 DEF QueueTypeOK, Entry, Inv

LEMMA ShutdownStep ==
  ASSUME QueueTypeOK, NEW s \in Nat, NEW a \in Nat, NEW b \in Nat, NEW w \in Nat,
         Inv(s, a, b, w), Shutdown
  PROVE  QueueTypeOK' /\ Inv(s, a, b, w)'
<1>1. worker \in {"write", "sleep", "done"}
  BY NothingReady DEF Shutdown
<1>2. Placed(s, a, b)' /\ Filled(s)' /\ Counted(b)' /\ Locked(s, a, b, w)'
  BY DEF Shutdown, Placed, Filled, Counted, Locked, Held, Contending, Inv, buffer, trail
<1>3. Scheduled(a, b)'
  BY <1>1 DEF Shutdown, Scheduled, Inv, trail
<1>4. QueueTypeOK'
  BY DEF Shutdown, QueueTypeOK, buffer, trail
<1> QED
  BY <1>2, <1>3, <1>4 DEF Inv

------------------------------------------------------------------------------
(* The theorems *)

\* Every step keeps the invariant.
LEMMA NextInv ==
  ASSUME BufferCapacity >= 2, AuditInv, [QueueNext]_queueVars
  PROVE  AuditInv'
<1>1. PICK s \in Nat, a \in Nat, b \in Nat, w \in Nat : Inv(s, a, b, w)
  BY DEF AuditInv
<1> SUFFICES QueueTypeOK' /\ \E s2, a2, b2, w2 \in Nat : Inv(s2, a2, b2, w2)'
  BY DEF AuditInv
<1>2. QueueTypeOK
  BY DEF AuditInv
<1>3. CASE Hop
  BY <1>1, <1>2, <1>3, HopStep
<1>4. ASSUME NEW e \in Event, EnterLock(e)
      PROVE  QueueTypeOK' /\ \E s2, a2, b2, w2 \in Nat : Inv(s2, a2, b2, w2)'
  <2>1. QueueTypeOK' /\ \E v \in Nat : Inv(s, a + 1, b, v)'
    BY <1>1, <1>2, <1>4, EnterLockStep
  <2>2. a + 1 \in Nat
    OBVIOUS
  <2> QED
    BY <2>1, <2>2
<1>5. ASSUME NEW e \in Event, Store(e)
      PROVE  QueueTypeOK' /\ \E s2, a2, b2, w2 \in Nat : Inv(s2, a2, b2, w2)'
  <2>1. QueueTypeOK' /\ \E v \in Nat : Inv(s + 1, a, b, v)'
    BY <1>1, <1>2, <1>5, StoreStep
  <2>2. s + 1 \in Nat
    OBVIOUS
  <2> QED
    BY <2>1, <2>2
<1>6. CASE TakeEvent
  BY <1>1, <1>2, <1>6, TakeStep
<1>7. CASE Written
  BY <1>1, <1>2, <1>7, WrittenStep
<1>8. CASE Drained
  BY <1>1, <1>2, <1>8, DrainedStep
<1>9. ASSUME NEW e \in Event, Log(e)
      PROVE  QueueTypeOK' /\ \E s2, a2, b2, w2 \in Nat : Inv(s2, a2, b2, w2)'
  BY <1>1, <1>2, <1>9, LogStep
<1>10. CASE Flush
  BY <1>1, <1>2, <1>10, FlushStep
<1>11. CASE WriteSettled
  BY <1>1, <1>2, <1>11, WriteSettledStep
<1>12. CASE Shutdown
  BY <1>1, <1>2, <1>12, ShutdownStep
<1>13. CASE UNCHANGED queueVars
  <2>1. QueueTypeOK'
    BY <1>2, <1>13 DEF queueVars, QueueTypeOK
  <2>2. Placed(s, a, b)' /\ Filled(s)'
    BY <1>1, <1>13 DEF queueVars, Inv, Placed, Filled
  <2>3. Counted(b)' /\ Locked(s, a, b, w)'
    BY <1>1, <1>13 DEF queueVars, Inv, Counted, Locked, Held, Contending
  <2>4. Scheduled(a, b)'
    BY <1>1, <1>13 DEF queueVars, Inv, Scheduled
  <2> QED
    BY <2>1, <2>2, <2>3, <2>4 DEF Inv
<1> QED
  BY <1>3, <1>4, <1>5, <1>6, <1>7, <1>8, <1>9, <1>10, <1>11, <1>12, <1>13
     DEF QueueNext, Microtask

\* The variables always have their types: no index leaves the buffer, and no
\* slot is released twice.
THEOREM TypeCorrect ==
  ASSUME BufferCapacity >= 2
  PROVE  QueueSpec => []QueueTypeOK
<1>1. QueueInit => AuditInv
  BY InitInv
<1>2. AuditInv /\ [QueueNext]_queueVars => AuditInv'
  BY NextInv
<1>3. AuditInv => QueueTypeOK
  BY DEF AuditInv
<1> QED
  BY <1>1, <1>2, <1>3, PTL DEF QueueSpec

\* The safety part of the audit trail.
TrailSafety == Trail!Init /\ [][Trail!Next]_(Trail!trailVars)

\* With at least two slots, whatever the requests, the flush timer, the writer and
\* the shutdown do, events are handed to the writer one by one, in the order of
\* the calls, none twice and none skipped (enqueue and drain of audit-queue.ts).
\* That all of them are is left to the model checker.
THEOREM InCallOrder ==
  ASSUME BufferCapacity >= 2
  PROVE  QueueSpec => TrailSafety
<1>1. QueueInit => AuditInv /\ Trail!Init
  BY InitInv DEF QueueInit, Trail!Init
<1>2. AuditInv /\ [QueueNext]_queueVars => AuditInv'
  BY NextInv
<1>3. AuditInv /\ [QueueNext]_queueVars => [Trail!Next]_(Trail!trailVars)
  <2> SUFFICES ASSUME AuditInv, [QueueNext]_queueVars
               PROVE  [Trail!Next]_(Trail!trailVars)
    OBVIOUS
  <2> USE DEF Trail!Next, Trail!trailVars
  <2>1. ASSUME NEW e \in Event, Log(e) PROVE Trail!Next
    <3>1. Trail!Log(e)
      BY <2>1 DEF Log, Trail!Log
    <3> QED
      BY <3>1
  <2>2. CASE TakeEvent
    <3>1. PICK s \in Nat, a \in Nat, b \in Nat, w \in Nat : Inv(s, a, b, w)
      BY DEF AuditInv
    <3>2. /\ Len(handed) < Len(logged)
          /\ handed' = Append(handed, logged[Len(handed) + 1])
      BY <2>2, <3>1, TakeStep DEF AuditInv
    <3>3. logged' = logged /\ owed' = owed
      BY <2>2 DEF TakeEvent
    <3>4. Trail!Hand
      BY <3>2, <3>3 DEF Trail!Hand
    <3> QED
      BY <3>4
  <2>3. CASE \/ Hop \/ Written \/ Drained \/ Flush \/ WriteSettled \/ Shutdown
             \/ UNCHANGED queueVars
             \/ \E e \in Event : EnterLock(e) \/ Store(e)
    <3>1. UNCHANGED trail
      BY <2>3 DEF Hop, Written, Drained, Flush, WriteSettled, Shutdown, EnterLock, Store,
                  queueVars, trail
    <3> QED
      BY <3>1 DEF trail
  <2> QED
    BY <2>1, <2>2, <2>3 DEF QueueNext, Microtask
<1> QED
  BY <1>1, <1>2, <1>3, PTL DEF QueueSpec, TrailSafety

-----------------------------------------------------------------------------
(* The event manager *)

------------------------------------------------------------------------------
(* Sequences of events *)

\* The scan of FlattenSeq, position by position.
Flattening(g, seqs) ==
  g = [i \in 1 .. Len(seqs) |-> IF i = 1 THEN seqs[i] ELSE g[i - 1] \o seqs[i]]

LEMMA FlattenScan ==
  ASSUME NEW S, NEW seqs \in Seq(Seq(S)), Len(seqs) # 0
  PROVE  \E g \in [1 .. Len(seqs) -> Seq(S)] :
           Flattening(g, seqs) /\ FlattenSeq(seqs) = g[Len(seqs)]
<1> DEFINE N == Len(seqs)
           Upto(n, g) == \A m \in 1 .. n :
                           /\ m = 1 => g[m] = seqs[m]
                           /\ m # 1 => g[m] = g[m - 1] \o seqs[m]
           Exists(n) == \E g \in [1 .. n -> Seq(S)] : Upto(n, g)
           U == {n \in 0 .. N : Exists(n)}
<1>1. N \in Nat \ {0} /\ \A i \in 1 .. N : seqs[i] \in Seq(S)
  OBVIOUS
<1>2. 0 \in U
  <2>1. [i \in 1 .. 0 |-> <<>>] \in [1 .. 0 -> Seq(S)] /\ Upto(0, [i \in 1 .. 0 |-> <<>>])
    OBVIOUS
  <2>2. Exists(0)
    <3> HIDE DEF Upto
    <3> QED
      BY <2>1
  <2> HIDE DEF Exists
  <2> QED
    BY <1>1, <2>2
<1>3. ASSUME NEW n \in 1 .. N, n - 1 \in U PROVE n \in U
  <2>1. PICK g \in [1 .. n - 1 -> Seq(S)] : Upto(n - 1, g)
    BY <1>3
  <2> DEFINE last == IF n = 1 THEN seqs[n] ELSE g[n - 1] \o seqs[n]
             h == [m \in 1 .. n |-> IF m = n THEN last ELSE g[m]]
  <2>2. last \in Seq(S)
    <3>1. CASE n = 1
      BY <1>1, <3>1
    <3>2. CASE n # 1
      <4>1. g[n - 1] \in Seq(S) /\ seqs[n] \in Seq(S)
        BY <1>1, <3>2
      <4> QED
        BY <3>2, <4>1
    <3> QED
      BY <3>1, <3>2
  <2>3. h \in [1 .. n -> Seq(S)]
    <3> HIDE DEF last
    <3> QED
      BY <2>2
  <2>4. Upto(n, h)
    <3>1. \A m \in 1 .. n - 1 : h[m] = g[m] /\ m \in 1 .. n /\ m # n
      <4>1. \A m \in 1 .. n - 1 : m \in 1 .. n /\ m # n
        BY <1>1
      <4> HIDE DEF last
      <4> QED
        BY <4>1
    <3>2. h[n] = last
      BY <1>1
    <3>3. n # 1 => n - 1 \in 1 .. n - 1
      BY <1>1
    <3>4. \A m \in 1 .. n : m = n \/ m \in 1 .. n - 1
      BY <1>1
    <3>5. \A m \in 1 .. n - 1 : m # 1 => m - 1 \in 1 .. n - 1
      BY <1>1
    <3> HIDE DEF h
    <3> QED
      BY <2>1, <3>1, <3>2, <3>3, <3>4, <3>5
  <2>5. Exists(n)
    <3> HIDE DEF Upto, h
    <3> QED
      BY <2>3, <2>4
  <2> HIDE DEF Exists
  <2> QED
    BY <2>5
<1>4. N \in U
  <2>1. 0 .. N \subseteq U
    <3> HIDE DEF U
    <3> QED
      BY <1>1, <1>2, <1>3, UpTo
  <2>2. N \in 0 .. N
    BY <1>1
  <2> HIDE DEF Exists
  <2> QED
    BY <2>1, <2>2
<1>5. PICK g \in [1 .. N -> Seq(S)] : Upto(N, g)
  BY <1>4
<1>6. Flattening(g, seqs)
  BY <1>5 DEF Flattening
<1> DEFINE f == CHOOSE f : Flattening(f, seqs)
<1>7. Flattening(f, seqs)
  BY <1>6
<1>8. FlattenSeq(seqs) = f[N]
  BY DEF FlattenSeq, Flattening
<1>9. f = g
  <2> DEFINE V == {n \in 0 .. N : n = 0 \/ f[n] = g[n]}
  <2>1. 0 \in V
    BY <1>1
  <2>2. ASSUME NEW n \in 1 .. N, n - 1 \in V PROVE n \in V
    <3>1. /\ f[n] = IF n = 1 THEN seqs[n] ELSE f[n - 1] \o seqs[n]
          /\ g[n] = IF n = 1 THEN seqs[n] ELSE g[n - 1] \o seqs[n]
      <4> HIDE DEF f
      <4> QED
        BY <1>6, <1>7 DEF Flattening
    <3>2. n = 1 \/ f[n - 1] = g[n - 1]
      BY <2>2
    <3>3. f[n] = g[n]
      <4> HIDE DEF f
      <4> QED
        BY <3>1, <3>2
    <3> HIDE DEF f
    <3> QED
      BY <3>3
  <2>3. 0 .. N \subseteq V
    <3> HIDE DEF V, f
    <3> QED
      BY <1>1, <2>1, <2>2, UpTo
  <2>4. \A n \in 1 .. N : f[n] = g[n]
    BY <2>3
  <2> HIDE DEF f
  <2> QED
    BY <1>6, <1>7, <2>4 DEF Flattening
<1> QED
  BY <1>6, <1>8, <1>9

LEMMA RangeOfJoin ==
  ASSUME NEW S, NEW s \in Seq(S), NEW t \in Seq(S)
  PROVE  Range(s \o t) = Range(s) \cup Range(t)
<1>1. /\ Len(s) \in Nat /\ Len(t) \in Nat /\ Len(s \o t) = Len(s) + Len(t)
      /\ DOMAIN s = 1 .. Len(s) /\ DOMAIN t = 1 .. Len(t)
      /\ DOMAIN (s \o t) = 1 .. Len(s) + Len(t)
  OBVIOUS
<1>2. \A i \in 1 .. Len(s) : (s \o t)[i] = s[i] /\ i \in 1 .. Len(s) + Len(t)
  OBVIOUS
<1>3. \A i \in 1 .. Len(t) : (s \o t)[Len(s) + i] = t[i] /\ Len(s) + i \in 1 .. Len(s) + Len(t)
  OBVIOUS
<1>4. \A i \in 1 .. Len(s) + Len(t) :
        i \in 1 .. Len(s) \/ (i - Len(s) \in 1 .. Len(t) /\ Len(s) + (i - Len(s)) = i)
  BY <1>1
<1> DEFINE u == s \o t
<1>5. ASSUME NEW x \in Range(u) PROVE x \in Range(s) \cup Range(t)
  <2>1. PICK i \in 1 .. Len(s) + Len(t) : x = u[i]
    BY <1>1, <1>5 DEF Range
  <2>2. CASE i \in 1 .. Len(s)
    BY <1>1, <1>2, <2>1, <2>2 DEF Range
  <2>3. CASE i - Len(s) \in 1 .. Len(t) /\ Len(s) + (i - Len(s)) = i
    <3>1. u[i] = t[i - Len(s)]
      BY <1>3, <2>3
    <3> QED
      BY <1>1, <2>1, <2>3, <3>1 DEF Range
  <2> QED
    BY <1>4, <2>2, <2>3
<1>6. Range(s) \subseteq Range(u)
  BY <1>1, <1>2 DEF Range
<1>7. Range(t) \subseteq Range(u)
  BY <1>1, <1>3 DEF Range
<1> QED
  BY <1>5, <1>6, <1>7

LEMMA FlattenOf ==
  ASSUME NEW S, NEW seqs \in Seq(Seq(S))
  PROVE  /\ FlattenSeq(seqs) \in Seq(S)
         /\ Range(FlattenSeq(seqs))
              = UNION {Range(seqs[i]) : i \in 1 .. Len(seqs)}
<1> DEFINE N == Len(seqs)
<1>1. N \in Nat /\ \A i \in 1 .. N : seqs[i] \in Seq(S)
  OBVIOUS
<1>2. CASE N = 0
  <2>1. FlattenSeq(seqs) = <<>>
    BY <1>2 DEF FlattenSeq
  <2> QED
    BY <1>2, <2>1 DEF Range
<1>3. CASE N # 0
  <2>1. PICK g \in [1 .. N -> Seq(S)] :
          Flattening(g, seqs) /\ FlattenSeq(seqs) = g[N]
    BY <1>3, FlattenScan
  <2> DEFINE Members(n) == UNION {Range(seqs[i]) : i \in 1 .. n}
             V == {n \in 0 .. N : n = 0 \/ Range(g[n]) = Members(n)}
  <2>2. 0 \in V
    BY <1>1
  <2>3. ASSUME NEW n \in 1 .. N, n - 1 \in V PROVE n \in V
    <3>1. Range(g[n]) = Members(n)
      <4>1. CASE n = 1
        <5>1. g[1] = seqs[1]
          BY <1>1, <2>1, <4>1 DEF Flattening
        <5>2. Members(1) = Range(seqs[1])
          OBVIOUS
        <5> HIDE DEF Members
        <5> QED
          BY <4>1, <5>1, <5>2
      <4>2. CASE n # 1
        <5>1. g[n] = g[n - 1] \o seqs[n]
          BY <1>1, <2>1, <4>2 DEF Flattening
        <5>2. g[n - 1] \in Seq(S) /\ seqs[n] \in Seq(S)
          <6>1. n - 1 \in 1 .. N /\ n \in 1 .. N
            BY <1>1, <4>2
          <6> HIDE DEF N
          <6> QED
            BY <1>1, <2>1, <6>1
        <5>3. Members(n) = Members(n - 1) \cup Range(seqs[n])
          <6>1. 1 .. n = (1 .. n - 1) \cup {n}
            BY <1>1
          <6> QED
            BY <6>1
        <5>4. Range(g[n - 1]) = Members(n - 1)
          BY <1>1, <2>3, <4>2
        <5> HIDE DEF Members
        <5> QED
          BY <5>1, <5>2, <5>3, <5>4, RangeOfJoin
      <4> QED
        BY <4>1, <4>2
    <3> HIDE DEF Members
    <3> QED
      BY <3>1
  <2>4. 0 .. N \subseteq V
    <3> HIDE DEF V
    <3> QED
      BY <1>1, <2>2, <2>3, UpTo
  <2>5. N \in 0 .. N /\ N \in 1 .. N
    BY <1>1, <1>3
  <2>6. Range(g[N]) = Members(N)
    <3> HIDE DEF Members
    <3> QED
      BY <1>3, <2>4, <2>5
  <2> QED
    BY <2>1, <2>5, <2>6
<1> QED
  BY <1>2, <1>3

------------------------------------------------------------------------------
(* What a transaction emits *)

ChainEvent == [kind : Range(Kinds), op : Op, block : Nat, tx : Nat, ok : BOOLEAN]

IsOutcome(e) == e.kind = "UserOperationEvent"

LEMMA KindNames ==
  /\ Kinds[1] = "UserOperationEvent"
  /\ Kinds[2] = "AccountDeployed"
  /\ Kinds[3] = "SignatureAggregatorChanged"
  /\ Range(Kinds)
       = {"UserOperationEvent", "AccountDeployed", "SignatureAggregatorChanged"}
<1>1. DOMAIN Kinds = 1 .. 3
  BY DEF Kinds
<1> QED
  BY <1>1 DEF Kinds, Range

\* Every operation of the transaction has its event, with the outcome of the
\* transaction, and nothing else does.
LEMMA Emitted ==
  ASSUME NEW ops \in Seq(Op), NEW block \in Nat, NEW tx \in Nat, NEW ok \in BOOLEAN
  PROVE  /\ EventsOf(ops, block, tx, ok) \in Seq(ChainEvent)
         /\ \A e \in Range(EventsOf(ops, block, tx, ok)) :
              e.op \in Range(ops) /\ e.ok = ok /\ e.block = block
         /\ \A o \in Range(ops) :
              \E e \in Range(EventsOf(ops, block, tx, ok)) :
                IsOutcome(e) /\ e.op = o
<1> DEFINE event(kind, o) == [kind |-> kind, op |-> o, block |-> block, tx |-> tx, ok |-> ok]
           of(o) == (IF Aggregator[o] = NoAggregator THEN <<>>
                     ELSE <<event(Kinds[3], o)>>)
                    \o (IF o \in Deploys THEN <<event(Kinds[2], o)>> ELSE <<>>)
                    \o <<event(Kinds[1], o)>>
           seqs == [i \in DOMAIN ops |-> of(ops[i])]
           all == EventsOf(ops, block, tx, ok)
<1>1. ASSUME NEW o \in Op
      PROVE  /\ of(o) \in Seq(ChainEvent)
             /\ \A e \in Range(of(o)) : e.op = o /\ e.ok = ok /\ e.block = block
             /\ \E e \in Range(of(o)) : IsOutcome(e) /\ e.op = o
  <2>1. \A k \in 1 .. 3 : event(Kinds[k], o) \in ChainEvent
    BY KindNames DEF ChainEvent
  <2> DEFINE a == IF Aggregator[o] = NoAggregator THEN <<>> ELSE <<event(Kinds[3], o)>>
             b == IF o \in Deploys THEN <<event(Kinds[2], o)>> ELSE <<>>
             c == <<event(Kinds[1], o)>>
             Mine == {event(Kinds[k], o) : k \in 1 .. 3}
  <2>2. a \in Seq(Mine) /\ b \in Seq(Mine) /\ c \in Seq(Mine)
    <3>1. \A x \in Mine : <<x>> \in Seq(Mine)
      OBVIOUS
    <3>2. <<>> \in Seq(Mine)
      OBVIOUS
    <3>3. \A k \in {1, 2, 3} : event(Kinds[k], o) \in Mine
      OBVIOUS
    <3> HIDE DEF Mine, event
    <3> QED
      BY <3>1, <3>2, <3>3
  <2>3. of(o) = (a \o b) \o c
    OBVIOUS
  <2>4. of(o) \in Seq(Mine) /\ Range(c) \subseteq Range(of(o))
    <3>1. a \o b \in Seq(Mine)
      <4> HIDE DEF a, b, Mine
      <4> QED
        BY <2>2
    <3>2. (a \o b) \o c \in Seq(Mine)
      <4> HIDE DEF a, b, c, Mine
      <4> QED
        BY <2>2, <3>1
    <3>3. Range((a \o b) \o c) = Range(a \o b) \cup Range(c)
      <4> DEFINE ab == a \o b
      <4>1. ab \in Seq(Mine) /\ c \in Seq(Mine)
        BY <2>2, <3>1
      <4> HIDE DEF a, b, c, ab, Mine
      <4>2. Range(ab \o c) = Range(ab) \cup Range(c)
        BY <4>1, RangeOfJoin
      <4> QED
        BY <4>2 DEF ab
    <3> HIDE DEF of, a, b, c, Mine
    <3> QED
      BY <2>3, <3>2, <3>3
  <2>5. Mine \subseteq ChainEvent
    BY <2>1
  <2>6. \A e \in Mine : e.op = o /\ e.ok = ok /\ e.block = block
    OBVIOUS
  <2>7. event(Kinds[1], o) \in Range(c)
    BY DEF Range
  <2>8. \A e \in Range(of(o)) : e \in Mine
    <3> HIDE DEF of, Mine
    <3> QED
      BY <2>4 DEF Range
  <2>9. of(o) \in Seq(ChainEvent)
    <3> HIDE DEF of, Mine
    <3> QED
      BY <2>4, <2>5
  <2>10. IsOutcome(event(Kinds[1], o)) /\ event(Kinds[1], o).op = o
    BY KindNames DEF IsOutcome
  <2> HIDE DEF of, Mine, c, event
  <2> QED
    BY <2>4, <2>6, <2>7, <2>8, <2>9, <2>10
<1>2. DOMAIN ops = 1 .. Len(ops) /\ Len(ops) \in Nat /\ \A i \in 1 .. Len(ops) : ops[i] \in Op
  OBVIOUS
<1>3. seqs \in Seq(Seq(ChainEvent)) /\ Len(seqs) = Len(ops)
  <2>1. \A i \in 1 .. Len(ops) : of(ops[i]) \in Seq(ChainEvent)
    <3> HIDE DEF of
    <3> QED
      BY <1>1, <1>2
  <2> HIDE DEF of
  <2> QED
    BY <1>2, <2>1
<1>4. all = FlattenSeq(seqs)
  BY DEF EventsOf
<1>5. /\ all \in Seq(ChainEvent)
      /\ Range(all) = UNION {Range(seqs[i]) : i \in 1 .. Len(seqs)}
  <2> HIDE DEF all, seqs
  <2> QED
    BY <1>3, <1>4, FlattenOf
<1>6. \A i \in 1 .. Len(ops) : seqs[i] = of(ops[i])
  BY <1>2
<1>7. Range(all) = UNION {Range(of(ops[i])) : i \in 1 .. Len(ops)}
  <2> HIDE DEF all, seqs, of
  <2> QED
    BY <1>3, <1>5, <1>6
<1>8. \A e \in Range(all) : e.op \in Range(ops) /\ e.ok = ok /\ e.block = block
  <2> SUFFICES ASSUME NEW i \in 1 .. Len(ops), NEW e \in Range(of(ops[i]))
               PROVE  e.op \in Range(ops) /\ e.ok = ok /\ e.block = block
    <3> HIDE DEF all, seqs, of
    <3> QED
      BY <1>7
  <2>1. ops[i] \in Op /\ ops[i] \in Range(ops)
    BY <1>2 DEF Range
  <2> HIDE DEF of
  <2> QED
    BY <1>1, <2>1
<1>9. \A o \in Range(ops) : \E e \in Range(all) : IsOutcome(e) /\ e.op = o
  <2> SUFFICES ASSUME NEW i \in 1 .. Len(ops)
               PROVE  \E e \in Range(all) : IsOutcome(e) /\ e.op = ops[i]
    BY <1>2 DEF Range
  <2>1. \E e \in Range(of(ops[i])) : IsOutcome(e) /\ e.op = ops[i]
    <3> HIDE DEF of
    <3> QED
      BY <1>1, <1>2
  <2> HIDE DEF all, seqs, of
  <2> QED
    BY <1>7, <2>1
<1> QED
  BY <1>5, <1>8, <1>9

\* A bundle is a sequence of operations.
LEMMA BundleIsSeq ==
  ASSUME NEW ops \in Bundles
  PROVE  ops \in Seq(Op) /\ Range(ops) \in SUBSET Op
<1>1. PICK S \in SUBSET Op : ops \in SetToSeqs(S)
  BY DEF Bundles
<1>2. IsFiniteSet(S) /\ Cardinality(S) \in Nat
  BY EventAssumption, FS_Subset, FS_CardinalityType
<1>3. Cardinality(S) = Cardinality(S)
  BY DEF Cardinality, Cardinality
<1>4. ops \in [1 .. Cardinality(S) -> S]
  BY <1>1, <1>3 DEF SetToSeqs
<1>5. ops \in Seq(Op)
  BY <1>2, <1>4
<1> QED
  BY <1>5 DEF Range

------------------------------------------------------------------------------
(* The invariant of the event manager *)

AnnouncedIn(L, address, tx) == \E e \in L : e.tx = tx /\ Aggregator[e.op] = address

\* A handler has nothing to do that is not in the log L.
HandlerOK(r, L) ==
  /\ DOMAIN r = {"pc", "from", "got", "asked", "todo", "written"}
  /\ r.todo \in Seq(L)
  /\ r.got \in [1 .. 3 -> Seq(L)]

\* The chain: an operation has one outcome, and only if it has landed.
ChainInv ==
  /\ log \in Seq(ChainEvent) /\ head \in Nat
  /\ \A e \in UserOperationEvents : e.op \in landed
  /\ \A e, f \in UserOperationEvents : e.op = f.op => e.ok = f.ok

HandlersInv ==
  /\ DOMAIN handler = Handlers
  /\ \A h \in Handlers : HandlerOK(handler[h], Range(log))

\* What is remembered, and what was credited, was announced.
MemoryInv ==
  /\ \/ aggregator.address = NoAggregator
     \/ AnnouncedIn(Range(log), aggregator.address, aggregator.tx)
  /\ AggregatorOfTransaction

EventsInv ==
  /\ ChainInv /\ HandlersInv /\ MemoryInv
  /\ pool \in [Op -> Settled!Status]

LEMMA EventsInit == Init => EventsInv
<1> SUFFICES ASSUME Init PROVE EventsInv
  OBVIOUS
<1>1. log = <<>> /\ Range(log) = {} /\ UserOperationEvents = {}
  BY DEF Init, Range, UserOperationEvents
<1>2. ChainInv
  BY <1>1 DEF Init, ChainInv
<1>3. HandlerOK(IdleHandler, {})
  BY DEF HandlerOK, IdleHandler
<1>4. HandlersInv
  BY <1>1, <1>3 DEF Init, HandlersInv
<1>5. MemoryInv
  BY DEF Init, MemoryInv, AggregatorOfTransaction
<1> QED
  BY <1>2, <1>4, <1>5 DEF Init, EventsInv, Settled!Status

\* A handler goes on.
LEMMA HandlersStep ==
  ASSUME HandlersInv, NEW h \in Handlers, NEW r, SetHandler(h, r),
         HandlerOK(r, Range(log)), UNCHANGED log
  PROVE  HandlersInv'
<1>1. Range(log') = Range(log) /\ handler' = [handler EXCEPT ![h] = r]
  BY DEF SetHandler
<1>2. /\ DOMAIN handler' = Handlers
      /\ \A k \in Handlers : HandlerOK(handler'[k], Range(log'))
  BY <1>1 DEF HandlersInv
<1> QED
  BY <1>1, <1>2 DEF HandlersInv, Handlers, Range, HandlerOK

\* A handler goes on, and neither the chain, the memory nor the mempool changes.
LEMMA QuietStep ==
  ASSUME EventsInv, NEW h \in Handlers, NEW r, SetHandler(h, r),
         HandlerOK(r, Range(log)),
         UNCHANGED <<log, head, landed, pool, aggregator, credited>>
  PROVE  EventsInv'
<1>1. HandlersInv'
  BY HandlersStep DEF EventsInv
<1>2. ChainInv' /\ MemoryInv'
  BY DEF EventsInv, ChainInv, MemoryInv, UserOperationEvents, Range,
         AggregatorOfTransaction, AnnouncedIn
<1> QED
  BY <1>1, <1>2 DEF EventsInv

LEMMA ExecuteStep ==
  ASSUME EventsInv, NEW ops \in Bundles, NEW ok \in BOOLEAN,
         Execute(ops, ok)
  PROVE  /\ EventsInv'
         /\ Settled!Land(Range(ops), ok)
<1> DEFINE new == EventsOf(ops, head', head', ok)
           L == Range(log)
           N == Range(new)
<1>1. ops \in Seq(Op) /\ Range(ops) \in SUBSET Op /\ head' \in Nat
  BY BundleIsSeq DEF Execute, EventsInv, ChainInv
<1>2. /\ new \in Seq(ChainEvent)
      /\ \A e \in N : e.op \in Range(ops) /\ e.ok = ok
      /\ \A o \in Range(ops) : \E e \in N : IsOutcome(e) /\ e.op = o
  BY <1>1, Emitted
<1>3. /\ log' = log \o new /\ log \in Seq(ChainEvent)
      /\ Range(ops) \cap landed = {}
      /\ landed' = landed \cup Range(ops)
      /\ UNCHANGED <<pool, aggregator, handler, handled, credited>>
  BY DEF Execute, EventsInv, ChainInv
<1> HIDE DEF new
<1>4. log' \in Seq(ChainEvent) /\ Range(log') = L \cup N
  BY <1>2, <1>3, RangeOfJoin
<1>5. /\ UserOperationEvents = {e \in L : IsOutcome(e)}
      /\ UserOperationEvents' = {e \in L \cup N : IsOutcome(e)}
  BY <1>4 DEF UserOperationEvents, IsOutcome, Range
<1> HIDE DEF L, N
<1>6. ChainInv'
  <2>1. \A e \in L : IsOutcome(e) => e.op \in landed
    BY <1>5 DEF EventsInv, ChainInv
  <2>2. \A e, f \in L : IsOutcome(e) /\ IsOutcome(f) /\ e.op = f.op => e.ok = f.ok
    BY <1>5 DEF EventsInv, ChainInv
  <2>3. \A e \in L \cup N : IsOutcome(e) => e.op \in landed'
    BY <1>2, <1>3, <2>1
  <2>4. \A e, f \in L \cup N : IsOutcome(e) /\ IsOutcome(f) /\ e.op = f.op => e.ok = f.ok
    BY <1>2, <1>3, <2>1, <2>2
  <2> QED
    BY <1>1, <1>4, <1>5, <2>3, <2>4 DEF ChainInv
<1>7. HandlersInv'
  <2>1. \A s \in Seq(L) : s \in Seq(L \cup N)
    OBVIOUS
  <2>2. \A h \in Handlers : HandlerOK(handler[h], L)
    BY DEF EventsInv, HandlersInv, L
  <2>3. \A h \in Handlers : HandlerOK(handler[h], L \cup N)
    BY <2>1, <2>2 DEF HandlerOK
  <2> QED
    BY <1>3, <1>4, <2>3 DEF EventsInv, HandlersInv, Handlers, Range
<1>8. MemoryInv'
  <2>1. \A address, tx : AnnouncedIn(L, address, tx) => AnnouncedIn(L \cup N, address, tx)
    BY DEF AnnouncedIn
  <2>2. \A c \in credited : AnnouncedIn(L, c.address, c.tx)
    BY DEF EventsInv, MemoryInv, AggregatorOfTransaction, AnnouncedIn, L
  <2>3. AggregatorOfTransaction'
    <3>1. \A c \in credited : AnnouncedIn(L \cup N, c.address, c.tx)
      BY <2>1, <2>2
    <3> QED
      BY <1>3, <1>4, <3>1 DEF AggregatorOfTransaction, AnnouncedIn, Range
  <2>4. aggregator.address = NoAggregator \/ AnnouncedIn(L, aggregator.address, aggregator.tx)
    BY DEF EventsInv, MemoryInv, L
  <2>5. \/ aggregator'.address = NoAggregator
        \/ AnnouncedIn(Range(log'), aggregator'.address, aggregator'.tx)
    BY <1>3, <1>4, <2>1, <2>4
  <2> QED
    BY <2>3, <2>5 DEF MemoryInv, AnnouncedIn, Range
<1>9. Settled!Land(Range(ops), ok)
  <2> DEFINE good == {e.op : e \in {f \in UserOperationEvents : f.ok}}
  <2>1. good' = IF ok THEN good \cup Range(ops) ELSE good
    <3>1. good = {e.op : e \in {f \in {x \in L : IsOutcome(x)} : f.ok}}
      BY <1>5
    <3>2. good' = {e.op : e \in {f \in {x \in L \cup N : IsOutcome(x)} : f.ok}}
      BY <1>5
    <3> HIDE DEF good
    <3> QED
      BY <1>2, <3>1, <3>2
  <2> QED
    BY <1>3, <2>1 DEF Settled!Land
<1> QED
  BY <1>3, <1>6, <1>7, <1>8, <1>9 DEF EventsInv

\* handlePastEvents up to the first event it handles.
LEMMA AskingStep ==
  ASSUME EventsInv, NEW c \in Callers,
         \/ Begin(c) \/ ReadBlockNumber(c)
         \/ \E k \in Queries : AnswerQuery(c, k)
  PROVE  EventsInv'
<1> DEFINE L == Range(log)
<1>1. c \in Handlers /\ HandlerOK(handler[c], L)
  BY DEF EventsInv, HandlersInv, Handlers
<1>2. HandlerOK(IdleHandler, L)
  BY DEF HandlerOK, IdleHandler
<1>3. UNCHANGED <<log, head, landed, pool, aggregator, credited>>
  BY DEF Begin, ReadBlockNumber, AnswerQuery
<1>4. CASE Begin(c)
  <2> DEFINE r == [IdleHandler EXCEPT
                     !.pc = IF lastBlock = 0 THEN "blockNumber" ELSE "query",
                     !.from = lastBlock]
  <2>1. SetHandler(c, r)
    BY <1>4 DEF Begin
  <2>2. HandlerOK(r, L)
    BY <1>2 DEF HandlerOK
  <2> HIDE DEF r
  <2> QED
    BY <1>1, <1>3, <2>1, <2>2, QuietStep
<1>5. CASE ReadBlockNumber(c)
  <2> DEFINE r == [handler[c] EXCEPT !.pc = "query", !.from = FirstBlock]
  <2>1. SetHandler(c, r)
    BY <1>5 DEF ReadBlockNumber
  <2>2. HandlerOK(r, L)
    BY <1>1 DEF HandlerOK
  <2> HIDE DEF r
  <2> QED
    BY <1>1, <1>3, <2>1, <2>2, QuietStep
<1>6. ASSUME NEW k \in Queries, AnswerQuery(c, k) PROVE EventsInv'
  <2> DEFINE got == [handler[c].got EXCEPT ![k] = Found(c, k)]
             more == [handler[c] EXCEPT !.got = got, !.asked = @ \cup {k}]
             done == [IdleHandler EXCEPT !.pc = "handle",
                                                !.todo = FlattenSeq(got)]
             r == IF handler[c].asked \cup {k} # Queries THEN more ELSE done
  <2>1. SetHandler(c, r)
    BY <1>6 DEF AnswerQuery
  <2>2. Found(c, k) \in Seq(L)
    <3> DEFINE keep(e) == e.kind = Kinds[k] /\ e.block >= handler[c].from
               seqs == [i \in DOMAIN log |-> IF keep(log[i]) THEN <<log[i]>> ELSE <<>>]
    <3>1. log \in Seq(ChainEvent)
      BY DEF EventsInv, ChainInv
    <3>2. /\ DOMAIN log = 1 .. Len(log) /\ Len(log) \in Nat
          /\ \A i \in DOMAIN log : log[i] \in L
      BY <3>1 DEF Range
    <3>3. \A i \in DOMAIN log : (IF keep(log[i]) THEN <<log[i]>> ELSE <<>>) \in Seq(L)
      <4>1. <<>> \in Seq(L) /\ \A x \in L : <<x>> \in Seq(L)
        OBVIOUS
      <4> HIDE DEF keep, L
      <4> QED
        BY <3>2, <4>1
    <3>4. seqs \in Seq(Seq(L))
      <4> HIDE DEF keep, L
      <4> QED
        BY <3>2, <3>3
    <3>5. Found(c, k) = FlattenSeq(seqs)
      BY DEF Found
    <3> HIDE DEF seqs, L
    <3> QED
      BY <3>4, <3>5, FlattenOf
  <2>3. got \in [1 .. 3 -> Seq(L)]
    <3> HIDE DEF L
    <3> QED
      BY <1>1, <2>2 DEF HandlerOK
  <2>4. FlattenSeq(got) \in Seq(L)
    <3>1. got \in Seq(Seq(L))
      <4>1. \A T, n : n \in Nat => [1 .. n -> T] \subseteq Seq(T)
        OBVIOUS
      <4> HIDE DEF got, L
      <4> QED
        BY <2>3, <4>1
    <3> HIDE DEF got, L
    <3> QED
      BY <3>1, FlattenOf
  <2>5. HandlerOK(more, L)
    <3> HIDE DEF got, L
    <3> QED
      BY <1>1, <2>3 DEF HandlerOK
  <2>6. HandlerOK(done, L)
    <3> HIDE DEF got, L
    <3> QED
      BY <1>2, <2>4 DEF HandlerOK
  <2>7. HandlerOK(r, L)
    BY <2>5, <2>6
  <2> HIDE DEF r
  <2> QED
    BY <1>1, <1>3, <2>1, <2>7, QuietStep
<1> QED
  BY <1>4, <1>5, <1>6

\* A set of positions has a first one.
LEMMA FirstOf ==
  ASSUME NEW n \in Nat, NEW S \in SUBSET (1 .. n), S # {}
  PROVE  (CHOOSE i \in S : \A j \in S : i <= j) \in S
<1> DEFINE U == {m \in 0 .. n : \A i \in S : m < i}
<1>1. \E i \in S : \A j \in S : i <= j
  <2> SUFFICES ASSUME \A i \in S : \E j \in S : ~ (i <= j)
               PROVE  FALSE
    OBVIOUS
  <2>1. 0 \in U
    OBVIOUS
  <2>2. ASSUME NEW m \in 1 .. n, m - 1 \in U PROVE m \in U
    <3>1. \A i \in S : i \in Int /\ m - 1 < i
      BY <2>2
    <3>2. m \notin S
      BY <3>1
    <3> QED
      BY <3>1, <3>2
  <2>3. 0 .. n \subseteq U
    <3> HIDE DEF U
    <3> QED
      BY <2>1, <2>2, UpTo
  <2>4. S \subseteq 0 .. n
    OBVIOUS
  <2>5. ASSUME NEW i \in S PROVE FALSE
    <3>1. i \in U /\ i \in Int
      BY <2>3, <2>4
    <3>2. i < i
      BY <3>1
    <3> QED
      BY <3>1, <3>2
  <2> QED
    BY <2>5
<1> QED
  BY <1>1

\* The listener is called, and a handler returns.
LEMMA ListenReturnStep ==
  ASSUME EventsInv, NEW h \in Handlers, Listen(h) \/ Return(h)
  PROVE  EventsInv'
<1> DEFINE L == Range(log)
<1>1. UNCHANGED <<log, head, landed, pool, aggregator, credited>>
  BY DEF Listen, Return
<1>2. HandlerOK(IdleHandler, L)
  BY DEF HandlerOK, IdleHandler
<1>3. CASE Return(h)
  <2>1. SetHandler(h, IdleHandler)
    BY <1>3 DEF Return
  <2> QED
    BY <1>1, <1>2, <2>1, QuietStep
<1>4. CASE Listen(h)
  <2> DEFINE next == {i \in DOMAIN log : i > heard /\ log[i].kind = "UserOperationEvent"}
             first == CHOOSE i \in next : \A j \in next : i <= j
             r == [IdleHandler EXCEPT !.pc = "handle", !.todo = <<log[first]>>]
  <2>1. SetHandler(h, r) /\ next # {}
    BY <1>4 DEF Listen
  <2>2. first \in DOMAIN log
    <3>1. log \in Seq(ChainEvent)
      BY DEF EventsInv, ChainInv
    <3>2. next \subseteq 1 .. Len(log) /\ Len(log) \in Nat
      BY <3>1
    <3>3. first \in next
      <4> HIDE DEF next
      <4> QED
        BY <2>1, <3>2, FirstOf
    <3> QED
      BY <3>3
  <2>3. log[first] \in L
    BY <2>2 DEF Range
  <2>4. <<log[first]>> \in Seq(L)
    <3> HIDE DEF first, L
    <3> QED
      BY <2>3
  <2>5. HandlerOK(r, L)
    <3> HIDE DEF first, L
    <3> QED
      BY <1>2, <2>4 DEF HandlerOK
  <2> HIDE DEF r
  <2> QED
    BY <1>1, <2>1, <2>5, QuietStep
<1> QED
  BY <1>3, <1>4

\* An outcome is settled: the entry leaves the mempool, or is marked.
LEMMA OutcomeStep ==
  ASSUME EventsInv, NEW h \in Handlers, HandleUserOperationEvent(h)
  PROVE  EventsInv' /\ \E o \in Op : Settled!SettleOp(o)
<1> DEFINE L == Range(log)
           ev == Head(handler[h].todo)
           r == [handler[h] EXCEPT !.written = TRUE]
           good == {e.op : e \in {f \in UserOperationEvents : f.ok}}
<1>1. /\ HandlerOK(handler[h], L) /\ handler[h].todo # <<>>
      /\ ev.kind = "UserOperationEvent"
      /\ pool' = [pool EXCEPT ![ev.op] = IF @ = "absent" \/ ev.ok THEN "absent" ELSE "failed"]
      /\ handled' = handled \cup {ev}
      /\ SetHandler(h, r)
      /\ UNCHANGED <<log, head, landed, aggregator, credited>>
  BY DEF EventsInv, HandlersInv, HandleUserOperationEvent, Settle
<1>2. ev \in L
  <2> HIDE DEF L
  <2> QED
    BY <1>1 DEF HandlerOK
<1>3. ev \in UserOperationEvents
  BY <1>1, <1>2 DEF UserOperationEvents
<1>4. ev.op \in Op
  <2>1. log \in Seq(ChainEvent)
    BY DEF EventsInv, ChainInv
  <2>2. ev \in ChainEvent
    BY <1>2, <2>1 DEF Range
  <2> QED
    BY <2>2 DEF ChainEvent
<1> HIDE DEF ev
<1>5. pool \in [Op -> Settled!Status]
  BY DEF EventsInv
<1>6. pool' \in [Op -> Settled!Status]
  BY <1>1, <1>4, <1>5 DEF Settled!Status
<1>7. HandlersInv'
  <2>1. HandlerOK(r, L)
    <3> HIDE DEF L
    <3> QED
      BY <1>1 DEF HandlerOK
  <2> HIDE DEF r
  <2> QED
    BY <1>1, <2>1, HandlersStep DEF EventsInv
<1>8. ChainInv' /\ MemoryInv'
  BY <1>1 DEF EventsInv, ChainInv, MemoryInv, UserOperationEvents, Range,
              AggregatorOfTransaction, AnnouncedIn
<1>9. ASSUME NEW o \in Op, o = ev.op PROVE Settled!SettleOp(o)
  <2>1. ev.op \in landed
    BY <1>3 DEF EventsInv, ChainInv
  <2>2. ev.op \in good <=> ev.ok
    <3>1. \A e \in UserOperationEvents : e.op = ev.op => (e.ok <=> ev.ok)
      BY <1>3 DEF EventsInv, ChainInv
    <3> QED
      BY <1>3, <3>1
  <2>3. {e.op : e \in handled'} = {e.op : e \in handled} \cup {ev.op}
    BY <1>1
  <2>4. good' = good
    BY <1>1 DEF UserOperationEvents, Range
  <2>5. pool' = [pool EXCEPT ![ev.op] = Settled!SettledEntry(ev.op)]
    BY <1>1, <1>4, <1>5, <2>2 DEF Settled!SettledEntry
  <2> HIDE DEF good
  <2> QED
    BY <1>1, <1>9, <2>1, <2>3, <2>4, <2>5 DEF Settled!SettleOp, Settled!SettledEntry, good
<1>10. EventsInv'
  BY <1>6, <1>7, <1>8 DEF EventsInv, Settled!Status
<1>11. \E o \in Op : Settled!SettleOp(o)
  <2>1. PICK o \in Op : o = ev.op
    BY <1>4
  <2> QED
    BY <1>9, <2>1
<1> QED
  BY <1>10, <1>11

\* The rest of an event: what is credited was announced in its transaction, for
\* the memory is about that transaction or is reset.
LEMMA FinishStep ==
  ASSUME EventsInv, NEW h \in Handlers, FinishEvent(h)
  PROVE  EventsInv'
<1> DEFINE L == Range(log)
           ev == Head(handler[h].todo)
           r == [handler[h] EXCEPT !.todo = Tail(@), !.written = FALSE]
<1>1. /\ HandlerOK(handler[h], L) /\ handler[h].todo # <<>>
      /\ SetHandler(h, r)
      /\ UNCHANGED <<log, head, landed, pool>>
  BY DEF EventsInv, HandlersInv, FinishEvent
<1>2. ev \in L
  <2> HIDE DEF L
  <2> QED
    BY <1>1 DEF HandlerOK
<1>3. HandlersInv'
  <2>1. HandlerOK(r, L)
    <3> HIDE DEF L
    <3> QED
      BY <1>1 DEF HandlerOK
  <2> HIDE DEF r
  <2> QED
    BY <1>1, <2>1, HandlersStep DEF EventsInv
<1>4. ChainInv'
  BY <1>1 DEF EventsInv, ChainInv, UserOperationEvents, Range
<1>5. /\ aggregator.address = NoAggregator \/ AnnouncedIn(L, aggregator.address, aggregator.tx)
      /\ \A c \in credited : AnnouncedIn(L, c.address, c.tx)
  BY DEF EventsInv, MemoryInv, AggregatorOfTransaction, AnnouncedIn
<1>6. /\ aggregator'.address = NoAggregator \/ AnnouncedIn(L, aggregator'.address, aggregator'.tx)
      /\ \A c \in credited' : AnnouncedIn(L, c.address, c.tx)
  <2>1. CASE /\ aggregator' = GetEventAggregator(ev)
             /\ IncludedAddress(ev, aggregator'.address)
    <3>1. \/ aggregator' = [address |-> NoAggregator, tx |-> ev.tx]
          \/ aggregator' = aggregator /\ aggregator.tx = ev.tx
      BY <2>1 DEF GetEventAggregator
    <3>2. \/ aggregator'.address = NoAggregator
          \/ AnnouncedIn(L, aggregator'.address, ev.tx) /\ aggregator'.tx = ev.tx
      BY <1>5, <3>1
    <3>3. \/ credited' = credited
          \/ /\ aggregator'.address # NoAggregator
             /\ credited' = credited \cup {[tx |-> ev.tx, address |-> aggregator'.address]}
      BY <2>1 DEF IncludedAddress
    <3> HIDE DEF L, ev
    <3> QED
      BY <1>5, <3>2, <3>3
  <2>2. CASE UNCHANGED <<aggregator, credited>>
    BY <1>5, <2>2
  <2>3. CASE /\ aggregator' = [address |-> Aggregator[ev.op], tx |-> ev.tx]
             /\ UNCHANGED credited
    <3>1. AnnouncedIn(L, Aggregator[ev.op], ev.tx)
      BY <1>2 DEF AnnouncedIn
    <3> HIDE DEF L, ev
    <3> QED
      BY <1>5, <2>3, <3>1
  <2> QED
    BY <2>1, <2>2, <2>3 DEF FinishEvent
<1>7. MemoryInv'
  <2>1. Range(log') = L
    BY <1>1
  <2> QED
    BY <1>6, <2>1 DEF MemoryInv, AggregatorOfTransaction, AnnouncedIn, Range
<1> QED
  BY <1>1, <1>3, <1>4, <1>7 DEF EventsInv

\* A step of the event manager keeps the invariant, and is one of the settlement
\* or none.
LEMMA EventsStep ==
  ASSUME EventsInv, [Next]_vars
  PROVE  EventsInv' /\ [Settled!Next]_(Settled!settleVars)
<1> DEFINE settled == {e.op : e \in handled}
           good == {e.op : e \in {f \in UserOperationEvents : f.ok}}
<1>1. ASSUME UNCHANGED <<log, landed, pool, handled>>
      PROVE  UNCHANGED Settled!settleVars
  BY <1>1 DEF Settled!settleVars, UserOperationEvents, Range
<1>2. ASSUME NEW ops \in Bundles, NEW ok \in BOOLEAN, Execute(ops, ok)
      PROVE  EventsInv' /\ Settled!Next
  <2>1. EventsInv' /\ Settled!Land(Range(ops), ok)
    BY <1>2, ExecuteStep
  <2>2. Range(ops) \in SUBSET Op
    BY BundleIsSeq
  <2>3. settled' = settled /\ pool' = pool
    BY <1>2 DEF Execute
  <2> QED
    BY <2>1, <2>2, <2>3 DEF Settled!Next
<1>3. ASSUME NEW h \in Handlers, HandleNext(h)
      PROVE  EventsInv' /\ [Settled!Next]_(Settled!settleVars)
  <2>1. CASE HandleUserOperationEvent(h)
    BY <2>1, OutcomeStep DEF Settled!Next
  <2>2. CASE FinishEvent(h)
    <3>1. UNCHANGED <<log, landed, pool, handled>>
      BY <2>2 DEF FinishEvent
    <3> QED
      BY <1>1, <2>2, <3>1, FinishStep
  <2>3. CASE Return(h)
    <3>1. UNCHANGED <<log, landed, pool, handled>>
      BY <2>3 DEF Return
    <3> QED
      BY <1>1, <2>3, <3>1, ListenReturnStep
  <2> QED
    BY <1>3, <2>1, <2>2, <2>3 DEF HandleNext
<1>4. ASSUME NEW c \in Callers,
             \/ Begin(c) \/ ReadBlockNumber(c)
             \/ \E k \in Queries : AnswerQuery(c, k)
      PROVE  EventsInv' /\ [Settled!Next]_(Settled!settleVars)
  <2>1. UNCHANGED <<log, landed, pool, handled>>
    BY <1>4 DEF Begin, ReadBlockNumber, AnswerQuery
  <2> QED
    BY <1>1, <1>4, <2>1, AskingStep
<1>5. ASSUME NEW l \in Listeners, Listen(l)
      PROVE  EventsInv' /\ [Settled!Next]_(Settled!settleVars)
  <2>1. UNCHANGED <<log, landed, pool, handled>>
    BY <1>5 DEF Listen
  <2>2. l \in Handlers
    BY DEF Handlers
  <2> QED
    BY <1>1, <1>5, <2>1, <2>2, ListenReturnStep
<1>6. CASE UNCHANGED vars
  <2>1. UNCHANGED <<log, head, landed, pool, aggregator, handler, handled, credited>>
    BY <1>6 DEF vars
  <2>2. ChainInv' /\ MemoryInv'
    BY <2>1 DEF EventsInv, ChainInv, MemoryInv, UserOperationEvents, Range,
                AggregatorOfTransaction, AnnouncedIn
  <2>3. HandlersInv'
    <3>1. /\ DOMAIN handler' = Handlers
          /\ \A h \in Handlers : HandlerOK(handler'[h], Range(log'))
      BY <2>1 DEF EventsInv, HandlersInv
    <3> QED
      BY <3>1 DEF HandlersInv, Handlers, Range, HandlerOK
  <2>4. EventsInv'
    BY <2>1, <2>2, <2>3 DEF EventsInv, Settled!Status
  <2> QED
    BY <1>1, <2>1, <2>4
<1>7. Callers \subseteq Handlers /\ Listeners \subseteq Handlers
  BY DEF Handlers
<1> QED
  BY <1>2, <1>3, <1>4, <1>5, <1>6, <1>7 DEF Next, PastEvents

\* Whatever the two consumers of the events do in between, an aggregator is
\* credited only for a transaction that announced it (getEventAggregator).
THEOREM AggregatorsAnnounced == Spec => []AggregatorOfTransaction
<1>1. Init => EventsInv
  BY EventsInit
<1>2. EventsInv /\ [Next]_vars => EventsInv'
  BY EventsStep
<1>3. EventsInv => AggregatorOfTransaction
  BY DEF EventsInv, MemoryInv
<1> QED
  BY <1>1, <1>2, <1>3, PTL DEF Spec

\* The safety part of the settlement.
SettlementSafety ==
  Settled!Init /\ [][Settled!Next]_(Settled!settleVars)

\* The listener and handlePastEvents together only settle operations that are on
\* chain, each with its outcome, however often and in whatever order they meet its
\* event.  That each is settled in the end is left to the model checker.
THEOREM EventsSettle == Spec => SettlementSafety
<1>1. Init => EventsInv /\ Settled!Init
  <2> SUFFICES ASSUME Init PROVE EventsInv /\ Settled!Init
    OBVIOUS
  <2>1. UserOperationEvents = {}
    BY DEF Init, Range, UserOperationEvents
  <2>2. pool \in [Op -> {"absent", "pending", "bundling"}]
    BY DEF Init
  <2> QED
    BY <2>1, <2>2, EventsInit DEF Init, Settled!Init
<1>2. EventsInv /\ [Next]_vars =>
        EventsInv' /\ [Settled!Next]_(Settled!settleVars)
  BY EventsStep
<1> QED
  BY <1>1, <1>2, PTL DEF Spec, SettlementSafety
------------------------------------------------------------------------------
(***************************************************************************)
(* The shape of the event manager's state.  Its point is the cursor: it is *)
(* null until the first block number is known, and no query is sent with a *)
(* null cursor, although any handler may move it meanwhile.                *)
(***************************************************************************)
CursorOK ==
  /\ head \in 1 .. MaxBlock + 1
  /\ \A e \in Range(log) : e.block \in 0 .. MaxBlock
  /\ lastBlock \in 0 .. MaxBlock + 1
  /\ \A c \in Callers : HandlerAt(c, "query") => lastBlock > 0
  /\ heard \in 0 .. Len(log)
  /\ handled \subseteq UserOperationEvents
  /\ \A h \in Handlers : handler[h].asked \subseteq Queries

\* A handler goes on, and a cursor that is set stays set.
LEMMA CursorKept ==
  ASSUME EventsInv, CursorOK, NEW h \in Handlers, NEW r, SetHandler(h, r),
         lastBlock' \in 0 .. MaxBlock + 1, lastBlock > 0 => lastBlock' > 0,
         r.pc = "query" => lastBlock' > 0, r.asked \subseteq Queries,
         heard' \in 0 .. Len(log), handled' \subseteq UserOperationEvents,
         UNCHANGED <<log, head>>
  PROVE  CursorOK'
<1>1. DOMAIN handler = Handlers /\ Callers \subseteq Handlers
  BY DEF EventsInv, HandlersInv, Handlers
<1>2. /\ handler'[h] = r
      /\ \A k \in Handlers \ {h} : handler'[k] = handler[k]
  BY <1>1 DEF SetHandler
<1>3. \A c \in Callers : HandlerAt(c, "query")' => lastBlock' > 0
  BY <1>1, <1>2 DEF CursorOK, HandlerAt
<1>4. \A k \in Handlers : handler'[k].asked \subseteq Queries
  BY <1>2 DEF CursorOK
<1>5. UserOperationEvents' = UserOperationEvents
  BY DEF UserOperationEvents, Range
<1> QED
  BY <1>3, <1>4, <1>5 DEF CursorOK, Range, Handlers, Queries

\* What is heard of the log next is in the log.
LEMMA HeardNext ==
  ASSUME EventsInv, CursorOK, NEW l, Listen(l)
  PROVE  heard' \in 0 .. Len(log)
<1> DEFINE next == {i \in DOMAIN log : i > heard /\ log[i].kind = "UserOperationEvent"}
           first == CHOOSE i \in next : \A j \in next : i <= j
<1>1. next # {} /\ heard' = first
  BY DEF Listen
<1>2. DOMAIN log = 1 .. Len(log) /\ Len(log) \in Nat
  BY DEF EventsInv, ChainInv
<1>3. first \in next
  BY <1>1, <1>2, FirstOf
<1> QED
  BY <1>1, <1>2, <1>3

\* The cursor moves to a block of the chain or behind it, and never back to null.
LEMMA CursorStep ==
  ASSUME EventsInv, CursorOK, [Next]_vars
  PROVE  CursorOK'
<1>0. /\ MaxBlock \in Nat /\ LookBack \in Nat
      /\ head \in 1 .. MaxBlock + 1 /\ lastBlock \in 0 .. MaxBlock + 1
      /\ heard \in 0 .. Len(log) /\ handled \subseteq UserOperationEvents
      /\ log \in Seq(ChainEvent) /\ Len(log) \in Nat
  BY EventAssumption DEF CursorOK, EventsInv, ChainInv
<1>1. ASSUME NEW ops \in Bundles, NEW ok \in BOOLEAN, Execute(ops, ok)
      PROVE  CursorOK'
  <2> DEFINE new == EventsOf(ops, head', head', ok)
  <2>1. /\ head < MaxBlock /\ head' = head + 1 /\ log' = log \o new
        /\ UNCHANGED <<lastBlock, heard, handler, handled>>
    BY <1>1 DEF Execute
  <2>2. ops \in Seq(Op) /\ head' \in Nat
    BY <1>0, <2>1, BundleIsSeq
  <2>3. new \in Seq(ChainEvent) /\ \A e \in Range(new) : e.block = head'
    BY <2>2, Emitted
  <2> HIDE DEF new
  <2>4. Range(log') = Range(log) \cup Range(new)
    BY <1>0, <2>1, <2>3, RangeOfJoin
  <2>5. Len(log') \in Nat /\ Len(log) <= Len(log')
    BY <1>0, <2>1, <2>3
  <2>6. head' \in 1 .. MaxBlock + 1 /\ head' \in 0 .. MaxBlock
    BY <1>0, <2>1
  <2>7. \A e \in Range(log') : e.block \in 0 .. MaxBlock
    BY <2>3, <2>4, <2>6 DEF CursorOK
  <2>8. heard' \in 0 .. Len(log')
    BY <1>0, <2>1, <2>5
  <2>9. handled' \subseteq UserOperationEvents'
    <3>1. UserOperationEvents' = {e \in Range(log') : e.kind = "UserOperationEvent"}
      BY DEF UserOperationEvents, Range
    <3> QED
      BY <1>0, <2>1, <2>4, <3>1 DEF UserOperationEvents
  <2>10. \A c \in Callers : HandlerAt(c, "query")' => lastBlock' > 0
    BY <2>1 DEF CursorOK, HandlerAt
  <2>11. \A h \in Handlers : handler'[h].asked \subseteq Queries
    BY <2>1 DEF CursorOK
  <2> QED
    BY <1>0, <2>1, <2>6, <2>7, <2>8, <2>9, <2>10, <2>11
    DEF CursorOK, Range, Handlers, Queries
<1>2. ASSUME NEW c \in Callers, Begin(c) PROVE CursorOK'
  <2> DEFINE r == [IdleHandler EXCEPT
                     !.pc = IF lastBlock = 0 THEN "blockNumber" ELSE "query",
                     !.from = lastBlock]
  <2>1. SetHandler(c, r) /\ UNCHANGED <<log, head, lastBlock, heard, handled>>
    BY <1>2 DEF Begin
  <2>2. (r.pc = "query" => lastBlock > 0) /\ r.asked \subseteq Queries
    BY <1>0 DEF IdleHandler
  <2>3. c \in Handlers
    BY DEF Handlers
  <2> HIDE DEF r
  <2> QED
    BY <1>0, <2>1, <2>2, <2>3, CursorKept
<1>3. ASSUME NEW c \in Callers, ReadBlockNumber(c) PROVE CursorOK'
  <2> DEFINE r == [handler[c] EXCEPT !.pc = "query", !.from = FirstBlock]
  <2>1. /\ SetHandler(c, r) /\ lastBlock' = FirstBlock
        /\ UNCHANGED <<log, head, heard, handled>>
    BY <1>3 DEF ReadBlockNumber
  <2>2. FirstBlock \in 1 .. MaxBlock + 1
    BY <1>0 DEF FirstBlock
  <2>3. c \in Handlers /\ HandlerOK(handler[c], Range(log))
    BY DEF Handlers, EventsInv, HandlersInv
  <2>4. r.asked \subseteq Queries
    BY <2>3 DEF HandlerOK, CursorOK
  <2>5. lastBlock' > 0 /\ lastBlock' \in 0 .. MaxBlock + 1
    BY <1>0, <2>1, <2>2
  <2> HIDE DEF r
  <2> QED
    BY <1>0, <2>1, <2>3, <2>4, <2>5, CursorKept
<1>4. ASSUME NEW c \in Callers, NEW k \in Queries, AnswerQuery(c, k) PROVE CursorOK'
  <2> DEFINE got == [handler[c].got EXCEPT ![k] = Found(c, k)]
             more == [handler[c] EXCEPT !.got = got, !.asked = @ \cup {k}]
             done == [IdleHandler EXCEPT !.pc = "handle", !.todo = FlattenSeq(got)]
             r == IF handler[c].asked \cup {k} # Queries THEN more ELSE done
  <2>1. /\ SetHandler(c, r) /\ HandlerAt(c, "query")
        /\ UNCHANGED <<log, head, lastBlock, heard, handled>>
    BY <1>4 DEF AnswerQuery
  <2>2. c \in Handlers /\ HandlerOK(handler[c], Range(log))
    BY DEF Handlers, EventsInv, HandlersInv
  <2>3. lastBlock > 0
    BY <2>1 DEF CursorOK
  <2>4. more.asked \subseteq Queries /\ done.asked \subseteq Queries
    <3> HIDE DEF got
    <3> QED
      BY <2>2 DEF HandlerOK, CursorOK, IdleHandler
  <2>5. r.asked \subseteq Queries
    BY <2>4
  <2> HIDE DEF r
  <2> QED
    BY <1>0, <2>1, <2>2, <2>3, <2>5, CursorKept
<1>5. ASSUME NEW h \in Handlers, HandleNext(h) PROVE CursorOK'
  <2> DEFINE ev == Head(handler[h].todo)
  <2>0. HandlerOK(handler[h], Range(log)) /\ handler[h].asked \subseteq Queries
    BY DEF EventsInv, HandlersInv, CursorOK
  <2>1. ASSUME handler[h].todo # <<>> PROVE ev \in Range(log)
    BY <2>0, <2>1 DEF HandlerOK
  <2>2. CASE HandleUserOperationEvent(h)
    <3> DEFINE r == [handler[h] EXCEPT !.written = TRUE]
    <3>1. /\ SetHandler(h, r) /\ HandlerAt(h, "handle") /\ ev \in UserOperationEvents
          /\ handled' = handled \cup {ev}
          /\ UNCHANGED <<log, head, lastBlock, heard>>
      BY <2>1, <2>2 DEF HandleUserOperationEvent, UserOperationEvents
    <3>2. r.pc # "query" /\ r.asked \subseteq Queries
      BY <2>0, <3>1 DEF HandlerOK, HandlerAt
    <3>3. handled' \subseteq UserOperationEvents
      BY <1>0, <3>1
    <3> HIDE DEF r
    <3> QED
      BY <1>0, <3>1, <3>2, <3>3, CursorKept
  <2>3. CASE FinishEvent(h)
    <3> DEFINE r == [handler[h] EXCEPT !.todo = Tail(@), !.written = FALSE]
    <3>1. /\ SetHandler(h, r) /\ HandlerAt(h, "handle") /\ ev \in Range(log)
          /\ lastBlock' = ev.block + 1
          /\ UNCHANGED <<log, head, heard, handled>>
      BY <2>1, <2>3 DEF FinishEvent
    <3>2. r.pc # "query" /\ r.asked \subseteq Queries
      BY <2>0, <3>1 DEF HandlerOK, HandlerAt
    <3>3. ev.block \in 0 .. MaxBlock
      BY <3>1 DEF CursorOK
    <3> HIDE DEF r, ev
    <3>4. lastBlock' > 0 /\ lastBlock' \in 0 .. MaxBlock + 1
      BY <1>0, <3>1, <3>3
    <3> QED
      BY <1>0, <3>1, <3>2, <3>4, CursorKept
  <2>4. CASE Return(h)
    <3>1. SetHandler(h, IdleHandler) /\ UNCHANGED <<log, head, lastBlock, heard, handled>>
      BY <2>4 DEF Return
    <3>2. IdleHandler.pc # "query" /\ IdleHandler.asked \subseteq Queries
      BY DEF IdleHandler
    <3> QED
      BY <1>0, <3>1, <3>2, CursorKept
  <2> QED
    BY <1>5, <2>2, <2>3, <2>4 DEF HandleNext
<1>6. ASSUME NEW l \in Listeners, Listen(l) PROVE CursorOK'
  <2>1. PICK r : SetHandler(l, r) /\ r.pc = "handle" /\ r.asked = {}
    <3>1. \A todo : LET r == [IdleHandler EXCEPT !.pc = "handle", !.todo = todo]
                    IN  r.pc = "handle" /\ r.asked = {}
      BY DEF IdleHandler
    <3>2. \E todo : SetHandler(l, [IdleHandler EXCEPT !.pc = "handle", !.todo = todo])
      BY <1>6 DEF Listen
    <3> QED
      BY <3>1, <3>2
  <2>2. l \in Handlers /\ UNCHANGED <<log, head, lastBlock, handled>>
    BY <1>6 DEF Listen, Handlers
  <2>3. heard' \in 0 .. Len(log)
    BY <1>6, HeardNext
  <2> QED
    BY <1>0, <2>1, <2>2, <2>3, CursorKept
<1>7. CASE UNCHANGED vars
  <2>1. UNCHANGED <<log, head, lastBlock, heard, handler, handled>>
    BY <1>7 DEF vars
  <2>2. /\ Range(log') = Range(log) /\ UserOperationEvents' = UserOperationEvents
        /\ \A c \in Callers : HandlerAt(c, "query")' => HandlerAt(c, "query")
    BY <2>1 DEF Range, UserOperationEvents, HandlerAt
  <2>3. /\ \A c \in Callers : HandlerAt(c, "query")' => lastBlock' > 0
        /\ \A h \in Handlers : handler'[h].asked \subseteq Queries
    BY <2>1, <2>2 DEF CursorOK
  <2> QED
    BY <1>0, <2>1, <2>2, <2>3 DEF CursorOK, Range, Handlers, Queries
<1>8. Callers \subseteq Handlers /\ Listeners \subseteq Handlers
  BY DEF Handlers
<1> QED
  BY <1>1, <1>2, <1>3, <1>4, <1>5, <1>6, <1>7, <1>8 DEF Next, PastEvents

\* The shape of the event manager's state (TypeOK): the cursor stays on the chain
\* and is set before a query uses it, and nothing is handled that is not in the log.
THEOREM CursorSetBeforeUse == Spec => []TypeOK
<1>1. Init => EventsInv /\ CursorOK
  <2> SUFFICES ASSUME Init PROVE CursorOK
    BY EventsInit
  <2>1. Range(log) = {} /\ Len(log) = 0
    BY DEF Init, Range
  <2>2. \A h \in Handlers : handler[h].pc = "idle" /\ handler[h].asked = {}
    BY DEF Init, IdleHandler
  <2>3. Callers \subseteq Handlers /\ MaxBlock \in Nat
    BY EventAssumption DEF Handlers
  <2> QED
    BY <2>1, <2>2, <2>3 DEF Init, CursorOK, HandlerAt
<1>2. EventsInv /\ CursorOK /\ [Next]_vars => EventsInv' /\ CursorOK'
  BY EventsStep, CursorStep
<1>3. EventsInv /\ CursorOK => TypeOK
  <2> SUFFICES ASSUME EventsInv, CursorOK PROVE TypeOK
    OBVIOUS
  <2>1. \A h \in Handlers : Range(handler[h].todo) \subseteq Range(log)
    <3> SUFFICES ASSUME NEW h \in Handlers
                 PROVE  Range(handler[h].todo) \subseteq Range(log)
      OBVIOUS
    <3>1. handler[h].todo \in Seq(Range(log))
      BY DEF EventsInv, HandlersInv, HandlerOK
    <3>2. \A L, s : s \in Seq(L) => Range(s) \subseteq L
      BY DEF Range
    <3> QED
      BY <3>1, <3>2
  <2> QED
    BY <2>1 DEF EventsInv, CursorOK, TypeOK, Settled!Status
<1> QED
  BY <1>1, <1>2, <1>3, PTL DEF Spec
==============================================================================
