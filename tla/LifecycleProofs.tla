--------------------------- MODULE LifecycleProofs ---------------------------
(***************************************************************************)
(* Theorems about BundleLifecycle, for any operations, any number of ticks *)
(* and of attempts of the debug API, and any failures of the network: that *)
(* no entry is forgotten as 'bundling', and when an operation may be in    *)
(* two transactions at once.                                               *)
(***************************************************************************)
EXTENDS BundleLifecycle, FiniteSetTheorems, TLAPS

-----------------------------------------------------------------------------
(* Sequences *)

LEMMA RangeAppend ==
  ASSUME NEW S, NEW s \in Seq(S), NEW x \in S
  PROVE  /\ Append(s, x) \in Seq(S)
         /\ Len(Append(s, x)) = Len(s) + 1 /\ Append(s, x)[Len(s) + 1] = x
         /\ \A i \in DOMAIN s : Append(s, x)[i] = s[i]
         /\ DOMAIN Append(s, x) = DOMAIN s \cup {Len(s) + 1}
         /\ Len(s) + 1 \notin DOMAIN s
OBVIOUS

LEMMA RangeTail ==
  ASSUME NEW S, NEW s \in Seq(S), s # <<>>
  PROVE  /\ Tail(s) \in Seq(S) /\ Head(s) \in S
         /\ Range(s) = {Head(s)} \cup Range(Tail(s))
<1>1. /\ Tail(s) \in Seq(S) /\ Head(s) = s[1] /\ Len(s) \in Nat /\ Len(s) > 0
      /\ DOMAIN s = 1 .. Len(s) /\ DOMAIN Tail(s) = 1 .. Len(s) - 1
      /\ \A i \in 1 .. Len(s) - 1 : Tail(s)[i] = s[i + 1]
  OBVIOUS
<1>2. s[1] \in S
  BY <1>1
<1>3. Range(Tail(s)) \subseteq Range(s)
  BY <1>1 DEF Range
<1>4. Range(s) \subseteq {s[1]} \cup Range(Tail(s))
  <2> SUFFICES ASSUME NEW i \in 1 .. Len(s), i # 1 PROVE s[i] \in Range(Tail(s))
    BY <1>1 DEF Range
  <2>1. i - 1 \in 1 .. Len(s) - 1 /\ (i - 1) + 1 = i
    BY <1>1
  <2>2. Tail(s)[i - 1] = s[i]
    BY <1>1, <2>1
  <2> QED
    BY <1>1, <2>1, <2>2 DEF Range
<1>5. s[1] \in Range(s)
  BY <1>1 DEF Range
<1> QED
  BY <1>1, <1>2, <1>3, <1>4, <1>5

LEMMA TailsDistinct ==
  ASSUME NEW S, NEW s \in Seq(S), s # <<>>, IsInjective(s)
  PROVE  IsInjective(Tail(s)) /\ Head(s) \notin Range(Tail(s))
<1>1. /\ Head(s) = s[1] /\ Len(s) \in Nat /\ Len(s) > 0
      /\ DOMAIN s = 1 .. Len(s) /\ DOMAIN Tail(s) = 1 .. Len(s) - 1
      /\ \A i \in 1 .. Len(s) - 1 : Tail(s)[i] = s[i + 1]
  OBVIOUS
<1>2. \A i, j \in 1 .. Len(s) : s[i] = s[j] => i = j
  BY <1>1 DEF IsInjective
<1>3. IsInjective(Tail(s))
  <2> SUFFICES ASSUME NEW i \in 1 .. Len(s) - 1, NEW j \in 1 .. Len(s) - 1,
                      Tail(s)[i] = Tail(s)[j]
               PROVE  i = j
    BY <1>1 DEF IsInjective
  <2>1. s[i + 1] = s[j + 1] /\ i + 1 \in 1 .. Len(s) /\ j + 1 \in 1 .. Len(s)
    BY <1>1
  <2>2. i + 1 = j + 1
    BY <1>2, <2>1
  <2> QED
    BY <1>1, <2>2
<1>4. \A i \in 1 .. Len(s) - 1 : Tail(s)[i] # s[1]
  <2> SUFFICES ASSUME NEW i \in 1 .. Len(s) - 1, s[i + 1] = s[1] PROVE FALSE
    BY <1>1
  <2>1. i + 1 \in 1 .. Len(s) /\ 1 \in 1 .. Len(s) /\ i + 1 # 1
    BY <1>1
  <2> QED
    BY <1>2, <2>1
<1> QED
  BY <1>1, <1>3, <1>4 DEF Range

LEMMA AppendsDistinct ==
  ASSUME NEW S, NEW s \in Seq(S), IsInjective(s), NEW x \in S, x \notin Range(s)
  PROVE  /\ Append(s, x) \in Seq(S) /\ IsInjective(Append(s, x))
         /\ Range(Append(s, x)) = Range(s) \cup {x}
<1>a. PICK t : t = Append(s, x)
  OBVIOUS
<1>1. /\ t \in Seq(S) /\ t[Len(s) + 1] = x
      /\ \A i \in DOMAIN s : t[i] = s[i]
      /\ DOMAIN t = DOMAIN s \cup {Len(s) + 1} /\ Len(s) + 1 \notin DOMAIN s
  BY <1>a, RangeAppend
<1>2. Range(t) = Range(s) \cup {x}
  BY <1>1 DEF Range
<1>3. \A i \in DOMAIN s : t[i] # x
  BY <1>1 DEF Range
<1>4. IsInjective(t)
  BY <1>1, <1>3 DEF IsInjective
<1> QED
  BY <1>a, <1>1, <1>2, <1>4

LEMMA Collision ==
  ASSUME NEW I, IsFiniteSet(I), NEW T, IsFiniteSet(T), Cardinality(T) < Cardinality(I),
         NEW g \in [I -> T]
  PROVE  \E i, j \in I : i # j /\ g[i] = g[j]
BY FS_PigeonHole

LEMMA Onto ==
  ASSUME NEW I, IsFiniteSet(I), NEW T, IsFiniteSet(T), Cardinality(I) = Cardinality(T),
         NEW g \in [I -> T], IsInjective(g), NEW x \in T
  PROVE  \E i \in I : g[i] = x
<1> SUFFICES ASSUME \A i \in I : g[i] # x PROVE FALSE
  OBVIOUS
<1>1. g \in [I -> T \ {x}]
  OBVIOUS
<1>2. IsFiniteSet(T \ {x}) /\ Cardinality(T \ {x}) = Cardinality(T) - 1
  BY FS_RemoveElement
<1>3. Cardinality(T) \in Nat
  BY FS_CardinalityType
<1>4. Cardinality(T \ {x}) < Cardinality(I)
  BY <1>2, <1>3
<1>5. \E i, j \in I : i # j /\ g[i] = g[j]
  <2> DEFINE U == T \ {x}
  <2>1. IsFiniteSet(U) /\ Cardinality(U) < Cardinality(I) /\ g \in [I -> U]
    BY <1>1, <1>2, <1>4
  <2> HIDE DEF U
  <2> QED
    BY <2>1, Collision
<1> QED
  BY <1>5 DEF IsInjective

\* What createBundle hands over is exactly what was kept.
LEMMA SeqOfSet ==
  ASSUME NEW S \in SUBSET Op
  PROVE  SetToSeq(S) \in Seq(Op) /\ Range(SetToSeq(S)) = S
<1> DEFINE n == Cardinality(S)
           f == SetToSeq(S)
<1>1. IsFiniteSet(S) /\ n \in Nat
  BY AttemptAssumption, FS_Subset, FS_CardinalityType
<1>2. Cardinality(1 .. n) = n /\ IsFiniteSet(1 .. n)
  BY <1>1, FS_Interval
<1>3. ExistsBijection(1 .. n, S)
  BY <1>1, FS_CardinalityType
<1>4. \E g \in [1 .. n -> S] : IsInjective(g)
  BY <1>3 DEF ExistsBijection, Bijection, Injection
<1>5. f \in [1 .. n -> S] /\ IsInjective(f)
  BY <1>4 DEF SetToSeq
<1>6. \A x \in S : \E i \in 1 .. n : f[i] = x
  <2> DEFINE I == 1 .. n
  <2>1. IsFiniteSet(I) /\ Cardinality(I) = Cardinality(S) /\ f \in [I -> S]
    BY <1>2, <1>5
  <2> HIDE DEF I, f
  <2>2. \A x \in S : \E i \in I : f[i] = x
    BY <1>1, <1>5, <2>1, Onto
  <2> QED
    BY <2>2 DEF I
<1>8. Range(f) = S
  BY <1>5, <1>6 DEF Range
<1>7. f \in Seq(Op)
  BY <1>1, <1>5
<1> QED
  BY <1>7, <1>8

-----------------------------------------------------------------------------
(* The shape of the state *)

TxStates == {"live", "mined", "reverted", "dropped"}
TxRecord == [ops : Seq(Op), state : TxStates, private : BOOLEAN]
Handling == {"send", "wait", "record", "back"}
AttemptRecord ==
  [pc : {"idle", "queued", "events", "take", "mark", "build"} \cup Handling,
   ops : Seq(Op), taken : SUBSET Op, tx : Nat, found : BOOLEAN]

Shape ==
  /\ pool \in [Op -> Status]
  /\ settled \subseteq landed
  /\ txMode \in {"base", "searcher"}
  /\ txs \in Seq(TxRecord)
  /\ attempt \in [Callers -> AttemptRecord]
  /\ unsure \subseteq Op /\ stranded \subseteq Op
  /\ overlapped \in BOOLEAN

\* What an attempt has in hand fits where it is; its transaction holds its
\* operations; and one that is recorded was mined, is the relay's, or is one
\* with an authorization that reverted.
PhaseOK(a) ==
  LET r == attempt[a] IN
  /\ r.pc \in {"idle", "queued", "events", "take"} => r.taken = {} /\ r.ops = <<>>
  /\ r.pc \in {"mark", "build"} => r.ops = <<>>
  /\ r.pc \in Handling => r.taken = {}
  /\ r.pc \in {"wait", "record"} => r.tx \in Txs /\ txs[r.tx].ops = r.ops
  /\ r.pc = "record" => \/ txs[r.tx].private \/ txs[r.tx].state = "mined"
                        \/ txs[r.tx].state = "reverted" /\ Range(r.ops) \subseteq stranded
  /\ r.found => r.pc = "back" /\ r.ops # <<>>

Phases == \A a \in Callers : PhaseOK(a)

\* The relay's transactions that failed left their operations stranded.
RelayLeaves ==
  \A x \in Txs : txs[x].state \in {"reverted", "dropped"} /\ txs[x].private =>
    Range(txs[x].ops) \subseteq stranded

\* An attempt that has marked an entry, or handles its bundle.
Holds(a, o) ==
  \/ attempt[a].pc = "build" /\ o \in attempt[a].taken
  \/ attempt[a].pc \in Handling /\ o \in Range(attempt[a].ops)

InTx(x, o) ==
  /\ o \in Range(txs[x].ops)
  /\ \/ txs[x].state = "live" /\ txs[x].private
     \/ txs[x].state = "mined" /\ o \notin settled

Accounted(o) ==
  (\E a \in Callers : Holds(a, o)) \/ (\E x \in Txs : InTx(x, o)) \/ o \in stranded

\* An operation that was settled is 'bundling' again only while an attempt that
\* found it before is about to build.
SettledAgain(o) ==
  (\E a \in Callers : attempt[a].pc = "build" /\ o \in attempt[a].taken) \/ o \in stranded

AccountInv ==
  /\ Shape /\ Phases /\ RelayLeaves
  /\ \A o \in Bundling : Accounted(o) /\ (o \in settled => SettledAgain(o))

LEMMA IdleType == IdleAttempt \in AttemptRecord
BY DEF IdleAttempt, AttemptRecord

\* A step of one attempt leaves the others alone.
LEMMA OneAttempt ==
  ASSUME Shape, NEW a \in Callers, NEW r \in AttemptRecord,
         attempt' = [attempt EXCEPT ![a] = r]
  PROVE  /\ attempt' \in [Callers -> AttemptRecord] /\ attempt'[a] = r
         /\ \A b \in Callers \ {a} : attempt'[b] = attempt[b]
BY DEF Shape

\* Sending adds one transaction; ending one changes its state only.
LEMMA AddedTx ==
  ASSUME Shape, NEW t \in TxRecord, txs' = Append(txs, t)
  PROVE  /\ txs' \in Seq(TxRecord) /\ Len(txs') \in Txs' /\ Len(txs') \in Nat
         /\ Txs' = Txs \cup {Len(txs')} /\ Len(txs') \notin Txs
         /\ txs'[Len(txs')] = t /\ \A x \in Txs : txs'[x] = txs[x]
<1>1. txs \in Seq(TxRecord)
  BY DEF Shape
<1>2. /\ txs' \in Seq(TxRecord) /\ Len(txs') = Len(txs) + 1 /\ Len(txs) \in Nat
      /\ txs'[Len(txs) + 1] = t /\ \A x \in 1 .. Len(txs) : txs'[x] = txs[x]
      /\ DOMAIN txs = 1 .. Len(txs) /\ DOMAIN txs' = 1 .. Len(txs')
  BY <1>1
<1> QED
  BY <1>2 DEF Txs

LEMMA EndedTx ==
  ASSUME Shape, NEW x \in Txs, NEW state \in TxStates, Ended(x, state)
  PROVE  /\ txs' \in Seq(TxRecord) /\ Txs' = Txs
         /\ txs'[x].state = state
         /\ \A y \in Txs : /\ txs'[y].ops = txs[y].ops /\ txs'[y].private = txs[y].private
                           /\ y # x => txs'[y].state = txs[y].state
<1>1. txs \in Seq(TxRecord) /\ DOMAIN txs = Txs
  BY DEF Shape, Txs
<1>2. \A y \in Txs : txs[y] \in TxRecord
  BY <1>1
<1>3. [txs[x] EXCEPT !.state = state] \in TxRecord
  BY <1>2 DEF TxRecord
<1>4. txs' = [txs EXCEPT ![x] = [txs[x] EXCEPT !.state = state]]
  BY DEF Ended
<1>5. txs' \in Seq(TxRecord) /\ DOMAIN txs' = Txs
  BY <1>1, <1>3, <1>4
<1>6. /\ txs'[x].state = state /\ txs'[x].ops = txs[x].ops
      /\ txs'[x].private = txs[x].private
  BY <1>1, <1>2, <1>4 DEF TxRecord
<1> QED
  BY <1>1, <1>4, <1>5, <1>6 DEF Txs

-----------------------------------------------------------------------------
(* Where the entries that are 'bundling' are *)

Marked(a, o) == attempt[a].pc = "build" /\ o \in attempt[a].taken

\* What a step of one attempt must see to.
LEMMA AttemptKeeps ==
  ASSUME AccountInv, NEW a \in Callers, NEW r \in AttemptRecord,
         attempt' = [attempt EXCEPT ![a] = r],
         UNCHANGED <<settled, landed, txMode>>,
         txs' \in Seq(TxRecord), Txs \subseteq Txs', \A x \in Txs : txs'[x] = txs[x],
         \A x \in Txs' \ Txs : txs'[x].state = "live",
         pool' \in [Op -> Status], overlapped' \in BOOLEAN,
         unsure' \subseteq Op, stranded' \subseteq Op, stranded \subseteq stranded',
         PhaseOK(a)',
         \A o \in Bundling' :
           \/ o \in stranded' \/ Marked(a, o)'
           \/ o \notin settled /\ Holds(a, o)'
           \/ /\ o \in Bundling /\ ~Marked(a, o)
              /\ Holds(a, o) => \/ Holds(a, o)' \/ o \in settled
                                \/ \E x \in Txs : InTx(x, o)
  PROVE  AccountInv'
<1>1. /\ attempt' \in [Callers -> AttemptRecord]
      /\ \A b \in Callers \ {a} : attempt'[b] = attempt[b]
  BY OneAttempt DEF AccountInv
<1>2. Shape'
  BY <1>1 DEF AccountInv, Shape
<1>3. ASSUME NEW b \in Callers PROVE PhaseOK(b)'
  <2>1. CASE b = a
    BY <2>1
  <2>2. CASE b # a
    BY <1>1, <2>2 DEF AccountInv, Phases, PhaseOK
  <2> QED
    BY <2>1, <2>2
<1>4. RelayLeaves'
  BY DEF AccountInv, RelayLeaves
<1>5. \A b \in Callers \ {a}, o \in Op :
        /\ Holds(b, o) => Holds(b, o)'
        /\ Marked(b, o) => Marked(b, o)'
  BY <1>1 DEF Holds, Marked
<1>6. \A x \in Txs, o \in Op : InTx(x, o) => InTx(x, o)' /\ x \in Txs'
  BY DEF InTx
<1>7. ASSUME NEW o \in Bundling'
      PROVE  Accounted(o)' /\ (o \in settled' => SettledAgain(o)')
  <2>1. o \in Op
    BY DEF Bundling
  <2>2. CASE o \in stranded'
    BY <2>2 DEF Accounted, SettledAgain
  <2>3. CASE Marked(a, o)'
    BY <2>3 DEF Accounted, SettledAgain, Marked, Holds
  <2>4. CASE o \notin settled /\ Holds(a, o)'
    BY <2>4 DEF Accounted
  <2>5. CASE /\ o \in Bundling /\ ~Marked(a, o) /\ o \notin stranded'
             /\ Holds(a, o) => \/ Holds(a, o)' \/ o \in settled
                               \/ \E x \in Txs : InTx(x, o)
    <3>1. Accounted(o) /\ (o \in settled => SettledAgain(o)) /\ o \notin stranded
      BY <2>5 DEF AccountInv
    <3>2. o \in settled => \E b \in Callers \ {a} : Marked(b, o)
      BY <2>5, <3>1 DEF SettledAgain, Marked
    <3>3. o \in settled' => SettledAgain(o)'
      BY <1>5, <2>1, <3>2 DEF SettledAgain, Marked
    <3>4. o \in settled => Accounted(o)'
      BY <1>5, <2>1, <3>2 DEF Accounted, Marked, Holds
    <3>5. o \notin settled => Accounted(o)'
      BY <1>5, <1>6, <2>1, <2>5, <3>1 DEF Accounted
    <3> QED
      BY <3>3, <3>4, <3>5
  <2> QED
    BY <2>2, <2>3, <2>4, <2>5
<1> QED
  BY <1>2, <1>3, <1>4, <1>7 DEF AccountInv, Phases

\* The simplest of them: neither the mempool nor the transactions change.
LEMMA AttemptMoves ==
  ASSUME AccountInv, NEW a \in Callers, NEW r \in AttemptRecord,
         attempt' = [attempt EXCEPT ![a] = r],
         UNCHANGED <<settled, landed, txMode, txs, pool>>,
         overlapped' \in BOOLEAN,
         unsure' \subseteq Op, stranded' \subseteq Op, stranded \subseteq stranded',
         PhaseOK(a)', attempt[a].pc # "build",
         \A o \in Bundling : Holds(a, o) =>
           Holds(a, o)' \/ o \in settled \/ o \in stranded' \/ \E x \in Txs : InTx(x, o)
  PROVE  AccountInv'
<1>1. Bundling' = Bundling /\ \A o : ~Marked(a, o)
  BY DEF Bundling, Marked
<1>2. /\ txs' \in Seq(TxRecord) /\ Txs' = Txs /\ pool' \in [Op -> Status]
      /\ \A x \in Txs : txs'[x] = txs[x]
  BY DEF AccountInv, Shape, Txs
<1> QED
  BY <1>1, <1>2, AttemptKeeps

LEMMA AccountInit == Setup => AccountInv
<1> SUFFICES ASSUME Setup PROVE AccountInv
  OBVIOUS
<1>1. Shape
  <2>1. attempt \in [Callers -> AttemptRecord] /\ txMode \in {"base", "searcher"}
    BY IdleType, AttemptAssumption DEF Setup
  <2>2. txs \in Seq(TxRecord) /\ pool \in [Op -> Status]
    BY DEF Setup, Status
  <2> QED
    BY <2>1, <2>2 DEF Setup, Shape
<1>2. Txs = {} /\ Bundling = {}
  BY DEF Setup, Txs, Bundling
<1>3. Phases
  BY DEF Setup, Phases, PhaseOK, IdleAttempt, Handling
<1> QED
  BY <1>1, <1>2, <1>3 DEF AccountInv, RelayLeaves

LEMMA FinishRecord ==
  ASSUME NEW a, Finish(a)
  PROVE  attempt' = [attempt EXCEPT ![a] = IdleAttempt]
BY DEF Finish

\* An attempt that ends with nothing in hand that is not stranded or on its way.
LEMMA FinishKeeps ==
  ASSUME AccountInv, NEW a \in Callers, Finish(a),
         UNCHANGED <<settled, landed, txMode, txs, overlapped>>,
         pool' \in [Op -> Status], unsure' = unsure,
         stranded' \subseteq Op, stranded \subseteq stranded',
         \A o \in Bundling' :
           \/ o \in stranded'
           \/ /\ o \in Bundling /\ ~Marked(a, o)
              /\ Holds(a, o) => o \in settled \/ \E x \in Txs : InTx(x, o)
  PROVE  AccountInv'
<1>1. attempt' = [attempt EXCEPT ![a] = IdleAttempt] /\ attempt'[a] = IdleAttempt
  BY FinishRecord, OneAttempt, IdleType DEF AccountInv
<1>2. PhaseOK(a)'
  BY <1>1 DEF PhaseOK, IdleAttempt, Handling
<1>3. /\ txs' \in Seq(TxRecord) /\ Txs' = Txs
      /\ \A x \in Txs : txs'[x] = txs[x]
      /\ overlapped' \in BOOLEAN /\ unsure' \subseteq Op
  BY DEF AccountInv, Shape, Txs
<1> QED
  BY <1>1, <1>2, <1>3, IdleType, AttemptKeeps

\* The record of an attempt, as each step changes it.
LEMMA AttemptTyped ==
  ASSUME Shape, NEW a \in Callers
  PROVE  attempt[a] \in AttemptRecord
BY DEF Shape

LEMMA TxTyped ==
  ASSUME Shape, NEW x \in Txs
  PROVE  txs[x].ops \in Seq(Op) /\ txs[x].state \in TxStates /\ txs[x].private \in BOOLEAN
<1>1. txs \in Seq(TxRecord)
  BY DEF Shape
<1>2. txs[x] \in TxRecord
  BY <1>1 DEF Txs
<1> QED
  BY <1>2 DEF TxRecord

LEMMA StartsKeep ==
  ASSUME AccountInv, NEW a \in Callers, Tick(a) \/ Start(a) \/ EventsDone(a)
  PROVE  AccountInv'
<1> DEFINE r(pc) == [attempt[a] EXCEPT !.pc = pc]
<1>1. attempt[a] \in AttemptRecord /\ PhaseOK(a)
  BY AttemptTyped DEF AccountInv, Phases
<1>2. PICK pc \in {"queued", "events", "take"} : attempt' = [attempt EXCEPT ![a] = r(pc)]
  BY DEF Tick, Start, EventsDone, Goto
<1>3. /\ r(pc) \in AttemptRecord /\ r(pc).pc = pc
      /\ r(pc).taken = {} /\ r(pc).ops = <<>> /\ ~r(pc).found
  <2>1. attempt[a].pc \in {"idle", "queued", "events"}
    BY DEF Tick, Start, MayStart, EventsDone, At
  <2> QED
    BY <1>1, <2>1 DEF AttemptRecord, PhaseOK
<1>4. attempt[a].pc \in {"idle", "queued", "events"} /\ attempt'[a] = r(pc)
  BY <1>2, <1>3, OneAttempt DEF AccountInv, Tick, Start, MayStart, EventsDone, At
<1> HIDE DEF r
<1>5. PhaseOK(a)'
  BY <1>3, <1>4 DEF PhaseOK, Handling
<1>6. /\ UNCHANGED <<settled, landed, txMode, txs, pool, unsure, stranded>>
      /\ overlapped' \in BOOLEAN
  BY DEF AccountInv, Shape, Tick, Start, EventsDone, settleVars
<1>7. \A o : ~Holds(a, o)
  BY <1>4 DEF Holds, Handling
<1> QED
  BY <1>2, <1>3, <1>4, <1>5, <1>6, <1>7, AttemptMoves DEF AccountInv, Shape

LEMMA TakeKeeps ==
  ASSUME AccountInv, NEW a \in Callers, Take(a)
  PROVE  AccountInv'
<1>1. attempt[a] \in AttemptRecord /\ PhaseOK(a) /\ attempt[a].pc = "take"
  BY AttemptTyped DEF AccountInv, Phases, Take, At
<1>2. /\ UNCHANGED <<settled, landed, txMode, txs, pool, overlapped, unsure, stranded>>
      /\ \A o : ~Holds(a, o) /\ ~Marked(a, o)
  BY <1>1 DEF Take, settleVars, Holds, Marked, Handling
<1>3. CASE Finish(a)
  BY <1>2, <1>3, FinishKeeps DEF AccountInv, Shape, Bundling
<1>4. CASE ~Finish(a)
  <2>1. PICK S \in SUBSET Op :
          attempt' = [attempt EXCEPT ![a].pc = "mark", ![a].taken = S]
    BY <1>4 DEF Take
  <2> DEFINE r == [attempt[a] EXCEPT !.pc = "mark", !.taken = S]
  <2>2. attempt' = [attempt EXCEPT ![a] = r]
    BY <2>1 DEF AccountInv, Shape
  <2>3. r \in AttemptRecord /\ r.pc = "mark" /\ r.ops = <<>> /\ ~r.found
    BY <1>1 DEF AttemptRecord, PhaseOK
  <2>4. attempt'[a] = r
    BY <2>2, <2>3, OneAttempt DEF AccountInv
  <2> HIDE DEF r
  <2>5. PhaseOK(a)'
    BY <2>3, <2>4 DEF PhaseOK, Handling
  <2> QED
    BY <1>1, <1>2, <2>2, <2>3, <2>5, AttemptMoves DEF AccountInv, Shape
<1> QED
  BY <1>3, <1>4

LEMMA MarkKeeps ==
  ASSUME AccountInv, NEW a \in Callers, MarkBundling(a)
  PROVE  AccountInv'
<1> DEFINE S == attempt[a].taken
           marked == S \cap {o \in Op : pool[o] # "absent"}
<1>1. /\ attempt[a] \in AttemptRecord /\ PhaseOK(a) /\ attempt[a].pc = "mark"
      /\ S \subseteq Op /\ attempt[a].ops = <<>> /\ ~attempt[a].found
  BY AttemptTyped DEF AccountInv, Phases, MarkBundling, At, AttemptRecord, PhaseOK
<1>2. /\ UNCHANGED <<settled, landed, txMode, txs, overlapped, unsure>>
      /\ \A o : ~Holds(a, o) /\ ~Marked(a, o)
  BY <1>1 DEF MarkBundling, Chain, Holds, Marked, Handling
<1>3. CASE Finish(a) /\ marked # S
  <2>1. PICK done \in SUBSET marked :
          /\ pool' = [o \in Op |-> IF o \in done THEN "bundling" ELSE pool[o]]
          /\ stranded' = stranded \cup done
    BY <1>1, <1>3 DEF MarkBundling
  <2>2. pool' \in [Op -> Status] /\ stranded' \subseteq Op
    BY <1>1, <2>1 DEF AccountInv, Shape, Status
  <2>3. \A o \in Bundling' : o \in stranded' \/ o \in Bundling
    BY <2>1 DEF Bundling
  <2> QED
    BY <1>2, <1>3, <2>1, <2>2, <2>3, FinishKeeps
<1>4. CASE marked = S
  <2> DEFINE r == [attempt[a] EXCEPT !.pc = "build"]
  <2>1. /\ pool' = [o \in Op |-> IF o \in S THEN "bundling" ELSE pool[o]]
        /\ attempt' = [attempt EXCEPT ![a] = r] /\ stranded' = stranded
    BY <1>1, <1>4 DEF MarkBundling, Goto
  <2>2. /\ r \in AttemptRecord /\ r.pc = "build"
        /\ r.ops = <<>> /\ r.taken = S /\ ~r.found
    BY <1>1 DEF AttemptRecord
  <2>3. attempt'[a] = r /\ pool' \in [Op -> Status]
    BY <2>1, <2>2, OneAttempt DEF AccountInv, Shape, Status
  <2> HIDE DEF r
  <2>4. PhaseOK(a)'
    BY <2>2, <2>3 DEF PhaseOK, Handling
  <2>5. \A o \in Bundling' : Marked(a, o)' \/ o \in Bundling
    BY <2>1, <2>2, <2>3 DEF Bundling, Marked
  <2>6. /\ txs' \in Seq(TxRecord) /\ Txs' = Txs /\ overlapped' \in BOOLEAN
        /\ unsure' \subseteq Op /\ stranded' \subseteq Op
        /\ \A x \in Txs : txs'[x] = txs[x]
    BY <1>2, <2>1 DEF AccountInv, Shape, Txs
  <2> QED
    BY <1>2, <2>1, <2>2, <2>3, <2>4, <2>5, <2>6, AttemptKeeps
<1> QED
  BY <1>3, <1>4 DEF MarkBundling

LEMMA BuildKeeps ==
  ASSUME AccountInv, NEW a \in Callers, Build(a)
  PROVE  AccountInv'
<1> DEFINE T == attempt[a].taken
<1>1. /\ attempt[a] \in AttemptRecord /\ PhaseOK(a) /\ attempt[a].pc = "build"
      /\ T \subseteq Op /\ ~attempt[a].found
  BY AttemptTyped DEF AccountInv, Phases, Build, At, AttemptRecord, PhaseOK
<1>a. PICK kept \in SUBSET (T \ landed) : \E back \in SUBSET (T \ kept) :
        \E left \in SUBSET (T \ (kept \cup back)) : Decide(a, SetToSeq(kept), back, left)
  BY DEF Build
<1>b. PICK back \in SUBSET (T \ kept), left \in SUBSET T :
        Decide(a, SetToSeq(kept), back, left)
  BY <1>a
<1> DEFINE ops == SetToSeq(kept)
<1>3. ops \in Seq(Op) /\ Range(ops) = kept
  BY <1>1, SeqOfSet
<1>2. /\ pool' = [o \in Op |-> IF o \in back /\ pool[o] # "absent" THEN "pending"
                              ELSE IF o \in T \ (kept \cup left) THEN "absent" ELSE pool[o]]
      /\ stranded' = stranded \cup left
      /\ \/ ops = <<>> /\ Finish(a)
         \/ attempt' = [attempt EXCEPT ![a].pc = "send", ![a].ops = ops, ![a].taken = {}]
  BY <1>b, <1>3 DEF Decide
<1>4. /\ UNCHANGED <<settled, landed, txMode, txs, overlapped, unsure>>
      /\ kept \cap settled = {}
  BY DEF Build, Chain, AccountInv, Shape
<1>5. /\ pool' \in [Op -> Status]
      /\ \A o \in Bundling' : o \in kept \/ o \in left \/ (o \in Bundling /\ o \notin T)
  BY <1>2 DEF AccountInv, Shape, Status, Bundling
<1>6. /\ txs' \in Seq(TxRecord) /\ Txs' = Txs /\ overlapped' \in BOOLEAN
      /\ unsure' \subseteq Op /\ \A x \in Txs : txs'[x] = txs[x]
  BY <1>4 DEF AccountInv, Shape, Txs
<1>c. /\ stranded' \subseteq Op /\ stranded \subseteq stranded' /\ left \subseteq stranded'
  BY <1>1, <1>2 DEF AccountInv, Shape
<1>7. \A o : o \notin T => ~Holds(a, o) /\ ~Marked(a, o)
  BY <1>1 DEF Holds, Marked, Handling
<1>8. CASE ops = <<>> /\ Finish(a)
  <2>1. kept = {}
    BY <1>3, <1>8 DEF Range
  <2>2. \A o \in Bundling' : o \in stranded' \/ (o \in Bundling /\ o \notin T)
    BY <1>5, <1>c, <2>1
  <2> QED
    BY <1>4, <1>5, <1>6, <1>7, <1>8, <1>c, <2>2, FinishKeeps
<1>9. CASE attempt' = [attempt EXCEPT ![a].pc = "send", ![a].ops = ops, ![a].taken = {}]
  <2> DEFINE r == [attempt[a] EXCEPT !.pc = "send", !.ops = ops, !.taken = {}]
  <2>1. attempt' = [attempt EXCEPT ![a] = r]
    BY <1>9 DEF AccountInv, Shape
  <2>2. /\ r \in AttemptRecord /\ r.pc = "send"
        /\ r.ops = ops /\ r.taken = {} /\ ~r.found
    BY <1>1, <1>3 DEF AttemptRecord, Handling
  <2>3. attempt'[a] = r
    BY <2>1, <2>2, OneAttempt DEF AccountInv
  <2> HIDE DEF r, ops
  <2>4. PhaseOK(a)'
    BY <2>2, <2>3 DEF PhaseOK, Handling
  <2>5. \A o \in kept : Holds(a, o)'
    BY <1>3, <2>2, <2>3 DEF Holds, Handling
  <2> QED
    BY <1>4, <1>5, <1>6, <1>7, <1>c, <2>1, <2>2, <2>4, <2>5, AttemptKeeps
<1> QED
  BY <1>2, <1>8, <1>9

LEMMA SendKeeps ==
  ASSUME AccountInv, NEW a \in Callers, Send(a)
  PROVE  AccountInv'
<1> DEFINE t == [ops |-> attempt[a].ops, state |-> "live",
                 private |-> txMode = "searcher"]
           r == [attempt[a] EXCEPT !.pc = IF txMode = "base" THEN "wait" ELSE "record",
                                   !.tx = Len(txs')]
<1>1. /\ attempt[a] \in AttemptRecord /\ PhaseOK(a) /\ attempt[a].pc = "send"
      /\ attempt[a].taken = {} /\ ~attempt[a].found
  BY AttemptTyped DEF AccountInv, Phases, Send, At, PhaseOK, Handling
<1>2. t \in TxRecord /\ txs' = Append(txs, t)
  BY <1>1 DEF AttemptRecord, TxRecord, TxStates, Send
<1>3. t.ops = attempt[a].ops /\ t.state = "live" /\ (txMode # "base" => t.private)
  BY DEF AccountInv, Shape
<1> HIDE DEF t
<1>4. /\ txs' \in Seq(TxRecord) /\ Len(txs') \in Txs' /\ Len(txs') \in Nat
      /\ Txs' = Txs \cup {Len(txs')} /\ txs'[Len(txs')] = t
      /\ \A x \in Txs : txs'[x] = txs[x]
  BY <1>2, AddedTx DEF AccountInv
<1>5. /\ r \in AttemptRecord /\ r.ops = attempt[a].ops /\ r.tx = Len(txs')
      /\ r.pc \in {"wait", "record"} /\ (r.pc = "record" => txMode # "base")
      /\ r.taken = {} /\ ~r.found
  BY <1>1, <1>4 DEF AttemptRecord, Handling
<1>6. attempt' = [attempt EXCEPT ![a] = r]
  BY DEF Send, AccountInv, Shape
<1> HIDE DEF r
<1>7. attempt'[a] = r
  BY <1>5, <1>6, OneAttempt DEF AccountInv
<1>8. PhaseOK(a)'
  BY <1>3, <1>4, <1>5, <1>7 DEF PhaseOK, Handling
<1>9. /\ UNCHANGED <<settled, landed, txMode, pool>>
      /\ pool' \in [Op -> Status] /\ overlapped' \in BOOLEAN
      /\ unsure' \subseteq Op /\ stranded' \subseteq Op /\ stranded' = stranded
  BY DEF Send, settleVars, AccountInv, Shape
<1>10. \A o \in Bundling' : o \in Bundling /\ ~Marked(a, o)
  BY <1>1, <1>9 DEF Bundling, Marked
<1>11. \A o : Holds(a, o) => Holds(a, o)'
  BY <1>1, <1>5, <1>7 DEF Holds, Handling
<1> QED
  BY <1>3, <1>4, <1>5, <1>6, <1>8, <1>9, <1>10, <1>11, AttemptKeeps

\* Steps after which the attempt still has the operations of its bundle.
LEMMA ReceiptKeeps ==
  ASSUME AccountInv, NEW a \in Callers, Receipt(a) \/ NonFatal(a)
  PROVE  AccountInv'
<1> DEFINE r(pc) == [attempt[a] EXCEPT !.pc = pc]
<1>1. /\ attempt[a] \in AttemptRecord /\ PhaseOK(a) /\ attempt[a].pc \in {"wait", "send"}
      /\ attempt[a].taken = {} /\ ~attempt[a].found
  BY AttemptTyped DEF AccountInv, Phases, Receipt, NonFatal, At, PhaseOK, Handling
<1>2. PICK pc \in {"record", "back"} :
        /\ attempt' = [attempt EXCEPT ![a] = r(pc)]
        /\ pc = "record" =>
             /\ attempt[a].pc = "wait"
             /\ \/ txs[attempt[a].tx].state = "mined"
                \/ /\ txs[attempt[a].tx].state = "reverted"
                   /\ stranded' = stranded \cup Range(attempt[a].ops)
  BY DEF Receipt, NonFatal, Goto, At
<1>3. /\ r(pc) \in AttemptRecord /\ r(pc).pc = pc /\ r(pc).ops = attempt[a].ops
      /\ r(pc).taken = {} /\ ~r(pc).found /\ r(pc).tx = attempt[a].tx
  BY <1>1 DEF AttemptRecord, Handling
<1> HIDE DEF r
<1>4. attempt'[a] = r(pc)
  BY <1>2, <1>3, OneAttempt DEF AccountInv
<1>5. /\ UNCHANGED <<settled, landed, txMode, txs, pool, overlapped>>
      /\ stranded' = stranded \/ stranded' = stranded \cup Range(attempt[a].ops)
  BY DEF Receipt, NonFatal, settleVars
<1>6. PhaseOK(a)'
  BY <1>1, <1>2, <1>3, <1>4, <1>5 DEF PhaseOK, Handling, Txs
<1>7. Range(attempt[a].ops) \subseteq Op
  BY <1>1 DEF AttemptRecord, Range
<1>8. /\ overlapped' \in BOOLEAN /\ unsure' \subseteq Op
      /\ stranded' \subseteq Op /\ stranded \subseteq stranded'
  BY <1>5, <1>7 DEF Receipt, NonFatal, AccountInv, Shape
<1>9. \A o : Holds(a, o) => Holds(a, o)'
  BY <1>1, <1>3, <1>4 DEF Holds, Handling
<1> QED
  BY <1>1, <1>2, <1>3, <1>5, <1>6, <1>8, <1>9, AttemptMoves

\* What a recorded transaction held is on chain, on its way, or stranded.
LEMMA RecordKeeps ==
  ASSUME AccountInv, NEW a \in Callers, Record(a)
  PROVE  AccountInv'
<1>1. /\ attempt[a] \in AttemptRecord /\ PhaseOK(a) /\ attempt[a].pc = "record"
  BY AttemptTyped DEF AccountInv, Phases, Record, At
<1> DEFINE x == attempt[a].tx
<1>2. /\ x \in Txs /\ txs[x].ops = attempt[a].ops
      /\ \/ txs[x].private \/ txs[x].state = "mined"
         \/ Range(attempt[a].ops) \subseteq stranded
  BY <1>1 DEF PhaseOK
<1>3. /\ UNCHANGED <<settled, landed, txMode, txs, pool, overlapped, unsure, stranded>>
      /\ Finish(a)
  BY DEF Record, settleVars
<1>4. ASSUME NEW o \in Bundling', Holds(a, o), o \notin stranded
      PROVE  o \in settled \/ InTx(x, o)
  <2>1. o \in Range(txs[x].ops) /\ txs[x].state \in TxStates
    BY <1>1, <1>2, <1>4, TxTyped DEF Holds, AccountInv
  <2> QED
    BY <1>2, <1>4, <2>1 DEF InTx, TxStates, AccountInv, RelayLeaves
<1>5. \A o \in Bundling' : o \in Bundling /\ ~Marked(a, o)
  BY <1>1, <1>3 DEF Bundling, Marked
<1>6. pool' \in [Op -> Status] /\ stranded' \subseteq Op
  BY <1>3 DEF AccountInv, Shape
<1> QED
  BY <1>2, <1>3, <1>4, <1>5, <1>6, FinishKeeps

LEMMA FailedKeeps ==
  ASSUME AccountInv, NEW a \in Callers, FailedOp(a) \/ Fatal(a)
  PROVE  AccountInv'
<1>1. /\ attempt[a] \in AttemptRecord /\ attempt[a].pc = "send"
      /\ Range(attempt[a].ops) \subseteq Op
  BY AttemptTyped DEF AccountInv, FailedOp, Fatal, At, AttemptRecord, Range
<1>2. PICK gone \in SUBSET Op :
        /\ pool' = [o \in Op |-> IF o \in gone THEN "absent" ELSE pool[o]]
        /\ stranded' = stranded \cup (Range(attempt[a].ops) \ gone)
  <2>1. CASE FailedOp(a)
    <3>1. PICK i \in DOMAIN attempt[a].ops :
            \E blamed \in {{}, UsesBanned[attempt[a].ops[i]]} :
              LET gone == {attempt[a].ops[i]} \cup blamed IN
              /\ pool' = [o \in Op |-> IF o \in gone THEN "absent" ELSE pool[o]]
              /\ stranded' = stranded \cup (Range(attempt[a].ops) \ gone)
      BY <2>1 DEF FailedOp
    <3>2. attempt[a].ops[i] \in Op
      BY <1>1 DEF Range
    <3>3. UsesBanned[attempt[a].ops[i]] \in SUBSET Op
      BY <3>2, AttemptAssumption
    <3> QED
      BY <3>1, <3>2, <3>3
  <2>2. CASE Fatal(a)
    <3>1. pool' = pool /\ stranded' = stranded \cup Range(attempt[a].ops)
      BY <2>2 DEF Fatal, settleVars
    <3>2. pool' = [o \in Op |-> IF o \in {} THEN "absent" ELSE pool[o]]
      BY <3>1 DEF AccountInv, Shape
    <3>3. stranded' = stranded \cup (Range(attempt[a].ops) \ {})
      BY <3>1
    <3> QED
      BY <3>2, <3>3, Zenon
  <2> QED
    BY <2>1, <2>2
<1>3. /\ UNCHANGED <<settled, landed, txMode, txs, overlapped, unsure>>
      /\ Finish(a)
  BY DEF FailedOp, Fatal, Chain, settleVars
<1>4. pool' \in [Op -> Status] /\ stranded' \subseteq Op
  BY <1>1, <1>2 DEF AccountInv, Shape, Status
<1>5. \A o \in Bundling' : /\ o \in Bundling /\ ~Marked(a, o)
                           /\ Holds(a, o) => o \in stranded'
  BY <1>1, <1>2 DEF Bundling, Marked, Holds
<1> QED
  BY <1>2, <1>3, <1>4, <1>5, FinishKeeps

LEMMA GivesBackKeep ==
  ASSUME AccountInv, NEW a \in Callers,
         LookUpEntry(a) \/ WriteEntry(a) \/ AllBack(a)
  PROVE  AccountInv'
<1> DEFINE ops == attempt[a].ops
<1>1. /\ attempt[a] \in AttemptRecord /\ PhaseOK(a) /\ attempt[a].pc = "back"
      /\ attempt[a].taken = {} /\ ops \in Seq(Op)
  BY AttemptTyped DEF AccountInv, Phases, LookUpEntry, WriteEntry, AllBack, At,
                      PhaseOK, Handling, AttemptRecord
<1>2. /\ UNCHANGED <<settled, landed, txMode, txs, overlapped, unsure, stranded>>
      /\ txs' \in Seq(TxRecord) /\ Txs' = Txs /\ overlapped' \in BOOLEAN
      /\ unsure' \subseteq Op /\ stranded' \subseteq Op
      /\ \A x \in Txs : txs'[x] = txs[x]
  BY DEF LookUpEntry, WriteEntry, AllBack, Chain, settleVars, AccountInv, Shape, Txs
<1>3. CASE AllBack(a)
  <2>1. Range(ops) = {}
    BY <1>3 DEF AllBack, Range
  <2>2. pool' = pool /\ \A o : ~Holds(a, o) /\ ~Marked(a, o)
    BY <1>1, <1>3, <2>1 DEF AllBack, settleVars, Holds, Marked
  <2> QED
    BY <1>2, <1>3, <2>2, FinishKeeps DEF AllBack, AccountInv, Shape, Bundling
<1>4. CASE /\ ops # <<>> /\ pool' \in [Op -> Status] /\ GiveBack(a)
           /\ \A o \in Bundling' : o \in Bundling /\ o # Head(ops)
  <2> DEFINE r == [attempt[a] EXCEPT !.ops = Tail(ops), !.found = FALSE]
  <2>1. Tail(ops) \in Seq(Op) /\ Range(ops) = {Head(ops)} \cup Range(Tail(ops))
    BY <1>1, <1>4, RangeTail
  <2>2. attempt' = [attempt EXCEPT ![a] = r]
    BY <1>4 DEF GiveBack, AccountInv, Shape
  <2>3. /\ r \in AttemptRecord /\ r.pc = "back" /\ r.ops = Tail(ops)
        /\ r.taken = {} /\ ~r.found
    BY <1>1, <2>1 DEF AttemptRecord
  <2> HIDE DEF r
  <2>4. attempt'[a] = r
    BY <2>2, <2>3, OneAttempt DEF AccountInv
  <2>5. PhaseOK(a)'
    BY <2>3, <2>4 DEF PhaseOK, Handling
  <2>6. \A o \in Bundling' : /\ o \in Bundling /\ ~Marked(a, o)
                             /\ Holds(a, o) => Holds(a, o)'
    BY <1>1, <1>4, <2>1, <2>3, <2>4 DEF Marked, Holds, Handling
  <2> QED
    BY <1>2, <1>4, <2>2, <2>3, <2>5, <2>6, AttemptKeeps
<1>5. CASE LookUpEntry(a)
  <2>1. ops # <<>> /\ pool' = pool /\ pool' \in [Op -> Status]
    BY <1>5 DEF LookUpEntry, settleVars, AccountInv, Shape
  <2>2. CASE pool[Head(ops)] = "absent"
    BY <1>4, <1>5, <2>1, <2>2 DEF LookUpEntry, Bundling
  <2>3. CASE pool[Head(ops)] # "absent"
    <3> DEFINE r == [attempt[a] EXCEPT !.found = TRUE]
    <3>1. attempt' = [attempt EXCEPT ![a] = r]
      BY <1>5, <2>3 DEF LookUpEntry, AccountInv, Shape
    <3>2. /\ r \in AttemptRecord /\ r.pc = "back" /\ r.ops = ops /\ r.taken = {}
      BY <1>1 DEF AttemptRecord
    <3> HIDE DEF r
    <3>3. attempt'[a] = r
      BY <3>1, <3>2, OneAttempt DEF AccountInv
    <3>4. PhaseOK(a)'
      BY <2>1, <3>2, <3>3 DEF PhaseOK, Handling
    <3>5. \A o : Holds(a, o) => Holds(a, o)'
      BY <1>1, <3>2, <3>3 DEF Holds, Handling
    <3> QED
      BY <1>1, <1>2, <2>1, <3>1, <3>2, <3>4, <3>5, AttemptMoves
  <2> QED
    BY <2>2, <2>3
<1>6. CASE WriteEntry(a)
  <2>1. ops # <<>>
    BY <1>1, <1>6 DEF WriteEntry, PhaseOK
  <2>2. Head(ops) \in Op
    BY <1>1, <2>1, RangeTail
  <2>3. /\ pool' \in [Op -> Status] /\ GiveBack(a)
        /\ \A o \in Bundling' : o \in Bundling /\ o # Head(ops)
    BY <1>6, <2>2 DEF WriteEntry, AccountInv, Shape, Status, Bundling
  <2> QED
    BY <1>4, <2>1, <2>3
<1> QED
  BY <1>3, <1>5, <1>6

\* An event settles an entry, which is not 'bundling' then.
LEMMA SettleKeeps ==
  ASSUME AccountInv, NEW o \in Op, Settle(o)
  PROVE  AccountInv'
<1>1. /\ UNCHANGED <<landed, txMode, attempt, txs, overlapped, unsure, stranded>>
      /\ settled' = settled \cup {o} /\ o \in landed
      /\ pool' = [pool EXCEPT ![o] = SettledEntry(o)]
      /\ SettledEntry(o) \in Status \ {"bundling"}
  BY DEF Settle, SettleOp, attemptVars, SettledEntry, Status
<1>2. pool' \in [Op -> Status] /\ \A p \in Bundling' : p \in Bundling /\ p # o
  BY <1>1 DEF AccountInv, Shape, Bundling
<1>3. Shape'
  BY <1>1, <1>2 DEF AccountInv, Shape
<1>4. Phases' /\ RelayLeaves' /\ Txs' = Txs
  BY <1>1 DEF AccountInv, Phases, PhaseOK, RelayLeaves, Txs
<1>5. ASSUME NEW p \in Bundling' PROVE Accounted(p)' /\ (p \in settled' => SettledAgain(p)')
  <2>1. Accounted(p) /\ (p \in settled => SettledAgain(p)) /\ p # o
    BY <1>2 DEF AccountInv
  <2>2. p \in settled' => p \in settled
    BY <1>1, <2>1
  <2>3. \A a \in Callers : Holds(a, p) => Holds(a, p)'
    BY <1>1 DEF Holds
  <2>4. \A x \in Txs : InTx(x, p) => InTx(x, p)'
    BY <1>1, <2>2 DEF InTx
  <2>5. SettledAgain(p) => SettledAgain(p)'
    BY <1>1 DEF SettledAgain
  <2> QED
    BY <1>1, <1>4, <2>1, <2>2, <2>3, <2>4, <2>5 DEF Accounted
<1> QED
  BY <1>3, <1>4, <1>5 DEF AccountInv

\* A transaction leaves the network.
LEMMA EndKeeps ==
  ASSUME AccountInv, NEW x \in Txs, Live(x),
         NEW state \in {"mined", "reverted", "dropped"}, Ended(x, state),
         UNCHANGED <<settled, pool, txMode, attempt, overlapped, unsure>>,
         landed \subseteq landed', stranded \subseteq stranded', stranded' \subseteq Op,
         state = "mined" => Range(txs[x].ops) \cap settled = {},
         state # "mined" /\ txs[x].private => Range(txs[x].ops) \subseteq stranded'
  PROVE  AccountInv'
<1>1. /\ txs' \in Seq(TxRecord) /\ Txs' = Txs /\ txs'[x].state = state
      /\ \A y \in Txs : /\ txs'[y].ops = txs[y].ops /\ txs'[y].private = txs[y].private
                        /\ y # x => txs'[y].state = txs[y].state
  BY EndedTx DEF AccountInv, TxStates
<1>2. txs[x].state = "live" /\ \A y \in Txs : txs'[y].private <=> txs[y].private
  <2>1. \A y \in Txs : txs'[y].private <=> txs[y].private
    BY <1>1, Zenon
  <2> QED
    BY <2>1 DEF Live
<1>3. Shape'
  BY <1>1 DEF AccountInv, Shape
<1>4. Phases'
  <2> SUFFICES ASSUME NEW a \in Callers PROVE PhaseOK(a)'
    BY DEF Phases
  <2>1. PhaseOK(a)
    BY DEF AccountInv, Phases
  <2> QED
    BY <1>1, <1>2, <2>1 DEF PhaseOK, Handling
<1>5. RelayLeaves'
  <2> SUFFICES ASSUME NEW y \in Txs, txs'[y].state \in {"reverted", "dropped"},
                      txs'[y].private
               PROVE  Range(txs'[y].ops) \subseteq stranded'
    BY <1>1 DEF RelayLeaves
  <2>1. txs[y].private /\ txs'[y].ops = txs[y].ops
    BY <1>1, <1>2
  <2>2. CASE y = x
    BY <1>1, <2>1, <2>2
  <2>3. CASE y # x
    BY <1>1, <2>1, <2>3 DEF AccountInv, RelayLeaves
  <2> QED
    BY <2>2, <2>3
<1>6. ASSUME NEW o \in Bundling' PROVE Accounted(o)' /\ (o \in settled' => SettledAgain(o)')
  <2>1. Accounted(o) /\ (o \in settled => SettledAgain(o))
    BY DEF AccountInv, Bundling
  <2>2. \A a \in Callers : Holds(a, o) => Holds(a, o)'
    BY DEF Holds
  <2>3. ASSUME NEW y \in Txs, InTx(y, o), o \notin stranded' PROVE InTx(y, o)'
    <3>1. CASE y # x
      BY <1>1, <2>3, <3>1 DEF InTx
    <3>2. CASE y = x
      BY <1>1, <1>2, <2>3, <3>2 DEF InTx
    <3> QED
      BY <3>1, <3>2
  <2>4. SettledAgain(o) => SettledAgain(o)'
    BY DEF SettledAgain
  <2> QED
    BY <1>1, <2>1, <2>2, <2>3, <2>4 DEF Accounted
<1> QED
  BY <1>3, <1>4, <1>5, <1>6 DEF AccountInv

LEMMA NetworkKeeps ==
  ASSUME AccountInv, NEW x \in Txs, Mine(x) \/ Revert(x) \/ Drop(x)
  PROVE  AccountInv'
<1>1. Range(txs[x].ops) \subseteq Op /\ stranded \subseteq Op /\ settled \subseteq landed
  BY TxTyped DEF AccountInv, Shape, Range
<1>2. /\ UNCHANGED <<settled, pool, txMode, attempt, overlapped, unsure>>
      /\ Live(x) /\ stranded \subseteq stranded' /\ stranded' \subseteq Op
  BY <1>1 DEF Mine, Revert, Drop, settleVars
<1>3. CASE Mine(x)
  <2>1. Ended(x, "mined") /\ landed \subseteq landed' /\ Range(txs[x].ops) \cap settled = {}
    BY <1>1, <1>3 DEF Mine, Land
  <2> QED
    BY <1>2, <2>1, EndKeeps
<1>4. CASE Revert(x)
  <2>1. /\ Ended(x, "reverted") /\ landed \subseteq landed'
        /\ txs[x].private => Range(txs[x].ops) \subseteq stranded'
    BY <1>4 DEF Revert, settleVars
  <2> QED
    BY <1>2, <2>1, EndKeeps
<1>5. CASE Drop(x)
  <2>1. /\ Ended(x, "dropped") /\ landed \subseteq landed'
        /\ Range(txs[x].ops) \subseteq stranded'
    BY <1>5 DEF Drop, settleVars
  <2> QED
    BY <1>2, <2>1, EndKeeps
<1> QED
  BY <1>3, <1>4, <1>5

LEMMA AccountStep == AccountInv /\ [Step]_vars => AccountInv'
<1> SUFFICES ASSUME AccountInv, [Step]_vars PROVE AccountInv'
  OBVIOUS
<1>1. ASSUME NEW a \in Ticks, Tick(a) PROVE AccountInv'
  BY <1>1, StartsKeep DEF Callers
<1>2. ASSUME NEW a \in Callers, Start(a) PROVE AccountInv'
  BY <1>2, StartsKeep
<1>3. ASSUME NEW a \in Callers, AttemptStep(a) PROVE AccountInv'
  BY <1>3, StartsKeep, TakeKeeps, MarkKeeps, BuildKeeps, SendKeeps, ReceiptKeeps,
     RecordKeeps, FailedKeeps, GivesBackKeep DEF AttemptStep
<1>4. ASSUME NEW o \in Op, Settle(o) PROVE AccountInv'
  BY <1>4, SettleKeeps
<1>5. ASSUME Network PROVE AccountInv'
  BY <1>5, NetworkKeeps DEF Network
<1>6. CASE UNCHANGED vars
  <2>1. UNCHANGED <<landed, settled, pool, txMode, attempt, txs, overlapped,
                    unsure, stranded>>
    BY <1>6 DEF vars, settleVars, attemptVars
  <2>2. /\ Shape' = Shape /\ Phases' = Phases /\ RelayLeaves' = RelayLeaves
        /\ Bundling' = Bundling /\ Txs' = Txs
    BY <2>1 DEF Shape, Phases, PhaseOK, RelayLeaves, Bundling, Txs
  <2>3. \A o : Accounted(o)' = Accounted(o) /\ SettledAgain(o)' = SettledAgain(o)
    BY <2>1, <2>2 DEF Accounted, SettledAgain, Holds, InTx
  <2> QED
    BY <2>1, <2>2, <2>3 DEF AccountInv
<1> QED
  BY <1>1, <1>2, <1>3, <1>4, <1>5, <1>6 DEF Step

LEMMA AccountHolds == LifecycleSpec => []AccountInv
<1>1. Setup => AccountInv
  BY AccountInit
<1>2. AccountInv /\ [Step]_vars => AccountInv'
  BY AccountStep
<1> QED
  BY <1>1, <1>2, PTL DEF LifecycleSpec

\* However attempts, events, the network and its failures interleave, an entry
\* that is 'bundling' is in the hands of an attempt, in a transaction whose
\* events are still to come, or was stranded by one of the paths that give
\* nothing back: a builder that rejected, returned early or met a conflict of
\* tuples (bundle-builder.ts:92-104, 152, 229), a FailedOp of another operation
\* of the bundle, a fatal error, a TypeError while marking, an EIP-7702 bundle
\* that reverted (bundle-processor.ts:230, 279, 286), or the relay.
THEOREM NoEntryForgotten == LifecycleSpec => []BundlingAccounted
<1>1. AccountInv => BundlingAccounted
  <2> SUFFICES ASSUME AccountInv, NEW o \in Bundling, o \notin stranded
               PROVE  \/ \E a \in Callers : o \in attempt[a].taken \cup Range(attempt[a].ops)
                      \/ \E x \in Txs :
                           /\ o \in Range(txs[x].ops)
                           /\ \/ Live(x)
                              \/ txs[x].state = "mined" /\ o \notin settled
    BY DEF BundlingAccounted
  <2>1. Accounted(o)
    BY DEF AccountInv
  <2>2. \A a \in Callers : Holds(a, o) => o \in attempt[a].taken \cup Range(attempt[a].ops)
    BY DEF Holds
  <2>3. \A x \in Txs : InTx(x, o) =>
          /\ o \in Range(txs[x].ops)
          /\ Live(x) \/ (txs[x].state = "mined" /\ o \notin settled)
    BY DEF InTx, Live
  <2> QED
    BY <2>1, <2>2, <2>3 DEF Accounted
<1> QED
  BY <1>1, AccountHolds, PTL

-----------------------------------------------------------------------------
(* The mutex, and when an operation is in two transactions *)

Mutex ==
  /\ queue \in Seq(Ticks)
  /\ \A a \in Ticks : a \in Active => queue # <<>> /\ Head(queue) = a
  /\ IsInjective(queue)
  /\ \A a \in Ticks : a \in Range(queue) <=> ~At(a, "idle")

InHand(a) == attempt[a].taken \cup Range(attempt[a].ops)
Shares(o, x) == Live(x) /\ o \in Range(txs[x].ops)

\* What an attempt has in hand is in no live transaction but its own, and no
\* other attempt may take it.
HandSole(a) ==
  /\ attempt[a].pc \in {"build", "send"} => \A o \in InHand(a) : pool[o] # "pending"
  /\ \A o \in InHand(a), x \in Txs : Shares(o, x) =>
       \/ o \in unsure
       \/ attempt[a].pc \in {"wait", "record"} /\ x = attempt[a].tx

PendingSole ==
  \A o \in Op, x \in Txs : pool[o] = "pending" /\ Shares(o, x) => o \in unsure

TxSole ==
  \A x, y \in Txs, o \in Op : x # y /\ Shares(o, x) /\ Shares(o, y) => o \in unsure

Alone == \A a, b \in Active : a = b

Sole == Alone /\ PendingSole /\ TxSole /\ \A a \in Callers : HandSole(a)

SentInv == AccountInv /\ Mutex /\ (~overlapped => Sole)

LEMMA SentInit == Setup => SentInv
<1> SUFFICES ASSUME Setup PROVE SentInv
  OBVIOUS
<1>1. AccountInv
  BY AccountInit
<1>2. Active = {} /\ Txs = {} /\ \A a \in Callers : attempt[a] = IdleAttempt
  BY DEF Setup, Active, IdleAttempt, Txs
<1>3. \A a \in Ticks : At(a, "idle")
  BY <1>2 DEF At, IdleAttempt, Callers
<1>4. Mutex
  BY <1>2, <1>3 DEF Mutex, Setup, IsInjective, Range
<1>5. \A a \in Callers : HandSole(a)
  BY <1>2 DEF HandSole, IdleAttempt
<1> QED
  BY <1>1, <1>2, <1>4, <1>5 DEF SentInv, Sole, Alone, PendingSole, TxSole

\* What every step of an attempt under way leaves alone.
OwnStep(a) ==
  /\ \A b \in Callers \ {a} : attempt'[b] = attempt[b]
  /\ attempt'[a].pc # "queued"
  /\ queue' = IF attempt'[a].pc = "idle" /\ a \in Ticks THEN Tail(queue) ELSE queue
  /\ overlapped' = overlapped

\* These steps keep the mutex, or pass it on.
LEMMA MutexKeeps ==
  ASSUME Mutex, NEW a \in Active, OwnStep(a)
  PROVE  Mutex'
<1>1. a \in Callers /\ attempt[a].pc \notin {"idle", "queued"}
  BY DEF Active
<1>2. \A b \in Ticks : At(b, "idle")' <=> IF b = a THEN attempt'[a].pc = "idle" ELSE At(b, "idle")
  BY DEF At, Callers, OwnStep
<1>3. \A b \in Active' : b \in Active /\ (b = a => attempt'[a].pc # "idle")
  BY <1>1 DEF Active, OwnStep
<1>4. CASE a \notin Ticks \/ attempt'[a].pc # "idle"
  BY <1>1, <1>2, <1>3, <1>4 DEF Mutex, OwnStep, At
<1>5. CASE a \in Ticks /\ attempt'[a].pc = "idle"
  <2>1. queue \in Seq(Ticks) /\ queue # <<>> /\ Head(queue) = a /\ queue' = Tail(queue)
    BY <1>5 DEF Mutex, OwnStep
  <2>2. queue' \in Seq(Ticks) /\ Range(queue) = {a} \cup Range(queue')
    BY <2>1, RangeTail
  <2>3. IsInjective(queue') /\ a \notin Range(queue')
    BY <2>1, TailsDistinct DEF Mutex
  <2>4. \A b \in Ticks : b \notin Active'
    BY <1>3, <1>5 DEF Mutex
  <2>5. \A b \in Ticks : b \in Range(queue') <=> ~At(b, "idle")'
    BY <1>2, <1>5, <2>2, <2>3 DEF Mutex
  <2> QED
    BY <2>2, <2>3, <2>4, <2>5 DEF Mutex
<1> QED
  BY <1>4, <1>5

\* Without overlaps the others have nothing in hand, and a step of one attempt
\* need only see to itself, to the pending entries and to the transactions.
LEMMA SoleKeeps ==
  ASSUME SentInv, AccountInv', NEW a \in Active, OwnStep(a),
         Sole => PendingSole' /\ TxSole' /\ HandSole(a)'
  PROVE  SentInv'
<1>1. Mutex'
  BY MutexKeeps DEF SentInv
<1>2. ASSUME Sole PROVE Alone'
  <2>1. \A b \in Active' : b \in Active
    BY DEF Active, OwnStep
  <2> QED
    BY <1>2, <2>1 DEF Sole, Alone
<1>3. ASSUME Sole, NEW b \in Callers PROVE HandSole(b)'
  <2>1. CASE b = a
    BY <1>3, <2>1
  <2>2. CASE b # a
    <3>1. attempt'[b] = attempt[b] /\ b \notin Active /\ PhaseOK(b)
      BY <1>3, <2>2 DEF SentInv, Sole, Alone, AccountInv, Phases, OwnStep
    <3>2. attempt[b].pc \in {"idle", "queued"}
      BY <3>1 DEF Active
    <3>3. attempt[b].taken = {} /\ attempt[b].ops = <<>>
      BY <3>1, <3>2 DEF PhaseOK
    <3>4. InHand(b)' = {}
      BY <3>1, <3>3 DEF InHand, Range
    <3> QED
      BY <3>1, <3>2, <3>4 DEF HandSole
  <2> QED
    BY <2>1, <2>2
<1> QED
  BY <1>1, <1>2, <1>3 DEF SentInv, Sole, OwnStep

\* A step that sends nothing.
LEMMA Unsent ==
  ASSUME Sole, UNCHANGED txs, unsure \subseteq unsure',
         \A o \in Op : pool'[o] = "pending" =>
           pool[o] = "pending" \/ \A x \in Txs : Shares(o, x) => o \in unsure'
  PROVE  /\ PendingSole' /\ TxSole' /\ Txs' = Txs
         /\ \A o, x : (Shares(o, x)' <=> Shares(o, x))
<1>1. Txs' = Txs /\ \A o, x : (Shares(o, x)' <=> Shares(o, x))
  BY DEF Txs, Shares, Live
<1> QED
  BY <1>1 DEF Sole, PendingSole, TxSole

LEMMA HandKeeps ==
  ASSUME NEW a, Txs' = Txs, \A o, x : (Shares(o, x)' <=> Shares(o, x)),
         \A o \in InHand(a)' :
           /\ attempt'[a].pc \in {"build", "send"} => pool'[o] # "pending"
           /\ \A x \in Txs : Shares(o, x) =>
                \/ o \in unsure'
                \/ attempt'[a].pc \in {"wait", "record"} /\ x = attempt'[a].tx
  PROVE  HandSole(a)'
<1>1. ASSUME NEW o \in InHand(a)', NEW x \in Txs', Shares(o, x)'
      PROVE  \/ o \in unsure'
             \/ attempt'[a].pc \in {"wait", "record"} /\ x = attempt'[a].tx
  BY <1>1
<1>2. attempt'[a].pc \in {"build", "send"} => \A o \in InHand(a)' : pool'[o] # "pending"
  OBVIOUS
<1> QED
  BY <1>1, <1>2 DEF HandSole

LEMMA FinishSole ==
  ASSUME SentInv, AccountInv', NEW a \in Active, Finish(a),
         UNCHANGED <<txs, unsure, overlapped>>,
         \A o \in Op : pool'[o] = "pending" =>
           \/ pool[o] = "pending"
           \/ Sole => \A x \in Txs : Shares(o, x) => o \in unsure
  PROVE  SentInv'
<1>1. a \in Callers /\ attempt' = [attempt EXCEPT ![a] = IdleAttempt]
  BY FinishRecord DEF Active
<1>2. attempt'[a] = IdleAttempt /\ \A b \in Callers \ {a} : attempt'[b] = attempt[b]
  BY <1>1, OneAttempt, IdleType DEF SentInv, AccountInv
<1>3. OwnStep(a)
  BY <1>2 DEF OwnStep, Finish, IdleAttempt
<1>4. ASSUME Sole PROVE PendingSole' /\ TxSole'
  BY <1>4, Unsent
<1>5. HandSole(a)'
  <2>1. attempt'[a].taken = {} /\ attempt'[a].ops = <<>>
    BY <1>2 DEF IdleAttempt
  <2>2. InHand(a)' = {}
    BY <2>1 DEF InHand, Range
  <2> QED
    BY <2>2 DEF HandSole
<1> QED
  BY <1>3, <1>4, <1>5, SoleKeeps

\* The steps that do not finish change the attempt's own record.
LEMMA ChangedRecord ==
  ASSUME Shape, NEW a \in Callers, NEW r,
         attempt' = [attempt EXCEPT ![a] = r], UNCHANGED <<queue, overlapped>>,
         r.pc \notin {"idle", "queued"}
  PROVE  attempt'[a] = r /\ OwnStep(a)
BY DEF Shape, OwnStep

LEMMA TakeSole ==
  ASSUME SentInv, AccountInv', NEW a \in Callers, Take(a)
  PROVE  SentInv'
<1>1. /\ attempt[a] \in AttemptRecord /\ PhaseOK(a) /\ attempt[a].pc = "take"
      /\ a \in Active /\ attempt[a].ops = <<>>
  BY AttemptTyped DEF SentInv, AccountInv, Phases, Take, At, Active, PhaseOK
<1>2. UNCHANGED <<txs, unsure, overlapped, pool>>
  BY DEF Take, settleVars
<1>3. CASE Finish(a)
  BY <1>1, <1>2, <1>3, FinishSole
<1>4. CASE ~Finish(a)
  <2>1. PICK S \in SUBSET {o \in Op : pool[o] = "pending"} :
          attempt' = [attempt EXCEPT ![a].pc = "mark", ![a].taken = S] /\ UNCHANGED queue
    BY <1>4 DEF Take
  <2> DEFINE r == [attempt[a] EXCEPT !.pc = "mark", !.taken = S]
  <2>2. attempt' = [attempt EXCEPT ![a] = r]
    BY <2>1 DEF SentInv, AccountInv, Shape
  <2>3. r.pc = "mark" /\ r.ops = <<>> /\ r.taken = S
    BY <1>1 DEF AttemptRecord
  <2> HIDE DEF r
  <2>4. attempt'[a] = r /\ OwnStep(a)
    BY <1>2, <2>1, <2>2, <2>3, ChangedRecord DEF SentInv, AccountInv
  <2>5. InHand(a)' = S
    BY <2>3, <2>4 DEF InHand, Range
  <2>6. ASSUME Sole PROVE PendingSole' /\ TxSole' /\ HandSole(a)'
    <3>1. PendingSole' /\ TxSole' /\ Txs' = Txs /\ \A o, x : (Shares(o, x)' <=> Shares(o, x))
      BY <1>2, <2>6, Unsent
    <3>2. \A o \in S, x \in Txs : Shares(o, x) => o \in unsure'
      BY <1>2, <2>6 DEF Sole, PendingSole
    <3>3. HandSole(a)'
      BY <2>3, <2>4, <2>5, <3>1, <3>2, HandKeeps
    <3> QED
      BY <3>1, <3>3
  <2> QED
    BY <1>1, <2>4, <2>6, SoleKeeps
<1> QED
  BY <1>3, <1>4

LEMMA MarkSole ==
  ASSUME SentInv, AccountInv', NEW a \in Callers, MarkBundling(a)
  PROVE  SentInv'
<1> DEFINE S == attempt[a].taken
           marked == S \cap {o \in Op : pool[o] # "absent"}
<1>1. /\ attempt[a] \in AttemptRecord /\ PhaseOK(a) /\ attempt[a].pc = "mark"
      /\ a \in Active /\ S \subseteq Op /\ attempt[a].ops = <<>>
  BY AttemptTyped DEF SentInv, AccountInv, Phases, MarkBundling, At, Active,
                      AttemptRecord, PhaseOK
<1>2. UNCHANGED <<txs, unsure, overlapped>>
  BY DEF MarkBundling
<1>3. PICK done \in SUBSET S :
        /\ pool' = [o \in Op |-> IF o \in done THEN "bundling" ELSE pool[o]]
        /\ \/ Finish(a)
           \/ done = S /\ Goto(a, "build") /\ UNCHANGED queue
  BY DEF MarkBundling
<1>4. \A o \in Op : pool'[o] = "pending" => pool[o] = "pending"
  BY <1>3
<1>5. CASE Finish(a)
  BY <1>1, <1>2, <1>4, <1>5, FinishSole
<1>6. CASE done = S /\ Goto(a, "build") /\ UNCHANGED queue
  <2> DEFINE r == [attempt[a] EXCEPT !.pc = "build"]
  <2>1. attempt' = [attempt EXCEPT ![a] = r]
    BY <1>6 DEF Goto, SentInv, AccountInv, Shape
  <2>2. r.pc = "build" /\ r.ops = <<>> /\ r.taken = S
    BY <1>1 DEF AttemptRecord
  <2> HIDE DEF r
  <2>3. attempt'[a] = r /\ OwnStep(a)
    BY <1>2, <1>6, <2>1, <2>2, ChangedRecord DEF SentInv, AccountInv
  <2>4. InHand(a)' = S /\ InHand(a) = S
    BY <1>1, <2>2, <2>3 DEF InHand, Range
  <2>5. \A o \in S : pool'[o] # "pending"
    BY <1>1, <1>3, <1>6
  <2>6. ASSUME Sole PROVE PendingSole' /\ TxSole' /\ HandSole(a)'
    <3>1. PendingSole' /\ TxSole' /\ Txs' = Txs /\ \A o, x : (Shares(o, x)' <=> Shares(o, x))
      BY <1>2, <1>4, <2>6, Unsent
    <3>2. \A o \in S, x \in Txs : Shares(o, x) => o \in unsure'
      BY <1>1, <1>2, <2>4, <2>6 DEF Sole, HandSole
    <3>3. HandSole(a)'
      BY <2>2, <2>3, <2>4, <2>5, <3>1, <3>2, HandKeeps
    <3> QED
      BY <3>1, <3>3
  <2> QED
    BY <1>1, <2>3, <2>6, SoleKeeps
<1> QED
  BY <1>3, <1>5, <1>6

LEMMA BuildSole ==
  ASSUME SentInv, AccountInv', NEW a \in Callers, Build(a)
  PROVE  SentInv'
<1> DEFINE T == attempt[a].taken
<1>1. /\ attempt[a] \in AttemptRecord /\ PhaseOK(a) /\ attempt[a].pc = "build"
      /\ a \in Active /\ T \subseteq Op /\ attempt[a].ops = <<>>
  BY AttemptTyped DEF SentInv, AccountInv, Phases, Build, At, Active,
                      AttemptRecord, PhaseOK
<1>2. UNCHANGED <<txs, unsure, overlapped>>
  BY DEF Build
<1> DEFINE Sends(ops) ==
             /\ attempt' = [attempt EXCEPT ![a].pc = "send", ![a].ops = ops, ![a].taken = {}]
             /\ UNCHANGED queue
<1>a. PICK kept \in SUBSET (T \ landed) : \E back \in SUBSET (T \ kept) :
        \E left \in SUBSET (T \ (kept \cup back)) : Decide(a, SetToSeq(kept), back, left)
  BY DEF Build
<1>b. PICK back \in SUBSET (T \ kept), left \in SUBSET T :
        Decide(a, SetToSeq(kept), back, left)
  BY <1>a
<1>c. SetToSeq(kept) \in Seq(Op) /\ Range(SetToSeq(kept)) = kept
  BY <1>1, SeqOfSet
<1>3. /\ pool' = [o \in Op |-> IF o \in back /\ pool[o] # "absent" THEN "pending"
                              ELSE IF o \in T \ (kept \cup left) THEN "absent" ELSE pool[o]]
      /\ Finish(a) \/ Sends(SetToSeq(kept))
  BY <1>b, <1>c DEF Decide
<1>4. InHand(a) = T
  BY <1>1 DEF InHand, Range
<1>5. ASSUME Sole PROVE \A o \in T : /\ pool[o] # "pending"
                                     /\ \A x \in Txs : Shares(o, x) => o \in unsure
  BY <1>1, <1>4, <1>5 DEF Sole, HandSole
<1>6. \A o \in Op : pool'[o] = "pending" => pool[o] = "pending" \/ o \in T
  BY <1>3
<1>7. CASE Finish(a)
  BY <1>1, <1>2, <1>5, <1>6, <1>7, FinishSole
<1>8. CASE Sends(SetToSeq(kept))
  <2> DEFINE ops == SetToSeq(kept)
             r == [attempt[a] EXCEPT !.pc = "send", !.ops = ops, !.taken = {}]
  <2>1. attempt' = [attempt EXCEPT ![a] = r]
    BY <1>8 DEF SentInv, AccountInv, Shape
  <2>2. r.pc = "send" /\ r.ops = ops /\ r.taken = {} /\ Range(ops) = kept
    BY <1>1, SeqOfSet DEF AttemptRecord
  <2> HIDE DEF r, ops
  <2>3. attempt'[a] = r /\ OwnStep(a)
    BY <1>2, <1>8, <2>1, <2>2, ChangedRecord DEF SentInv, AccountInv
  <2>4. InHand(a)' = kept
    BY <2>2, <2>3 DEF InHand
  <2>5. \A o \in kept : pool'[o] = pool[o]
    BY <1>1, <1>3
  <2>6. ASSUME Sole PROVE PendingSole' /\ TxSole' /\ HandSole(a)'
    <3>1. /\ PendingSole' /\ TxSole' /\ Txs' = Txs
          /\ \A o, x : (Shares(o, x)' <=> Shares(o, x))
      BY <1>2, <1>5, <1>6, <2>6, Unsent
    <3>2. HandSole(a)'
      BY <1>2, <1>5, <2>3, <2>4, <2>5, <2>6, <3>1, HandKeeps
    <3> QED
      BY <3>1, <3>2
  <2> QED
    BY <1>1, <2>3, <2>6, SoleKeeps
<1> QED
  BY <1>3, <1>7, <1>8

\* The one step that adds a transaction: what it holds was 'bundling' or gone,
\* and in no live transaction that is not the history's.
LEMMA SendSole ==
  ASSUME SentInv, AccountInv', NEW a \in Callers, Send(a)
  PROVE  SentInv'
<1> DEFINE t == [ops |-> attempt[a].ops, state |-> "live",
                 private |-> txMode = "searcher"]
           r == [attempt[a] EXCEPT !.pc = IF txMode = "base" THEN "wait" ELSE "record",
                                   !.tx = Len(txs')]
<1>a. PICK new : new = Len(txs')
  OBVIOUS
<1>1. /\ attempt[a] \in AttemptRecord /\ PhaseOK(a) /\ attempt[a].pc = "send"
      /\ a \in Active /\ attempt[a].taken = {}
  BY AttemptTyped DEF SentInv, AccountInv, Phases, Send, At, Active, PhaseOK, Handling
<1>2. t \in TxRecord /\ txs' = Append(txs, t)
  BY <1>1 DEF AttemptRecord, TxRecord, TxStates, Send
<1>3. t.ops = attempt[a].ops
  OBVIOUS
<1> HIDE DEF t
<1>4. /\ Txs' = Txs \cup {new} /\ new \notin Txs /\ txs'[new] = t
      /\ \A x \in Txs : txs'[x] = txs[x]
  BY <1>a, <1>2, AddedTx DEF SentInv, AccountInv
<1>5. UNCHANGED <<pool, unsure, queue, overlapped>>
  BY DEF Send, settleVars
<1>6. attempt' = [attempt EXCEPT ![a] = r]
  BY DEF Send, SentInv, AccountInv, Shape
<1>7. /\ r.pc \in {"wait", "record"} /\ r.ops = attempt[a].ops
      /\ r.taken = {} /\ r.tx = new
  BY <1>a, <1>1 DEF AttemptRecord
<1> HIDE DEF r
<1>8. attempt'[a] = r /\ OwnStep(a)
  BY <1>5, <1>6, <1>7, ChangedRecord DEF SentInv, AccountInv
<1>9. InHand(a)' = InHand(a) /\ InHand(a) = Range(attempt[a].ops)
  BY <1>1, <1>7, <1>8 DEF InHand
<1>10. /\ \A o, x : x \in Txs => (Shares(o, x)' <=> Shares(o, x))
       /\ \A o : Shares(o, new)' => o \in InHand(a)
  BY <1>3, <1>4, <1>9 DEF Shares, Live
<1>11. ASSUME Sole PROVE \A o \in InHand(a) :
         pool[o] # "pending" /\ \A x \in Txs : Shares(o, x) => o \in unsure
  BY <1>1, <1>11 DEF Sole, HandSole
<1>12. ASSUME Sole PROVE PendingSole'
  <2>1. \A o \in Op, x \in Txs : pool[o] = "pending" /\ Shares(o, x) => o \in unsure
    BY <1>12 DEF Sole, PendingSole
  <2> QED
    BY <1>4, <1>5, <1>10, <1>11, <1>12, <2>1 DEF PendingSole
<1>13. ASSUME Sole PROVE TxSole'
  <2> SUFFICES ASSUME NEW x \in Txs', NEW y \in Txs', NEW o \in Op,
                      x # y, Shares(o, x)', Shares(o, y)'
               PROVE  o \in unsure
    BY <1>5 DEF TxSole
  <2>1. CASE x \in Txs /\ y \in Txs
    BY <1>10, <1>13, <2>1 DEF Sole, TxSole
  <2>2. CASE x = new /\ y \in Txs
    BY <1>10, <1>11, <1>13, <2>2
  <2>3. CASE x \in Txs /\ y = new
    BY <1>10, <1>11, <1>13, <2>3
  <2> QED
    BY <1>4, <2>1, <2>2, <2>3
<1>14. ASSUME Sole PROVE HandSole(a)'
  <2>1. \A o \in InHand(a)', x \in Txs' : Shares(o, x)' => o \in unsure' \/ x = attempt'[a].tx
    BY <1>4, <1>5, <1>7, <1>8, <1>9, <1>10, <1>11, <1>14
  <2> QED
    BY <1>7, <1>8, <2>1 DEF HandSole
<1> QED
  BY <1>1, <1>8, <1>12, <1>13, <1>14, SoleKeeps

\* An attempt that moves on with what it has, or less of it.
LEMMA MovesSole ==
  ASSUME SentInv, AccountInv', NEW a \in Active, NEW r \in AttemptRecord,
         attempt' = [attempt EXCEPT ![a] = r],
         UNCHANGED <<txs, queue, overlapped>>, unsure \subseteq unsure',
         r.pc \in {"take", "record", "back"},
         r.taken = {}, Range(r.ops) \subseteq InHand(a),
         \A o \in Op : pool'[o] = "pending" =>
           \/ pool[o] = "pending"
           \/ Sole => \A x \in Txs : Shares(o, x) => o \in unsure',
         Sole => \A o \in InHand(a), x \in Txs : Shares(o, x) =>
                   o \in unsure' \/ (r.pc = "record" /\ x = r.tx)
  PROVE  SentInv'
<1>1. attempt'[a] = r /\ OwnStep(a)
  BY ChangedRecord DEF SentInv, AccountInv, Active
<1>2. InHand(a)' = Range(r.ops)
  BY <1>1 DEF InHand
<1>3. ASSUME Sole PROVE PendingSole' /\ TxSole' /\ HandSole(a)'
  <2>1. /\ PendingSole' /\ TxSole' /\ Txs' = Txs
        /\ \A o, x : (Shares(o, x)' <=> Shares(o, x))
    BY <1>3, Unsent
  <2>2. HandSole(a)'
    BY <1>1, <1>2, <1>3, <2>1, HandKeeps
  <2> QED
    BY <2>1, <2>2
<1> QED
  BY <1>1, <1>3, SoleKeeps

LEMMA OnwardSole ==
  ASSUME SentInv, AccountInv', NEW a \in Callers,
         EventsDone(a) \/ Receipt(a) \/ NonFatal(a)
  PROVE  SentInv'
<1> DEFINE r(pc) == [attempt[a] EXCEPT !.pc = pc]
           x == attempt[a].tx
<1>1. /\ attempt[a] \in AttemptRecord /\ PhaseOK(a)
      /\ attempt[a].pc \in {"events", "wait", "send"}
      /\ a \in Active /\ attempt[a].taken = {}
  BY AttemptTyped DEF SentInv, AccountInv, Phases, EventsDone, Receipt, NonFatal,
                      At, Active, PhaseOK, Handling
<1>2. PICK pc \in {"take", "record", "back"} :
        /\ attempt' = [attempt EXCEPT ![a] = r(pc)]
        /\ pc = "record" => attempt[a].pc = "wait"
        /\ pc = "take" => attempt[a].pc = "events"
        /\ pc = "back" /\ attempt[a].pc = "wait" =>
             ~Live(x) \/ unsure' = unsure \cup Range(attempt[a].ops)
  <2>1. CASE EventsDone(a)
    BY <2>1 DEF EventsDone, Goto, At
  <2>2. CASE NonFatal(a)
    BY <2>2 DEF NonFatal, Goto, At
  <2>3. CASE Receipt(a)
    <3>1. CASE Goto(a, "record")
      BY <2>3, <3>1 DEF Receipt, Goto, At
    <3>2. CASE Goto(a, "back")
      <4>1. attempt' = [attempt EXCEPT ![a] = r("back")] /\ attempt'[a].pc = "back"
        BY <1>1, <3>2 DEF Goto, SentInv, AccountInv, Shape, AttemptRecord
      <4>2. ~Live(x) \/ unsure' = unsure \cup Range(attempt[a].ops)
        BY <2>3, <4>1 DEF Receipt, Live
      <4> QED
        BY <4>1, <4>2
    <3> QED
      BY <2>3, <3>1, <3>2 DEF Receipt
  <2> QED
    BY <2>1, <2>2, <2>3
<1>3. /\ r(pc) \in AttemptRecord /\ r(pc).pc = pc /\ r(pc).ops = attempt[a].ops
      /\ r(pc).taken = {} /\ r(pc).tx = x
  BY <1>1 DEF AttemptRecord, Handling
<1> HIDE DEF r
<1>4. UNCHANGED <<txs, queue, overlapped, pool>> /\ unsure \subseteq unsure'
  BY DEF EventsDone, Receipt, NonFatal, settleVars
<1>5. Range(r(pc).ops) \subseteq InHand(a) /\ InHand(a) = Range(attempt[a].ops)
  BY <1>1, <1>3 DEF InHand
<1>6. ASSUME Sole, NEW o \in InHand(a), NEW y \in Txs, Shares(o, y)
      PROVE  o \in unsure' \/ (pc = "record" /\ y = x)
  <2>1. \/ o \in unsure
        \/ attempt[a].pc = "wait" /\ y = x
    BY <1>1, <1>6 DEF Sole, HandSole
  <2>2. CASE o \in unsure
    BY <1>4, <2>2
  <2>3. CASE attempt[a].pc = "wait" /\ y = x /\ pc = "back"
    BY <1>2, <1>5, <1>6, <2>3 DEF Shares
  <2> QED
    BY <1>2, <2>1, <2>2, <2>3
<1> QED
  BY <1>1, <1>2, <1>3, <1>4, <1>5, <1>6, MovesSole

LEMMA EndSole ==
  ASSUME SentInv, AccountInv', NEW a \in Callers,
         Record(a) \/ FailedOp(a) \/ Fatal(a) \/ AllBack(a)
  PROVE  SentInv'
<1>1. a \in Active /\ Finish(a) /\ UNCHANGED <<txs, unsure, overlapped>>
  BY DEF Record, FailedOp, Fatal, AllBack, At, Active
<1>2. \A o \in Op : pool'[o] = "pending" => pool[o] = "pending"
  <2>1. CASE FailedOp(a)
    <3>1. PICK gone : pool' = [o \in Op |-> IF o \in gone THEN "absent" ELSE pool[o]]
      BY <2>1, Zenon DEF FailedOp
    <3> QED
      BY <3>1
  <2>2. CASE ~FailedOp(a)
    BY <2>2 DEF Record, Fatal, AllBack, settleVars
  <2> QED
    BY <2>1, <2>2
<1> QED
  BY <1>1, <1>2, FinishSole

LEMMA GivesBackSole ==
  ASSUME SentInv, AccountInv', NEW a \in Callers, LookUpEntry(a) \/ WriteEntry(a)
  PROVE  SentInv'
<1> DEFINE ops == attempt[a].ops
           r(rest, found) == [attempt[a] EXCEPT !.ops = rest, !.found = found]
<1>1. /\ attempt[a] \in AttemptRecord /\ PhaseOK(a) /\ attempt[a].pc = "back"
      /\ a \in Active /\ attempt[a].taken = {} /\ ops \in Seq(Op) /\ ops # <<>>
  BY AttemptTyped DEF SentInv, AccountInv, Phases, LookUpEntry, WriteEntry, At,
                      Active, PhaseOK, Handling, AttemptRecord
<1>2. Tail(ops) \in Seq(Op) /\ Head(ops) \in Op /\ Range(ops) = {Head(ops)} \cup Range(Tail(ops))
  BY <1>1, RangeTail
<1>3. UNCHANGED <<txs, queue, overlapped, unsure>>
  BY DEF LookUpEntry, WriteEntry
<1>4. PICK rest \in {ops, Tail(ops)}, found \in BOOLEAN :
        attempt' = [attempt EXCEPT ![a] = r(rest, found)]
  <2>1. CASE GiveBack(a)
    <3>1. attempt' = [attempt EXCEPT ![a] = r(Tail(ops), FALSE)]
      BY <2>1 DEF GiveBack, SentInv, AccountInv, Shape
    <3> QED
      BY <3>1
  <2>2. CASE attempt' = [attempt EXCEPT ![a].found = TRUE]
    <3>1. attempt' = [attempt EXCEPT ![a] = r(ops, TRUE)]
      BY <1>1, <2>2 DEF SentInv, AccountInv, Shape, AttemptRecord
    <3> QED
      BY <3>1
  <2>3. GiveBack(a) \/ attempt' = [attempt EXCEPT ![a].found = TRUE]
    BY DEF LookUpEntry, WriteEntry
  <2> QED
    BY <2>1, <2>2, <2>3
<1>5. /\ r(rest, found) \in AttemptRecord /\ r(rest, found).pc = "back"
      /\ r(rest, found).ops = rest /\ r(rest, found).taken = {}
  BY <1>1, <1>2 DEF AttemptRecord
<1> HIDE DEF r
<1>6. InHand(a) = Range(ops) /\ Range(rest) \subseteq Range(ops)
  BY <1>1, <1>2 DEF InHand
<1>7. ASSUME Sole PROVE \A o \in InHand(a), x \in Txs : Shares(o, x) => o \in unsure
  BY <1>1, <1>7 DEF Sole, HandSole
<1>8. \A o \in Op : pool'[o] = "pending" => pool[o] = "pending" \/ o \in InHand(a)
  BY <1>2, <1>6 DEF LookUpEntry, WriteEntry, settleVars, SentInv, AccountInv, Shape
<1> QED
  BY <1>1, <1>3, <1>4, <1>5, <1>6, <1>7, <1>8, MovesSole

LEMMA TickSole ==
  ASSUME SentInv, AccountInv', NEW a \in Ticks, Tick(a)
  PROVE  SentInv'
<1>1. /\ a \in Callers /\ PhaseOK(a) /\ attempt[a].pc = "idle"
      /\ attempt[a] \in AttemptRecord /\ queue \in Seq(Ticks)
  BY AttemptTyped DEF Callers, SentInv, AccountInv, Phases, Tick, At, Mutex
<1>2. /\ UNCHANGED <<txs, pool, unsure, overlapped>> /\ queue' = Append(queue, a)
      /\ attempt' = [attempt EXCEPT ![a].pc = "queued"]
  BY DEF Tick, settleVars, Goto
<1>3. /\ attempt'[a] = [attempt[a] EXCEPT !.pc = "queued"]
      /\ \A b \in Callers \ {a} : attempt'[b] = attempt[b]
  BY <1>2 DEF SentInv, AccountInv, Shape
<1>4. attempt'[a].pc = "queued" /\ attempt'[a].taken = {} /\ attempt'[a].ops = <<>>
  BY <1>1, <1>3 DEF AttemptRecord, PhaseOK
<1>5. Active' = Active /\ a \notin Active
  BY <1>1, <1>3, <1>4 DEF Active
<1>6. Mutex'
  <2>1. /\ queue' \in Seq(Ticks) /\ Range(queue') = Range(queue) \cup {a}
        /\ IsInjective(queue')
        /\ queue # <<>> => queue' # <<>> /\ Head(queue') = Head(queue)
    <3>1. IsInjective(queue) /\ a \notin Range(queue)
      BY <1>1 DEF SentInv, Mutex, At
    <3>2. queue # <<>> => queue' # <<>> /\ Head(queue') = Head(queue)
      BY <1>1, <1>2
    <3> QED
      BY <1>1, <1>2, <3>1, <3>2, AppendsDistinct
  <2>2. \A b \in Ticks : b \in Range(queue') <=> ~At(b, "idle")'
    BY <1>3, <1>4, <2>1 DEF At, Callers, SentInv, Mutex
  <2>3. \A b \in Ticks : b \in Active' => queue' # <<>> /\ Head(queue') = b
    BY <1>5, <2>1 DEF SentInv, Mutex
  <2> QED
    BY <2>1, <2>2, <2>3 DEF Mutex
<1>7. ASSUME Sole PROVE Sole'
  <2>1. /\ PendingSole' /\ TxSole' /\ Txs' = Txs
        /\ \A o, x : (Shares(o, x)' <=> Shares(o, x))
    BY <1>2, <1>7, Unsent
  <2>2. ASSUME NEW b \in Callers PROVE HandSole(b)'
    <3>1. CASE b = a
      <4>1. InHand(a)' = {}
        BY <1>4 DEF InHand, Range
      <4> QED
        BY <3>1, <4>1 DEF HandSole
    <3>2. CASE b # a
      <4>1. HandSole(b) /\ InHand(b)' = InHand(b) /\ attempt'[b] = attempt[b]
        BY <1>3, <1>7, <3>2 DEF InHand, Sole
      <4> QED
        BY <1>2, <2>1, <4>1 DEF HandSole
    <3> QED
      BY <3>1, <3>2
  <2>3. Alone'
    BY <1>5, <1>7 DEF Sole, Alone
  <2> QED
    BY <2>1, <2>2, <2>3 DEF Sole
<1> QED
  BY <1>2, <1>6, <1>7 DEF SentInv

\* An attempt that starts beside another is one of the mutex, and then so is
\* the other, or it counts as an overlap.
LEMMA StartSole ==
  ASSUME SentInv, AccountInv', NEW a \in Callers, Start(a)
  PROVE  SentInv'
<1>1. /\ PhaseOK(a) /\ attempt[a].pc \in {"idle", "queued"}
      /\ attempt[a] \in AttemptRecord
  BY AttemptTyped DEF SentInv, AccountInv, Phases, Start, MayStart, At
<1>2. /\ UNCHANGED <<txs, pool, unsure, queue>>
      /\ attempt' = [attempt EXCEPT ![a].pc = "events"]
  BY DEF Start, settleVars, Goto
<1>3. /\ attempt'[a] = [attempt[a] EXCEPT !.pc = "events"]
      /\ \A b \in Callers \ {a} : attempt'[b] = attempt[b]
  BY <1>2 DEF SentInv, AccountInv, Shape
<1>4. attempt'[a].pc = "events" /\ attempt'[a].taken = {} /\ attempt'[a].ops = <<>>
  BY <1>1, <1>3 DEF AttemptRecord, PhaseOK
<1>5. Active' = Active \cup {a} /\ a \notin Active
  BY <1>1, <1>3, <1>4 DEF Active
<1>6. a \in Ticks => queue # <<>> /\ Head(queue) = a
  <2>1. a \in Ticks => a \in Range(queue) /\ Head(queue) = a
    BY AttemptAssumption DEF SentInv, Mutex, Start, MayStart, At
  <2> QED
    BY <2>1 DEF Range
<1>7. Mutex'
  <2>1. \A b \in Ticks : At(b, "idle")' <=> At(b, "idle")
    BY <1>1, <1>3, <1>4, AttemptAssumption DEF At, Callers, Start, MayStart
  <2>2. \A b \in Ticks : b \in Active' => queue # <<>> /\ Head(queue) = b
    BY <1>5, <1>6 DEF SentInv, Mutex
  <2> QED
    BY <1>2, <2>1, <2>2 DEF SentInv, Mutex
<1>8. ASSUME ~overlapped' PROVE Sole /\ Alone'
  <2>1. ~overlapped /\ (Active = {} \/ (Active \cup {a}) \cap Debug = {})
    BY <1>8 DEF Start
  <2>2. Active # {} => a \in Ticks /\ Active \subseteq Ticks
    BY <2>1 DEF Active, Callers
  <2>3. Active = {}
    BY <1>5, <1>6, <2>2 DEF SentInv, Mutex
  <2> QED
    BY <1>5, <2>1, <2>3 DEF SentInv, Alone
<1>9. ASSUME Sole PROVE PendingSole' /\ TxSole' /\ \A b \in Callers : HandSole(b)'
  <2>1. /\ PendingSole' /\ TxSole' /\ Txs' = Txs
        /\ \A o, x : (Shares(o, x)' <=> Shares(o, x))
    BY <1>2, <1>9, Unsent
  <2>2. ASSUME NEW b \in Callers PROVE HandSole(b)'
    <3>1. CASE b = a
      <4>1. InHand(a)' = {}
        BY <1>4 DEF InHand, Range
      <4> QED
        BY <3>1, <4>1 DEF HandSole
    <3>2. CASE b # a
      <4>1. HandSole(b) /\ InHand(b)' = InHand(b) /\ attempt'[b] = attempt[b]
        BY <1>3, <1>9, <3>2 DEF InHand, Sole
      <4> QED
        BY <1>2, <2>1, <4>1 DEF HandSole
    <3> QED
      BY <3>1, <3>2
  <2> QED
    BY <2>1, <2>2
<1> QED
  BY <1>7, <1>8, <1>9 DEF SentInv, Sole

\* Events, the network and stuttering: no attempt moves, nothing is sent.
LEMMA OutsideSole ==
  ASSUME SentInv, AccountInv', UNCHANGED <<queue, attempt, unsure, overlapped>>,
         Txs' = Txs, \A o, x : x \in Txs /\ Shares(o, x)' => Shares(o, x),
         \A o \in Op : pool'[o] = "pending" => pool[o] = "pending",
         \A a \in Callers : InHand(a) \subseteq Op
  PROVE  SentInv'
<1>1. Active' = Active /\ Mutex'
  <2>1. Active' = Active
    BY DEF Active
  <2> QED
    BY <2>1 DEF SentInv, Mutex, At
<1>2. ASSUME Sole PROVE Alone' /\ PendingSole' /\ TxSole'
  BY <1>1, <1>2 DEF Sole, Alone, PendingSole, TxSole
<1>3. ASSUME Sole, NEW a \in Callers PROVE HandSole(a)'
  <2>1. HandSole(a) /\ InHand(a)' = InHand(a) /\ attempt'[a] = attempt[a]
    BY <1>3 DEF InHand, Sole
  <2>2. attempt[a].pc \in {"build", "send"} => \A o \in InHand(a) : pool'[o] # "pending"
    BY <2>1 DEF HandSole
  <2>3. \A o \in InHand(a), x \in Txs : Shares(o, x)' =>
          \/ o \in unsure
          \/ attempt[a].pc \in {"wait", "record"} /\ x = attempt[a].tx
    BY <2>1 DEF HandSole
  <2> QED
    BY <2>1, <2>2, <2>3 DEF HandSole
<1> QED
  BY <1>1, <1>2, <1>3 DEF SentInv, Sole

LEMMA SentStep == SentInv /\ [Step]_vars => SentInv'
<1> SUFFICES ASSUME SentInv, [Step]_vars PROVE SentInv'
  OBVIOUS
<1>a. AccountInv'
  BY AccountStep DEF SentInv
<1>b. \A a \in Callers : InHand(a) \subseteq Op
  BY AttemptTyped DEF SentInv, AccountInv, AttemptRecord, InHand, Range
<1>1. ASSUME NEW a \in Ticks, Tick(a) PROVE SentInv'
  BY <1>a, <1>1, TickSole
<1>2. ASSUME NEW a \in Callers, Start(a) PROVE SentInv'
  BY <1>a, <1>2, StartSole
<1>3. ASSUME NEW a \in Callers, AttemptStep(a) PROVE SentInv'
  BY <1>a, <1>3, OnwardSole, TakeSole, MarkSole, BuildSole, SendSole, EndSole,
     GivesBackSole DEF AttemptStep
<1>4. ASSUME NEW o \in Op, Settle(o) PROVE SentInv'
  <2>1. /\ UNCHANGED <<queue, attempt, unsure, overlapped, txs>>
        /\ pool' = [pool EXCEPT ![o] = SettledEntry(o)] /\ SettledEntry(o) # "pending"
    BY <1>4 DEF Settle, SettleOp, attemptVars, SettledEntry
  <2>2. \A p \in Op : pool'[p] = "pending" => pool[p] = "pending"
    BY <2>1 DEF SentInv, AccountInv, Shape
  <2>3. Txs' = Txs /\ \A p, x : x \in Txs /\ Shares(p, x)' => Shares(p, x)
    BY <2>1 DEF Txs, Shares, Live
  <2> QED
    BY <1>a, <1>b, <2>1, <2>2, <2>3, OutsideSole
<1>5. ASSUME NEW x \in Txs, Mine(x) \/ Revert(x) \/ Drop(x) PROVE SentInv'
  <2>1. UNCHANGED <<queue, attempt, unsure, overlapped, pool>>
    BY <1>5 DEF Mine, Revert, Drop, settleVars
  <2>2. PICK state \in {"mined", "reverted", "dropped"} : Ended(x, state)
    BY <1>5 DEF Mine, Revert, Drop
  <2>3. /\ Txs' = Txs /\ txs'[x].state = state
        /\ \A y \in Txs : /\ txs'[y].ops = txs[y].ops
                          /\ y # x => txs'[y].state = txs[y].state
    BY <2>2, EndedTx DEF SentInv, AccountInv, TxStates
  <2>4. \A o, y : y \in Txs /\ Shares(o, y)' => Shares(o, y)
    BY <2>3 DEF Shares, Live
  <2> QED
    BY <1>a, <1>b, <2>1, <2>3, <2>4, OutsideSole
<1>6. CASE UNCHANGED vars
  <2>1. UNCHANGED <<queue, attempt, unsure, overlapped, txs, pool>>
    BY <1>6 DEF vars, settleVars, attemptVars
  <2>2. Txs' = Txs /\ \A o, x : x \in Txs /\ Shares(o, x)' => Shares(o, x)
    BY <2>1 DEF Txs, Shares, Live
  <2> QED
    BY <1>a, <1>b, <2>1, <2>2, OutsideSole
<1> QED
  BY <1>1, <1>2, <1>3, <1>4, <1>5, <1>6 DEF Step, Network

LEMMA SentHolds == LifecycleSpec => []SentInv
<1>1. Setup => SentInv
  BY SentInit
<1>2. SentInv /\ [Step]_vars => SentInv'
  BY SentStep
<1> QED
  BY <1>1, <1>2, PTL DEF LifecycleSpec

\* As long as no attempt of the debug API runs beside another one, an operation
\* is in two live transactions only if it was given back while the first was
\* still on its way (bundle-manager.ts:71, bundle-processor.ts:230).
THEOREM NeverSentTwice == LifecycleSpec => []SentOnce
<1>1. SentInv => SentOnce
  <2> SUFFICES ASSUME SentInv, ~overlapped, NEW x \in Txs, NEW y \in Txs, x # y,
                      Live(x), Live(y), NEW o \in Range(txs[x].ops) \cap Range(txs[y].ops)
               PROVE  o \in unsure
    BY DEF SentOnce
  <2>1. o \in Op
    BY TxTyped DEF SentInv, AccountInv, Range
  <2> QED
    BY <2>1 DEF SentInv, Sole, TxSole, Shares
<1> QED
  BY <1>1, SentHolds, PTL

\* The mutex of the bundle manager: a tick that is under way is at the head of
\* the queue, so that no other tick is; and no tick waits outside the queue.
THEOREM TicksExclude == LifecycleSpec => []Mutex
<1>1. SentInv => Mutex
  BY DEF SentInv
<1> QED
  BY <1>1, SentHolds, PTL

-----------------------------------------------------------------------------
(* The rest of the type invariant *)

Rest ==
  /\ succeeded \subseteq landed
  /\ bundleTxs \subseteq Txs
  /\ \A a \in Callers : attempt[a].tx = 0 \/ attempt[a].tx \in Txs

LEMMA RestAttempt ==
  ASSUME AccountInv, Rest, NEW a \in Callers, Start(a) \/ Tick(a) \/ AttemptStep(a)
  PROVE  Rest'
<1>1. attempt \in [Callers -> AttemptRecord] /\ attempt[a] \in AttemptRecord
  BY DEF AccountInv, Shape
<1>2. /\ UNCHANGED <<succeeded, landed>> /\ (~Send(a) => txs' = txs)
      /\ ~Record(a) => bundleTxs' = bundleTxs
  BY DEF Start, Tick, AttemptStep, EventsDone, Take, MarkBundling, Build, Send,
         Receipt, Record, FailedOp, NonFatal, Fatal, LookUpEntry, WriteEntry, AllBack,
         settleVars, Chain
<1>3. \A b \in Callers : \/ attempt'[b].tx = attempt[b].tx \/ attempt'[b].tx = 0
                         \/ Send(a) /\ attempt'[b].tx = Len(txs')
  <2>1. CASE Send(a)
    BY <1>1, <2>1 DEF Send, AttemptRecord
  <2>2. CASE Finish(a)
    BY <1>1, <2>2 DEF Finish, IdleAttempt
  <2>3. CASE Take(a) \/ MarkBundling(a) \/ Build(a)
    <3>1. CASE \E S : attempt' = [attempt EXCEPT ![a].pc = "mark", ![a].taken = S]
      BY <1>1, <3>1 DEF AttemptRecord
    <3>2. CASE Goto(a, "build")
      BY <1>1, <3>2 DEF AttemptRecord, Goto
    <3>3. CASE \E ops : attempt' = [attempt EXCEPT ![a].pc = "send", ![a].ops = ops,
                                                   ![a].taken = {}]
      BY <1>1, <3>3 DEF AttemptRecord
    <3>4. Take(a) => Finish(a) \/ \E S : attempt' = [attempt EXCEPT ![a].pc = "mark",
                                                                    ![a].taken = S]
      BY Zenon DEF Take
    <3>5. MarkBundling(a) => Finish(a) \/ Goto(a, "build")
      BY Zenon DEF MarkBundling
    <3>6. Build(a) => Finish(a) \/ \E ops : attempt' = [attempt EXCEPT ![a].pc = "send",
                                                ![a].ops = ops, ![a].taken = {}]
      BY Zenon DEF Build, Decide
    <3> QED
      BY <2>2, <2>3, <3>1, <3>2, <3>3, <3>4, <3>5, <3>6
  <2>4. CASE Start(a) \/ Tick(a) \/ EventsDone(a) \/ Receipt(a) \/ NonFatal(a)
    <3>1. PICK pc : attempt' = [attempt EXCEPT ![a].pc = pc]
      BY <2>4 DEF Start, Tick, EventsDone, Receipt, NonFatal, Goto
    <3> QED
      BY <1>1, <3>1 DEF AttemptRecord
  <2>5. CASE LookUpEntry(a) \/ WriteEntry(a)
    <3>1. GiveBack(a) \/ attempt' = [attempt EXCEPT ![a].found = TRUE]
      BY <2>5 DEF LookUpEntry, WriteEntry
    <3>2. CASE GiveBack(a)
      <4>1. attempt'[a].tx = attempt[a].tx
        BY <1>1, <3>2 DEF AttemptRecord, GiveBack
      <4> QED
        BY <1>1, <3>2, <4>1 DEF GiveBack
    <3>3. CASE attempt' = [attempt EXCEPT ![a].found = TRUE]
      BY <1>1, <3>3 DEF AttemptRecord
    <3> QED
      BY <3>1, <3>2, <3>3
  <2> QED
    BY <2>1, <2>2, <2>3, <2>4, <2>5 DEF AttemptStep, Record, FailedOp, Fatal, AllBack
<1>4. Txs \subseteq Txs' /\ (Send(a) => Len(txs') \in Txs')
  <2>1. CASE Send(a)
    <3> DEFINE t == [ops |-> attempt[a].ops, state |-> "live",
                     private |-> txMode = "searcher"]
    <3>1. t \in TxRecord /\ txs' = Append(txs, t)
      BY <1>1, <2>1 DEF Send, AttemptRecord, TxRecord, TxStates
    <3> HIDE DEF t
    <3> QED
      BY <3>1, AddedTx DEF AccountInv
  <2>2. CASE ~Send(a)
    BY <1>2, <2>2 DEF Txs
  <2> QED
    BY <2>1, <2>2
<1>5. Record(a) => attempt[a].tx \in Txs /\ bundleTxs' = bundleTxs \cup {attempt[a].tx}
  BY DEF Record, At, AccountInv, Phases, PhaseOK
<1> QED
  BY <1>2, <1>3, <1>4, <1>5 DEF Rest

LEMMA RestStep == AccountInv /\ Rest /\ [Step]_vars => Rest'
<1> SUFFICES ASSUME AccountInv, Rest, [Step]_vars PROVE Rest'
  OBVIOUS
<1>1. ASSUME NEW a \in Callers, Start(a) \/ Tick(a) \/ AttemptStep(a) PROVE Rest'
  BY <1>1, RestAttempt
<1>2. ASSUME NEW o \in Op, Settle(o) PROVE Rest'
  BY <1>2 DEF Settle, SettleOp, attemptVars, Rest, Txs
<1>3. ASSUME NEW x \in Txs, Mine(x) \/ Revert(x) \/ Drop(x) PROVE Rest'
  <2>1. UNCHANGED <<attempt, bundleTxs>> /\ succeeded' \subseteq landed'
    BY <1>3 DEF Mine, Land, Revert, Drop, settleVars, Rest
  <2>2. PICK state \in TxStates : Ended(x, state)
    BY <1>3 DEF Mine, Revert, Drop, TxStates
  <2>3. Txs' = Txs
    BY <2>2, EndedTx DEF AccountInv
  <2> QED
    BY <2>1, <2>3 DEF Rest
<1>4. CASE UNCHANGED vars
  BY <1>4 DEF vars, settleVars, attemptVars, Rest, Txs
<1> QED
  BY <1>1, <1>2, <1>3, <1>4 DEF Step, Network, Callers

\* The shape of the state: who queues for the mutex, each of them once, and that
\* no record points to a transaction that does not exist.
THEOREM WellFormed == LifecycleSpec => []TypeOK
<1> DEFINE Inv == SentInv /\ Rest
<1>1. Setup => Inv
  BY SentInit DEF Setup, Rest, IdleAttempt, Callers
<1>2. Inv /\ [Step]_vars => Inv'
  BY SentStep, RestStep DEF SentInv
<1>3. Inv => TypeOK
  <2> SUFFICES ASSUME Inv PROVE TypeOK
    OBVIOUS
  <2>1. /\ pool \in [Op -> Status] /\ settled \subseteq landed
        /\ succeeded \subseteq landed /\ bundleTxs \subseteq Txs
    BY DEF SentInv, AccountInv, Shape, Rest
  <2>2. Range(queue) = {a \in Ticks : ~At(a, "idle")} /\ IsInjective(queue)
    <3>1. Range(queue) \subseteq Ticks
      BY DEF SentInv, Mutex, Range
    <3> QED
      BY <3>1 DEF SentInv, Mutex
  <2>3. ASSUME NEW a \in Callers
        PROVE  /\ attempt[a].taken \subseteq Op /\ Range(attempt[a].ops) \subseteq Op
               /\ attempt[a].tx \in 0 .. Len(txs)
    <3>1. attempt[a].taken \subseteq Op /\ Range(attempt[a].ops) \subseteq Op
      BY AttemptTyped DEF SentInv, AccountInv, AttemptRecord, Range
    <3>2. Txs = 1 .. Len(txs) /\ Len(txs) \in Nat
      BY DEF SentInv, AccountInv, Shape, Txs
    <3> QED
      BY <3>1, <3>2 DEF Rest
  <2> QED
    BY <2>1, <2>2, <2>3 DEF TypeOK
<1> HIDE DEF Inv
<1> QED
  BY <1>1, <1>2, <1>3, PTL DEF LifecycleSpec

=============================================================================
