---------------------------- MODULE BuilderProofs ----------------------------
(***************************************************************************)
(* Theorems about BundleBuilder, for every value of its constants: any     *)
(* finite set of operations, any bundle size and limits, and any outcome   *)
(* of the second validations, while the rest of the node submits, removes  *)
(* and gives back operations at every step.                                *)
(***************************************************************************)
EXTENDS BundleBuilder, Sums

(* Sequences *)

LEMMA ToSetAppend ==
  ASSUME NEW S, NEW s \in Seq(S), NEW e \in S
  PROVE  ToSet(Append(s, e)) = ToSet(s) \cup {e}
<1>1. Len(s) \in Nat /\ DOMAIN s = 1..Len(s) /\ DOMAIN Append(s, e) = 1..(Len(s) + 1)
  OBVIOUS
<1>2. \A i \in 1..Len(s) : Append(s, e)[i] = s[i]
  OBVIOUS
<1>3. Append(s, e)[Len(s) + 1] = e
  OBVIOUS
<1> QED
  BY <1>1, <1>2, <1>3 DEF ToSet

LEMMA ToSetParts ==
  ASSUME NEW S, NEW s \in Seq(S)
  PROVE  /\ ToSet(s) \subseteq S
         /\ ToSet(<<>>) = {}
         /\ s # <<>> => /\ Head(s) \in S
                        /\ Tail(s) \in Seq(S)
                        /\ ToSet(s) = {Head(s)} \cup ToSet(Tail(s))
<1>1. ToSet(s) \subseteq S /\ ToSet(<<>>) = {}
  BY DEF ToSet
<1>2. ASSUME s # <<>>
      PROVE  /\ Head(s) \in S /\ Tail(s) \in Seq(S)
             /\ ToSet(s) = {Head(s)} \cup ToSet(Tail(s))
  <2>1. /\ Head(s) \in S /\ Tail(s) \in Seq(S) /\ Head(s) = s[1]
        /\ Len(s) \in Nat /\ Len(s) > 0
        /\ DOMAIN s = 1..Len(s) /\ DOMAIN Tail(s) = 1..(Len(s) - 1)
        /\ \A i \in 1..(Len(s) - 1) : Tail(s)[i] = s[i + 1]
    BY <1>2
  <2>2. \A i \in 2..Len(s) : s[i] = Tail(s)[i - 1] /\ i - 1 \in 1..(Len(s) - 1)
    BY <2>1
  <2>3. ToSet(s) \subseteq {Head(s)} \cup ToSet(Tail(s))
    <3> SUFFICES ASSUME NEW x \in ToSet(s)
                 PROVE  x \in {Head(s)} \cup ToSet(Tail(s))
      OBVIOUS
    <3>1. PICK i \in 1..Len(s) : x = s[i]
      BY <2>1 DEF ToSet
    <3>2. i = 1 \/ i \in 2..Len(s)
      BY <2>1
    <3> QED
      BY <2>1, <2>2, <3>1, <3>2 DEF ToSet
  <2>4. {Head(s)} \cup ToSet(Tail(s)) \subseteq ToSet(s)
    <3>1. \A i \in 1..(Len(s) - 1) : i + 1 \in 1..Len(s)
      BY <2>1
    <3>2. 1 \in 1..Len(s)
      BY <2>1
    <3> QED
      BY <2>1, <3>1, <3>2 DEF ToSet
  <2> QED
    BY <2>1, <2>3, <2>4
<1> QED
  BY <1>1, <1>2

\* The entries taken are an enumeration of the operations marked.
LEMMA TakenAre ==
  ASSUME NEW S, IsFiniteSet(S), NEW s \in SetToSeqs(S)
  PROVE  s \in Seq(S) /\ ToSet(s) = S
<1> DEFINE n == Cardinality(S)
<1>1. n \in Nat
  BY FS_CardinalityType
<1>2. s \in [1..n -> S] /\ \A i, j \in 1..n : i # j => s[i] # s[j]
  BY DEF SetToSeqs
<1>3. IsFiniteSet(1..n) /\ Cardinality(1..n) = n
  BY <1>1, FS_Interval
<1>4. s \in Injection(1..n, S)
  BY <1>2 DEF Injection, IsInjective
<1>5. s \in Surjection(1..n, S)
  <2> HIDE DEF n
  <2> QED
    BY <1>3, <1>4, FS_Injection DEF n
<1>6. \A x \in S : \E i \in 1..n : s[i] = x
  BY <1>5 DEF Surjection
<1> QED
  BY <1>1, <1>2, <1>6 DEF ToSet

------------------------------------------------------------------------------
(* The shape of the state *)

LEMMA StatusType ==
  ASSUME NEW a
  PROVE  StatusOf(a) \in {"OK", "THROTTLED", "BANNED"}
BY DEF StatusOf, GetStatus

LEMMA SeenType ==
  ASSUME NEW e \in [Address -> ReputationEntry], NEW a, NEW action
  PROVE  SeenUpdate(e, a, action) \in [Address -> ReputationEntry]
<1> DEFINE f == SeenUpdate(e, a, action)
<1>1. \A x \in Address : e[x].opsSeen \in Nat /\ e[x].opsIncluded \in Nat
  BY DEF ReputationEntry
<1>2. \A x \in Address : x # Lower[a] => f[x] = e[x]
  BY DEF SeenUpdate
<1>3. Lower[a] \in Address => f[Lower[a]] \in ReputationEntry
  BY <1>1 DEF SeenUpdate, ReputationEntry
<1>4. f = [x \in Address |-> f[x]]
  BY DEF SeenUpdate
<1> QED
  BY <1>2, <1>3, <1>4

LEMMA BlameType ==
  ASSUME NEW e \in [Address -> ReputationEntry], NEW reason, NEW o
  PROVE  Blame(e, reason, o) \in [Address -> ReputationEntry]
<1>1. \A f \in [Address -> ReputationEntry] : \A a, action :
        Seen(f, a, action) \in [Address -> ReputationEntry]
  BY SeenType DEF Seen
<1> QED
  BY <1>1 DEF Blame

LEMMA EmptyType == EmptyResult \in Result
BY DEF EmptyResult, Result, Unset

LEMMA FetchType ==
  ASSUME NEW d \in [Address -> Nat \cup {Unset}], NEW o \in Op
  PROVE  FetchDeposit(d, Paymaster[o]) \in [Address -> Nat \cup {Unset}]
BY BuilderAssumption DEF FetchDeposit

LEMMA CountType ==
  ASSUME NEW c \in [Address -> Nat], NEW o \in Op
  PROVE  CountEntities(c, o) \in [Address -> Nat]
BY BuilderAssumption, AddressAssumption DEF CountEntities

LEMMA ChargeType ==
  ASSUME acc \in Result, NEW o \in Op, ~PaymasterHasInsufficientDeposit(o)
  PROVE  ChargeDeposit(acc.paymasterDeposit, o) \in [Address -> Nat \cup {Unset}]
<1> DEFINE d == acc.paymasterDeposit
<1>1. d \in [Address -> Nat \cup {Unset}]
  BY DEF Result
<1>2. CASE Paymaster[o] = NoAddress
  BY <1>1, <1>2 DEF ChargeDeposit
<1>3. CASE Paymaster[o] # NoAddress
  <2>1. Paymaster[o] \in Address /\ Prefund[o] \in Nat
    BY <1>3, BuilderAssumption
  <2>2. d[Paymaster[o]] - Prefund[o] \in Nat
    BY <1>1, <1>3, <2>1 DEF PaymasterHasInsufficientDeposit, Unset
  <2> QED
    BY <1>1, <2>1, <2>2 DEF ChargeDeposit
<1> QED
  BY <1>2, <1>3

LEMMA TuplesType ==
  ASSUME acc \in Result, NEW o \in Op
  PROVE  MergedTuples(o) \subseteq [signer : Address, delegate : Address]
<1>1. acc.tuples \subseteq [signer : Address, delegate : Address]
  BY DEF Result
<1>2. Signer[o] # NoAddress => Signer[o] \in Address /\ Delegate[o] \in Address
  BY BuilderAssumption
<1> QED
  BY <1>1, <1>2 DEF MergedTuples

\* The fields of a result, one by one.
LEMMA ResultFields ==
  ASSUME NEW r
  PROVE  r \in Result <=>
           /\ r = [bundle |-> r.bundle, tuples |-> r.tuples,
                   notIncluded |-> r.notIncluded, toRemove |-> r.toRemove,
                   totalGas |-> r.totalGas,
                   paymasterDeposit |-> r.paymasterDeposit,
                   stakedEntityCount |-> r.stakedEntityCount,
                   senders |-> r.senders]
           /\ r.bundle \in Seq(Op)
           /\ r.tuples \subseteq [signer : Address, delegate : Address]
           /\ r.notIncluded \in Seq(Op)
           /\ r.toRemove \in Seq([op : Op, reason : Dropped])
           /\ r.totalGas \in Nat
           /\ r.paymasterDeposit \in [Address -> Nat \cup {Unset}]
           /\ r.stakedEntityCount \in [Address -> Nat]
           /\ r.senders \subseteq Address
BY DEF Result

LEMMA DropType ==
  ASSUME acc \in Result, NEW o \in Op, NEW reason \in Dropped
  PROVE  Drop(o, reason) \in Result
<1>1. Append(acc.toRemove, [op |-> o, reason |-> reason])
        \in Seq([op : Op, reason : Dropped])
  BY DEF Result
<1> QED
  BY <1>1 DEF Drop, Result

LEMMA SkipType ==
  ASSUME acc \in Result, NEW o \in Op
  PROVE  Skip(o) \in Result
<1>1. Append(acc.notIncluded, o) \in Seq(Op)
  BY DEF Result
<1> QED
  BY <1>1 DEF Skip, Result

LEMMA ChargedType ==
  ASSUME acc \in Result, NEW o \in Op, ~PaymasterHasInsufficientDeposit(o)
  PROVE  Charged(o) \in Result
<1>1. ChargeDeposit(acc.paymasterDeposit, o) \in [Address -> Nat \cup {Unset}]
  BY ChargeType
<1>2. CountEntities(acc.stakedEntityCount, o) \in [Address -> Nat]
  BY CountType DEF Result
<1> QED
  BY <1>1, <1>2 DEF Charged, Result

LEMMA IncludeType ==
  ASSUME acc \in Result, NEW o \in Op, ~PaymasterHasInsufficientDeposit(o)
  PROVE  Include(o) \in Result
<1>1. Charged(o) \in Result
  BY ChargedType
<1>2. MergedTuples(o) \subseteq [signer : Address, delegate : Address]
  BY TuplesType
<1> HIDE DEF Charged
<1>3. Append(Charged(o).bundle, o) \in Seq(Op)
  <2>1. Charged(o).bundle \in Seq(Op)
    BY <1>1 DEF Result
  <2> QED
    BY <2>1
<1>4. Charged(o).totalGas + Gas[o] \in Nat /\ Sender[o] \in Address
  <2>1. Charged(o).totalGas \in Nat
    BY <1>1 DEF Result
  <2>2. Gas[o] \in Nat /\ Sender[o] \in Address
    BY BuilderAssumption
  <2> QED
    BY <2>1, <2>2
<1> QED
  BY <1>1, <1>2, <1>3, <1>4 DEF Include, Result

------------------------------------------------------------------------------
(* What a step does to the result *)

\* The operation at the head joins the bundle.
Joined(o) ==
  /\ pc = "judge"
  /\ entries # <<>>
  /\ o = Head(entries)
  /\ Sender[o] \notin acc.senders
  /\ ~AccessesOtherSendersStorage(o)
  /\ acc.totalGas + Gas[o] <= MaxBundleGas
  /\ ~TupleConflicts(o)
  /\ ~IsEntityThrottled(Factory[o], statuses.factory)
  /\ acc'.bundle = Append(acc.bundle, o)
  /\ acc'.tuples = MergedTuples(o)
  /\ acc'.totalGas = acc.totalGas + Gas[o]
  /\ acc'.senders = acc.senders \cup {Sender[o]}
  /\ acc'.stakedEntityCount = CountEntities(acc.stakedEntityCount, o)
  /\ acc'.notIncluded = acc.notIncluded
  /\ acc'.toRemove = acc.toRemove

\* The bundle stays as it is.
BundleKept ==
  /\ acc'.bundle = acc.bundle
  /\ acc'.tuples = acc.tuples
  /\ acc'.totalGas = acc.totalGas
  /\ acc'.senders = acc.senders
  /\ \A a \in Address : acc'.stakedEntityCount[a] >= acc.stakedEntityCount[a]

LEMMA CountGrows ==
  ASSUME acc \in Result, NEW o \in Op
  PROVE  \A a \in Address :
           CountEntities(acc.stakedEntityCount, o)[a] >= acc.stakedEntityCount[a]
<1> DEFINE c == acc.stakedEntityCount
           entity == IF Factory[o] # NoAddress THEN Factory[o] ELSE Paymaster[o]
<1>1. c \in [Address -> Nat]
  BY DEF Result
<1>2. CountEntities(c, o) = IF entity = NoAddress THEN c
                            ELSE [c EXCEPT ![entity] = c[entity] + 1]
  BY DEF CountEntities
<1> HIDE DEF c, entity
<1>3. \A a \in Address : CountEntities(c, o)[a] >= c[a]
  BY <1>1, <1>2
<1> QED
  BY <1>3 DEF c

\* Judging an entry either lets it join or leaves the bundle alone.  There always
\* is an entry to judge: ReadEntry has just looked at it.
LEMMA JudgeCases ==
  ASSUME acc \in Result, entries \in Seq(Op), entries # <<>>, JudgeEntry
  PROVE  acc' \in Result /\ (Joined(Head(entries)) \/ BundleKept)
<1> DEFINE o == Head(entries)
<1>1. o \in Op
  BY ToSetParts
<1>2. PICK verdict \in Verdicts :
        acc' = IF verdict # "ok" THEN Drop(o, verdict)
               ELSE IF IsBanned THEN Drop(o, "banned")
               ELSE IF ~ShouldInclude(o) THEN Skip(o)
               ELSE IF TupleConflicts(o) THEN Charged(o)
               ELSE Include(o)
  BY DEF JudgeEntry
<1> HIDE DEF o
<1>3. \A a \in Address : acc.stakedEntityCount[a] \in Nat
  BY DEF Result
<1>4. ASSUME NEW reason \in Dropped, acc' = Drop(o, reason)
      PROVE  acc' \in Result /\ BundleKept
  <2>1. acc' \in Result
    BY <1>1, <1>4, DropType
  <2>2. /\ acc'.bundle = acc.bundle /\ acc'.tuples = acc.tuples
        /\ acc'.totalGas = acc.totalGas /\ acc'.senders = acc.senders
        /\ acc'.stakedEntityCount = acc.stakedEntityCount
    BY <1>4 DEF Drop, Result
  <2> QED
    BY <1>3, <2>1, <2>2 DEF BundleKept
<1>5. ASSUME acc' = Skip(o)
      PROVE  acc' \in Result /\ BundleKept
  <2>1. acc' \in Result
    BY <1>1, <1>5, SkipType
  <2>2. /\ acc'.bundle = acc.bundle /\ acc'.tuples = acc.tuples
        /\ acc'.totalGas = acc.totalGas /\ acc'.senders = acc.senders
        /\ acc'.stakedEntityCount = acc.stakedEntityCount
    BY <1>5 DEF Skip, Result
  <2> QED
    BY <1>3, <2>1, <2>2 DEF BundleKept
<1>6. ASSUME acc' = Charged(o), ShouldInclude(o)
      PROVE  acc' \in Result /\ BundleKept
  <2>1. acc' \in Result
    BY <1>1, <1>6, ChargedType DEF ShouldInclude
  <2>2. \A a \in Address :
          CountEntities(acc.stakedEntityCount, o)[a] >= acc.stakedEntityCount[a]
    BY <1>1, CountGrows
  <2> QED
    BY <1>6, <2>1, <2>2 DEF Charged, BundleKept, Result
<1>7. ASSUME acc' = Include(o), ShouldInclude(o), ~TupleConflicts(o)
      PROVE  acc' \in Result /\ Joined(o)
  <2>1. acc' \in Result
    BY <1>1, <1>7, IncludeType DEF ShouldInclude
  <2>2. /\ acc'.bundle = Append(acc.bundle, o)
        /\ acc'.tuples = MergedTuples(o)
        /\ acc'.totalGas = acc.totalGas + Gas[o]
        /\ acc'.senders = acc.senders \cup {Sender[o]}
        /\ acc'.stakedEntityCount = CountEntities(acc.stakedEntityCount, o)
        /\ acc'.notIncluded = acc.notIncluded
        /\ acc'.toRemove = acc.toRemove
    BY <1>7 DEF Include, Charged, Result
  <2>3. acc.totalGas + Gas[o] <= MaxBundleGas
    <3>1. acc.totalGas \in Nat /\ Gas[o] \in Nat /\ MaxBundleGas \in Nat
      BY <1>1, BuilderAssumption DEF Result
    <3> QED
      BY <1>7, <3>1 DEF ShouldInclude, ExceedBundleGasLimit
  <2> QED
    BY <1>7, <2>1, <2>2, <2>3 DEF Joined, ShouldInclude, JudgeEntry, o
<1>8. verdict # "ok" => verdict \in Dropped
  BY BuilderAssumption DEF Dropped
<1>9. "banned" \in Dropped
  BY DEF Dropped
<1> QED
  BY <1>2, <1>4, <1>5, <1>6, <1>7, <1>8, <1>9 DEF o

------------------------------------------------------------------------------
\* An entry that is being judged was read before, and a missing factory was
\* read as "OK".
Ready ==
  pc = "judge" =>
    /\ entries # <<>>
    /\ Factory[Head(entries)] = NoAddress => statuses.factory = "OK"

LEMMA OpsOfParts ==
  ASSUME NEW s \in Seq([op : Op, reason : Dropped]), s # <<>>
  PROVE  OpsOf(s) = {Head(s).op} \cup OpsOf(Tail(s))
BY ToSetParts DEF OpsOf

\* The operations in the lists of createBundle and of its hook.
LEMMA ListedOps ==
  ASSUME TypeOK
  PROVE  /\ ToSet(entries) \subseteq Op /\ Bundled \subseteq Op
         /\ ToSet(acc.notIncluded) \subseteq Op
         /\ OpsOf(acc.toRemove) \subseteq Op /\ OpsOf(todo) \subseteq Op
<1>1. /\ entries \in Seq(Op) /\ acc.bundle \in Seq(Op) /\ acc.notIncluded \in Seq(Op)
      /\ acc.toRemove \in Seq([op : Op, reason : Dropped])
      /\ todo \in Seq([op : Op, reason : Dropped])
  BY DEF TypeOK, Result
<1>2. \A s \in Seq([op : Op, reason : Dropped]) : OpsOf(s) \subseteq Op
  <2> SUFFICES ASSUME NEW s \in Seq([op : Op, reason : Dropped]), NEW r \in ToSet(s)
               PROVE  r.op \in Op
    BY DEF OpsOf
  <2>1. ToSet(s) \subseteq [op : Op, reason : Dropped]
    BY ToSetParts
  <2> QED
    BY <2>1
<1> QED
  BY <1>1, <1>2, ToSetParts DEF Bundled

LEMMA InitTyped == Init => TypeOK /\ Ready
<1> SUFFICES ASSUME Init PROVE TypeOK /\ Ready
  OBVIOUS
<1>1. /\ pool \in [Op -> {"absent", "pending", "bundling"}]
      /\ reputationEntries \in [Address -> ReputationEntry]
  BY DEF Init, ZeroEntry, ReputationEntry
<1>2. acc \in Result
  BY EmptyType DEF Init
<1> QED
  BY <1>1, <1>2 DEF Init, TypeOK, Ready

LEMMA TypeStep == TypeOK /\ Ready /\ [Next]_vars => TypeOK' /\ Ready'
<1> SUFFICES ASSUME TypeOK, Ready, [Next]_vars
             PROVE  TypeOK' /\ Ready'
  OBVIOUS
<1> USE DEF TypeOK, Ready
<1>1. CASE TakeEntries
  <2>1. PICK S \in SUBSET Pending :
          /\ entries' \in SetToSeqs(S)
          /\ pool' = [o \in Op |-> IF o \in S THEN "bundling" ELSE pool[o]]
    BY <1>1 DEF TakeEntries
  <2>2. entries' \in Seq(Op)
    <3>1. S \subseteq Op /\ IsFiniteSet(S)
      BY BuilderAssumption, FS_Subset DEF Pending
    <3>2. entries' \in Seq(S)
      BY <2>1, <3>1, TakenAre
    <3> QED
      BY <3>1, <3>2
  <2>3. pool' \in [Op -> {"absent", "pending", "bundling"}]
    BY <2>1
  <2> QED
    BY <1>1, <2>2, <2>3, EmptyType DEF TakeEntries
<1>2. CASE GetKnownSenders
  <2>1. knownSenders' \subseteq Address
    BY <1>2, BuilderAssumption, AddressAssumption DEF GetKnownSenders
  <2> QED
    BY <1>2, <2>1 DEF GetKnownSenders
<1>3. CASE ReadEntry
  <2>1. Head(entries) \in Op
    BY <1>3, ToSetParts DEF ReadEntry
  <2>2. acc' \in Result
    <3>1. FetchDeposit(acc.paymasterDeposit, Paymaster[Head(entries)])
            \in [Address -> Nat \cup {Unset}]
      BY <2>1, FetchType DEF Result
    <3> QED
      BY <1>3, <3>1 DEF ReadEntry, Result
  <2>3. statuses' \in [paymaster : {"OK", "THROTTLED", "BANNED"},
                       factory : {"OK", "THROTTLED", "BANNED"}]
    BY <1>3, StatusType DEF ReadEntry
  <2>4. Factory[Head(entries)] = NoAddress => statuses'.factory = "OK"
    BY <1>3 DEF ReadEntry, StatusOf
  <2> QED
    BY <1>3, <2>2, <2>3, <2>4 DEF ReadEntry
<1>17. CASE BalanceRejects
  <2>1. lost' \subseteq Op
    BY <1>17, ListedOps DEF BalanceRejects, Held, Bundled
  <2>2. /\ UNCHANGED <<pool, reputationEntries, entries, knownSenders, statuses, acc, todo, sent>>
        /\ pc' = "idle"
    BY <1>17 DEF BalanceRejects
  <2> QED
    BY <2>1, <2>2
<1>4. CASE JudgeEntry
  <2>1. entries # <<>>
    BY <1>4 DEF JudgeEntry
  <2>2. acc' \in Result
    BY <1>4, <2>1, JudgeCases
  <2>3. entries' \in Seq(Op)
    BY <1>4, <2>1, ToSetParts DEF JudgeEntry
  <2>4. lost' \subseteq Op
    BY <1>4, <2>1, ToSetParts DEF JudgeEntry, Held
  <2> QED
    BY <1>4, <2>2, <2>3, <2>4 DEF JudgeEntry
<1>5. CASE BeginHook
  BY <1>5 DEF BeginHook, Result
<1>6. CASE SendBack
  <2>1. entries' \in Seq(Op) /\ Head(entries) \in Op
    BY <1>6, ToSetParts DEF SendBack
  <2> QED
    BY <1>6, <2>1 DEF SendBack
<1>7. CASE BeginRemovals
  BY <1>7 DEF BeginRemovals
<1>8. CASE RemoveFailed
  <2>1. todo' \in Seq([op : Op, reason : Dropped])
    BY <1>8, ToSetParts DEF RemoveFailed
  <2>2. reputationEntries' \in [Address -> ReputationEntry]
    BY <1>8, BlameType DEF RemoveFailed
  <2> QED
    BY <1>8, <2>1, <2>2 DEF RemoveFailed, RemoveFromPool
<1>9. CASE RemoveBanned
  <2>1. todo' \in Seq([op : Op, reason : Dropped])
    BY <1>9, ToSetParts DEF RemoveBanned
  <2> QED
    BY <1>9, <2>1 DEF RemoveBanned, RemoveFromPool
<1>10. ToSet(acc.bundle) \subseteq Op
  BY ToSetParts DEF Result
<1>11. CASE RemoveAndReturn
  <2>1. sent' \subseteq Op /\ pc' = "idle"
    BY <1>10, <1>11 DEF RemoveAndReturn, Return
  <2>2. /\ pool' \in [Op -> {"absent", "pending", "bundling"}]
        /\ todo' = <<>>
        /\ UNCHANGED <<reputationEntries, entries, knownSenders, statuses, acc>>
    BY <1>11 DEF RemoveAndReturn, RemoveFromPool
  <2>3. lost' \subseteq Op
    <3>1. OpsOf(Tail(todo)) \subseteq Op
      BY <1>11, ListedOps, OpsOfParts DEF RemoveAndReturn
    <3> QED
      BY <1>11, <3>1 DEF RemoveAndReturn, Held
  <2> QED
    BY <2>1, <2>2, <2>3
<1>12. CASE HookThrows
  <2>1. lost' \subseteq Op
    BY <1>10, <1>12, ListedOps DEF HookThrows, Held
  <2>2. /\ UNCHANGED <<pool, reputationEntries, entries, knownSenders, statuses, acc, sent>>
        /\ pc' = "idle" /\ todo' = <<>>
    BY <1>12 DEF HookThrows
  <2> QED
    BY <2>1, <2>2
<1>13. CASE EndHook
  BY <1>10, <1>13 DEF EndHook, Return
<1>14. ASSUME NEW o \in Op, Submit(o) \/ RemoveElsewhere(o) \/ GiveBack(o)
       PROVE  TypeOK' /\ Ready'
  BY <1>14 DEF Submit, RemoveElsewhere, GiveBack
<1>15. ASSUME NEW a \in Address, SeenElsewhere(a)
       PROVE  TypeOK' /\ Ready'
  <2>1. reputationEntries' \in [Address -> ReputationEntry]
    BY <1>15, SeenType DEF SeenElsewhere
  <2> QED
    BY <1>15, <2>1 DEF SeenElsewhere
<1>16. CASE UNCHANGED vars
  BY <1>16 DEF vars
<1> QED
  BY <1>1, <1>2, <1>3, <1>4, <1>5, <1>6, <1>7, <1>8, <1>9, <1>11, <1>12, <1>13,
     <1>14, <1>15, <1>16, <1>17 DEF Next, CreateBundle, Elsewhere

\* The variables keep their types: in particular no charge takes a paymaster's
\* remaining deposit below zero.
THEOREM TypeCorrect == Spec => []TypeOK
<1>1. Init => TypeOK /\ Ready
  BY InitTyped
<1>2. TypeOK /\ Ready /\ [Next]_vars => (TypeOK /\ Ready)'
  BY TypeStep
<1> QED
  BY <1>1, <1>2, PTL DEF Spec

------------------------------------------------------------------------------
(* The bundle *)

LEMMA AccSteps ==
  ASSUME TypeOK, Ready, [Next]_vars
  PROVE  \/ TakeEntries /\ acc' = EmptyResult
         \/ JudgeEntry /\ Joined(Head(entries)) /\ Head(entries) \in Op
         \/ BundleKept
<1> USE DEF TypeOK
<1>1. CASE TakeEntries
  BY <1>1 DEF TakeEntries
<1>2. CASE JudgeEntry
  <2>1. entries # <<>>
    BY <1>2 DEF JudgeEntry, Ready
  <2> QED
    BY <1>2, <2>1, JudgeCases, ToSetParts
<1>3. CASE ReadEntry
  <2>1. /\ acc'.bundle = acc.bundle /\ acc'.tuples = acc.tuples
        /\ acc'.totalGas = acc.totalGas /\ acc'.senders = acc.senders
        /\ acc'.stakedEntityCount = acc.stakedEntityCount
    BY <1>3 DEF ReadEntry, Result
  <2>2. \A a \in Address : acc.stakedEntityCount[a] \in Nat
    BY DEF Result
  <2> QED
    BY <2>1, <2>2 DEF BundleKept
<1>4. ASSUME UNCHANGED acc PROVE BundleKept
  <2>1. \A a \in Address : acc.stakedEntityCount[a] \in Nat
    BY DEF Result
  <2> QED
    BY <1>4, <2>1 DEF BundleKept
<1>5. \/ TakeEntries \/ JudgeEntry \/ ReadEntry \/ UNCHANGED acc
  BY DEF Next, CreateBundle, Elsewhere, GetKnownSenders, BalanceRejects, BeginHook,
         SendBack, BeginRemovals, RemoveFailed, RemoveBanned, RemoveAndReturn, HookThrows,
         EndHook, Submit, RemoveElsewhere, GiveBack, SeenElsewhere, vars
<1> QED
  BY <1>1, <1>2, <1>3, <1>4, <1>5

LEMMA EmptyBundle ==
  ASSUME acc = EmptyResult
  PROVE  Bundled = {} /\ acc.tuples = {} /\ acc.totalGas = 0 /\ acc.senders = {}
BY DEF Bundled, EmptyResult, ToSet

LEMMA JoinedBundle ==
  ASSUME acc \in Result, NEW o \in Op, Joined(o)
  PROVE  Bundled' = Bundled \cup {o}
BY ToSetAppend DEF Joined, Bundled, Result

\* What the running totals of the result say of the bundle: the senders are
\* those of its operations at least, so that none joins twice, and totalGas is
\* the gas of all of them.
Accounted ==
  /\ IsFiniteSet(Bundled)
  /\ Cardinality(Bundled) = Len(acc.bundle)
  /\ \A o \in Bundled : Sender[o] \in acc.senders
  /\ acc.totalGas = Sum(Gas, Bundled)
  /\ acc.totalGas <= MaxBundleGas

LEMMA EmptyAccounted == acc = EmptyResult => Accounted
<1> SUFFICES ASSUME acc = EmptyResult PROVE Accounted
  OBVIOUS
<1>1. acc.bundle = <<>>
  BY DEF EmptyResult
<1>2. MaxBundleGas \in Nat
  BY BuilderAssumption
<1>3. Bundled = {} /\ acc.totalGas = 0
  BY EmptyBundle
<1>4. IsFiniteSet(Bundled) /\ Cardinality(Bundled) = Len(acc.bundle)
  BY <1>1, <1>3, FS_EmptySet
<1>5. acc.totalGas = Sum(Gas, Bundled)
  BY <1>3, SumEmpty
<1> QED
  BY <1>2, <1>3, <1>4, <1>5 DEF Accounted

LEMMA AccountedStep ==
  TypeOK /\ Ready /\ Accounted /\ [Next]_vars => Accounted'
<1> SUFFICES ASSUME TypeOK, Ready, Accounted, [Next]_vars
             PROVE  Accounted'
  OBVIOUS
<1>1. CASE acc' = EmptyResult
  <2>1. (acc = EmptyResult => Accounted)'
    BY EmptyAccounted, PTL
  <2> QED
    BY <1>1, <2>1
<1>2. CASE BundleKept
  BY <1>2 DEF BundleKept, Accounted, Bundled
<1>3. CASE Joined(Head(entries)) /\ Head(entries) \in Op
  <2> DEFINE o == Head(entries)
  <2>1. Bundled' = Bundled \cup {o} /\ o \in Op /\ Joined(o)
    BY <1>3, JoinedBundle DEF TypeOK
  <2> HIDE DEF o
  <2>2. o \notin Bundled
    BY <2>1 DEF Accounted, Joined
  <2>3. IsFiniteSet(Bundled') /\ Cardinality(Bundled') = Cardinality(Bundled) + 1
    BY <2>1, <2>2, FS_AddElement DEF Accounted
  <2>4. Len(acc'.bundle) = Len(acc.bundle) + 1
    BY <2>1 DEF Joined, TypeOK, Result
  <2>5. \A p \in Bundled' : Sender[p] \in acc'.senders
    BY <2>1 DEF Accounted, Joined
  <2>6. Sum(Gas, Bundled') = Gas[o] + Sum(Gas, Bundled)
    <3>1. Bundled \subseteq Op
      BY ToSetParts DEF Bundled, TypeOK, Result
    <3>2. \A p \in Bundled : Gas[p] \in Int
      BY <3>1, BuilderAssumption
    <3>3. Gas[o] \in Int
      BY <2>1, BuilderAssumption
    <3> QED
      BY <2>1, <2>2, <3>2, <3>3, SumInsert DEF Accounted
  <2>7. /\ acc'.totalGas = acc.totalGas + Gas[o]
        /\ acc.totalGas \in Nat /\ Gas[o] \in Nat
        /\ acc.totalGas + Gas[o] <= MaxBundleGas
    BY <2>1, BuilderAssumption DEF Joined, TypeOK, Result
  <2>8. acc'.totalGas = Sum(Gas, Bundled') /\ acc'.totalGas <= MaxBundleGas
    BY <2>6, <2>7 DEF Accounted
  <2> QED
    BY <2>3, <2>4, <2>5, <2>8 DEF Accounted
<1> QED
  BY <1>1, <1>2, <1>3, AccSteps

LEMMA GasIsSum == MapThenSumSet(GasOf, Bundled) = Sum(Gas, Bundled)
BY DEF MapThenSumSet, MapThenFoldSet, SumFcn, Sum, Pick, GasOf

\* The bundle's operations together, not only the last of them, fit the gas limit
\* of a bundle, and none of them is in it twice.
THEOREM GasFits == Spec => []GasWithinLimit
<1>1. Init => TypeOK /\ Ready /\ Accounted
  BY InitTyped, EmptyAccounted DEF Init
<1>2. TypeOK /\ Ready /\ Accounted /\ [Next]_vars => (TypeOK /\ Ready /\ Accounted)'
  BY TypeStep, AccountedStep
<1>3. Accounted => GasWithinLimit
  BY GasIsSum DEF Accounted, GasWithinLimit
<1> QED
  BY <1>1, <1>2, <1>3, PTL DEF Spec

\* The authorization list with one more operation: the tuple that was there
\* already, or a new one that no other has the signer of.
LEMMA TuplesStep ==
  TypeOK /\ Ready /\ TuplesAgree /\ [Next]_vars => TuplesAgree'
<1> SUFFICES ASSUME TypeOK, Ready, TuplesAgree, [Next]_vars
             PROVE  TuplesAgree'
  OBVIOUS
<1>1. CASE acc' = EmptyResult
  <2>1. Bundled' = {} /\ acc'.tuples = {}
    BY <1>1 DEF Bundled, EmptyResult, ToSet
  <2> QED
    BY <2>1 DEF TuplesAgree
<1>2. CASE BundleKept
  BY <1>2 DEF BundleKept, TuplesAgree, Bundled
<1>3. CASE Joined(Head(entries)) /\ Head(entries) \in Op
  <2> DEFINE o == Head(entries)
  <2>1. Bundled' = Bundled \cup {o} /\ o \in Op /\ Joined(o)
    BY <1>3, JoinedBundle DEF TypeOK
  <2> HIDE DEF o
  <2>2. /\ acc'.tuples = MergedTuples(o)
        /\ \A t \in acc.tuples : t.signer = Signer[o] =>
             Lower[t.delegate] = Lower[Delegate[o]]
    BY <2>1 DEF Joined, TupleConflicts
  <2>3. \A t, u \in acc'.tuples : t.signer = u.signer => t = u
    BY <2>2 DEF MergedTuples, TuplesAgree
  <2>4. acc.tuples \subseteq acc'.tuples
    BY <2>2 DEF MergedTuples
  <2>5. Signer[o] # NoAddress =>
          \E t \in acc'.tuples : t.signer = Signer[o]
                                 /\ Lower[t.delegate] = Lower[Delegate[o]]
    BY <2>2 DEF MergedTuples
  <2>6. \A p \in Bundled' : Signer[p] # NoAddress =>
          \E t \in acc'.tuples : t.signer = Signer[p]
                                 /\ Lower[t.delegate] = Lower[Delegate[p]]
    BY <2>1, <2>4, <2>5 DEF TuplesAgree
  <2> QED
    BY <2>3, <2>6 DEF TuplesAgree
<1> QED
  BY <1>1, <1>2, <1>3, AccSteps

\* The bundle's authorization list has one tuple per signer, and the one that
\* every bundled operation relies on.
THEOREM OneTuplePerSigner == Spec => []TuplesAgree
<1>1. Init => TypeOK /\ Ready /\ TuplesAgree
  BY InitTyped, EmptyBundle DEF Init, TuplesAgree
<1>2. TypeOK /\ Ready /\ TuplesAgree /\ [Next]_vars
        => (TypeOK /\ Ready /\ TuplesAgree)'
  BY TypeStep, TuplesStep
<1> QED
  BY <1>1, <1>2, PTL DEF Spec

------------------------------------------------------------------------------
(* Storage *)

\* The senders an entry is checked against are those of every entry that is still
\* to be judged, and of every bundled one, as long as it is marked 'bundling';
\* and what was checked for a bundled operation stays true, since the senders are
\* read once per bundle, before the first entry.
SendersKnown ==
  /\ pc = "known" => acc = EmptyResult
  /\ pc \in {"read", "judge"} =>
       \A p \in ToSet(entries) :
         pool[p] = "bundling" => Lower[Sender[p]] \in knownSenders
  /\ \A p \in Bundled :
       pool[p] = "bundling" => Lower[Sender[p]] \in knownSenders
  /\ \A o \in Bundled :
       (Touches[o] \ {Lower[Sender[o]]}) \cap knownSenders = {}

\* Only TakeEntries marks an operation 'bundling'.
LEMMA MarkedOnce ==
  ASSUME TypeOK, [Next]_vars, ~TakeEntries
  PROVE  \A o \in Op : pool'[o] = "bundling" => pool[o] = "bundling"
BY DEF TypeOK, Next, CreateBundle, Elsewhere, GetKnownSenders, ReadEntry, BalanceRejects,
       JudgeEntry, BeginHook, SendBack, BeginRemovals, RemoveFailed, RemoveBanned,
       RemoveAndReturn, HookThrows, EndHook, RemoveFromPool, Submit,
       RemoveElsewhere, GiveBack, SeenElsewhere, vars

LEMMA SendersStep ==
  TypeOK /\ Ready /\ SendersKnown /\ [Next]_vars => SendersKnown'
<1> SUFFICES ASSUME TypeOK, Ready, SendersKnown, [Next]_vars
             PROVE  SendersKnown'
  OBVIOUS
<1>1. Bundled \subseteq Op /\ ToSet(entries) \subseteq Op
  BY ToSetParts DEF Bundled, TypeOK, Result
<1>2. CASE TakeEntries
  <2>1. acc' = EmptyResult /\ Bundled' = {} /\ pc' = "known"
    BY <1>2 DEF TakeEntries, Bundled, EmptyResult, ToSet
  <2> QED
    BY <2>1 DEF SendersKnown
<1>3. CASE GetKnownSenders
  <2>1. acc' = EmptyResult /\ Bundled' = {} /\ pc' = "read"
    BY <1>3, EmptyBundle DEF GetKnownSenders, SendersKnown, Bundled
  <2>2. /\ entries' = entries /\ pool' = pool
        /\ \A p \in Op : pool[p] = "bundling" => Lower[Sender[p]] \in knownSenders'
    BY <1>3 DEF GetKnownSenders
  <2> QED
    BY <1>1, <2>1, <2>2 DEF SendersKnown
<1>4. CASE JudgeEntry /\ Joined(Head(entries)) /\ Head(entries) \in Op
  <2> DEFINE o == Head(entries)
  <2>1. Bundled' = Bundled \cup {o} /\ o \in Op /\ Joined(o)
    BY <1>4, JoinedBundle DEF TypeOK
  <2>2. /\ pc = "judge" /\ pc' = "read" /\ entries # <<>>
        /\ entries' = Tail(entries)
        /\ pool' = pool /\ knownSenders' = knownSenders
    BY <1>4 DEF JudgeEntry, Joined
  <2>3. o \in ToSet(entries) /\ ToSet(entries') \subseteq ToSet(entries)
    BY <2>2, ToSetParts DEF TypeOK
  <2>4. (Touches[o] \ {Lower[Sender[o]]}) \cap knownSenders = {}
    BY <2>1 DEF Joined, AccessesOtherSendersStorage
  <2> HIDE DEF o
  <2> QED
    BY <2>1, <2>2, <2>3, <2>4 DEF SendersKnown
<1>5. ASSUME ~TakeEntries, ~GetKnownSenders, BundleKept
      PROVE  SendersKnown'
  <2>1. Bundled' = Bundled
    BY <1>5 DEF BundleKept, Bundled
  <2>2. \A p \in Op : pool'[p] = "bundling" => pool[p] = "bundling"
    BY <1>5, MarkedOnce
  <2>3. /\ knownSenders' = knownSenders
        /\ pc' = "known" => pc = "known" /\ acc' = acc
    BY <1>5 DEF Next, CreateBundle, Elsewhere, ReadEntry, BalanceRejects, JudgeEntry, BeginHook,
                SendBack, BeginRemovals, RemoveFailed, RemoveBanned,
                RemoveAndReturn, HookThrows, EndHook, Return, Submit,
                RemoveElsewhere, GiveBack, SeenElsewhere, vars
  <2>4. ASSUME pc' \in {"read", "judge"}
        PROVE  pc \in {"read", "judge"} /\ ToSet(entries') \subseteq ToSet(entries)
    <3>1. CASE JudgeEntry
      <4>1. entries # <<>> /\ entries' = Tail(entries)
        BY <3>1 DEF JudgeEntry, Ready
      <4> QED
        BY <3>1, <4>1, ToSetParts DEF JudgeEntry, TypeOK
    <3>2. CASE ~JudgeEntry
      BY <1>5, <2>4, <3>2
         DEF Next, CreateBundle, Elsewhere, ReadEntry, BalanceRejects, BeginHook, SendBack,
             BeginRemovals, RemoveFailed, RemoveBanned, RemoveAndReturn,
             HookThrows, EndHook, Return, Submit, RemoveElsewhere, GiveBack,
             SeenElsewhere, vars
    <3> QED
      BY <3>1, <3>2
  <2> QED
    BY <1>1, <2>1, <2>2, <2>3, <2>4 DEF SendersKnown
<1> QED
  BY <1>2, <1>3, <1>4, <1>5, AccSteps

\* STO-041: no operation of the bundle reads the storage of the sender of another
\* one, whichever of the two was judged first, unless that one has meanwhile been
\* removed from the pool.
THEOREM StorageApart == Spec => []StorageIsolated
<1>1. Init => TypeOK /\ Ready /\ SendersKnown
  BY InitTyped, EmptyBundle, ToSetParts DEF Init, SendersKnown
<1>2. TypeOK /\ Ready /\ SendersKnown /\ [Next]_vars
        => (TypeOK /\ Ready /\ SendersKnown)'
  BY TypeStep, SendersStep
<1>3. TypeOK /\ SendersKnown => StorageIsolated
  BY DEF SendersKnown, StorageIsolated
<1> QED
  BY <1>1, <1>2, <1>3, PTL DEF Spec

------------------------------------------------------------------------------
(* Throttled factories *)

\* The count that throttling compares is not below the operations of the bundle
\* that use the factory, also when a paymaster is counted under the same address.
FactoriesCounted ==
  /\ IsFiniteSet(Bundled)
  /\ \A a \in Address :
       Cardinality(UsersOf(Factory, a)) <= acc.stakedEntityCount[a]

LEMMA FactoriesStep ==
  TypeOK /\ Ready /\ FactoriesCounted /\ [Next]_vars => FactoriesCounted'
<1> SUFFICES ASSUME TypeOK, Ready, FactoriesCounted, [Next]_vars
             PROVE  FactoriesCounted'
  OBVIOUS
<1>0. \A a \in Address : /\ acc.stakedEntityCount[a] \in Nat
                         /\ acc'.stakedEntityCount[a] \in Nat
  BY TypeStep DEF TypeOK, Result
<1>1. CASE acc' = EmptyResult
  <2>1. Bundled' = {}
    BY <1>1 DEF Bundled, EmptyResult, ToSet
  <2>2. \A a \in Address : UsersOf(Factory, a)' = {}
    BY <2>1 DEF UsersOf
  <2> QED
    BY <1>0, <2>1, <2>2, FS_EmptySet DEF FactoriesCounted
<1>2. CASE BundleKept
  <2>1. Bundled' = Bundled
    BY <1>2 DEF BundleKept, Bundled
  <2>2. ASSUME NEW a \in Address
        PROVE  Cardinality(UsersOf(Factory, a)') <= acc'.stakedEntityCount[a]
    <3>1. UsersOf(Factory, a)' = UsersOf(Factory, a) /\ IsFiniteSet(UsersOf(Factory, a))
      BY <2>1, FS_Subset DEF UsersOf, FactoriesCounted
    <3>2. Cardinality(UsersOf(Factory, a)) \in Nat
      BY <3>1, FS_CardinalityType
    <3> QED
      BY <1>0, <1>2, <3>1, <3>2 DEF FactoriesCounted, BundleKept
  <2> QED
    BY <2>1, <2>2 DEF FactoriesCounted
<1>3. CASE Joined(Head(entries)) /\ Head(entries) \in Op
  <2> DEFINE o == Head(entries)
  <2>1. Bundled' = Bundled \cup {o} /\ o \in Op /\ Joined(o)
    BY <1>3, JoinedBundle DEF TypeOK
  <2> HIDE DEF o
  <2>2. IsFiniteSet(Bundled')
    BY <2>1, FS_AddElement DEF FactoriesCounted
  <2>3. ASSUME NEW a \in Address
        PROVE  Cardinality(UsersOf(Factory, a)') <= acc'.stakedEntityCount[a]
    <3> DEFINE U == UsersOf(Factory, a)
    <3>1. IsFiniteSet(U) /\ Cardinality(U) \in Nat
      BY FS_Subset, FS_CardinalityType DEF UsersOf, FactoriesCounted
    <3>2. acc'.stakedEntityCount[a] >= acc.stakedEntityCount[a]
      BY <2>1, CountGrows DEF Joined, TypeOK
    <3>3. CASE Factory[o] = a
      <4>1. UsersOf(Factory, a)' = U \cup {o}
        BY <2>1, <3>3 DEF UsersOf
      <4>2. Cardinality(U \cup {o}) <= Cardinality(U) + 1
        BY <3>1, FS_AddElement
      <4>3. acc'.stakedEntityCount[a] = acc.stakedEntityCount[a] + 1
        BY <2>1, <3>3, AddressAssumption DEF Joined, CountEntities, TypeOK, Result
      <4>4. IsFiniteSet(U \cup {o}) /\ Cardinality(U \cup {o}) \in Nat
        BY <3>1, FS_AddElement, FS_CardinalityType
      <4> QED
        BY <1>0, <3>1, <4>1, <4>2, <4>3, <4>4 DEF FactoriesCounted
    <3>4. CASE Factory[o] # a
      <4>1. UsersOf(Factory, a)' = U
        BY <2>1, <3>4 DEF UsersOf
      <4> QED
        BY <1>0, <3>1, <3>2, <4>1 DEF FactoriesCounted
    <3> QED
      BY <3>3, <3>4
  <2> QED
    BY <2>2, <2>3 DEF FactoriesCounted
<1> QED
  BY <1>1, <1>2, <1>3, AccSteps

LEMMA AppendIsLonger ==
  ASSUME NEW S, NEW s \in Seq(S), NEW e
  PROVE  s # Append(s, e)
<1>1. Len(Append(s, e)) = Len(s) + 1 /\ Len(s) \in Nat
  OBVIOUS
<1> QED
  BY <1>1

\* GREP-020 as isEntityThrottled compares: a factory that was throttled when its
\* operation was looked at is used under that spelling by fewer than
\* ThrottledEntityBundleCount operations of the bundle that the new one joins.
\* Two spellings of one factory are counted apart.
THEOREM ThrottledFactoriesCapped == Spec => ThrottledFactoryCap
<1>1. Init => TypeOK /\ Ready /\ FactoriesCounted
  <2> SUFFICES ASSUME Init PROVE TypeOK /\ Ready /\ FactoriesCounted
    OBVIOUS
  <2>1. Bundled = {} /\ \A a \in Address : UsersOf(Factory, a) = {}
    BY EmptyBundle DEF Init, UsersOf
  <2>2. \A a \in Address : acc.stakedEntityCount[a] = 0
    BY DEF Init, EmptyResult
  <2> QED
    BY <2>1, <2>2, InitTyped, FS_EmptySet DEF FactoriesCounted
<1>2. TypeOK /\ Ready /\ FactoriesCounted /\ [Next]_vars
        => (TypeOK /\ Ready /\ FactoriesCounted)'
  BY TypeStep, FactoriesStep
<1>3. TypeOK /\ Ready /\ FactoriesCounted /\ [Next]_vars
        => [\A o \in Op : Joins(o) /\ statuses.factory = "THROTTLED" =>
              Cardinality(UsersOf(Factory, Factory[o]))
                < ThrottledEntityBundleCount]_vars
  <2> SUFFICES ASSUME TypeOK, Ready, FactoriesCounted, [Next]_vars,
                      NEW o \in Op, Joins(o), statuses.factory = "THROTTLED"
               PROVE  Cardinality(UsersOf(Factory, Factory[o]))
                        < ThrottledEntityBundleCount
    OBVIOUS
  <2>1. acc.bundle \in Seq(Op) /\ acc'.bundle = Append(acc.bundle, o)
    BY DEF TypeOK, Result, Joins
  <2>2. ~BundleKept
    BY <2>1, AppendIsLonger DEF BundleKept
  <2>3. acc' # EmptyResult
    BY <2>1 DEF EmptyResult
  <2>4. Joined(Head(entries)) /\ Head(entries) \in Op
    BY <2>2, <2>3, AccSteps
  <2>5. o = Head(entries)
    <3>1. Append(acc.bundle, o) = Append(acc.bundle, Head(entries))
      BY <2>1, <2>4 DEF Joined
    <3>2. \A e : Append(acc.bundle, e)[Len(acc.bundle) + 1] = e
      BY <2>1
    <3> QED
      BY <3>1, <3>2
  <2>6. Factory[o] # NoAddress
    BY <2>4, <2>5 DEF Joined, Ready
  <2>7. acc.stakedEntityCount[Factory[o]] < ThrottledEntityBundleCount
    <3>1. /\ Factory[o] \in Address
          /\ acc.stakedEntityCount[Factory[o]] \in Nat
          /\ ThrottledEntityBundleCount \in Nat
      BY <2>6, BuilderAssumption DEF TypeOK, Result
    <3> QED
      BY <2>4, <2>5, <2>6, <3>1 DEF Joined, IsEntityThrottled
  <2>8. Cardinality(UsersOf(Factory, Factory[o])) \in Nat
    BY FS_Subset, FS_CardinalityType DEF UsersOf, FactoriesCounted
  <2>9. /\ Factory[o] \in Address
        /\ acc.stakedEntityCount[Factory[o]] \in Nat
        /\ ThrottledEntityBundleCount \in Nat
    BY <2>6, BuilderAssumption DEF TypeOK, Result
  <2> QED
    BY <2>7, <2>8, <2>9 DEF FactoriesCounted
<1> QED
  BY <1>1, <1>2, <1>3, PTL DEF Spec, ThrottledFactoryCap

------------------------------------------------------------------------------
(* Entries marked 'bundling' *)

Building == {"known", "read", "judge"}

\* Where an entry that is marked 'bundling' is kept: with the processor, or in
\* one of the lists of the createBundle that marked it.
Kept(o) ==
  \/ o \in sent
  \/ pc # "idle" /\ o \in Bundled
  \/ pc \in Building /\ o \in ToSet(entries)
  \/ pc \in Building /\ o \in ToSet(acc.notIncluded)
  \/ pc \in Building /\ o \in OpsOf(acc.toRemove)
  \/ pc = "pending" /\ o \in ToSet(entries)
  \/ pc \in {"pending", "remove"} /\ o \in OpsOf(todo)

Found == \A o \in Op : pool[o] = "bundling" => Kept(o) \/ o \in lost

\* An entry that is judged goes to one of the three lists, or is lost.
LEMMA JudgePlaces ==
  ASSUME TypeOK, Ready, JudgeEntry
  PROVE  LET o == Head(entries)
         IN  /\ o \in Op
             /\ Bundled \subseteq Bundled'
             /\ ToSet(acc.notIncluded) \subseteq ToSet(acc'.notIncluded)
             /\ ToSet(acc.toRemove) \subseteq ToSet(acc'.toRemove)
             /\ lost \subseteq lost'
             /\ pool[o] = "bundling" =>
                  o \in Bundled' \cup ToSet(acc'.notIncluded) \cup OpsOf(acc'.toRemove) \cup lost'
<1> DEFINE o == Head(entries)
<1>1. o \in Op /\ acc \in Result /\ acc.bundle \in Seq(Op)
      /\ acc.notIncluded \in Seq(Op)
      /\ acc.toRemove \in Seq([op : Op, reason : Dropped])
  BY ToSetParts DEF TypeOK, Ready, JudgeEntry, Result
<1>2. PICK verdict \in Verdicts :
        /\ acc' = IF verdict # "ok" THEN Drop(o, verdict)
                  ELSE IF IsBanned THEN Drop(o, "banned")
                  ELSE IF ~ShouldInclude(o) THEN Skip(o)
                  ELSE IF TupleConflicts(o) THEN Charged(o)
                  ELSE Include(o)
        /\ lost' = IF verdict = "ok" /\ ~IsBanned /\ ShouldInclude(o) /\ TupleConflicts(o)
                   THEN lost \cup Held({o}) ELSE lost
  BY DEF JudgeEntry
<1> HIDE DEF o
<1>3. lost \subseteq lost'
  BY <1>2
<1>4. ASSUME NEW reason \in Dropped, acc' = Drop(o, reason)
      PROVE  /\ acc'.bundle = acc.bundle /\ acc'.notIncluded = acc.notIncluded
             /\ ToSet(acc'.toRemove) =
                  ToSet(acc.toRemove) \cup {[op |-> o, reason |-> reason]}
  <2>1. /\ acc'.bundle = acc.bundle /\ acc'.notIncluded = acc.notIncluded
        /\ acc'.toRemove = Append(acc.toRemove, [op |-> o, reason |-> reason])
    BY <1>1, <1>4 DEF Drop, Result
  <2> DEFINE r == [op |-> o, reason |-> reason]
             Removals == [op : Op, reason : Dropped]
  <2>2. r \in Removals
    BY <1>1
  <2>3. ToSet(Append(acc.toRemove, r)) = ToSet(acc.toRemove) \cup {r}
    <3>1. acc.toRemove \in Seq(Removals) /\ r \in Removals
      BY <1>1, <2>2
    <3> HIDE DEF r, Removals
    <3> QED
      BY <3>1, ToSetAppend
  <2> QED
    BY <2>1, <2>3
<1>5. ASSUME acc' = Skip(o)
      PROVE  /\ acc'.bundle = acc.bundle
             /\ ToSet(acc'.notIncluded) = ToSet(acc.notIncluded) \cup {o}
             /\ acc'.toRemove = acc.toRemove
  <2>1. /\ acc'.bundle = acc.bundle /\ acc'.notIncluded = Append(acc.notIncluded, o)
        /\ acc'.toRemove = acc.toRemove
    BY <1>1, <1>5 DEF Skip, Result
  <2> QED
    BY <1>1, <2>1, ToSetAppend
<1>6. ASSUME acc' = Include(o)
      PROVE  /\ ToSet(acc'.bundle) = ToSet(acc.bundle) \cup {o}
             /\ acc'.notIncluded = acc.notIncluded /\ acc'.toRemove = acc.toRemove
  <2>1. /\ acc'.bundle = Append(acc.bundle, o)
        /\ acc'.notIncluded = acc.notIncluded /\ acc'.toRemove = acc.toRemove
    BY <1>1, <1>6 DEF Include, Charged, Result
  <2> QED
    BY <1>1, <2>1, ToSetAppend
<1>7. verdict # "ok" => verdict \in Dropped
  BY BuilderAssumption DEF Dropped
<1>8. "banned" \in Dropped
  BY DEF Dropped
<1>9. CASE \E reason \in Dropped : acc' = Drop(o, reason)
  <2>1. PICK reason \in Dropped : acc' = Drop(o, reason)
    BY <1>9
  <2>2. /\ acc'.bundle = acc.bundle /\ acc'.notIncluded = acc.notIncluded
        /\ ToSet(acc'.toRemove) =
             ToSet(acc.toRemove) \cup {[op |-> o, reason |-> reason]}
    BY <1>4, <2>1
  <2>3. o \in OpsOf(acc'.toRemove)
    <3> DEFINE r == [op |-> o, reason |-> reason]
    <3>1. r \in ToSet(acc'.toRemove) /\ r.op = o
      BY <2>2
    <3> HIDE DEF r
    <3> QED
      BY <3>1 DEF OpsOf
  <2> QED
    BY <1>1, <1>3, <2>2, <2>3 DEF o, Bundled
<1>10. CASE acc' = Skip(o)
  BY <1>1, <1>3, <1>5, <1>10 DEF o, Bundled
<1>11. CASE acc' = Include(o)
  BY <1>1, <1>3, <1>6, <1>11 DEF o, Bundled
<1>12. CASE acc' = Charged(o) /\ lost' = lost \cup Held({o})
  <2>1. /\ acc'.bundle = acc.bundle /\ acc'.notIncluded = acc.notIncluded
        /\ acc'.toRemove = acc.toRemove
    BY <1>1, <1>12 DEF Charged, Result
  <2>2. pool[o] = "bundling" => o \in lost'
    BY <1>12 DEF Held
  <2> QED
    BY <1>1, <1>3, <2>1, <2>2 DEF o, Bundled
<1>13. \/ \E reason \in Dropped : acc' = Drop(o, reason)
       \/ acc' = Skip(o)
       \/ acc' = Include(o)
       \/ acc' = Charged(o) /\ lost' = lost \cup Held({o})
  BY <1>2, <1>7, <1>8
<1> QED
  BY <1>9, <1>10, <1>11, <1>12, <1>13

LEMMA FoundStep ==
  ASSUME TypeOK, Ready, Found, [Next]_vars
  PROVE  Found'
<1> USE DEF TypeOK
<1>1. CASE TakeEntries
  <2>1. PICK S \in SUBSET Pending :
          /\ entries' \in SetToSeqs(S)
          /\ pool' = [o \in Op |-> IF o \in S THEN "bundling" ELSE pool[o]]
    BY <1>1 DEF TakeEntries
  <2>2. ToSet(entries') = S
    <3>1. S \subseteq Op /\ IsFiniteSet(S)
      BY BuilderAssumption, FS_Subset DEF Pending
    <3> QED
      BY <2>1, <3>1, TakenAre
  <2>3. /\ pc' = "known" /\ pc = "idle" /\ todo' = todo /\ sent' = sent
        /\ lost' = lost /\ acc' = EmptyResult
    BY <1>1 DEF TakeEntries
  <2>4. \A o \in Op : pool'[o] = "bundling" => o \in S \/ o \in sent \/ o \in lost
    BY <2>1, <2>3 DEF Found, Kept, Building
  <2> QED
    BY <2>2, <2>3, <2>4 DEF Found, Kept, Building
<1>2. CASE GetKnownSenders
  <2>1. /\ pc = "known" /\ pc' = "read"
        /\ UNCHANGED <<pool, entries, acc, todo, sent, lost>>
    BY <1>2 DEF GetKnownSenders
  <2>2. \A o \in Op : Kept(o) => Kept(o)'
    BY <2>1 DEF Kept, Building, Bundled
  <2> QED
    BY <2>1, <2>2 DEF Found
<1>3. CASE ReadEntry
  <2>1. /\ pc = "read" /\ pc' = "judge"
        /\ UNCHANGED <<pool, entries, todo, sent, lost>>
        /\ acc'.bundle = acc.bundle
        /\ acc'.notIncluded = acc.notIncluded /\ acc'.toRemove = acc.toRemove
    BY <1>3 DEF ReadEntry, Result
  <2>2. \A o \in Op : Kept(o) => Kept(o)'
    BY <2>1 DEF Kept, Building, Bundled
  <2> QED
    BY <2>1, <2>2 DEF Found
<1>13. CASE BalanceRejects
  <2>1. /\ pc = "read" /\ UNCHANGED <<pool, sent>>
        /\ lost' = lost \cup Held(ToSet(entries) \cup Bundled
                                   \cup ToSet(acc.notIncluded) \cup OpsOf(acc.toRemove))
    BY <1>13 DEF BalanceRejects, Bundled
  <2>2. \A o \in Op : pool[o] = "bundling" /\ Kept(o) => o \in sent' \/ o \in lost'
    BY <2>1 DEF Kept, Building, Held
  <2> QED
    BY <2>1, <2>2 DEF Found, Kept
<1>4. CASE JudgeEntry
  <2> DEFINE h == Head(entries)
  <2>1. /\ h \in Op
        /\ Bundled \subseteq Bundled'
        /\ ToSet(acc.notIncluded) \subseteq ToSet(acc'.notIncluded)
        /\ ToSet(acc.toRemove) \subseteq ToSet(acc'.toRemove)
        /\ lost \subseteq lost'
        /\ pool[h] = "bundling" =>
             h \in Bundled' \cup ToSet(acc'.notIncluded) \cup OpsOf(acc'.toRemove) \cup lost'
    BY <1>4, JudgePlaces
  <2>2. /\ pc = "judge" /\ pc' = "read" /\ entries' = Tail(entries)
        /\ entries # <<>> /\ UNCHANGED <<pool, todo, sent>>
    BY <1>4 DEF JudgeEntry, Ready
  <2>3. ToSet(entries) = {h} \cup ToSet(entries')
    BY <2>2, ToSetParts
  <2>4. OpsOf(acc.toRemove) \subseteq OpsOf(acc'.toRemove)
    BY <2>1 DEF OpsOf
  <2> HIDE DEF h
  <2>5. \A o \in Op : pool[o] = "bundling" /\ Kept(o) => Kept(o)' \/ o \in lost'
    BY <2>1, <2>2, <2>3, <2>4 DEF Kept, Building
  <2> QED
    BY <2>1, <2>2, <2>5 DEF Found
<1>5. CASE BeginHook
  <2>1. /\ pc = "read" /\ pc' = "pending" /\ entries = <<>>
        /\ entries' = acc.notIncluded /\ todo' = acc.toRemove
        /\ UNCHANGED <<pool, acc, sent, lost>>
    BY <1>5 DEF BeginHook
  <2>2. ToSet(entries) = {}
    BY <2>1, ToSetParts
  <2>3. \A o \in Op : Kept(o) => Kept(o)'
    BY <2>1, <2>2 DEF Kept, Building, Bundled
  <2> QED
    BY <2>1, <2>3 DEF Found
<1>6. CASE SendBack
  <2> DEFINE h == Head(entries)
  <2>1. /\ pc = "pending" /\ pc' = pc /\ entries # <<>> /\ entries' = Tail(entries)
        /\ pool' = (IF pool[h] = "absent" THEN pool
                    ELSE [pool EXCEPT ![h] = "pending"])
        /\ UNCHANGED <<acc, todo, sent, lost>>
    BY <1>6 DEF SendBack
  <2>2. ToSet(entries) = {h} \cup ToSet(entries') /\ h \in Op
    BY <2>1, ToSetParts
  <2> HIDE DEF h
  <2>3. \A o \in Op : pool'[o] = "bundling" => pool[o] = "bundling" /\ o # h
    BY <2>1, <2>2
  <2>4. \A o \in Op : o # h /\ Kept(o) => Kept(o)'
    BY <2>1, <2>2 DEF Kept, Building, Bundled
  <2> QED
    BY <2>1, <2>3, <2>4 DEF Found
<1>7. CASE BeginRemovals
  <2>1. /\ pc = "pending" /\ pc' = "remove" /\ entries = <<>>
        /\ UNCHANGED <<pool, entries, acc, todo, sent, lost>>
    BY <1>7 DEF BeginRemovals
  <2>2. ToSet(entries) = {}
    BY <2>1, ToSetParts
  <2>3. \A o \in Op : Kept(o) => Kept(o)'
    BY <2>1, <2>2 DEF Kept, Building, Bundled
  <2> QED
    BY <2>1, <2>3 DEF Found
<1>8. CASE RemoveFailed \/ RemoveBanned
  <2> DEFINE h == Head(todo).op
  <2>1. /\ pc = "remove" /\ pc' = pc /\ todo # <<>> /\ todo' = Tail(todo)
        /\ pool' = [pool EXCEPT ![h] = "absent"]
        /\ UNCHANGED <<entries, acc, sent, lost>>
    BY <1>8 DEF RemoveFailed, RemoveBanned, RemoveFromPool
  <2>2. /\ OpsOf(todo) = {h} \cup OpsOf(todo') /\ h \in Op
        /\ ToSet(todo') \subseteq ToSet(todo)
    <3>1. OpsOf(todo) = {h} \cup OpsOf(todo')
      BY <2>1, OpsOfParts
    <3>2. Head(todo) \in [op : Op, reason : Dropped]
      BY <2>1, ToSetParts
    <3>3. ToSet(todo') \subseteq ToSet(todo)
      BY <2>1, ToSetParts
    <3> QED
      BY <3>1, <3>2, <3>3
  <2> HIDE DEF h
  <2>3. \A o \in Op : pool'[o] = "bundling" => pool[o] = "bundling" /\ o # h
    BY <2>1, <2>2
  <2>4. \A o \in Op : o # h /\ Kept(o) => Kept(o)'
    BY <2>1, <2>2 DEF Kept, Building, Bundled
  <2> QED
    BY <2>1, <2>2, <2>3, <2>4 DEF Found
<1>9. CASE RemoveAndReturn \/ HookThrows
  <2> DEFINE h == Head(todo).op
  <2>1. /\ pc = "remove" /\ todo # <<>>
        /\ \/ /\ pool' = [pool EXCEPT ![h] = "absent"] /\ sent' = sent \cup Bundled
              /\ lost' = lost \cup Held(OpsOf(Tail(todo)) \ {h})
           \/ /\ pool' = pool /\ sent' = sent
              /\ lost' = lost \cup Held(Bundled \cup OpsOf(todo))
    BY <1>9 DEF RemoveAndReturn, HookThrows, Return, RemoveFromPool, Bundled
  <2>2. OpsOf(todo) = {h} \cup OpsOf(Tail(todo)) /\ h \in Op
    <3>1. Head(todo) \in [op : Op, reason : Dropped]
      BY <2>1, ToSetParts
    <3> QED
      BY <2>1, <3>1, OpsOfParts
  <2> HIDE DEF h
  <2>3. \A o \in Op : pool[o] = "bundling" =>
          \/ o \in sent \/ o \in Bundled \/ o \in OpsOf(todo) \/ o \in lost
    BY <2>1 DEF Found, Kept, Building
  <2>4. ASSUME NEW o \in Op, pool'[o] = "bundling" PROVE o \in sent' \/ o \in lost'
    <3>1. pool[o] = "bundling" /\ (o = h => pool' = pool)
      BY <2>1, <2>2, <2>4
    <3>2. o \in sent \/ o \in Bundled \/ o \in OpsOf(todo) \/ o \in lost
      BY <2>3, <3>1
    <3>3. CASE o = h
      <4>1. lost' = lost \cup Held(Bundled \cup OpsOf(todo)) /\ sent' = sent
        BY <2>1, <2>2, <2>4, <3>3
      <4> QED
        BY <3>1, <3>2, <4>1 DEF Held
    <3>4. CASE o # h
      BY <2>1, <2>2, <3>1, <3>2, <3>4 DEF Held
    <3> QED
      BY <3>3, <3>4
  <2> QED
    BY <2>4 DEF Found, Kept
<1>10. CASE EndHook
  <2>1. /\ pc = "remove" /\ pc' = "idle" /\ todo = <<>>
        /\ sent' = sent \cup Bundled
        /\ UNCHANGED <<pool, entries, acc, todo, lost>>
    BY <1>10 DEF EndHook, Return, Bundled
  <2>2. OpsOf(todo) = {}
    BY <2>1, ToSetParts DEF OpsOf
  <2>3. \A o \in Op : Kept(o) => Kept(o)'
    BY <2>1, <2>2 DEF Kept, Building
  <2> QED
    BY <2>1, <2>3 DEF Found
<1>11. ASSUME NEW o \in Op, Submit(o) \/ RemoveElsewhere(o) \/ GiveBack(o)
       PROVE  Found'
  <2>1. /\ sent' \in {sent, sent \ {o}} /\ pool'[o] # "bundling"
        /\ lost' \in {lost, lost \ {o}}
        /\ \A p \in Op : p # o => pool'[p] = pool[p]
        /\ UNCHANGED <<pc, entries, acc, todo>>
    BY <1>11 DEF Submit, RemoveElsewhere, GiveBack
  <2>2. \A p \in Op : p # o /\ Kept(p) => Kept(p)'
    BY <2>1 DEF Kept, Building, Bundled
  <2> QED
    BY <2>1, <2>2 DEF Found
<1>12. CASE (\E a \in Address : SeenElsewhere(a)) \/ UNCHANGED vars
  <2>1. UNCHANGED <<pool, pc, entries, acc, todo, sent, lost>>
    BY <1>12 DEF SeenElsewhere, vars
  <2>2. \A o \in Op : Kept(o) => Kept(o)'
    BY <2>1 DEF Kept, Building, Bundled
  <2> QED
    BY <2>1, <2>2 DEF Found
<1> QED
  BY <1>1, <1>2, <1>3, <1>4, <1>5, <1>6, <1>7, <1>8, <1>9, <1>10, <1>11, <1>12, <1>13
     DEF Next, CreateBundle, Elsewhere

\* Between bundles, an entry marked 'bundling' is one the processor was given, or
\* was lost in one of the four ways: balanceOf rejected, the hook threw, it
\* returned early, or the tuple conflicted.  Whatever the verdicts, no other path
\* through createBundle and its hook forgets an entry.
THEOREM NoneStuck == Spec => []NothingStuck
<1>1. Init => TypeOK /\ Ready /\ Found
  <2> SUFFICES ASSUME Init PROVE TypeOK /\ Ready /\ Found
    OBVIOUS
  <2>1. \A o \in Op : pool[o] # "bundling"
    BY DEF Init
  <2> QED
    BY <2>1, InitTyped DEF Found
<1>2. TypeOK /\ Ready /\ Found /\ [Next]_vars => (TypeOK /\ Ready /\ Found)'
  BY TypeStep, FoundStep
<1>3. Found => NothingStuck
  BY DEF Found, NothingStuck, Kept, Building, Held
<1> QED
  BY <1>1, <1>2, <1>3, PTL DEF Spec
=============================================================================
