------------------------------ MODULE NodeProofs ------------------------------
(***************************************************************************)
(* Theorems about NodeLifecycle, for any operations, addresses, lists,     *)
(* limits and options, and any number of requests, hours and signals.      *)
(***************************************************************************)
EXTENDS NodeLifecycle, FiniteSetTheorems, TLAPS

(* Entries: what each update of the reputation manager returns. *)

LEMMA WithType ==
  ASSUME NEW entries, IsEntries(entries),
         NEW addr \in Address, NEW entry \in ReputationEntry
  PROVE  IsEntries(With(entries, addr, entry))
BY DEF IsEntries, With

LEMMA EntriesTotal ==
  ASSUME IsEntries(reputationEntries)
  PROVE  Entries \in [Address -> ReputationEntry]
BY DEF IsEntries, Entries, ZeroEntry, ReputationEntry

LEMMA SeenType ==
  ASSUME NEW e \in [Address -> ReputationEntry], NEW addr \in Address, NEW action
  PROVE  SeenUpdate(e, addr, action)[Lower[addr]] \in ReputationEntry
<1>1. Lower[addr] \in Address
  BY AddressAssumption
<1>2. e[Lower[addr]].opsSeen \in Nat /\ e[Lower[addr]].opsIncluded \in Nat
  BY <1>1 DEF ReputationEntry
<1> QED
  BY <1>1, <1>2 DEF SeenUpdate, ReputationEntry

LEMMA CrashType ==
  ASSUME NEW e \in [Address -> ReputationEntry], NEW addr \in Address
  PROVE  CrashUpdate(e, addr)[Lower[addr]] \in ReputationEntry
<1>1. Lower[addr] \in Address
  BY AddressAssumption
<1>2. e[Lower[addr]].opsSeen \in Nat
  BY <1>1 DEF ReputationEntry
<1> QED
  BY <1>1, <1>2, ReputationAssumption DEF CrashUpdate, ReputationEntry

LEMMA BackedOffType ==
  ASSUME NEW entries, IsEntries(entries), NEW captured, IsEntries(captured)
  PROVE  IsEntries(BackedOff(entries, captured))
<1>1. \A e \in ReputationEntry : Backoff(e) \in ReputationEntry
  BY DEF Backoff, ReputationEntry
<1> QED
  BY <1>1 DEF IsEntries, BackedOff

\* Every reachable state of a node has the declared shape.
LEMMA TypeInit == Init => TypeOK
BY DEF Init, InitReputation, Trail!Init, TypeOK, IsEntries, NoEntries

LEMMA LogType ==
  ASSUME TypeOK, LogAudit
  PROVE  /\ logged' \in Seq({LogEvent}) /\ handed' \in Seq({LogEvent})
         /\ owed' \in 0 .. Len(logged')
<1>1. /\ logged' = Append(logged, LogEvent) /\ handed' = handed
      /\ owed' \in {owed, Len(logged')}
  BY DEF LogAudit, Trail!Log
<1>2. logged \in Seq({LogEvent}) /\ handed \in Seq({LogEvent}) /\ owed \in 0 .. Len(logged)
  BY DEF TypeOK
<1>3. logged' \in Seq({LogEvent}) /\ Len(logged') = Len(logged) + 1 /\ Len(logged) \in Nat
  BY <1>1, <1>2
<1> QED
  BY <1>1, <1>2, <1>3

LEMMA HandType ==
  ASSUME TypeOK, Trail!Hand
  PROVE  /\ logged' = logged /\ owed' = owed
         /\ handed' \in Seq({LogEvent}) /\ Len(handed') = Len(handed) + 1
<1>1. logged \in Seq({LogEvent}) /\ handed \in Seq({LogEvent})
  BY DEF TypeOK
<1>2. /\ Len(handed) < Len(logged) /\ logged' = logged /\ owed' = owed
      /\ handed' = Append(handed, logged[Len(handed) + 1])
  BY DEF Trail!Hand
<1>3. logged[Len(handed) + 1] \in {LogEvent}
  BY <1>1, <1>2
<1> QED
  BY <1>1, <1>2, <1>3

\* One step keeps the shape of the state.
LEMMA TypeStep == TypeOK /\ [Next]_vars => TypeOK'
<1> SUFFICES ASSUME TypeOK, [Next]_vars PROVE TypeOK'
  OBVIOUS
<1> USE DEF TypeOK
<1>1. CASE CreateInfrastructure \/ CreateServices
  BY <1>1 DEF CreateInfrastructure, CreateServices, StartStep, reputationVars,
              trailVars, workVars, stopVars
<1>2. CASE CreateManagers
  BY <1>2 DEF CreateManagers, StartHourlyCron, StartStep, trailVars, workVars, stopVars
<1>3. CASE PassPreflight
  BY <1>3 DEF PassPreflight, StartStep, reputationVars, trailVars, workVars, stopVars
<1>4. CASE StartUpFails \/ MetricsReject \/ SigtermRejects \/ ShutdownComplete
  BY <1>4 DEF StartUpFails, MetricsReject, SigtermRejects, ShutdownComplete, Exit,
              reputationVars, trailVars, workVars, stopVars
<1>5. ASSUME NEW o \in Op, Receive(o) PROVE TypeOK'
  BY <1>5, LogType DEF Receive, reputationVars, startVars, stopVars
<1>6. ASSUME NEW addr \in Address, NEW action, UpdateSeenStatus(addr, action)
      PROVE  IsEntries(reputationEntries')
  <2>1. Entries \in [Address -> ReputationEntry] /\ Lower[addr] \in Address
    BY EntriesTotal, AddressAssumption
  <2> QED
    BY <1>6, <2>1, SeenType, WithType DEF UpdateSeenStatus
<1>7. ASSUME NEW o \in Op, Answer(o) PROVE TypeOK'
  <2>1. IsEntries(reputationEntries') /\ snapshot' = snapshot /\ crashed' = crashed
    BY <1>6, <1>7, NodeAssumption DEF Answer, reputationVars
  <2> QED
    BY <1>7, <2>1, LogType DEF Answer, startVars, stopVars
<1>8. ASSUME NEW o \in Op, TakeBack(o) \/ Execute(o) \/ RemoveUserOpsForBannedAddr(o)
      PROVE  TypeOK'
  <2>1. Entity[o] \in Address
    BY NodeAssumption
  <2>2. IsEntries(reputationEntries') /\ snapshot' = snapshot /\ crashed' = crashed
    BY <1>6, <1>8, <2>1 DEF TakeBack, Execute, RemoveUserOpsForBannedAddr, reputationVars
  <2>3. CASE TakeBack(o)
    BY <2>2, <2>3 DEF TakeBack, startVars, stopVars, trailVars
  <2>4. CASE Execute(o)
    BY <2>2, <2>4 DEF Execute, startVars, stopVars, trailVars
  <2>5. CASE RemoveUserOpsForBannedAddr(o)
    BY <2>1, <2>2, <2>5 DEF RemoveUserOpsForBannedAddr, startVars, stopVars, trailVars
  <2> QED
    BY <1>8, <2>3, <2>4, <2>5
<1>9. ASSUME NEW a \in Address, Ban(a) PROVE TypeOK'
  <2>1. Entries \in [Address -> ReputationEntry] /\ Lower[a] \in Address
    BY EntriesTotal, AddressAssumption
  <2>2. IsEntries(reputationEntries')
    BY <1>9, <2>1, CrashType, WithType DEF Ban, CrashedHandleOps
  <2> QED
    BY <1>9, <2>1, <2>2 DEF Ban, CrashedHandleOps, startVars, trailVars, stopVars
<1>10. CASE Reset
  <2>1. ASSUME NEW a \in Address, NEW entry \in Settings, SetReputation(a, entry)
        PROVE  IsEntries(reputationEntries') /\ crashed' \subseteq Address
    BY <2>1, WithType, AddressAssumption, SettingsAssumption DEF SetReputation
  <2>2. ClearReputation => IsEntries(reputationEntries') /\ crashed' \subseteq Address
    BY DEF ClearReputation, IsEntries, NoEntries
  <2>3. IsEntries(reputationEntries') /\ crashed' \subseteq Address /\ snapshot' = snapshot
    BY <1>10, <2>1, <2>2 DEF Reset, SetReputation, ClearReputation
  <2>4. UNCHANGED <<startVars, trailVars, workVars, stopVars>>
    BY <1>10 DEF Reset
  <2> QED
    BY <2>3, <2>4 DEF startVars, trailVars, workVars, stopVars
<1>11. ASSUME NEW mode, SetBundlingMode(mode) PROVE TypeOK'
  BY <1>11 DEF SetBundlingMode, reputationVars, trailVars, workVars, stopVars
<1>12. CASE Hour
  BY <1>12, BackedOffType DEF Hour, HourlyTick, startVars, trailVars, workVars, stopVars
<1>13. CASE Sigterm
  BY <1>13 DEF Sigterm, ServerStop, reputationVars, trailVars, workVars
<1>14. CASE Close \/ Drained
  BY <1>14 DEF Close, Drained, reputationVars, trailVars, workVars, stopVars
<1>15. CASE Write
  BY <1>15, HandType DEF Write, reputationVars, startVars, workVars, stopVars
<1>16. CASE UNCHANGED vars
  BY <1>16 DEF vars, reputationVars, startVars, trailVars, workVars, stopVars
<1> QED
  BY <1>1, <1>2, <1>3, <1>4, <1>5, <1>7, <1>8, <1>9, <1>10, <1>11, <1>12, <1>13,
     <1>14, <1>15, <1>16 DEF Next, StartUp, Work, Shutdown

\* Type correctness of the node.
THEOREM NodeTypeCorrect == Spec => []TypeOK
BY TypeInit, TypeStep, PTL DEF Spec
------------------------------------------------------------------------------
(* What start-up has not reached yet.  Nothing is received, admitted or sent *)
(* before the server listens, which it does not before the checks passed;    *)
(* and while the managers do not exist there is no entry to capture.         *)

StartInv ==
  /\ stage # "running" => /\ server \in {"none", "created"}
                          /\ inFlight = {} /\ pool = {} /\ sent = {} /\ banning = {}
  /\ stage \in {"config", "services", "lists"} => reputationEntries = NoEntries
  /\ snapshot = NoEntries

\* With nothing captured an hour changes no entry.
LEMMA HourIdle ==
  ASSUME IsEntries(reputationEntries), snapshot = NoEntries, HourlyTick
  PROVE  reputationEntries' = reputationEntries
BY DEF IsEntries, HourlyTick, BackedOff, NoEntries

LEMMA StartInvStep == TypeOK /\ StartInv /\ [Next]_vars => StartInv'
<1> SUFFICES ASSUME TypeOK, StartInv, [Next]_vars PROVE StartInv'
  OBVIOUS
<1> USE DEF StartInv
<1>1. CASE CreateInfrastructure \/ CreateServices \/ CreateManagers \/ PassPreflight
  BY <1>1 DEF CreateInfrastructure, CreateServices, CreateManagers, PassPreflight,
              StartStep, StartHourlyCron, reputationVars, workVars, TypeOK
<1>2. CASE StartUpFails \/ MetricsReject \/ SigtermRejects \/ ShutdownComplete
  BY <1>2 DEF StartUpFails, MetricsReject, SigtermRejects, ShutdownComplete, Exit,
              reputationVars, workVars
<1>3. ASSUME NEW o \in Op,
             \/ Receive(o) \/ Answer(o) \/ TakeBack(o) \/ Execute(o)
             \/ RemoveUserOpsForBannedAddr(o)
      PROVE  StartInv'
  <2>1. stage = "running"
    BY <1>3 DEF Receive, Answer, TakeBack, Execute, RemoveUserOpsForBannedAddr, Serving
  <2> QED
    BY <1>3, <2>1 DEF Receive, Answer, TakeBack, Execute, RemoveUserOpsForBannedAddr,
                      startVars, reputationVars
<1>4. ASSUME NEW a \in Address, Ban(a) PROVE StartInv'
  BY <1>4 DEF Ban, CrashedHandleOps, startVars
<1>5. CASE Reset
  BY <1>5 DEF Reset, Serving, SetReputation, ClearReputation, startVars, workVars
<1>6. ASSUME NEW mode, SetBundlingMode(mode) PROVE StartInv'
  BY <1>6 DEF SetBundlingMode, reputationVars, workVars
<1>7. CASE Hour
  <2>1. reputationEntries' = reputationEntries
    BY <1>7, HourIdle DEF Hour, TypeOK
  <2> QED
    BY <1>7, <2>1 DEF Hour, HourlyTick, startVars, workVars
<1>8. CASE Sigterm \/ Close \/ Drained \/ Write \/ UNCHANGED vars
  BY <1>8 DEF Sigterm, Close, Drained, Write, vars, reputationVars, startVars, workVars
<1> QED
  BY <1>1, <1>2, <1>3, <1>4, <1>5, <1>6, <1>7, <1>8 DEF Next, StartUp, Work, Shutdown

LEMMA StartCorrect == Spec => []StartInv
<1>1. Init => StartInv
  BY DEF Init, InitReputation, StartInv
<1> QED
  BY <1>1, StartInvStep, NodeTypeCorrect, PTL DEF Spec

\* The interval of the bundle manager, which runs before the checks are over,
\* sends nothing then.
THEOREM PreflightFirst == Spec => []NothingSentUnchecked
<1>1. StartInv => NothingSentUnchecked
  BY DEF StartInv, NothingSentUnchecked
<1> QED
  BY <1>1, StartCorrect, PTL

------------------------------------------------------------------------------
(* The end of the process: exit code 0 needs a worker that is done, a worker *)
(* is done when nothing owed is left, and after that nothing is owed anew.   *)

DrainInv ==
  /\ process = "exit 0" => worker = "done"
  /\ worker = "done" => Len(handed) >= owed

LEMMA OwedType ==
  ASSUME NEW l \in Seq({LogEvent}), NEW h \in Seq({LogEvent}), NEW n \in 0 .. Len(l)
  PROVE  /\ n \in Nat /\ Len(h) \in Nat
         /\ Len(h) >= n => Len(h) + 1 >= n
<1>1. Len(l) \in Nat /\ Len(h) \in Nat
  OBVIOUS
<1> QED
  BY <1>1

LEMMA DrainStep == TypeOK /\ DrainInv /\ [Next]_vars => DrainInv'
<1> SUFFICES ASSUME TypeOK, DrainInv, [Next]_vars PROVE DrainInv'
  OBVIOUS
<1> USE DEF DrainInv
<1>1. CASE StartUp
  BY <1>1 DEF StartUp, CreateInfrastructure, CreateServices, CreateManagers,
              PassPreflight, StartUpFails, Exit, StartStep, trailVars, Up
<1>2. ASSUME NEW o \in Op, Receive(o) \/ Answer(o) PROVE DrainInv'
  <2>1. UNCHANGED <<handed, worker, process>> /\ (worker # "running" => owed' = owed)
    BY <1>2 DEF Receive, Answer, LogAudit, startVars
  <2> QED
    BY <2>1
<1>3. ASSUME NEW o \in Op,
             TakeBack(o) \/ Execute(o) \/ RemoveUserOpsForBannedAddr(o)
      PROVE  DrainInv'
  BY <1>3 DEF TakeBack, Execute, RemoveUserOpsForBannedAddr, startVars, trailVars
<1>4. CASE \/ (\E a \in Address : Ban(a)) \/ Reset \/ Hour
           \/ (\E mode \in {"auto", "manual"} : SetBundlingMode(mode))
  BY <1>4 DEF Ban, Reset, Hour, SetBundlingMode, startVars, trailVars
<1>5. CASE MetricsReject \/ SigtermRejects \/ Close \/ Sigterm \/ UNCHANGED vars
  BY <1>5 DEF MetricsReject, SigtermRejects, Exit, Close, Sigterm, vars, startVars, trailVars
<1>6. CASE Drained
  BY <1>6 DEF Drained, trailVars, TypeOK, Up
<1>7. CASE Write
  <2>1. owed' = owed /\ Len(handed') = Len(handed) + 1 /\ UNCHANGED <<process, worker>>
    BY <1>7, HandType DEF Write, startVars
  <2>2. handed \in Seq({LogEvent}) /\ logged \in Seq({LogEvent}) /\ owed \in 0 .. Len(logged)
    BY DEF TypeOK
  <2>3. Len(handed) >= owed => Len(handed) + 1 >= owed
    BY <2>2, OwedType
  <2> QED
    BY <2>1, <2>3
<1>8. CASE ShutdownComplete
  BY <1>8 DEF ShutdownComplete, Exit, trailVars
<1> QED
  BY <1>1, <1>2, <1>3, <1>4, <1>5, <1>6, <1>7, <1>8 DEF Next, Work, Shutdown

\* A node that reports success has written what was logged before the signal.
THEOREM ExitWritten == Spec => []ExitFlushes
<1>1. Init => DrainInv
  BY DEF Init, DrainInv
<1>2. DrainInv => ExitFlushes
  BY DEF DrainInv, ExitFlushes
<1> QED
  BY <1>1, <1>2, DrainStep, NodeTypeCorrect, PTL DEF Spec
------------------------------------------------------------------------------
(* A ban for a crash.  The operations of an address that were judged before  *)
(* it was banned may still be admitted and taken back, once each: an         *)
(* admission counts one more, a take-back one less, so what is counted       *)
(* exceeds the penalty less the number of operations by at least the         *)
(* operations now in the pool.                                               *)

Held(a) == {o \in pool : Lower[Entity[o]] = a}

BanInv ==
  \A a \in crashed :
    /\ Lower[a] = a
    /\ Entries[a].opsIncluded = 0
    /\ Entries[a].opsSeen + Cardinality(Op) >= CrashPenalty + Cardinality(Held(a))

LEMMA DivBound ==
  ASSUME NEW n \in Nat, NEW d \in Nat \ {0}, NEW k \in Nat, n >= (k + 1) * d
  PROVE  n \div d > k
<1> DEFINE q == n \div d
<1>1. q \in Int /\ n < d * (q + 1)
  BY Z3
<1>2. ASSUME q <= k PROVE d * (q + 1) <= (k + 1) * d
  BY <1>1, <1>2, Z3
<1> QED
  BY <1>1, <1>2, Z3

LEMMA HeldCard ==
  ASSUME TypeOK, IsFiniteSet(Op), NEW a
  PROVE  /\ IsFiniteSet(Held(a)) /\ Cardinality(Held(a)) \in Nat
         /\ Cardinality(Held(a)) <= Cardinality(Op) /\ Cardinality(Op) \in Nat
BY FS_Subset, FS_CardinalityType DEF Held, TypeOK

\* An update touches the entry of one address.
LEMMA WithEntries ==
  ASSUME TypeOK, NEW addr \in Address, NEW entry \in ReputationEntry,
         reputationEntries' = With(reputationEntries, addr, entry)
  PROVE  /\ Entries'[addr] = entry
         /\ \A a \in Address \ {addr} : Entries'[a] = Entries[a]
BY DEF Entries, With

LEMMA SeenEntries ==
  ASSUME TypeOK, NEW addr \in Address, NEW action, UpdateSeenStatus(addr, action)
  PROVE  LET e == Entries[Lower[addr]]
         IN  /\ Entries'[Lower[addr]] =
                  [opsSeen |-> IF action = "increment" THEN e.opsSeen + 1
                               ELSE IF e.opsSeen = 0 THEN 0 ELSE e.opsSeen - 1,
                   opsIncluded |-> e.opsIncluded]
             /\ \A a \in Address \ {Lower[addr]} : Entries'[a] = Entries[a]
<1>1. Lower[addr] \in Address /\ Entries \in [Address -> ReputationEntry]
  BY EntriesTotal, AddressAssumption DEF TypeOK
<1>2. SeenUpdate(Entries, addr, action)[Lower[addr]] \in ReputationEntry
  BY <1>1, SeenType
<1>3. /\ Entries'[Lower[addr]] = SeenUpdate(Entries, addr, action)[Lower[addr]]
      /\ \A a \in Address \ {Lower[addr]} : Entries'[a] = Entries[a]
  BY <1>1, <1>2, WithEntries DEF UpdateSeenStatus
<1> QED
  BY <1>1, <1>3 DEF SeenUpdate
\* When the pool does not grow and the entries stay, nothing is to be shown.
LEMMA BanShrink ==
  ASSUME TypeOK, BanInv, IsFiniteSet(Op),
         pool' \subseteq pool, Entries' = Entries, crashed' \subseteq crashed
  PROVE  BanInv'
<1> SUFFICES ASSUME NEW a \in crashed PROVE
      /\ Lower[a] = a
      /\ Entries[a].opsIncluded = 0
      /\ Entries[a].opsSeen + Cardinality(Op) >= CrashPenalty + Cardinality(Held(a)')
  BY DEF BanInv
<1>1. Held(a)' \subseteq Held(a) /\ IsFiniteSet(Held(a))
  BY HeldCard DEF Held
<1>2. Cardinality(Held(a)') <= Cardinality(Held(a)) /\ Cardinality(Held(a)') \in Nat
  BY <1>1, FS_Subset, FS_CardinalityType
<1>3. Entries[a].opsSeen \in Nat
  BY EntriesTotal DEF TypeOK, ReputationEntry
<1>4. Cardinality(Held(a)) \in Nat /\ Cardinality(Op) \in Nat /\ CrashPenalty \in Nat
  BY HeldCard, ReputationAssumption
<1>5. /\ Lower[a] = a /\ Entries[a].opsIncluded = 0
      /\ Entries[a].opsSeen + Cardinality(Op) >= CrashPenalty + Cardinality(Held(a))
  BY DEF BanInv
<1> QED
  BY <1>2, <1>3, <1>4, <1>5

\* One operation leaves the pool and is counted one less.
LEMMA BanTakeBack ==
  ASSUME TypeOK, BanInv, IsFiniteSet(Op), NEW o \in pool,
         pool' \subseteq pool \ {o}, crashed' = crashed,
         UpdateSeenStatus(Entity[o], "decrement")
  PROVE  BanInv'
<1> SUFFICES ASSUME NEW a \in crashed PROVE
      /\ Lower[a] = a
      /\ Entries'[a].opsIncluded = 0
      /\ Entries'[a].opsSeen + Cardinality(Op) >= CrashPenalty + Cardinality(Held(a)')
  BY DEF BanInv
<1>1. Entity[o] \in Address /\ a \in Address /\ o \in Op
  BY NodeAssumption DEF TypeOK
<1>2. IsFiniteSet(Held(a)) /\ Cardinality(Held(a)) \in Nat
  BY HeldCard
<1>3. Entries[a].opsSeen \in Nat /\ Cardinality(Op) \in Nat /\ CrashPenalty \in Nat
  BY <1>1, EntriesTotal, HeldCard, ReputationAssumption DEF TypeOK, ReputationEntry
<1>4. /\ Lower[a] = a /\ Entries[a].opsIncluded = 0
      /\ Entries[a].opsSeen + Cardinality(Op) >= CrashPenalty + Cardinality(Held(a))
  BY DEF BanInv
<1>5. CASE Lower[Entity[o]] = a
  <2>1. o \in Held(a) /\ Held(a)' \subseteq Held(a) \ {o}
    BY <1>5 DEF Held
  <2>2. /\ IsFiniteSet(Held(a) \ {o})
        /\ Cardinality(Held(a) \ {o}) = Cardinality(Held(a)) - 1
    BY <1>2, <2>1, FS_RemoveElement
  <2>3. /\ Cardinality(Held(a)') <= Cardinality(Held(a)) - 1
        /\ Cardinality(Held(a)') \in Nat
    BY <2>1, <2>2, FS_Subset, FS_CardinalityType
  <2>4. Entries'[a] = [opsSeen |-> IF Entries[a].opsSeen = 0 THEN 0 ELSE Entries[a].opsSeen - 1,
                       opsIncluded |-> Entries[a].opsIncluded]
    BY <1>1, <1>5, SeenEntries
  <2>5. /\ Entries'[a].opsIncluded = 0
        /\ Entries'[a].opsSeen = IF Entries[a].opsSeen = 0 THEN 0 ELSE Entries[a].opsSeen - 1
    BY <1>4, <2>4
  <2> QED
    BY <1>2, <1>3, <1>4, <2>3, <2>5
<1>6. CASE Lower[Entity[o]] # a
  <2>1. Entries'[a] = Entries[a]
    <3>1. \A x \in Address \ {Lower[Entity[o]]} : Entries'[x] = Entries[x]
      BY <1>1, SeenEntries
    <3> QED
      BY <1>1, <1>6, <3>1
  <2>2. Held(a)' \subseteq Held(a)
    BY DEF Held
  <2>3. Cardinality(Held(a)') <= Cardinality(Held(a)) /\ Cardinality(Held(a)') \in Nat
    BY <1>2, <2>2, FS_Subset, FS_CardinalityType
  <2> QED
    BY <1>2, <1>3, <1>4, <2>1, <2>3
<1> QED
  BY <1>5, <1>6

\* One operation is admitted and counted.
LEMMA BanAdmit ==
  ASSUME TypeOK, BanInv, IsFiniteSet(Op), NEW o \in Op,
         pool' \subseteq pool \cup {o}, crashed' \subseteq crashed,
         UpdateSeenStatus(Entity[o], "increment")
  PROVE  BanInv'
<1> SUFFICES ASSUME NEW a \in crashed PROVE
      /\ Lower[a] = a
      /\ Entries'[a].opsIncluded = 0
      /\ Entries'[a].opsSeen + Cardinality(Op) >= CrashPenalty + Cardinality(Held(a)')
  BY DEF BanInv
<1>1. Entity[o] \in Address /\ a \in Address
  BY NodeAssumption DEF TypeOK
<1>2. IsFiniteSet(Held(a)) /\ Cardinality(Held(a)) \in Nat
  BY HeldCard
<1>3. Entries[a].opsSeen \in Nat /\ Cardinality(Op) \in Nat /\ CrashPenalty \in Nat
  BY <1>1, EntriesTotal, HeldCard, ReputationAssumption DEF TypeOK, ReputationEntry
<1>4. /\ Lower[a] = a /\ Entries[a].opsIncluded = 0
      /\ Entries[a].opsSeen + Cardinality(Op) >= CrashPenalty + Cardinality(Held(a))
  BY DEF BanInv
<1>5. CASE Lower[Entity[o]] = a
  <2>1. Held(a)' \subseteq Held(a) \cup {o}
    BY DEF Held
  <2>2. /\ IsFiniteSet(Held(a) \cup {o})
        /\ Cardinality(Held(a) \cup {o}) =
             IF o \in Held(a) THEN Cardinality(Held(a)) ELSE Cardinality(Held(a)) + 1
    BY <1>2, FS_AddElement
  <2>3. Cardinality(Held(a) \cup {o}) <= Cardinality(Held(a)) + 1
    BY <1>2, <2>2
  <2>4. /\ Cardinality(Held(a)') <= Cardinality(Held(a) \cup {o})
        /\ Cardinality(Held(a)') \in Nat
    BY <2>1, <2>2, FS_Subset, FS_CardinalityType
  <2>5. Cardinality(Held(a)') <= Cardinality(Held(a)) + 1
    BY <1>2, <2>2, <2>3, <2>4
  <2>6. Entries'[a] = [opsSeen |-> Entries[a].opsSeen + 1,
                       opsIncluded |-> Entries[a].opsIncluded]
    BY <1>1, <1>5, SeenEntries
  <2>7. Entries'[a].opsIncluded = 0 /\ Entries'[a].opsSeen = Entries[a].opsSeen + 1
    BY <1>4, <2>6
  <2> QED
    BY <1>2, <1>3, <1>4, <2>4, <2>5, <2>7
<1>6. CASE Lower[Entity[o]] # a
  <2>1. Entries'[a] = Entries[a]
    <3>1. \A x \in Address \ {Lower[Entity[o]]} : Entries'[x] = Entries[x]
      BY <1>1, SeenEntries
    <3> QED
      BY <1>1, <1>6, <3>1
  <2>2. Held(a)' \subseteq Held(a)
    BY <1>6 DEF Held
  <2>3. Cardinality(Held(a)') <= Cardinality(Held(a)) /\ Cardinality(Held(a)') \in Nat
    BY <1>2, <2>2, FS_Subset, FS_CardinalityType
  <2> QED
    BY <1>2, <1>3, <1>4, <2>1, <2>3
<1> QED
  BY <1>5, <1>6

\* An address is banned: the penalty alone suffices for it.
LEMMA BanBan ==
  ASSUME TypeOK, BanInv, IsFiniteSet(Op), NEW b \in Address,
         pool' = pool, CrashedHandleOps(b)
  PROVE  BanInv'
<1> DEFINE c == Lower[b]
<1>1. c \in Address /\ Lower[c] = c
  BY AddressAssumption
<1>2. Entries \in [Address -> ReputationEntry]
  BY EntriesTotal DEF TypeOK
<1>3. CrashUpdate(Entries, b)[c] \in ReputationEntry
  BY <1>2, CrashType
<1>4. /\ Entries'[c] = CrashUpdate(Entries, b)[c]
      /\ \A a \in Address \ {c} : Entries'[a] = Entries[a]
  BY <1>1, <1>3, WithEntries DEF CrashedHandleOps
<1>5. Entries'[c].opsSeen = Entries[c].opsSeen + CrashPenalty /\ Entries'[c].opsIncluded = 0
  BY <1>1, <1>2, <1>4 DEF CrashUpdate
<1>6. Entries[c].opsSeen \in Nat /\ CrashPenalty \in Nat
  BY <1>1, <1>2, ReputationAssumption DEF ReputationEntry
<1>7. \A a : Held(a)' = Held(a)
  BY DEF Held
<1>8. \A a : /\ Cardinality(Held(a)) \in Nat /\ Cardinality(Op) \in Nat
             /\ Cardinality(Held(a)) <= Cardinality(Op)
  BY HeldCard
<1>9. Entries'[c].opsSeen + Cardinality(Op) >= CrashPenalty + Cardinality(Held(c)')
  BY <1>5, <1>6, <1>7, <1>8
<1>10. ASSUME NEW a \in crashed', a # c
       PROVE  /\ Lower[a] = a
              /\ Entries'[a].opsIncluded = 0
              /\ Entries'[a].opsSeen + Cardinality(Op) >= CrashPenalty + Cardinality(Held(a)')
  <2>1. a \in crashed /\ a \in Address
    BY <1>10 DEF CrashedHandleOps, TypeOK
  <2> QED
    BY <1>4, <1>7, <1>10, <2>1 DEF BanInv
<1> QED
  BY <1>1, <1>5, <1>9, <1>10 DEF BanInv

LEMMA BanStep ==
  ASSUME IsFiniteSet(Op), TypeOK, StartInv, BanInv, [Next]_vars
  PROVE  BanInv'
<1>1. ASSUME UNCHANGED <<reputationEntries, crashed, pool>> PROVE BanInv'
  BY <1>1 DEF BanInv, Entries, Held
<1>2. CASE StartUp
  BY <1>1, <1>2 DEF StartUp, CreateInfrastructure, CreateServices, CreateManagers,
                    PassPreflight, StartUpFails, Exit, reputationVars, workVars
<1>3. ASSUME NEW o \in Op, Receive(o) PROVE BanInv'
  BY <1>1, <1>3 DEF Receive, reputationVars
<1>4. ASSUME NEW o \in Op, Answer(o) PROVE BanInv'
  <2>1. CASE UNCHANGED <<reputationVars, pool>>
    BY <1>1, <2>1 DEF reputationVars
  <2>2. CASE /\ pool' = pool \cup {o} /\ crashed' = crashed
             /\ UpdateSeenStatus(Entity[o], "increment")
    BY <2>2, BanAdmit
  <2> QED
    BY <1>4, <2>1, <2>2 DEF Answer
<1>5. ASSUME NEW o \in Op, TakeBack(o) \/ RemoveUserOpsForBannedAddr(o) PROVE BanInv'
  <2>1. /\ o \in pool /\ pool' \subseteq pool \ {o} /\ crashed' = crashed
        /\ \/ UpdateSeenStatus(Entity[o], "decrement")
           \/ reputationEntries' = reputationEntries
    BY <1>5 DEF TakeBack, RemoveUserOpsForBannedAddr
  <2>2. CASE UpdateSeenStatus(Entity[o], "decrement")
    BY <2>1, <2>2, BanTakeBack
  <2>3. CASE reputationEntries' = reputationEntries
    <3>1. pool' \subseteq pool /\ crashed' \subseteq crashed /\ Entries' = Entries
      BY <2>1, <2>3 DEF Entries
    <3> QED
      BY <3>1, BanShrink
  <2> QED
    BY <2>1, <2>2, <2>3
<1>6. ASSUME NEW o \in Op, Execute(o) PROVE BanInv'
  <2>1. pool' \subseteq pool /\ crashed' = crashed /\ Entries' = Entries
    BY <1>6 DEF Execute, reputationVars, Entries
  <2> QED
    BY <2>1, BanShrink
<1>7. ASSUME NEW b \in Address, Ban(b) PROVE BanInv'
  BY <1>7, BanBan DEF Ban
<1>8. CASE Reset
  <2>1. ASSUME NEW b \in Address, NEW entry \in Settings, SetReputation(b, entry), pool' = pool
        PROVE  BanInv'
    <3>1. Lower[b] \in Address /\ entry \in ReputationEntry
      BY AddressAssumption, SettingsAssumption
    <3>2. \A a \in Address \ {Lower[b]} : Entries'[a] = Entries[a]
      BY <2>1, <3>1, WithEntries DEF SetReputation
    <3>3. crashed' = crashed \ {Lower[b]} /\ crashed \subseteq Address
      BY <2>1 DEF SetReputation, TypeOK
    <3>4. \A a : Held(a)' = Held(a)
      BY <2>1 DEF Held
    <3> QED
      BY <3>2, <3>3, <3>4 DEF BanInv
  <2>2. CASE ClearReputation
    BY <2>2 DEF ClearReputation, BanInv
  <2> QED
    BY <1>8, <2>1, <2>2 DEF Reset, workVars
<1>9. ASSUME NEW mode, SetBundlingMode(mode) PROVE BanInv'
  BY <1>1, <1>9 DEF SetBundlingMode, reputationVars, workVars
<1>10. CASE Hour
  <2>1. reputationEntries' = reputationEntries
    BY <1>10, HourIdle DEF Hour, TypeOK, StartInv
  <2> QED
    BY <1>1, <1>10, <2>1 DEF Hour, HourlyTick, workVars
<1>11. CASE MetricsReject \/ Shutdown
  BY <1>1, <1>11 DEF MetricsReject, Shutdown, Sigterm, SigtermRejects, Close, Write,
                     Drained, ShutdownComplete, Exit, reputationVars, workVars
<1>12. CASE UNCHANGED vars
  BY <1>1, <1>12 DEF vars, reputationVars, workVars
<1> QED
  BY <1>2, <1>3, <1>4, <1>5, <1>6, <1>7, <1>8, <1>9, <1>10, <1>11, <1>12 DEF Next, Work

\* The penalty outweighs whatever may be taken back (10000 in the code, where
\* an address is banned from 510 on).
PenaltySuffices ==
  /\ IsFiniteSet(Op)
  /\ CrashPenalty >= (BanSlack + 1) * MinInclusionDenominator + Cardinality(Op)

LEMMA BanHolds ==
  ASSUME PenaltySuffices, TypeOK, BanInv
  PROVE  CrashedStaysBanned
<1> SUFFICES ASSUME NEW a \in crashed, a \notin WhiteList PROVE Status(a) = "BANNED"
  BY DEF CrashedStaysBanned
<1> DEFINE n == Entries[a].opsSeen
           needed == (BanSlack + 1) * MinInclusionDenominator
<1>1. n \in Nat
  BY EntriesTotal DEF TypeOK, ReputationEntry
<1>2. /\ Cardinality(Op) \in Nat /\ Cardinality(Held(a)) \in Nat
      /\ CrashPenalty \in Nat /\ BanSlack \in Nat /\ ThrottlingSlack \in Nat
      /\ ThrottlingSlack <= BanSlack /\ MinInclusionDenominator \in Nat \ {0}
  BY HeldCard, ReputationAssumption DEF PenaltySuffices
<1>3. /\ Lower[a] = a /\ Entries[a].opsIncluded = 0
      /\ n + Cardinality(Op) >= CrashPenalty + Cardinality(Held(a))
  BY DEF BanInv
<1>4. needed \in Nat
  BY <1>2
<1>5. n >= needed
  <2> HIDE DEF needed, n
  <2>1. CrashPenalty >= needed + Cardinality(Op)
    BY DEF PenaltySuffices, needed
  <2> QED
    BY <1>1, <1>2, <1>3, <1>4, <2>1
<1>6. n \div MinInclusionDenominator > BanSlack
  BY <1>1, <1>2, <1>5, DivBound
<1>7. n \div MinInclusionDenominator \in Int
  BY <1>1, <1>2
<1>8. ~(n \div MinInclusionDenominator <= 0 + ThrottlingSlack)
  BY <1>2, <1>6, <1>7
<1>9. ~(n \div MinInclusionDenominator <= 0 + BanSlack)
  BY <1>2, <1>6, <1>7
<1> QED
  BY <1>3, <1>8, <1>9 DEF Status, GetStatus

\* A ban for a crash lasts until the operator resets it, for any number of
\* operations, hours and requests the penalty outweighs.
THEOREM CrashBanLasts ==
  ASSUME PenaltySuffices
  PROVE  Spec => []CrashedStaysBanned
<1>1. Init => BanInv
  BY DEF Init, InitReputation, BanInv
<1>2. TypeOK /\ StartInv /\ BanInv /\ [Next]_vars => BanInv'
  BY BanStep DEF PenaltySuffices
<1>3. TypeOK /\ BanInv => CrashedStaysBanned
  BY BanHolds
<1> QED
  BY <1>1, <1>2, <1>3, NodeTypeCorrect, StartCorrect, PTL DEF Spec
=============================================================================
