----------------------------- MODULE RulesProofs -----------------------------
(***************************************************************************)
(* Theorems about Erc7562Rules, for every value of its constants: call     *)
(* trees of any size and depth, frames that do anything the observations   *)
(* allow, any stakes and any hashes.                                       *)
(***************************************************************************)
EXTENDS Erc7562Rules, Sums

(* The invariant: the stack holds frames the parser can attribute *)

OpOK ==
  /\ op.factory \in {NoAddress, Factory, Eip7702Marker}
  /\ op.paymaster \in {NoAddress, Paymaster}
  /\ op.keccak = KeccakInputs
  /\ op.stakes \in [Entities -> StakeInfos]
  /\ op.factory # Factory => op.stakes["factory"].stake = 0
  /\ op.paymaster = NoAddress => op.stakes["paymaster"].stake = 0

\* The address of the entity a frame works for.
Attributed(entity, address) ==
  /\ entity = "account" => address = Sender
  /\ entity = "factory" => address = op.factory
  /\ entity = "paymaster" => address = op.paymaster

\* The entry point calls what validation needs and nobody else; the sender
\* creator the account or its factory; and no delegate call starts from them.
WellCalled(f) ==
  /\ f.to = EntryPoint <=> f.self = EntryPoint
  /\ f.to = SenderCreator <=> f.self = SenderCreator
  /\ f.from = ZeroAddress => f.to = EntryPoint
  /\ f.from = EntryPoint => f.to \in {Sender, SenderCreator, EntryPoint, op.paymaster}
  /\ f.from = SenderCreator => f.to \in {Sender, op.factory}

FrameTypes == CallTypes \cup {"CALL"}
EntityNames == Entities \cup System

Frames ==
  {f \in [type : FrameTypes, from : Contracts \cup {ZeroAddress}, to : Contracts,
          self : Contracts, entity : EntityNames,
          entityAddress : Contracts \cup {NoAddress},
          delegatecallStorageAddress : Contracts, depth : 0 .. MaxDepth] :
     /\ f.delegatecallStorageAddress = f.self
     /\ f.depth = 0 => f.to = EntryPoint
     /\ WellCalled(f)
     /\ Attributed(f.entity, f.entityAddress)}

RulesInv ==
  /\ OpOK
  /\ stack \in Seq(Frames)
  /\ storageMap \subseteq (Contracts \ {EntryPoint}) \X Nat
  /\ contractAddresses \subseteq Contracts
  /\ result \in {"running", "accepted"} \cup Range(Reported)
  /\ frames \in Nat

-----------------------------------------------------------------------------
(* The six contracts *)

LEMMA OneMore ==
  ASSUME NEW S, NEW k \in Nat, NEW x,
         IsFiniteSet(S), Cardinality(S) \in Nat, Cardinality(S) <= k
  PROVE  /\ IsFiniteSet(S \cup {x}) /\ Cardinality(S \cup {x}) \in Nat
         /\ Cardinality(S \cup {x}) <= k + 1
<1>1. /\ IsFiniteSet(S \cup {x})
      /\ Cardinality(S \cup {x}) = IF x \in S THEN Cardinality(S) ELSE Cardinality(S) + 1
  BY FS_AddElement
<1> QED
  BY <1>1

LEMMA FewerThanSix ==
  ASSUME NEW a, NEW b, NEW c, NEW d, NEW e, NEW f,
         Cardinality({a, b, c, d, e, f}) = 6
  PROVE  f \notin {a, b, c, d, e}
<1>1. IsFiniteSet({a}) /\ Cardinality({a}) \in Nat /\ Cardinality({a}) <= 1
  BY FS_Singleton
<1>2. IsFiniteSet({a, b}) /\ Cardinality({a, b}) \in Nat /\ Cardinality({a, b}) <= 2
  <2>1. {a, b} = {a} \cup {b}
    OBVIOUS
  <2>2. /\ IsFiniteSet({a} \cup {b}) /\ Cardinality({a} \cup {b}) \in Nat
        /\ Cardinality({a} \cup {b}) <= 1 + 1
    BY <1>1, OneMore
  <2> QED
    BY <2>1, <2>2
<1>3. IsFiniteSet({a, b, c}) /\ Cardinality({a, b, c}) \in Nat /\ Cardinality({a, b, c}) <= 3
  <2>1. {a, b, c} = {a, b} \cup {c}
    OBVIOUS
  <2>2. /\ IsFiniteSet({a, b} \cup {c}) /\ Cardinality({a, b} \cup {c}) \in Nat
        /\ Cardinality({a, b} \cup {c}) <= 2 + 1
    BY <1>2, OneMore
  <2> QED
    BY <2>1, <2>2
<1>4. /\ IsFiniteSet({a, b, c, d}) /\ Cardinality({a, b, c, d}) \in Nat
      /\ Cardinality({a, b, c, d}) <= 4
  <2>1. {a, b, c, d} = {a, b, c} \cup {d}
    OBVIOUS
  <2>2. /\ IsFiniteSet({a, b, c} \cup {d}) /\ Cardinality({a, b, c} \cup {d}) \in Nat
        /\ Cardinality({a, b, c} \cup {d}) <= 3 + 1
    BY <1>3, OneMore
  <2> QED
    BY <2>1, <2>2
<1>5. /\ IsFiniteSet({a, b, c, d, e}) /\ Cardinality({a, b, c, d, e}) \in Nat
      /\ Cardinality({a, b, c, d, e}) <= 5
  <2>1. {a, b, c, d, e} = {a, b, c, d} \cup {e}
    OBVIOUS
  <2>2. /\ IsFiniteSet({a, b, c, d} \cup {e}) /\ Cardinality({a, b, c, d} \cup {e}) \in Nat
        /\ Cardinality({a, b, c, d} \cup {e}) <= 4 + 1
    BY <1>4, OneMore
  <2> QED
    BY <2>1, <2>2
<1>6. {a, b, c, d, e, f} = {a, b, c, d, e} \cup {f}
  OBVIOUS
<1> QED
  BY <1>5, <1>6, FS_AddElement

LEMMA Distinct ==
  /\ EntryPoint \notin {SenderCreator, Sender, Factory, Paymaster, Other}
  /\ SenderCreator \notin {EntryPoint, Sender, Factory, Paymaster, Other}
  /\ Sender \notin {EntryPoint, SenderCreator, Factory, Paymaster, Other}
  /\ ZeroAddress \notin Contracts /\ NoAddress \notin Contracts
  /\ Eip7702Marker \notin Contracts
<1>1. EntryPoint \notin {SenderCreator, Sender, Factory, Paymaster, Other}
  <2>1. Cardinality({SenderCreator, Sender, Factory, Paymaster, Other, EntryPoint}) = 6
    <3>1. Contracts = {SenderCreator, Sender, Factory, Paymaster, Other, EntryPoint}
      BY DEF Contracts
    <3> QED
      BY <3>1, AddressAssumption
  <2> QED
    BY <2>1, FewerThanSix, Zenon
<1>2. SenderCreator \notin {EntryPoint, Sender, Factory, Paymaster, Other}
  <2>1. Cardinality({EntryPoint, Sender, Factory, Paymaster, Other, SenderCreator}) = 6
    <3>1. Contracts = {EntryPoint, Sender, Factory, Paymaster, Other, SenderCreator}
      BY DEF Contracts
    <3> QED
      BY <3>1, AddressAssumption
  <2> QED
    BY <2>1, FewerThanSix, Zenon
<1>3. Sender \notin {EntryPoint, SenderCreator, Factory, Paymaster, Other}
  <2>1. Cardinality({EntryPoint, SenderCreator, Factory, Paymaster, Other, Sender}) = 6
    <3>1. Contracts = {EntryPoint, SenderCreator, Factory, Paymaster, Other, Sender}
      BY DEF Contracts
    <3> QED
      BY <3>1, AddressAssumption
  <2> QED
    BY <2>1, FewerThanSix, Zenon
<1>4. ZeroAddress \notin Contracts /\ NoAddress \notin Contracts
  BY AddressAssumption DEF ZeroAddress, NoAddress
<1> QED
  BY <1>1, <1>2, <1>3, <1>4, AddressAssumption

-----------------------------------------------------------------------------
(* What detectEntityChange makes of a popped frame *)

LEMMA Detected ==
  ASSUME OpOK, NEW f \in Frames, NEW s, s = DetectEntityChange(f)
  PROVE  /\ s.entity \in EntityNames
         /\ s.entityAddress \in Contracts \cup {NoAddress}
         /\ Attributed(s.entity, s.entityAddress)
         /\ s.type = f.type /\ s.from = f.from /\ s.to = f.to /\ s.self = f.self
         /\ s.delegatecallStorageAddress = f.delegatecallStorageAddress
         /\ s.depth = f.depth
<1>1. /\ s.type = f.type /\ s.from = f.from /\ s.to = f.to /\ s.self = f.self
      /\ s.delegatecallStorageAddress = f.delegatecallStorageAddress
      /\ s.depth = f.depth
      /\ s.entity = EntityOf(f).name /\ s.entityAddress = EntityOf(f).address
  BY DEF DetectEntityChange, Frames
<1>2. /\ f.entity \in EntityNames /\ f.entityAddress \in Contracts \cup {NoAddress}
      /\ f.to \in Contracts /\ f.from \in Contracts \cup {ZeroAddress}
      /\ Attributed(f.entity, f.entityAddress) /\ WellCalled(f)
  BY DEF Frames
<1>3. {Sender, EntryPoint, SenderCreator} \subseteq Contracts
  BY DEF Contracts
<1>4. /\ EntityOf(f).name \in EntityNames
      /\ EntityOf(f).address \in Contracts \cup {NoAddress}
      /\ Attributed(EntityOf(f).name, EntityOf(f).address)
  BY <1>2, <1>3 DEF EntityOf, Attributed, WellCalled, EntityNames, Entities, System
<1> QED
  BY <1>1, <1>4

-----------------------------------------------------------------------------
(* The frames a call opens *)

\* The calls of a frame that passed.
CallsOf(s) ==
  {h \in [type : FrameTypes, from : Contracts, to : Contracts, self : Contracts] :
     /\ s.depth < MaxDepth
     /\ h.from = s.self
     /\ h.type = "DELEGATECALL" => h.self = s.self
     /\ h.type # "DELEGATECALL" => h.self = h.to
     /\ WellCalled(h)}

LEMMA HeaderIn ==
  ASSUME OpOK, NEW s, s.self \in Contracts, s.depth < MaxDepth, NEW type \in FrameTypes,
         NEW to \in Contracts, WellCalled(Header(s, type, to))
  PROVE  Header(s, type, to) \in CallsOf(s)
<1>1. Header(s, type, to) \in [type : FrameTypes, from : Contracts, to : Contracts, self : Contracts]
  BY DEF Header
<1> QED
  BY <1>1 DEF CallsOf, Header

LEMMA CallsIn ==
  ASSUME OpOK, NEW f \in Frames, NEW s, s = DetectEntityChange(f), NEW calls \in Calls(s)
  PROVE  calls \in Seq(CallsOf(s))
<1>1. /\ s.self \in Contracts /\ s.to \in Contracts /\ s.depth \in 0 .. MaxDepth
      /\ s.depth = 0 => s.to = EntryPoint
      /\ s.to = EntryPoint <=> s.self = EntryPoint
      /\ s.to = SenderCreator <=> s.self = SenderCreator
  BY Detected DEF Frames, WellCalled
<1>2. MaxDepth \in Nat /\ MaxDepth > 0 /\ "CALL" \in FrameTypes
  BY AddressAssumption DEF FrameTypes
<1>3. CASE s.depth = 0
  <2> DEFINE call(address) == <<Header(s, "CALL", address)>>
  <2>1. ASSUME NEW to \in {Sender, SenderCreator, EntryPoint, Paymaster},
               to = Paymaster => op.paymaster = Paymaster
        PROVE  call(to) \in Seq(CallsOf(s))
    <3>1. to \in Contracts
      BY DEF Contracts
    <3>2. Header(s, "CALL", to) = [type |-> "CALL", from |-> EntryPoint, to |-> to, self |-> to]
      BY <1>1, <1>3 DEF Header
    <3>3. WellCalled(Header(s, "CALL", to))
      BY <2>1, <3>2, Distinct DEF WellCalled, Contracts
    <3>4. Header(s, "CALL", to) \in CallsOf(s)
      BY <1>1, <1>2, <1>3, <3>1, <3>3, HeaderIn
    <3> QED
      BY <3>4
  <2>2. /\ call(SenderCreator) \in Seq(CallsOf(s)) /\ call(Sender) \in Seq(CallsOf(s))
        /\ call(EntryPoint) \in Seq(CallsOf(s))
        /\ op.paymaster # NoAddress => call(op.paymaster) \in Seq(CallsOf(s))
    BY <2>1, Distinct DEF OpOK, Contracts
  <2>3. calls = (IF op.factory = NoAddress THEN <<>> ELSE call(SenderCreator))
                  \o call(Sender)
                  \o (IF op.paymaster = NoAddress THEN <<>> ELSE call(op.paymaster))
                  \o call(EntryPoint)
    BY <1>3 DEF Calls, EntryPointCalls
  <2>4. /\ (IF op.factory = NoAddress THEN <<>> ELSE call(SenderCreator)) \in Seq(CallsOf(s))
        /\ (IF op.paymaster = NoAddress THEN <<>> ELSE call(op.paymaster)) \in Seq(CallsOf(s))
    BY <2>2
  <2> HIDE DEF call
  <2> QED
    BY <2>2, <2>3, <2>4
<1>4. CASE s.depth # 0 /\ (s.to = EntryPoint \/ s.depth >= MaxDepth)
  <2>1. calls \in {<<>>}
    BY <1>4 DEF Calls
  <2> QED
    BY <2>1
<1>5. CASE s.depth # 0 /\ s.to # EntryPoint /\ ~ s.depth >= MaxDepth /\ s.to = SenderCreator
  <2> DEFINE to == IF op.factory = Factory THEN Factory ELSE Sender
             h == Header(s, "CALL", to)
  <2>1. calls = <<h>>
    BY <1>5 DEF Calls
  <2>2. to \in Contracts /\ to \in {Sender, op.factory} /\ to \in {Factory, Sender}
    BY DEF Contracts
  <2>3. h = [type |-> "CALL", from |-> SenderCreator, to |-> to, self |-> to]
    BY <1>1, <1>5 DEF Header
  <2> HIDE DEF to
  <2>4. WellCalled(h)
    BY <2>2, <2>3, Distinct DEF WellCalled, Contracts
  <2>5. h \in CallsOf(s)
    BY <1>1, <1>2, <1>5, <2>2, <2>4, HeaderIn
  <2> QED
    BY <2>1, <2>5
<1>6. CASE s.depth # 0 /\ s.to # EntryPoint /\ ~ s.depth >= MaxDepth /\ s.to # SenderCreator
  <2> DEFINE headers == UNION {{Header(s, type, to) : to \in Targets(type)} : type \in CallTypes}
  <2>1. calls \in UNION {[1 .. n -> headers] : n \in 0 .. MaxCalls}
    BY <1>6 DEF Calls, ContractCalls
  <2>2. \A type \in CallTypes : \A to \in Targets(type) :
          /\ to \in Contracts /\ to # SenderCreator
          /\ type = "DELEGATECALL" => to # EntryPoint
    BY Distinct DEF Targets, Creates, Contracts
  <2>3. ASSUME NEW type \in CallTypes, NEW to \in Targets(type)
        PROVE  Header(s, type, to) \in CallsOf(s)
    <3>1. /\ Header(s, type, to).to = to /\ Header(s, type, to).from = s.self
          /\ Header(s, type, to).self = IF type = "DELEGATECALL" THEN s.self ELSE to
      BY DEF Header
    <3>2. WellCalled(Header(s, type, to))
      BY <1>1, <1>6, <2>2, <3>1, Distinct DEF WellCalled
    <3> QED
      BY <1>1, <1>2, <1>6, <2>2, <3>2, HeaderIn DEF FrameTypes
  <2>4. headers \subseteq CallsOf(s)
    BY <2>3
  <2> HIDE DEF headers
  <2>5. PICK n \in 0 .. MaxCalls : calls \in [1 .. n -> headers]
    BY <2>1
  <2>6. calls \in Seq(headers)
    BY <2>5, AddressAssumption
  <2> QED
    BY <2>4, <2>6
<1> QED
  BY <1>3, <1>4, <1>5, <1>6

LEMMA ChildIn ==
  ASSUME OpOK, NEW f \in Frames, NEW s, s = DetectEntityChange(f), NEW h \in CallsOf(s)
  PROVE  Child(s, h) \in Frames
<1>1. /\ s.self \in Contracts /\ s.depth \in 0 .. MaxDepth /\ MaxDepth \in Nat
      /\ s.delegatecallStorageAddress = s.self
      /\ s.entity \in EntityNames /\ s.entityAddress \in Contracts \cup {NoAddress}
      /\ Attributed(s.entity, s.entityAddress)
  BY Detected, AddressAssumption DEF Frames
<1>2. /\ h.type \in FrameTypes /\ h.from \in Contracts /\ h.to \in Contracts
      /\ h.self \in Contracts /\ s.depth < MaxDepth /\ WellCalled(h)
      /\ (IF h.type = "DELEGATECALL" THEN s.self ELSE h.to) = h.self
  BY DEF CallsOf
<1>3. Child(s, h) =
        [type |-> h.type, from |-> h.from, to |-> h.to, self |-> h.self,
         entity |-> s.entity, entityAddress |-> s.entityAddress,
         delegatecallStorageAddress |-> h.self, depth |-> s.depth + 1]
  BY <1>1, <1>2 DEF Child
<1>4. s.depth + 1 \in 0 .. MaxDepth /\ s.depth + 1 # 0
  BY <1>1, <1>2
<1> QED
  BY <1>1, <1>2, <1>3, <1>4 DEF Frames, WellCalled

LEMMA PushedIn ==
  ASSUME OpOK, NEW f \in Frames, NEW s, s = DetectEntityChange(f), NEW calls \in Calls(s),
         NEW rest \in Seq(Frames)
  PROVE  Pushed(rest, s, calls) \in Seq(Frames) /\ Len(calls) \in Nat
<1>1. calls \in Seq(CallsOf(s))
  BY CallsIn
<1>2. Len(calls) \in Nat /\ DOMAIN calls = 1 .. Len(calls)
      /\ \A i \in 1 .. Len(calls) : calls[i] \in CallsOf(s)
  BY <1>1
<1>3. [i \in DOMAIN calls |-> Child(s, calls[i])] \in [1 .. Len(calls) -> Frames]
  BY <1>2, ChildIn
<1>4. [i \in DOMAIN calls |-> Child(s, calls[i])] \in Seq(Frames)
  BY <1>2, <1>3
<1> QED
  BY <1>2, <1>4 DEF Pushed

-----------------------------------------------------------------------------
(* Verdicts *)

\* The first check that fails has a rule to report.
LEMMA VerdictIn ==
  ASSUME NEW s, NEW o, s.entity # "unknown"
  PROVE  /\ Verdict(s, o) \in {"right"} \cup Range(Reported)
         /\ Verdict(s, o) = "right" => CheckStorage(s, o) /\ CheckOp031(s, o)
<1> DEFINE broken == {i \in DOMAIN Reported : ~ Checks(s, o)[i]}
<1>1. DOMAIN Reported = 1 .. 11 /\ "right" \notin Range(Reported)
  BY DEF Reported, Range
<1>2. Verdict(s, o) = IF broken = {} THEN "right"
                      ELSE Reported[CHOOSE i \in broken : \A j \in broken : i <= j]
  BY DEF Verdict
<1>3. Checks(s, o)[3] = CheckOp031(s, o) /\ Checks(s, o)[11] = CheckStorage(s, o)
  BY DEF Checks
<1>4. broken = {} => CheckStorage(s, o) /\ CheckOp031(s, o)
  BY <1>1, <1>3
<1>5. broken \subseteq 1 .. 11
  BY <1>1
<1> HIDE DEF broken
<1>6. ASSUME broken # {} PROVE \E i \in broken : \A j \in broken : i <= j
  <2> SUFFICES ASSUME \A i \in broken : \E j \in broken : j < i PROVE FALSE
    BY <1>5
  <2> DEFINE ok(n) == \A i \in broken : i > n
  <2>1. \A n \in 0 .. 11 : ok(n) /\ n < 11 => ok(n + 1)
    BY <1>5
  <2>2. ok(0)
    BY <1>5
  <2> HIDE DEF ok
  <2>3. ok(1) /\ ok(2) /\ ok(3) /\ ok(4)
    BY <2>1, <2>2
  <2>4. ok(5) /\ ok(6) /\ ok(7) /\ ok(8)
    BY <2>1, <2>3
  <2>5. ok(9) /\ ok(10) /\ ok(11)
    BY <2>1, <2>4
  <2>6. PICK i \in broken : i \in 1 .. 11
    BY <1>5, <1>6
  <2>7. i > 11
    BY <2>5, <2>6 DEF ok
  <2> QED
    BY <2>6, <2>7
<1>7. broken # {} => (CHOOSE i \in broken : \A j \in broken : i <= j) \in 1 .. 11
  BY <1>5, <1>6
<1>8. broken # {} => Verdict(s, o) \in Range(Reported)
  BY <1>1, <1>2, <1>7 DEF Range
<1> QED
  BY <1>1, <1>2, <1>4, <1>8

-----------------------------------------------------------------------------
(* The invariant is inductive *)

\* A frame popped from the stack leaves frames below it.
LEMMA Popped ==
  ASSUME NEW S, NEW seq \in Seq(S), seq # <<>>
  PROVE  Last(seq) \in S /\ Front(seq) \in Seq(S)
BY DEF Last, Front

LEMMA RulesInit == Init => RulesInv
<1> SUFFICES ASSUME Init PROVE RulesInv
  OBVIOUS
<1>1. OpOK
  BY DEF Init, OpOK
<1>2. InitialState \in Frames
  <2>1. /\ EntryPoint \in Contracts /\ 0 \in 0 .. MaxDepth
        /\ "CALL" \in FrameTypes /\ "none" \in EntityNames
    BY AddressAssumption DEF Contracts, FrameTypes, EntityNames, System
  <2>2. WellCalled(InitialState) /\ Attributed("none", NoAddress)
    BY Distinct DEF WellCalled, Attributed, InitialState, Contracts
  <2> QED
    BY <2>1, <2>2 DEF Frames, InitialState
<1>3. stack \in Seq(Frames)
  BY <1>2 DEF Init
<1> QED
  BY <1>1, <1>3 DEF Init, RulesInv

\* What CheckFrame does when it pops f, judges it as s and the frame did o.
Judges(f, s, o) ==
  /\ f = Last(stack) /\ s = DetectEntityChange(f)
  /\ op' = op /\ contractAddresses' = contractAddresses \cup {s.to}
  /\ \/ /\ Verdict(s, o) # "right"
        /\ result' = Verdict(s, o)
        /\ stack' = <<>>
        /\ UNCHANGED <<storageMap, frames, accesses, creations>>
     \/ /\ Verdict(s, o) = "right"
        /\ storageMap' = storageMap \cup StorageOf(s, o)
        /\ Record(s, o)
        /\ \E calls \in Calls(s) :
             /\ stack' = Pushed(Front(stack), s, calls)
             /\ frames' = frames + Len(calls)
        /\ UNCHANGED result

LEMMA Judged ==
  ASSUME RulesInv, CheckFrame
  PROVE  \E f \in Frames, o \in Observations : Judges(f, DetectEntityChange(f), o)
<1>1. Last(stack) \in Frames
  BY Popped DEF RulesInv, CheckFrame
<1> QED
  BY <1>1 DEF CheckFrame, Judges

LEMMA SlotsAreNumbers ==
  ASSUME NEW o \in Observations
  PROVE  o.slots \subseteq [slot : Nat, write : BOOLEAN]
BY ObservationAssumption

LEMMA RulesStep == RulesInv /\ [Next]_vars => RulesInv'
<1> SUFFICES ASSUME RulesInv, [Next]_vars PROVE RulesInv'
  OBVIOUS
<1>1. ASSUME op' = op PROVE OpOK' /\ Frames' = Frames
  BY <1>1 DEF RulesInv, OpOK, Frames, WellCalled, Attributed
<1>2. CASE SkipSelfCall
  <2>1. Front(stack) \in Seq(Frames)
    BY <1>2, Popped DEF RulesInv, SkipSelfCall
  <2> QED
    BY <1>1, <1>2, <2>1 DEF RulesInv, SkipSelfCall
<1>3. CASE CheckFrame
  <2>0. PICK f \in Frames, o \in Observations : Judges(f, DetectEntityChange(f), o)
    BY <1>3, Judged
  <2> DEFINE s == DetectEntityChange(f)
  <2>1. Judges(f, s, o) /\ s = DetectEntityChange(f)
    BY <2>0
  <2> HIDE DEF s
  <2>2. s.entity \in EntityNames /\ s.to \in Contracts
    BY <2>1, Detected DEF RulesInv, Frames
  <2>3. op' = op /\ contractAddresses' \subseteq Contracts
    BY <2>1, <2>2 DEF RulesInv, Judges
  <2>4. CASE Verdict(s, o) # "right"
    <3>1. Verdict(s, o) \in Range(Reported)
      BY <2>2, <2>4, VerdictIn DEF EntityNames, Entities, System
    <3>2. stack' = <<>> /\ <<>> \in Seq(Frames)
      BY <2>1, <2>4 DEF Judges
    <3>3. stack' \in Seq(Frames)
      BY <3>2
    <3> QED
      BY <1>1, <2>1, <2>3, <2>4, <3>1, <3>3 DEF RulesInv, Judges
  <2>5. CASE Verdict(s, o) = "right"
    <3>1. Front(stack) \in Seq(Frames)
      BY <1>3, Popped DEF RulesInv, CheckFrame
    <3>2. stack' \in Seq(Frames) /\ frames' \in Nat
      BY <2>1, <2>5, <3>1, PushedIn DEF RulesInv, Judges
    <3>3. StorageOf(s, o) \subseteq (Contracts \ {EntryPoint}) \X Nat
      BY <2>2, SlotsAreNumbers DEF StorageOf
    <3> QED
      BY <1>1, <2>1, <2>3, <2>5, <3>2, <3>3 DEF RulesInv, Judges
  <2> QED
    BY <2>4, <2>5
<1>4. CASE Accept
  BY <1>1, <1>4 DEF RulesInv, Accept
<1>5. CASE UNCHANGED vars
  BY <1>1, <1>5 DEF RulesInv, vars
<1> QED
  BY <1>2, <1>3, <1>4, <1>5 DEF Next

LEMMA RulesInvCorrect == Spec => []RulesInv
BY RulesInit, RulesStep, PTL DEF Spec

-----------------------------------------------------------------------------
(* What follows from it *)

\* The parser's state is of its types, and in the trace of a handleOps there is
\* no frame it cannot attribute to an entity.
THEOREM TypeCorrect == Spec => []TypeOK
<1>1. RulesInv => TypeOK
  <2> SUFFICES ASSUME RulesInv PROVE TypeOK
    OBVIOUS
  <2>1. \A i \in DOMAIN stack : stack[i] \in Frames
    BY DEF RulesInv
  <2> QED
    BY <2>1 DEF TypeOK, RulesInv, Frames, EntityNames
<1> QED
  BY <1>1, RulesInvCorrect, PTL

\* Through any nesting of delegate calls, the context the parser carries is the
\* one the EVM works on.
THEOREM ContextFollowed == Spec => []ContextTracked
<1>1. RulesInv => ContextTracked
  <2> SUFFICES ASSUME RulesInv PROVE ContextTracked
    OBVIOUS
  <2>1. \A i \in DOMAIN stack : stack[i] \in Frames
    BY DEF RulesInv
  <2> QED
    BY <2>1 DEF ContextTracked, Frames
<1> QED
  BY <1>1, RulesInvCorrect, PTL

\* The accesses a frame adds to the history, in its own storage.
LEMMA NewAccesses ==
  ASSUME NEW f \in Frames, NEW s, NEW o, Judges(f, s, o), NEW a \in accesses',
         a \notin accesses, ~ a.delegated
  PROVE  /\ Verdict(s, o) = "right" /\ s.to # EntryPoint
         /\ \E b \in o.slots :
              /\ a.owner = s.to /\ a.slot = b.slot
              /\ a.write = b.write /\ a.entity = s.entity
<1>1. Verdict(s, o) = "right" /\ Record(s, o)
  BY DEF Judges
<1>2. PICK b \in {c \in o.slots : s.to # EntryPoint} :
        a = [owner |-> s.self, slot |-> b.slot, write |-> b.write,
             entity |-> s.entity, delegated |-> s.self # s.to]
  BY <1>1 DEF Record
<1>3. /\ a.owner = s.self /\ a.slot = b.slot /\ a.write = b.write /\ a.entity = s.entity
      /\ a.delegated = (s.self # s.to)
  BY <1>2
<1>4. s.self = s.to
  <2> SUFFICES ASSUME s.self # s.to PROVE FALSE
    OBVIOUS
  <2>1. a.delegated
    BY <1>3
  <2> QED
    BY <2>1
<1> QED
  BY <1>1, <1>2, <1>3, <1>4

-----------------------------------------------------------------------------
(* Storage rules *)

SendersOwn(owner, slot) ==
  \/ owner = Sender
  \/ slot = Sender
  \/ \E k \in KeccakInputs : k.prefix = Sender /\ slot - k.hash \in 0 .. 127

Isolated(owner, slot, write, entity) ==
  /\ ~ IsEntityStaked(entity) => SendersOwn(owner, slot)
  /\ write => \/ SendersOwn(owner, slot)
              \/ entity = "factory" /\ owner = Factory
              \/ entity = "paymaster" /\ owner = Paymaster
              \/ \E k \in KeccakInputs : /\ slot - k.hash \in 0 .. 127
                                         /\ k.prefix \in {Factory, Paymaster}
              \/ slot \in {Factory, Paymaster}

LEMMA Associated ==
  ASSUME OpOK, NEW slot \in Nat, NEW address, AssociatedWith(slot, address)
  PROVE  \/ slot = address
         \/ \E k \in KeccakInputs : k.prefix = address /\ slot - k.hash \in 0 .. 127
<1> SUFFICES ASSUME slot # address
             PROVE  \E k \in KeccakInputs : k.prefix = address /\ slot - k.hash \in 0 .. 127
  OBVIOUS
<1>1. PICK h \in EntitySlots(address) : slot \in h .. h + 127
  BY DEF AssociatedWith
<1>2. h \in {k.hash : k \in {i \in op.keccak : i.prefix = address}}
  BY <1>1 DEF EntitySlots
<1>3. PICK k \in KeccakInputs : k.prefix = address /\ h = k.hash
  BY <1>2 DEF OpOK
<1>4. k.hash \in Nat
  BY ObservationAssumption
<1> QED
  BY <1>1, <1>3, <1>4

\* An access the rules allow keeps operations apart.
LEMMA AllowedIsIsolated ==
  ASSUME OpOK, NEW s, NEW b \in [slot : Nat, write : BOOLEAN], AllowedSlot(s, b),
         Attributed(s.entity, s.entityAddress)
  PROVE  Isolated(s.to, b.slot, b.write, s.entity)
<1> DEFINE slot == b.slot
<1>1. slot \in Nat
  OBVIOUS
<1>2. CASE s.to = Sender \/ AssociatedWith(slot, Sender)
  <2>1. SendersOwn(s.to, slot)
    BY <1>1, <1>2, Associated DEF SendersOwn
  <2> QED
    BY <2>1 DEF Isolated
<1>3. CASE /\ s.to # Sender /\ ~ AssociatedWith(slot, Sender)
           /\ IsEntityStaked(s.entity)
           /\ \/ s.to = s.entityAddress
              \/ AssociatedWith(slot, s.entityAddress)
              \/ ~ b.write
  <2>1. \/ s.entity = "account" /\ s.entityAddress = Sender
        \/ s.entity = "factory" /\ s.entityAddress = Factory
        \/ s.entity = "paymaster" /\ s.entityAddress = Paymaster
    <3>1. s.entity = "factory" => op.factory = Factory
      BY <1>3 DEF IsEntityStaked, OpOK
    <3>2. s.entity = "paymaster" => op.paymaster = Paymaster
      BY <1>3 DEF IsEntityStaked, OpOK
    <3> QED
      BY <1>3, <3>1, <3>2 DEF IsEntityStaked, Entities, Attributed
  <2>2. CASE ~ b.write
    BY <1>3, <2>2 DEF Isolated
  <2>3. CASE s.to = s.entityAddress
    BY <1>3, <2>1, <2>3 DEF Isolated
  <2>4. CASE AssociatedWith(slot, s.entityAddress)
    <3>1. s.entityAddress \in {Factory, Paymaster}
      BY <1>3, <2>1, <2>4
    <3>2. \/ slot \in {Factory, Paymaster}
          \/ \E k \in KeccakInputs : /\ slot - k.hash \in 0 .. 127
                                     /\ k.prefix \in {Factory, Paymaster}
      BY <1>1, <2>4, <3>1, Associated
    <3> QED
      BY <1>3, <3>2 DEF Isolated
  <2> QED
    BY <1>3, <2>2, <2>3, <2>4
<1> QED
  BY <1>2, <1>3 DEF AllowedSlot

\* Unstaked code that passes touched only the sender's storage, and nobody wrote
\* elsewhere than there and in the storage of the staked entity itself.
THEOREM StorageKeptApart == Spec => []StorageIsolated
<1>0. StorageIsolated <=> \A a \in OwnAccesses : Isolated(a.owner, a.slot, a.write, a.entity)
  BY DEF StorageIsolated, Isolated, SendersOwn
<1>1. Init => StorageIsolated
  BY DEF Init, StorageIsolated, OwnAccesses
<1>2. RulesInv /\ StorageIsolated /\ [Next]_vars => StorageIsolated'
  <2> SUFFICES ASSUME RulesInv, StorageIsolated, [Next]_vars PROVE StorageIsolated'
    OBVIOUS
  <2>0. StorageIsolated' <=> \A a \in OwnAccesses' : Isolated(a.owner, a.slot, a.write, a.entity)'
    BY DEF StorageIsolated, Isolated, SendersOwn
  <2>1. op' = op
    BY DEF Next, SkipSelfCall, CheckFrame, Accept, vars
  <2>2. \A owner, slot, write, entity :
          Isolated(owner, slot, write, entity) => Isolated(owner, slot, write, entity)'
    BY <2>1 DEF Isolated, SendersOwn, IsEntityStaked
  <2>3. CASE SkipSelfCall \/ Accept \/ UNCHANGED vars
    <3>1. OwnAccesses' = OwnAccesses
      BY <2>3 DEF SkipSelfCall, Accept, vars, OwnAccesses
    <3> QED
      BY <1>0, <2>0, <2>2, <3>1
  <2>4. CASE CheckFrame
    <3>0. PICK f \in Frames, o \in Observations : Judges(f, DetectEntityChange(f), o)
      BY <2>4, Judged
    <3> DEFINE s == DetectEntityChange(f)
    <3>1. Judges(f, s, o) /\ s = DetectEntityChange(f)
      BY <3>0
    <3> HIDE DEF s
    <3> SUFFICES ASSUME NEW a \in accesses', ~ a.delegated
                 PROVE  Isolated(a.owner, a.slot, a.write, a.entity)
      BY <2>0, <2>2 DEF OwnAccesses
    <3>2. CASE a \in accesses
      BY <1>0, <3>2 DEF OwnAccesses
    <3>3. CASE a \notin accesses
      <4>1. Verdict(s, o) = "right" /\ s.to # EntryPoint
        BY <3>1, <3>3, NewAccesses
      <4>2. PICK b \in o.slots : /\ a.owner = s.to /\ a.slot = b.slot
                                 /\ a.write = b.write /\ a.entity = s.entity
        BY <3>1, <3>3, NewAccesses
      <4>3. Attributed(s.entity, s.entityAddress) /\ s.entity # "unknown"
        BY <3>1, Detected DEF RulesInv, EntityNames, Entities, System
      <4>4. CheckStorage(s, o)
        BY <4>1, <4>3, VerdictIn
      <4>5. AllowedSlot(s, b) /\ b \in [slot : Nat, write : BOOLEAN]
        BY <4>1, <4>4, SlotsAreNumbers DEF CheckStorage
      <4>6. Isolated(s.to, b.slot, b.write, s.entity)
        BY <4>3, <4>5, AllowedIsIsolated DEF RulesInv
      <4> QED
        BY <4>2, <4>6
    <3> QED
      BY <3>2, <3>3
  <2> QED
    BY <2>3, <2>4 DEF Next
<1> QED
  BY <1>1, <1>2, RulesInvCorrect, PTL DEF Spec

\* With an unstaked factory, no CREATE2 that passes deploys anything but the
\* sender.
THEOREM DeploysSenderOnly == Spec => []OnlySenderDeployed
<1>1. Init => OnlySenderDeployed
  BY DEF Init, OnlySenderDeployed
<1>2. RulesInv /\ OnlySenderDeployed /\ [Next]_vars => OnlySenderDeployed'
  <2> SUFFICES ASSUME RulesInv, OnlySenderDeployed, [Next]_vars,
                      ~ IsEntityStaked("factory")', NEW c \in creations', c.type = "CREATE2"
               PROVE  c.to = Sender
    BY DEF OnlySenderDeployed
  <2>1. op' = op
    BY DEF Next, SkipSelfCall, CheckFrame, Accept, vars
  <2>2. ~ IsEntityStaked("factory")
    BY <2>1 DEF IsEntityStaked
  <2>3. CASE c \in creations
    BY <2>2, <2>3 DEF OnlySenderDeployed
  <2>4. CASE c \notin creations
    <3>0. CheckFrame
      BY <2>4 DEF Next, SkipSelfCall, Accept, vars
    <3>1. PICK f \in Frames, o \in Observations : Judges(f, DetectEntityChange(f), o)
      BY <3>0, Judged
    <3> DEFINE s == DetectEntityChange(f)
    <3>2. Judges(f, s, o) /\ s = DetectEntityChange(f)
      BY <3>1
    <3> HIDE DEF s
    <3>3. Verdict(s, o) = "right" /\ Record(s, o)
      BY <2>4, <3>2 DEF Judges
    <3>4. c.type = s.type /\ c.to = s.to
      BY <2>4, <3>3 DEF Record
    <3>5. s.entity # "unknown"
      BY <3>2, Detected DEF RulesInv, EntityNames, Entities, System
    <3>6. CheckOp031(s, o)
      BY <3>3, <3>5, VerdictIn
    <3> QED
      BY <2>2, <3>4, <3>6 DEF CheckOp031, AllowedByOp032, AllowedByErep060, Creates
  <2> QED
    BY <2>3, <2>4
<1> QED
  BY <1>1, <1>2, RulesInvCorrect, PTL DEF Spec

=============================================================================
