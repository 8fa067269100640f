--------------------------- MODULE ReputationRules ---------------------------
(***************************************************************************)
(* The stateless part of src/src/reputation/reputation-manager.ts: how a   *)
(* reputation entry becomes a status, and what each update of an entry     *)
(* computes.  The modules that hold reputationEntries in their state       *)
(* (Mempool) extend this one.                                              *)
(*                                                                         *)
(* An address is a name with a spelling: the same account may arrive       *)
(* checksummed or in lower case, and Lower is toLowerCase().  A missing    *)
(* reputation entry and one with both counters at zero behave alike in     *)
(* every operation, so entries are total functions and ZeroEntry stands    *)
(* for "no entry".                                                         *)
(***************************************************************************)
EXTENDS Integers

CONSTANTS
  Address,                  \* every spelling of every address in use
  NoAddress,                \* undefined: the operation has no such entity
  Lower,                    \* toLowerCase, a function on Address
  WhiteList, BlackList,     \* the lists given at start-up, as spelled there
  Staked,                   \* addresses whose stake and unstake delay suffice
  MinInclusionDenominator,  \* 10 in the code
  ThrottlingSlack,          \* 10 in the code
  BanSlack,                 \* 50 in the code
  CrashPenalty,             \* 10000 in the code
  SameUnstakedEntityMempoolCount,  \* 10 in the code
  InclusionRateFactor,      \* 10 in the code
  IncludedAllowance         \* 10000 in the code

ASSUME AddressAssumption ==
  /\ NoAddress \notin Address
  /\ Lower \in [Address -> Address]
  /\ \A a \in Address : Lower[Lower[a]] = Lower[a]

ASSUME ReputationAssumption ==
  /\ WhiteList \subseteq Address
  /\ BlackList \subseteq Address
  /\ Staked \subseteq Address
  /\ MinInclusionDenominator \in Nat \ {0}
  /\ ThrottlingSlack \in Nat
  /\ BanSlack \in Nat
  /\ ThrottlingSlack <= BanSlack
  /\ CrashPenalty \in Nat
  /\ SameUnstakedEntityMempoolCount \in Nat
  /\ InclusionRateFactor \in Nat
  /\ IncludedAllowance \in Nat

ReputationEntry == [opsSeen : Nat, opsIncluded : Nat]
ZeroEntry == [opsSeen |-> 0, opsIncluded |-> 0]

------------------------------------------------------------------------------
\* getStatus: the address is lowered, the lists are searched as spelled.
GetStatus(entries, addr) ==
  LET a == Lower[addr]
      minExpectedIncluded == entries[a].opsSeen \div MinInclusionDenominator
  IN  CASE a \in WhiteList -> "OK"
        [] a \notin WhiteList /\ a \in BlackList -> "BANNED"
        [] OTHER ->
             IF minExpectedIncluded <= entries[a].opsIncluded + ThrottlingSlack
             THEN "OK"
             ELSE IF minExpectedIncluded <= entries[a].opsIncluded + BanSlack
                  THEN "THROTTLED"
                  ELSE "BANNED"

\* checkStake: a banned entity fails it too, a whitelisted one still needs stake.
PassesStake(entries, addr) ==
  GetStatus(entries, addr) # "BANNED" /\ addr \in Staked

\* calculateMaxAllowedMempoolOpsUnstaked
MaxAllowedMempoolOpsUnstaked(entries, addr) ==
  LET e == entries[Lower[addr]]
      rate == IF e.opsSeen = 0 THEN 0
              ELSE (e.opsIncluded * InclusionRateFactor) \div e.opsSeen
      allowance == IF e.opsIncluded < IncludedAllowance
                   THEN e.opsIncluded ELSE IncludedAllowance
  IN  SameUnstakedEntityMempoolCount + rate + allowance

\* updateSeenStatus: one up, or one down to a floor of zero.
SeenUpdate(entries, addr, action) ==
  LET seen == entries[Lower[addr]].opsSeen
  IN  [entries EXCEPT ![Lower[addr]] =
         [opsSeen |-> IF action = "increment" THEN seen + 1
                      ELSE IF seen = 0 THEN 0 ELSE seen - 1,
          opsIncluded |-> @.opsIncluded]]

\* crashedHandleOps
CrashUpdate(entries, addr) ==
  [entries EXCEPT ![Lower[addr]] =
     [opsSeen |-> @.opsSeen + CrashPenalty, opsIncluded |-> 0]]
==============================================================================
