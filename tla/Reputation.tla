----------------------------- MODULE Reputation -----------------------------
(***************************************************************************)
(* The reputation manager's state over hours and restarts of its counters: *)
(* reputationEntries in the state service, and what the hourly cron holds  *)
(* of it.  The formulas are those of ReputationRules.                      *)
(*                                                                         *)
(* Unlike there, a missing entry is not a zero entry here: the cron goes   *)
(* over the keys of the object that startHourlyCron read, so it matters    *)
(* which keys that object has.                                             *)
(***************************************************************************)
EXTENDS ReputationRules

CONSTANTS Settings,     \* entries the operator may set with setReputation
          MaxHours      \* bound: ticks of the hourly cron

ASSUME SettingsAssumption == Settings \subseteq ReputationEntry

VARIABLES
  reputationEntries,    \* partial function: lowered address -> entry
  snapshot,             \* the object startHourlyCron captured
  hours,                \* ticks so far (bound)
  crashed               \* history: banned for a crash, not yet reset by the operator

reputationVars == <<reputationEntries, snapshot, hours, crashed>>

NoEntries == [a \in {} |-> ZeroEntry]

\* getEntry / getOrCreate: a missing entry reads as zeros.
Entries == [a \in Address |-> IF a \in DOMAIN reputationEntries
                              THEN reputationEntries[a] ELSE ZeroEntry]

Status(addr) == GetStatus(Entries, addr)

\* The object spread: { ...reputationEntries, [addr]: entry }
With(entries, addr, entry) ==
  [a \in DOMAIN entries \cup {addr} |-> IF a = addr THEN entry ELSE entries[a]]

\* updateSeenStatus
UpdateSeenStatus(addr, action) ==
  reputationEntries' = With(reputationEntries, Lower[addr],
                            SeenUpdate(Entries, addr, action)[Lower[addr]])

\* crashedHandleOps
CrashedHandleOps(addr) ==
  /\ reputationEntries' = With(reputationEntries, Lower[addr],
                               CrashUpdate(Entries, addr)[Lower[addr]])
  /\ crashed' = crashed \cup {Lower[addr]}
  /\ UNCHANGED <<snapshot, hours>>

\* setReputation: the entries given replace those in the state.
SetReputation(addr, entry) ==
  /\ reputationEntries' = With(reputationEntries, Lower[addr], entry)
  /\ crashed' = crashed \ {Lower[addr]}
  /\ UNCHANGED <<snapshot, hours>>

\* clearState
ClearReputation ==
  /\ reputationEntries' = NoEntries
  /\ crashed' = {}
  /\ UNCHANGED <<snapshot, hours>>

\* startHourlyCron: getState hands out the object that is installed then.
StartHourlyCron == snapshot' = reputationEntries

\* What an hour leaves of an entry; both counters come from opsSeen.
Backoff(entry) ==
  LET rest == (entry.opsSeen * 23) \div 24
  IN  [opsSeen |-> rest, opsIncluded |-> rest]

\* Seeded bug: the callback reads the entries anew at every tick, so an hour
\* sets what was included to what was seen.
BackedOffLive(entries, captured) == [a \in DOMAIN entries |-> Backoff(entries[a])]

\* One round of the loop over the captured keys: a captured zero entry deletes
\* the key, any other overwrites what the state has under it by now.  The loop
\* awaits once per key; it is one step here because no key is ever captured.
BackedOff(entries, captured) ==
  LET zero == {a \in DOMAIN captured : captured[a] = ZeroEntry}
  IN  [a \in (DOMAIN entries \cup DOMAIN captured) \ zero |->
         IF a \in DOMAIN captured THEN Backoff(captured[a]) ELSE entries[a]]

HourlyTick ==
  /\ hours < MaxHours
  /\ hours' = hours + 1
  /\ reputationEntries' = BackedOff(reputationEntries, snapshot)
  /\ UNCHANGED <<snapshot, crashed>>

InitReputation ==
  /\ reputationEntries = NoEntries
  /\ snapshot = NoEntries
  /\ hours = 0
  /\ crashed = {}
=============================================================================
