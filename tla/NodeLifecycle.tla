---------------------------- MODULE NodeLifecycle ----------------------------
(***************************************************************************)
(* A node from runNode to the end of its process (src/src/cli.ts and       *)
(* src/src/core): what start-up creates and in which order, the intervals  *)
(* it leaves running, the debug API's calls on them, SIGTERM, and the ways *)
(* the process ends.                                                       *)
(*                                                                         *)
(* Composed of the Reputation module and of AuditTrail, with which the     *)
(* audit queue is represented by what it promises (AuditQueue shows that   *)
(* it keeps it).  The mempool is a set, an admission and each fate of an   *)
(* operation one step: their detail is Mempool, SendUserOperation,         *)
(* BundleBuilder and BundleLifecycle.  So no two attempts have the same    *)
(* operation, as with the interval alone (BundleLifecycle, overlapped).    *)
(***************************************************************************)
EXTENDS Reputation, Sequences, FiniteSets

CONSTANTS
  Op,                  \* operations clients may submit
  Entity,              \* Op -> the paymaster of an operation
  IsAutoBundle, IsMetricsEnabled,      \* the options given
  LogEvent,            \* an audit event
  MaxRequests, MaxSigterms             \* bounds

ASSUME NodeAssumption ==
  /\ Entity \in [Op -> Address]
  /\ IsAutoBundle \in BOOLEAN
  /\ IsMetricsEnabled \in BOOLEAN

VARIABLES
  process,      \* "up", or how it ended: "exit 0", "exit 1"
  stage,        \* what runNode is at
  server,       \* the RPC server
  timers,       \* intervals running
  worker,       \* the audit worker
  logged, handed, owed,      \* AuditTrail
  requests, inFlight,        \* submissions so far (bound), and those not answered
  pool,         \* operations in the mempool
  banning,      \* addresses whose operations were removed and that are not yet banned
  sent,         \* history: operations given to handleOps
  sigterms,     \* so far (bound)
  stops         \* pending SIGTERM handlers, by what becomes of their server.stop()

trailVars == <<logged, handed, owed>>
startVars == <<process, stage, server, timers, worker>>
workVars == <<requests, inFlight, pool, banning, sent>>
stopVars == <<sigterms, stops>>
vars == <<reputationVars, startVars, trailVars, workVars, stopVars>>

Trail == INSTANCE AuditTrail WITH
           Event <- {LogEvent}, logged <- logged, handed <- handed, owed <- owed

Up == process = "up"

\* A connection that is busy when the server closes may deliver more requests.
Serving == server \in {"listening", "closing"}

\* An event is owed as long as nobody has told the worker to stop.
LogAudit ==
  /\ Trail!Log(LogEvent)
  /\ owed' = IF worker = "running" THEN Len(logged') ELSE owed

Exit(how) ==
  /\ process' = how
  /\ UNCHANGED <<reputationVars, stage, server, timers, worker, trailVars,
                 workVars, stopVars>>

-----------------------------------------------------------------------------
(* Start-up: one action from one await to the next *)

StartStep(from, to) == Up /\ stage = from /\ stage' = to

\* createConfig and createInfrastructure, which starts the audit worker.
CreateInfrastructure ==
  /\ StartStep("config", "services")
  /\ worker' = "running"
  /\ UNCHANGED <<reputationVars, process, server, timers, trailVars, workVars, stopVars>>

\* The provider, the core services and the capabilities; then createManagers
\* installs the lists before anything can ask for a status.
CreateServices ==
  /\ StartStep("services", "lists")
  /\ UNCHANGED <<reputationVars, process, server, timers, worker, trailVars,
                 workVars, stopVars>>

\* createManagers: the cron captures the entries, the bundle manager starts
\* its interval; then the APIs and a server that does not listen yet.
CreateManagers ==
  /\ StartStep("lists", "preflight")
  /\ StartHourlyCron
  /\ timers' = {"hourly"} \cup (IF IsAutoBundle THEN {"bundler"} ELSE {})
  /\ server' = "created"
  /\ UNCHANGED <<reputationEntries, hours, crashed, process, worker, trailVars,
                 workVars, stopVars>>

\* Seeded bug: the server listens while the checks are still under way.
ListenFirst ==
  /\ Up /\ stage = "preflight"
  /\ \/ server = "created" /\ server' = "listening" /\ UNCHANGED <<stage, timers>>
     \/ server = "listening" /\ stage' = "running" /\ timers' = timers /\ UNCHANGED server
  /\ UNCHANGED <<reputationVars, process, worker, trailVars, workVars, stopVars>>

\* start: listen once the checks have passed; then the metrics.
PassPreflight ==
  /\ StartStep("preflight", "running")
  /\ server' = "listening"
  /\ timers' = timers \cup (IF IsMetricsEnabled THEN {"metrics"} ELSE {})
  /\ UNCHANGED <<reputationVars, process, worker, trailVars, workVars, stopVars>>

\* Whatever throws, in createConfig or after an await, ends in process.exit(1);
\* so does a port that is taken.
StartUpFails == Up /\ stage # "running" /\ Exit("exit 1")

-----------------------------------------------------------------------------
(* At work *)

\* A submission arrives and is logged as received.
Receive(o) ==
  /\ Up /\ Serving /\ requests < MaxRequests
  /\ o \notin inFlight
  /\ requests' = requests + 1
  /\ inFlight' = inFlight \cup {o}
  /\ LogAudit
  /\ UNCHANGED <<reputationVars, startVars, handed, pool, banning, sent, stopVars>>

\* It is answered, rejected or admitted, and that is logged as well.
Answer(o) ==
  /\ Up /\ o \in inFlight
  /\ inFlight' = inFlight \ {o}
  /\ \/ UNCHANGED <<reputationVars, pool>>
     \/ /\ Status(Entity[o]) # "BANNED"
        /\ o \notin pool
        /\ pool' = pool \cup {o}
        /\ UpdateSeenStatus(Entity[o], "increment")
        /\ UNCHANGED <<snapshot, hours, crashed>>
  /\ LogAudit
  /\ UNCHANGED <<startVars, handed, requests, banning, sent, stopVars>>

\* A bundle of the interval or of sendBundleNow, the latter a request.
Bundling == Up /\ ("bundler" \in timers \/ Serving)

\* The second validation fails: what was counted for it is taken back, unless
\* its paymaster is to blame, for which it is counted again, or nobody is.
TakeBack(o) ==
  /\ Bundling /\ o \in pool
  /\ pool' = pool \ {o}
  /\ \/ UpdateSeenStatus(Entity[o], "decrement")
     \/ UNCHANGED reputationEntries
  /\ UNCHANGED <<snapshot, hours, crashed, startVars, trailVars, requests,
                 inFlight, banning, sent, stopVars>>

\* It is executed.  opsIncluded does not move: includedAddress waits for an
\* address longer than an address is.
Execute(o) ==
  /\ Bundling /\ o \in pool
  /\ pool' = pool \ {o}
  /\ sent' = sent \cup {o}
  /\ UNCHANGED <<reputationVars, startVars, trailVars, requests, inFlight,
                 banning, stopVars>>

\* handleOps reverts and its paymaster is to blame: what was counted is taken
\* back, and all its operations leave the pool ...
RemoveUserOpsForBannedAddr(o) ==
  /\ Bundling /\ o \in pool
  /\ UpdateSeenStatus(Entity[o], "decrement")
  /\ pool' = {p \in pool : Entity[p] # Entity[o]}
  /\ sent' = sent \cup {o}
  /\ banning' = banning \cup {Entity[o]}
  /\ UNCHANGED <<snapshot, hours, crashed, startVars, trailVars, requests,
                 inFlight, stopVars>>

\* ... and after that await it is banned.
Ban(a) ==
  /\ Up /\ a \in banning
  /\ banning' = banning \ {a}
  /\ CrashedHandleOps(a)
  /\ UNCHANGED <<startVars, trailVars, requests, inFlight, pool, sent, stopVars>>

\* debug_bundler_setReputation, _clearReputation
Reset ==
  /\ Up /\ Serving
  /\ \/ \E a \in Address, entry \in Settings : SetReputation(a, entry)
     \/ ClearReputation
  /\ UNCHANGED <<startVars, trailVars, workVars, stopVars>>

\* debug_bundler_setBundlingMode: 'auto' restarts the interval.
SetBundlingMode(mode) ==
  /\ Up /\ Serving
  /\ timers' = IF mode = "auto" THEN timers \cup {"bundler"} ELSE timers \ {"bundler"}
  /\ UNCHANGED <<reputationVars, process, stage, server, worker, trailVars,
                 workVars, stopVars>>

Hour ==
  /\ Up /\ "hourly" \in timers
  /\ HourlyTick
  /\ UNCHANGED <<startVars, trailVars, workVars, stopVars>>

\* No one catches what collectAndStoreSystemMetrics rejects with.
MetricsReject == Up /\ "metrics" \in timers /\ Exit("exit 1")

-----------------------------------------------------------------------------
(* SIGTERM *)

\* The handler has no server to stop, waits for its end, or is told then that
\* it was closed already.
ServerStop ==
  IF server = "listening" THEN "waits" ELSE IF server = "closing" THEN "fails" ELSE "ready"

\* Seeded bug: the worker is not told.
SigtermServerOnly ==
  /\ Up /\ stage # "config" /\ server # "created" /\ sigterms < MaxSigterms
  /\ sigterms' = sigterms + 1
  /\ stops' = stops \cup {ServerStop}
  /\ server' = IF server = "listening" THEN "closing" ELSE server
  /\ UNCHANGED <<reputationVars, process, stage, timers, worker, trailVars, workVars>>

\* The three stops start together.  No interval is among them.
Sigterm ==
  /\ Up /\ stage # "config" /\ server # "created" /\ sigterms < MaxSigterms
  /\ sigterms' = sigterms + 1
  /\ stops' = stops \cup {ServerStop}
  /\ server' = IF server = "listening" THEN "closing" ELSE server
  /\ worker' = IF worker = "running" THEN "draining" ELSE worker
  /\ UNCHANGED <<reputationVars, process, stage, timers, trailVars, workVars>>

\* To close a server that does not listen (any more) is an error, reported at
\* once or when the server has closed, and nobody handles the rejection of the
\* handler: the process ends without the drain.
SigtermRejects ==
  /\ Up
  /\ \/ server = "created" /\ sigterms < MaxSigterms
     \/ server = "closed" /\ "fails" \in stops
  /\ Exit("exit 1")

\* The server is closed when every request is answered.
Close ==
  /\ Up /\ server = "closing" /\ inFlight = {}
  /\ server' = "closed"
  /\ UNCHANGED <<reputationVars, process, stage, timers, worker, trailVars,
                 workVars, stopVars>>

\* The worker writes an event.
Write ==
  /\ Up /\ worker \in {"running", "draining"}
  /\ Trail!Hand
  /\ UNCHANGED <<reputationVars, startVars, workVars, stopVars>>

\* Seeded bug: the worker stops on its next wake-up without a last drain.
StopUndrained ==
  /\ Up /\ worker = "draining"
  /\ worker' = "done"
  /\ UNCHANGED <<reputationVars, process, stage, server, timers, trailVars,
                 workVars, stopVars>>

\* The last drain is over; what is logged from here on is never written.
Drained ==
  /\ Up /\ worker = "draining" /\ Len(handed) = Len(logged)
  /\ worker' = "done"
  /\ UNCHANGED <<reputationVars, process, stage, server, timers, trailVars,
                 workVars, stopVars>>

\* Everything a handler waited for is done.
ShutdownComplete ==
  /\ Up /\ worker = "done"
  /\ "ready" \in stops \/ ("waits" \in stops /\ server = "closed")
  /\ Exit("exit 0")

-----------------------------------------------------------------------------
Init ==
  /\ InitReputation
  /\ process = "up" /\ stage = "config" /\ server = "none"
  /\ timers = {} /\ worker = "off"
  /\ Trail!Init
  /\ requests = 0 /\ inFlight = {} /\ pool = {} /\ banning = {} /\ sent = {}
  /\ sigterms = 0 /\ stops = {}

StartUp ==
  \/ CreateInfrastructure \/ CreateServices \/ CreateManagers \/ PassPreflight
  \/ StartUpFails

Work ==
  \/ \E o \in Op : \/ Receive(o) \/ Answer(o) \/ TakeBack(o) \/ Execute(o)
                   \/ RemoveUserOpsForBannedAddr(o)
  \/ \E a \in Address : Ban(a)
  \/ Reset
  \/ \E mode \in {"auto", "manual"} : SetBundlingMode(mode)
  \/ Hour
  \/ MetricsReject

Shutdown ==
  \/ Sigterm \/ SigtermRejects \/ Close \/ Write \/ Drained \/ ShutdownComplete

Next == StartUp \/ Work \/ Shutdown

\* Requests are answered (SendUserOperation), the worker drains (AuditQueue),
\* and the event loop turns.  Nobody is obliged to send, to signal or to ban.
Spec ==
  /\ Init /\ [][Next]_vars
  /\ \A o \in Op : WF_vars(Answer(o))
  /\ WF_vars(Close) /\ WF_vars(Write) /\ WF_vars(Drained) /\ WF_vars(ShutdownComplete)

-----------------------------------------------------------------------------
IsEntries(entries) ==
  /\ DOMAIN entries \subseteq Address
  /\ entries = [a \in DOMAIN entries |-> entries[a]]
  /\ \A a \in DOMAIN entries : entries[a] \in ReputationEntry

\* The variables have their types.
TypeOK ==
  /\ IsEntries(reputationEntries) /\ IsEntries(snapshot)
  /\ process \in {"up", "exit 0", "exit 1"}
  /\ stage \in {"config", "services", "lists", "preflight", "running"}
  /\ server \in {"none", "created", "listening", "closing", "closed"}
  /\ timers \subseteq {"hourly", "bundler", "metrics"}
  /\ worker \in {"off", "running", "draining", "done"}
  /\ logged \in Seq({LogEvent}) /\ handed \in Seq({LogEvent}) /\ owed \in 0 .. Len(logged)
  /\ inFlight \subseteq Op /\ pool \subseteq Op /\ sent \subseteq Op
  /\ banning \subseteq Address /\ crashed \subseteq Address
  /\ stops \subseteq {"ready", "waits", "fails"}

\* An address banned because handleOps crashed on it stays banned until the
\* operator resets it: neither the hours that pass nor what is taken back for
\* its operations that were judged before the ban lift it.  It rests on the
\* order of start-up, which makes the cron capture an object without keys.
CrashedStaysBanned ==
  \A a \in crashed : a \notin WhiteList => Status(a) = "BANNED"

\* No operation is given to handleOps before the preflight checks passed,
\* although the interval of the bundle manager runs during them.
NothingSentUnchecked == sent # {} => stage = "running"

\* A shutdown that reports success has written every audit event logged before
\* the signal, whatever requests and intervals did during it.
ExitFlushes == process = "exit 0" => Len(handed) >= owed

\* A SIGTERM that is handled ends the process.
SigtermEnds == stops # {} ~> process # "up"
=============================================================================
