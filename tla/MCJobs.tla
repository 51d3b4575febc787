------------------------------- MODULE MCJobs -------------------------------
(* The programs that are started by hand or by a timer, run and end,       *)
(* checked in one run.  They share no state: a behaviour is that of one of *)
(* them, its job, and the others stay in one rest state.                   *)
EXTENDS AptHistory, UpstreamCache, UpdatePlan, UpdateReports,
        StoreSnapshots, FleetFacts, DbSecurity, Topology,
        Dashboard, Progress, ModelLedger, Acquisition, Fabrication,
        Reconciliation, Proposals

VARIABLE job

\* The order in which _alias_candidates tries the architectures.
TwoArchs == <<"amd64", "i386">>

\* The names of two rotated files, .1.gz and .2.gz, in their order.
TwoNames == <<1, 2>>

\* A host where nothing is of interest, and hosts where one of three things is.
Plain ==
  [image   |-> [is |-> "local", digest |-> 1, held |-> 0, tag |-> "none", chosen |-> FALSE],
   package |-> [installed |-> 1, in |-> [p \in Pockets |-> 0]],
   order   |-> <<"security", "updates", "base", "third">>,
   file    |-> [kind |-> "AppImage", there |-> FALSE, registered |-> FALSE, checkable |-> FALSE,
                version |-> 0, offered |-> 1]]
MCWorlds == {[Plain EXCEPT !.image = i] : i \in Images}
   \cup {[Plain EXCEPT !.package = q, !.order = o] : q \in Packages, o \in Orders}
   \cup {[Plain EXCEPT !.file = f] : f \in Files}

Quiet == [kind |-> "snap", hashed |-> FALSE, checkable |-> FALSE, fixed |-> FALSE,
          plain |-> TRUE]

\* The rest states, each among the initial states of its module; and the initial states some of
\* them run from: apt's package is not there on the second architecture, the first unit pins
\* the newest version or none, of the two ports the first has a socket of the host, the second
\* store is a good one to be copied, the network is there, and the retired container with the
\* exposed socket or neither, the tracker's first item is an open one, only the second model
\* has a PASS of the earlier task, and one of the two acquisitions is with --fetch.
AptRuns     == manifest["i386"] = 0
AptRest     == manifest = [a \in ToSet(Archs) |-> 0]
CacheRuns   == pin[1] \in {0, Published}
CacheRest   == pin = [u \in UnitNo |-> 0]
PlanRest    == traits = Quiet
ReportRest  == /\ image = Plain.image /\ package = Plain.package
               /\ order = Plain.order /\ file = Plain.file
StoreRest   == /\ use  = [i \in Declared |-> "snapshot"] /\ snap = [i \in Declared |-> 0]
               /\ \A i \in Declared : store[i].is = "good"
FleetRest   == hostSockets = {} /\ serves = [c \in Fleet |-> CHOOSE p \in HostPorts : TRUE]
FleetRuns   == hostSockets = {1}
StoreRuns   == \A i \in Declared \ {1} : use[i] = "snapshot" /\ store[i].is = "good"
TopoRuns    == now.retired = now.exposed /\ \A n \in Workloads : now.net[n] # "absent"
TopoRest    == /\ ~now.retired /\ ~now.exposed /\ declares = {}
               /\ \A n \in Workloads : now.net[n] = "internal"
ProgressRest == tracker = [e \in Entries |-> [s \in Sections |-> "noRow"]] /\ history = <<>>
ProgressRuns == tracker[1] = [s \in Sections |-> IF s = "19.1" THEN "open" ELSE "noRow"]
LedgerRest  == earned = {} /\ LoadLedger = NoLedger
LedgerRuns  == legacy = {Max(Models)}
AcquireRuns == \A r \in RunIds : fetch[r] = ~fetch[1] \/ r = 1
AcquireRest == \A r \in RunIds : ~fetch[r]
ProposalRest == whole /\ \A f \in PropNo : proposed[f] = NotWritten
ReconRest   == \A r \in Recordings : says[r] = CHOOSE a \in Arguments : TRUE

StatusJobs    == {"history", "cache", "plan", "reports"}
CollectorJobs == {"stores", "fleet", "security", "topology"}
OperatorJobs  == {"board", "progress", "ledger", "acquire", "fabrication", "reconcile",
                  "proposals"}

Init ==
  /\ job \in StatusJobs \cup CollectorJobs \cup OperatorJobs
  /\ AptInit      /\ (IF job = "history" THEN AptRuns ELSE AptRest)
  /\ CacheInit    /\ (IF job = "cache" THEN CacheRuns ELSE CacheRest)
  /\ PlanInit     /\ (job # "plan"    => PlanRest)
  /\ ReportInit   /\ (job # "reports" => ReportRest)
  /\ StoreInit    /\ (IF job = "stores" THEN StoreRuns ELSE StoreRest)
  /\ FleetInit    /\ (IF job = "fleet" THEN FleetRuns ELSE FleetRest)
  /\ SecurityInit
  /\ TopoInit     /\ (IF job = "topology" THEN TopoRuns ELSE TopoRest)
  /\ BoardInit
  /\ ProgressInit /\ (IF job = "progress" THEN ProgressRuns ELSE ProgressRest)
  /\ LedgerInit   /\ (IF job = "ledger" THEN LedgerRuns ELSE LedgerRest)
  /\ AcquireInit  /\ (IF job = "acquire" THEN AcquireRuns ELSE AcquireRest)
  /\ FabInit
  /\ ReconInit    /\ (job # "reconcile" => ReconRest)
  /\ ProposalInit /\ (job # "proposals" => ProposalRest)

statusVars    == <<aptVars, cacheVars, planVars, reportVars>>
collectorVars == <<storeVars, fleetVars, securityVars, topoVars>>
operatorVars  == <<boardVars, progressVars, ledgerVars, acquireVars, fabVars, reconVars,
                   proposalVars>>

StatusStep ==
  /\ UNCHANGED <<job, collectorVars, operatorVars>>
  /\ \/ job = "history" /\ AptNext    /\ UNCHANGED <<cacheVars, planVars, reportVars>>
     \/ job = "cache"   /\ CacheNext  /\ UNCHANGED <<aptVars, planVars, reportVars>>
     \/ job = "plan"    /\ PlanNext   /\ UNCHANGED <<aptVars, cacheVars, reportVars>>
     \/ job = "reports" /\ ReportNext /\ UNCHANGED <<aptVars, cacheVars, planVars>>

CollectorStep ==
  /\ UNCHANGED <<job, statusVars, operatorVars>>
  /\ \/ job = "stores"   /\ StoreNext    /\ UNCHANGED <<fleetVars, securityVars, topoVars>>
     \/ job = "fleet"    /\ FleetNext    /\ UNCHANGED <<storeVars, securityVars, topoVars>>
     \/ job = "security" /\ SecurityNext /\ UNCHANGED <<storeVars, fleetVars, topoVars>>
     \/ job = "topology" /\ TopoNext     /\ UNCHANGED <<storeVars, fleetVars, securityVars>>

OperatorStep ==
  /\ UNCHANGED <<job, statusVars, collectorVars>>
  /\ \/ /\ job = "board" /\ BoardNext
        /\ UNCHANGED <<progressVars, ledgerVars, acquireVars, fabVars, reconVars, proposalVars>>
     \/ /\ job = "progress" /\ ProgressNext
        /\ UNCHANGED <<boardVars, ledgerVars, acquireVars, fabVars, reconVars, proposalVars>>
     \/ /\ job = "ledger" /\ LedgerNext
        /\ UNCHANGED <<boardVars, progressVars, acquireVars, fabVars, reconVars, proposalVars>>
     \/ /\ job = "acquire" /\ AcquireNext
        /\ UNCHANGED <<boardVars, progressVars, ledgerVars, fabVars, reconVars, proposalVars>>
     \/ /\ job = "fabrication" /\ FabNext
        /\ UNCHANGED <<boardVars, progressVars, ledgerVars, acquireVars, reconVars, proposalVars>>
     \/ /\ job = "reconcile" /\ ReconNext
        /\ UNCHANGED <<boardVars, progressVars, ledgerVars, acquireVars, fabVars, proposalVars>>
     \/ /\ job = "proposals" /\ ProposalNext
        /\ UNCHANGED <<boardVars, progressVars, ledgerVars, acquireVars, fabVars, reconVars>>

Next == StatusStep \/ CollectorStep \/ OperatorStep

vars == <<job, statusVars, collectorVars, operatorVars>>
Spec == Init /\ [][Next]_vars
=============================================================================
