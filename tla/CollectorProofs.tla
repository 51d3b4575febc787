--------------------------- MODULE CollectorProofs ---------------------------
(***************************************************************************)
(* What the collectors report of a host that moves on between their        *)
(* questions: the container tables agree with one another, and a claim     *)
(* reported as matched or drifted held or failed while the pass was asking.*)
(* And what the update reports advise on: only what was measured.          *)
(***************************************************************************)
EXTENDS FleetFacts, Topology, StoreSnapshots, UpdateReports, UpdatePlan,
        SequenceTheorems, TLAPS

-----------------------------------------------------------------------------
(* The containers.                                                         *)

Questions == {"none", "ps", "inspect", "networks", "sockets", "host"}

\* An answer is empty until its question is asked.
AskedInOrder ==
  /\ lastAsked \in Questions /\ clean \in BOOLEAN
  /\ up \subseteq Fleet /\ containers \subseteq Fleet
  /\ lastAsked = "none" => containers = {}
  /\ lastAsked \in {"none", "ps"} => attachments = {} /\ members = {} /\ listeners = {}
  /\ lastAsked = "inspect" => members = {} /\ listeners = {}
  /\ lastAsked = "networks" => listeners = {}

\* A pass without a fault has seen the containers that are up.
CleanSeesAll ==
  clean => /\ lastAsked # "none" => containers = up
           /\ lastAsked \notin {"none", "ps"} => attachments = up

\* The map has the number of each attached container, and gives it to one that publishes it.
MapSound ==
  /\ \A p \in DOMAIN published : published[p] \in attachments /\ serves[published[p]] = p
  /\ \A c \in attachments : serves[c] \in DOMAIN published

Agree(f) == /\ f.members \subseteq {Cardinality(f.attachments)}
            /\ f.attachments \subseteq f.containers
            /\ \A l \in f.listeners :
                 /\ l.owner # "host" => l.owner \in f.attachments /\ serves[l.owner] = l.port
                 /\ l.by # "host" /\ l.owner = "host" => ~f.clean

InHand == [containers |-> containers, attachments |-> attachments, members |-> members,
           listeners |-> listeners, clean |-> clean]

FleetInv == AskedInOrder /\ CleanSeesAll /\ MapSound /\ Agree(InHand) /\ Agree(fleet)

LEMMA FleetInitSound == FleetInit => FleetInv
BY DEF FleetInit, FleetInv, AskedInOrder, CleanSeesAll, MapSound, Agree, InHand, Questions,
       NonePublished

\* A socket is credited by the map.
LEMMA SocketsStep ==
  ASSUME FleetInv, CollectListeners
  PROVE  FleetInv'
<1> USE DEF FleetInv
<1>1. PICK ok \in BOOLEAN :
        /\ lastAsked = "networks" /\ lastAsked' = "sockets" /\ clean' = (clean /\ ok)
        /\ listeners' = IF ok THEN {Socket(serves[c], c) : c \in up}
                                     \cup {Socket(p, "host") : p \in hostSockets}
                        ELSE {}
        /\ UNCHANGED <<serves, up, containers, attachments, published, members, fleet>>
  BY DEF CollectListeners, Ask, Ran, sources
<1>2. ASSUME NEW l \in listeners'
      PROVE  /\ l.owner # "host" => l.owner \in attachments /\ serves[l.owner] = l.port
             /\ l.by # "host" /\ l.owner = "host" => ~clean'
  <2>1. ok /\ (\/ \E c \in up : l = Socket(serves[c], c)
              \/ \E p \in hostSockets : l = Socket(p, "host"))
    BY <1>1, <1>2
  <2>2. l.owner = Owner(l.port)
    BY <2>1 DEF Socket
  <2>3. l.owner # "host" => l.owner \in attachments /\ serves[l.owner] = l.port
    BY <2>2 DEF Owner, MapSound
  <2>4. ASSUME l.by # "host", l.owner = "host", clean' PROVE FALSE
    <3>1. PICK c \in up : l = Socket(serves[c], c)
      BY <2>1, <2>4 DEF Socket
    <3>2. c \in attachments /\ clean
      BY <1>1, <2>4 DEF CleanSeesAll
    <3>3. l.port = serves[c] /\ serves[c] \in DOMAIN published
      BY <3>1, <3>2 DEF Socket, MapSound
    <3>4. l.owner \in attachments
      BY <2>2, <3>3 DEF Owner, MapSound
    <3>5. QED
      BY <2>4, <3>4, FleetAssumption DEF Agree, InHand, AskedInOrder
  <2>5. QED
    BY <2>3, <2>4
<1>3. AskedInOrder' /\ CleanSeesAll' /\ MapSound'
  BY <1>1 DEF AskedInOrder, CleanSeesAll, MapSound, Questions
<1>4. Agree(InHand)' /\ Agree(fleet)'
  BY <1>1, <1>2 DEF Agree, InHand
<1>5. QED
  BY <1>3, <1>4

LEMMA FleetStepSound == FleetInv /\ [FleetNext]_fleetVars => FleetInv'
<1> SUFFICES ASSUME FleetInv, [FleetNext]_fleetVars PROVE FleetInv'
  OBVIOUS
<1> USE DEF FleetInv, AskedInOrder, CleanSeesAll, MapSound, Agree, InHand, Questions, sources
<1>1. CASE Move
  BY <1>1 DEF Move, answers
<1>2. CASE Ps
  BY <1>2 DEF Ps, Ran
<1>3. CASE Inspect
  <2>1. /\ lastAsked = "ps" /\ lastAsked' = "inspect"
        /\ attachments' \in {{}, containers}
        /\ clean' => clean /\ attachments' = containers
        /\ UNCHANGED <<serves, up, containers, members, listeners, fleet>>
    BY <1>3 DEF Inspect, Ran, Ask
  <2>2. MapSound'
    BY <1>3, <2>1 DEF Inspect, Owners
  <2>3. clean' \in BOOLEAN
    BY <1>3 DEF Inspect, Ask
  <2>4. QED
    BY <2>1, <2>2, <2>3
<1>4. CASE CollectNetworks
  BY <1>4 DEF CollectNetworks, Ran, Ask, MemberCount
<1>5. CASE CollectListeners
  BY <1>5, SocketsStep
<1>6. CASE CollectHost
  BY <1>6 DEF CollectHost, Ask, answers
<1>7. CASE WriteFleet
  BY <1>7 DEF WriteFleet, NonePublished
<1>8. CASE UNCHANGED fleetVars
  BY <1>8 DEF fleetVars, answers
<1>9. QED
  BY <1>1, <1>2, <1>3, <1>4, <1>5, <1>6, <1>7, <1>8 DEF FleetNext

LEMMA FleetSound == FleetSpec => []FleetInv
BY FleetInitSound, FleetStepSound, PTL DEF FleetSpec

\* The members counted are the attachments, and every attachment is of a listed container
\* (collect-system-health.py:452).
LEMMA MembersAlwaysAgree == FleetSpec => []MembersAgree
<1>1. FleetInv => MembersAgree
  BY DEF FleetInv, Agree, MembersAgree
<1>2. QED
  BY <1>1, FleetSound, PTL

\* A socket is given to a listed container that publishes its number, and in a pass without
\* a fault no container's socket is left to the host (:513-520).
LEMMA ListenersAreAttributed == FleetSpec => []ListenersAttributed
<1>1. FleetInv => ListenersAttributed
  BY DEF FleetInv, Agree, ListenersAttributed
<1>2. QED
  BY <1>1, FleetSound, PTL

\* The container, network and socket tables of a projection agree (:452, :513-520).
THEOREM TablesAlwaysAgree == FleetSpec => []TablesAgree
<1>1. MembersAgree /\ ListenersAttributed => TablesAgree
  BY DEF TablesAgree
<1>2. QED
  BY <1>1, MembersAlwaysAgree, ListenersAreAttributed, PTL

-----------------------------------------------------------------------------
(* The topology.                                                           *)

Steps == {"none", "ps", "ls", "inspect", "build", "dot", "svg", "page"}
Commands == Workloads \cup {"ps", "ls", "ss"}

TopoTypes ==
  /\ now \in HostStates /\ course \subseteq HostStates
  /\ passes \in Nat /\ question \in Steps
  /\ declares \subseteq Workloads /\ deaf \subseteq Commands
  /\ present \in BOOLEAN /\ sockets \in [heard : BOOLEAN, exposed : BOOLEAN]
  /\ listed \in [Workloads -> {"unlisted", "uninspected", "unknown", "internal", "open"}]
  /\ sheet \in [dot : Nat, svg : Nat, tables : Nat, picture : Nat]

\* The host of now is among those the pass has seen.
CourseReachesNow == question \in {"ps", "ls", "inspect", "build"} => now \in course

\* What each command answered was so at some time of the pass, or it failed.
PsSound == question \in {"ls", "inspect", "build"} =>
  IF "ps" \in deaf THEN ~present ELSE \E h \in course : h.retired = present

Listing(h) == {n \in Workloads : h.net[n] # "absent"}
LsSound == question \in {"inspect", "build"} =>
  IF "ls" \in deaf THEN LiveNets = {} ELSE \E h \in course : LiveNets = Listing(h)

InspectSound == question \in {"inspect", "build"} =>
  \A n \in Workloads :
    /\ listed[n] \in {"internal", "open"} => \E h \in course : h.net[n] = listed[n]
    /\ listed[n] = "unknown" => n \in deaf
    /\ listed[n] = "uninspected" => question = "inspect"

SsSound == question = "build" =>
  IF "ss" \in deaf THEN ~sockets.heard /\ ~sockets.exposed
  ELSE sockets.heard /\ \E h \in course : h.exposed = sockets.exposed

\* A page is written over the picture of its own pass.
PictureOfPass == /\ question = "page" => sheet.svg = passes
                 /\ sheet.tables = sheet.picture

\* A command is not deaf before it is asked.
DeafSoFar ==
  /\ question \notin {"ls", "inspect", "build"} => deaf = {}
  /\ question = "ls" => deaf \subseteq {"ps"}
  /\ question = "inspect" => "ss" \notin deaf

TopoInv == /\ TopoTypes /\ CourseReachesNow /\ DeafSoFar
           /\ PsSound /\ LsSound /\ InspectSound /\ SsSound
           /\ ClaimsMeasured /\ PictureOfPass

LEMMA TopoInitSound == TopoInit => TopoInv
<1> SUFFICES ASSUME TopoInit PROVE TopoInv
  OBVIOUS
<1>1. TopoTypes
  BY DEF TopoInit, TopoTypes, Steps, Unlisted
<1>2. /\ CourseReachesNow /\ DeafSoFar /\ PsSound /\ LsSound /\ InspectSound /\ SsSound
      /\ ClaimsMeasured /\ PictureOfPass
  BY DEF TopoInit, CourseReachesNow, DeafSoFar, PsSound, LsSound, InspectSound, SsSound,
         ClaimsMeasured, PictureOfPass
<1>3. QED
  BY <1>1, <1>2 DEF TopoInv

\* A pass sees at least the hosts it saw before.
LEMMA ShiftStep ==
  ASSUME TopoInv, Shift
  PROVE  TopoInv'
<1>1. now' \in HostStates
  <2>1. now \in HostStates
    BY DEF TopoInv, TopoTypes
  <2>2. CASE now' = [now EXCEPT !.retired = ~@]
    BY <2>1, <2>2 DEF HostStates
  <2>3. CASE now' = [now EXCEPT !.exposed = ~@]
    BY <2>1, <2>3 DEF HostStates
  <2>4. ASSUME NEW n \in Workloads, NEW is \in {"absent", "internal", "open"},
               now' = [now EXCEPT !.net[n] = is]
        PROVE  now' \in HostStates
    BY <2>1, <2>4 DEF HostStates
  <2>5. QED
    BY <2>2, <2>3, <2>4 DEF Shift
<1>2. /\ course \subseteq course' /\ course' \subseteq HostStates
      /\ course # {} => now' \in course'
      /\ UNCHANGED <<passes, question, declares, present, listed, sockets, deaf, verdicts,
                     sheet>>
  BY <1>1 DEF Shift, TopoInv, TopoTypes
<1>3. TopoTypes' /\ CourseReachesNow' /\ DeafSoFar'
  BY <1>1, <1>2 DEF TopoInv, TopoTypes, CourseReachesNow, DeafSoFar
<1>4. PsSound' /\ LsSound' /\ InspectSound' /\ SsSound'
  BY <1>2 DEF TopoInv, PsSound, LsSound, InspectSound, SsSound, LiveNets, Listing
<1>5. ClaimsMeasured' /\ PictureOfPass'
  BY <1>2 DEF TopoInv, ClaimsMeasured, PictureOfPass
<1>6. QED
  BY <1>3, <1>4, <1>5 DEF TopoInv

LEMMA StartStep ==
  ASSUME TopoInv, StartTopology
  PROVE  TopoInv'
<1> USE DEF TopoInv
<1>1. TopoTypes'
  BY DEF StartTopology, TopoTypes, Steps
<1>2. /\ CourseReachesNow' /\ DeafSoFar' /\ PsSound' /\ LsSound' /\ InspectSound' /\ SsSound'
  BY DEF StartTopology, CourseReachesNow, DeafSoFar, PsSound, LsSound, InspectSound, SsSound
<1>3. ClaimsMeasured' /\ PictureOfPass'
  BY DEF StartTopology, ClaimsMeasured, PictureOfPass
<1>4. QED
  BY <1>1, <1>2, <1>3

LEMMA PsStep ==
  ASSUME TopoInv, LiveContainers
  PROVE  TopoInv'
<1> USE DEF TopoInv
<1>1. PICK ok \in BOOLEAN :
        /\ question = "ps" /\ question' = "ls"
        /\ deaf' = (IF ok THEN deaf ELSE deaf \cup {"ps"}) /\ present' = (ok /\ now.retired)
        /\ UNCHANGED <<now, shifts, passes, declares, listed, sockets, course, verdicts, sheet>>
  BY DEF LiveContainers, Then, Heard
<1>2. now \in course /\ deaf = {} /\ now.retired \in BOOLEAN
  BY <1>1 DEF CourseReachesNow, DeafSoFar, TopoTypes, HostStates
<1>3. TopoTypes'
  BY <1>1, <1>2 DEF TopoTypes, Steps, Commands
<1>4. CourseReachesNow' /\ DeafSoFar' /\ PsSound'
  BY <1>1, <1>2 DEF CourseReachesNow, DeafSoFar, PsSound
<1>5. LsSound' /\ InspectSound' /\ SsSound'
  BY <1>1 DEF LsSound, InspectSound, SsSound
<1>6. ClaimsMeasured' /\ PictureOfPass'
  BY <1>1 DEF ClaimsMeasured, PictureOfPass
<1>7. QED
  BY <1>3, <1>4, <1>5, <1>6

LEMMA LsStep ==
  ASSUME TopoInv, LiveNetworks
  PROVE  TopoInv'
<1> USE DEF TopoInv
<1>1. PICK ok \in BOOLEAN :
        /\ question = "ls" /\ question' = "inspect"
        /\ deaf' = (IF ok THEN deaf ELSE deaf \cup {"ls"})
        /\ listed' = [n \in Workloads |->
                        IF ok /\ now.net[n] # "absent" THEN "uninspected" ELSE "unlisted"]
        /\ UNCHANGED <<now, shifts, passes, declares, present, sockets, course, verdicts, sheet>>
  BY DEF LiveNetworks, Then, Heard
<1>2. now \in course /\ deaf \subseteq {"ps"}
  BY <1>1 DEF CourseReachesNow, DeafSoFar
<1>3. TopoTypes'
  BY <1>1, <1>2 DEF TopoTypes, Steps, Commands
<1>4. CourseReachesNow' /\ DeafSoFar' /\ PsSound'
  BY <1>1, <1>2 DEF CourseReachesNow, DeafSoFar, PsSound
<1>5. LsSound'
  <2>1. LiveNets' = IF ok THEN Listing(now) ELSE {}
    BY <1>1 DEF LiveNets, Listing
  <2>2. QED
    BY <1>1, <1>2, <2>1 DEF LsSound, Listing
<1>6. InspectSound' /\ SsSound'
  BY <1>1 DEF InspectSound, SsSound
<1>7. ClaimsMeasured' /\ PictureOfPass'
  BY <1>1 DEF ClaimsMeasured, PictureOfPass
<1>8. QED
  BY <1>3, <1>4, <1>5, <1>6, <1>7

LEMMA InspectStep ==
  ASSUME TopoInv, NEW n \in Workloads, InspectNetwork(n)
  PROVE  TopoInv'
<1> USE DEF TopoInv
<1>1. PICK replied \in BOOLEAN :
        /\ question = "inspect" /\ listed[n] = "uninspected"
        /\ replied => now.net[n] # "absent"
        /\ deaf' = (IF replied THEN deaf ELSE deaf \cup {n})
        /\ listed' = [listed EXCEPT ![n] = IF replied THEN now.net[n] ELSE "unknown"]
        /\ UNCHANGED <<now, shifts, passes, question, declares, present, sockets, course,
                       verdicts, sheet>>
  BY DEF InspectNetwork, Heard, TopoTypes, HostStates
<1>2. now \in course /\ now.net[n] \in {"absent", "internal", "open"}
  BY <1>1 DEF CourseReachesNow, TopoTypes, HostStates
<1>3. n \notin {"ps", "ls", "ss"}
  BY TopoAssumption
<1>4. TopoTypes'
  BY <1>1, <1>2 DEF TopoTypes, Commands
<1>5. CourseReachesNow' /\ DeafSoFar' /\ PsSound'
  BY <1>1, <1>3 DEF CourseReachesNow, DeafSoFar, PsSound
<1>6. LsSound'
  <2>1. LiveNets' = LiveNets
    BY <1>1, <1>2 DEF LiveNets, TopoTypes
  <2>2. QED
    BY <1>1, <1>3, <2>1 DEF LsSound, Listing
<1>7. InspectSound' /\ SsSound'
  BY <1>1, <1>2 DEF InspectSound, SsSound, TopoTypes
<1>8. ClaimsMeasured' /\ PictureOfPass'
  BY <1>1 DEF ClaimsMeasured, PictureOfPass
<1>9. QED
  BY <1>4, <1>5, <1>6, <1>7, <1>8

LEMMA SsStep ==
  ASSUME TopoInv, LiveListeners
  PROVE  TopoInv'
<1> USE DEF TopoInv
<1>1. PICK ok \in BOOLEAN :
        /\ question = "inspect" /\ question' = "build"
        /\ deaf' = (IF ok THEN deaf ELSE deaf \cup {"ss"})
        /\ \A n \in Workloads : listed[n] # "uninspected"
        /\ sockets' = [heard |-> ok, exposed |-> ok /\ now.exposed]
        /\ UNCHANGED <<now, shifts, passes, declares, present, listed, course, verdicts, sheet>>
  BY DEF LiveListeners, Then, Heard
<1>2. now \in course /\ "ss" \notin deaf /\ now.exposed \in BOOLEAN
  BY <1>1 DEF CourseReachesNow, DeafSoFar, TopoTypes, HostStates
<1>3. TopoTypes'
  BY <1>1, <1>2 DEF TopoTypes, Steps, Commands
<1>4. CourseReachesNow' /\ DeafSoFar' /\ PsSound' /\ LsSound'
  BY <1>1, <1>2 DEF CourseReachesNow, DeafSoFar, PsSound, LsSound, LiveNets, Listing
<1>5. InspectSound' /\ SsSound'
  BY <1>1, <1>2 DEF InspectSound, SsSound
<1>6. ClaimsMeasured' /\ PictureOfPass'
  BY <1>1 DEF ClaimsMeasured, PictureOfPass
<1>7. QED
  BY <1>3, <1>4, <1>5, <1>6

\* The claims are judged by the answers, each of which was so at some time.
LEMMA VerdictsMeasured ==
  ASSUME TopoInv, BuildInventory
  PROVE  ClaimsMeasured'
<1> USE DEF TopoInv
<1>1. question = "build" /\ verdicts' = [of |-> EvaluateDrift, course |-> course, deaf |-> deaf]
  BY DEF BuildInventory, Then
<1>2. CASE ~sockets.heard /\ LiveNets = {}
  BY <1>1, <1>2 DEF EvaluateDrift, ClaimsMeasured
<1>3. CASE ~ (~sockets.heard /\ LiveNets = {})
  <2>1. PICK v : v = [count     |-> Cardinality(LiveNets) = Claimed,
                      retired   |-> ~RetiredLive,
                      internal  |-> \A n \in LiveNets : ~InternalFalse(n),
                      listeners |-> ~sockets.exposed]
    OBVIOUS
  <2>2. verdicts'.of = v /\ verdicts'.course = course /\ verdicts'.deaf = deaf
    BY <1>1, <1>3, <2>1 DEF EvaluateDrift
  <2>3. IF "ls" \in deaf THEN TRUE ELSE \E h \in course : Holds("count", h) = v.count
    BY <1>1, <2>1 DEF LsSound, Holds, Listing
  <2>4. IF "ps" \in deaf THEN v.retired ELSE \E h \in course : Holds("retired", h) = v.retired
    <3>1. \A h \in course : h.retired \in BOOLEAN
      BY DEF TopoTypes, HostStates
    <3>2. QED
      BY <1>1, <2>1, <3>1 DEF PsSound, TopoTypes, Holds, RetiredLive
  <2>5. IF "ss" \in deaf THEN v.listeners
        ELSE \E h \in course : Holds("listeners", h) = v.listeners
    <3>1. \A h \in course : h.exposed \in BOOLEAN
      BY DEF TopoTypes, HostStates
    <3>2. QED
      BY <1>1, <2>1, <3>1 DEF SsSound, TopoTypes, Holds
  <2>6. deaf \cap (Workloads \cup {"ls"}) = {} =>
          IF v.internal THEN \A n \in Workloads : \E h \in course : h.net[n] # "open"
          ELSE \E n \in Workloads, h \in course : h.net[n] = "open"
    <3>1. SUFFICES ASSUME deaf \cap (Workloads \cup {"ls"}) = {}
                   PROVE  IF v.internal
                          THEN \A n \in Workloads : \E h \in course : h.net[n] # "open"
                          ELSE \E n \in Workloads, h \in course : h.net[n] = "open"
      OBVIOUS
    <3>2. \A n \in LiveNets : listed[n] \in {"internal", "open"}
      BY <1>1, <3>1 DEF InspectSound, LiveNets, TopoTypes
    <3>3. \A n \in LiveNets : InternalFalse(n) <=> listed[n] = "open"
      BY <3>2 DEF InternalFalse
    <3>4. \A n \in LiveNets : \E h \in course : h.net[n] = listed[n]
      BY <1>1, <3>2 DEF InspectSound, LiveNets
    <3>5. \A n \in Workloads \ LiveNets : \E h \in course : h.net[n] = "absent"
      BY <1>1, <3>1 DEF LsSound, Listing
    <3>6. CASE v.internal
      BY <2>1, <3>2, <3>3, <3>4, <3>5, <3>6
    <3>7. CASE ~v.internal
      BY <2>1, <3>3, <3>4, <3>7 DEF LiveNets
    <3>8. QED
      BY <3>6, <3>7
  <2>7. ASSUME NEW claim \in {"count", "retired", "listeners"}
        PROVE  IF Behind[claim] \in deaf THEN claim = "count" \/ v[claim]
               ELSE \E h \in course : Holds(claim, h) = v[claim]
    <3>1. CASE claim = "count"
      BY <2>3, <3>1 DEF Behind
    <3>2. CASE claim = "retired"
      BY <2>4, <3>2 DEF Behind
    <3>3. CASE claim = "listeners"
      BY <2>5, <3>3 DEF Behind
    <3>4. QED
      BY <3>1, <3>2, <3>3
  <2>8. DOMAIN Behind = {"count", "retired", "listeners"}
    BY DEF Behind
  <2>9. QED
    BY <2>2, <2>6, <2>7, <2>8 DEF ClaimsMeasured
<1>4. QED
  BY <1>2, <1>3

LEMMA BuildStep ==
  ASSUME TopoInv, BuildInventory
  PROVE  TopoInv'
<1> USE DEF TopoInv
<1>1. TopoTypes'
  BY DEF BuildInventory, Then, Nothing, TopoTypes, Steps, Unlisted
<1>2. /\ CourseReachesNow' /\ DeafSoFar' /\ PsSound' /\ LsSound' /\ InspectSound' /\ SsSound'
      /\ PictureOfPass'
  BY DEF BuildInventory, Then, Nothing, CourseReachesNow, DeafSoFar, PsSound, LsSound,
         InspectSound, SsSound, PictureOfPass
<1>3. QED
  BY <1>1, <1>2, VerdictsMeasured

\* The diagram is written after the claims, the page over the picture that was just drawn.
LEMMA SheetStep ==
  ASSUME TopoInv, WriteDot \/ RenderSvg \/ WritePage \/ AbortTopology
  PROVE  TopoInv'
<1> USE DEF TopoInv
<1>1. TopoTypes'
  <2>1. CASE WriteDot
    BY <2>1 DEF WriteDot, Then, TopoTypes, Steps
  <2>2. CASE RenderSvg
    BY <2>2 DEF RenderSvg, TopoTypes, Steps
  <2>3. CASE WritePage
    BY <2>3 DEF WritePage, Then, TopoTypes, Steps
  <2>4. CASE AbortTopology
    BY <2>4 DEF AbortTopology, Nothing, TopoTypes, Steps, Unlisted
  <2>5. QED
    BY <2>1, <2>2, <2>3, <2>4
<1>2. question' \in {"none", "svg", "page"} /\ deaf' = {} /\ UNCHANGED verdicts
  BY DEF WriteDot, RenderSvg, WritePage, AbortTopology, Then, Nothing, DeafSoFar
<1>3. /\ CourseReachesNow' /\ DeafSoFar' /\ PsSound' /\ LsSound' /\ InspectSound' /\ SsSound'
  BY <1>2 DEF CourseReachesNow, DeafSoFar, PsSound, LsSound, InspectSound, SsSound
<1>4. ClaimsMeasured'
  BY <1>2 DEF ClaimsMeasured
<1>5. PictureOfPass'
  <2>1. CASE WriteDot
    BY <2>1 DEF WriteDot, Then, TopoTypes, PictureOfPass
  <2>2. CASE RenderSvg
    BY <2>2 DEF RenderSvg, SvgText, TopoTypes, PictureOfPass
  <2>3. CASE WritePage
    BY <2>3 DEF WritePage, Then, TopoTypes, PictureOfPass
  <2>4. CASE AbortTopology
    BY <2>4 DEF AbortTopology, PictureOfPass
  <2>5. QED
    BY <2>1, <2>2, <2>3, <2>4
<1>6. QED
  BY <1>1, <1>3, <1>4, <1>5

LEMMA TopoStepSound == TopoInv /\ [TopoNext]_topoVars => TopoInv'
<1> SUFFICES ASSUME TopoInv, [TopoNext]_topoVars PROVE TopoInv'
  OBVIOUS
<1>1. CASE UNCHANGED topoVars
  BY <1>1
  DEF topoVars, TopoInv, TopoTypes, CourseReachesNow, DeafSoFar, PsSound, LsSound,
      InspectSound, SsSound, ClaimsMeasured, PictureOfPass, LiveNets, Listing
<1>2. QED
  BY <1>1, ShiftStep, StartStep, PsStep, LsStep, InspectStep, SsStep, BuildStep, SheetStep
  DEF TopoNext

LEMMA TopoSound == TopoSpec => []TopoInv
BY TopoInitSound, TopoStepSound, PTL DEF TopoSpec

\* A claim reported as matched or drifted held or failed at some time of its pass, unless the
\* command behind it failed (generate-topology.py:683-765), for any networks and any host.
THEOREM ClaimsAreMeasured == TopoSpec => []ClaimsMeasured
<1>1. TopoInv => ClaimsMeasured
  BY DEF TopoInv
<1>2. QED
  BY <1>1, TopoSound, PTL

\* The tables of a page and its picture are of one pass (:2649-2669).
THEOREM PagesAreOfOnePass == TopoSpec => []PageOfOnePass
<1>1. TopoInv => PageOfOnePass
  BY DEF TopoInv, PictureOfPass, PageOfOnePass
<1>2. QED
  BY <1>1, TopoSound, PTL
-----------------------------------------------------------------------------
(* The stores.                                                             *)

StoreFiles == [is : Conditions, version : Nat \ {0}]
StoreTexts == {"not present", "bad header", "failed", "none", "metadata only"}
StoreRows  == [status : {"absent", "error", "excluded", "ok"}, text : StoreTexts,
               integrated : BOOLEAN]

StoreTypes ==
  /\ use   \in [Declared -> Uses]
  /\ store \in [Declared -> StoreFiles]
  /\ snap  \in [Declared -> Nat]
  /\ storeStage \in {"idle", "metadata", "snapshots", "vacuum"}
  /\ at \in 1..(NStores + 1)
  /\ store_rows \in Seq(StoreRows)
  /\ passFiles  \in [Declared -> SUBSET StoreFiles]
  /\ projection.rows  \in Seq(StoreRows) /\ Len(projection.rows) <= NStores
  /\ projection.since \in [Declared -> SUBSET StoreFiles]

\* A pass is at the store after its last row, it knows the file of now, and versions grow.
PassKnows ==
  /\ storeStage # "idle" => /\ Len(store_rows) = at - 1
                            /\ \A i \in Declared : store[i] \in passFiles[i]
  /\ \A i \in Declared : \A f \in passFiles[i] \cup projection.since[i] :
       f.version <= store[i].version

\* Between the look at a store and its copy.
BeforeCopy ==
  storeStage = "vacuum" =>
    /\ at \in Declared /\ use[at] = "snapshot"
    /\ noted \in {"failed", "none"}
    /\ \E f \in passFiles[at] : f.is \in {"malformed", "good"}

\* What a row says is so, given its store's use and copy held and the files of the pass.
RowSound(row, flag, held, files) ==
  /\ row.integrated => /\ flag = "snapshot" /\ held # 0
                       /\ \E f \in files : held >= f.version
  /\ row.status = "ok" => \E f \in files : f.is = "good"
  /\ row.status = "excluded" => /\ flag # "snapshot"
                                /\ \E f \in files : f.is # "missing"
  /\ row.status = "error" => \E f \in files : f.is \in {"malformed", "good"}
  /\ row.status = "absent" => /\ \E f \in files : f.is \notin {"malformed", "good"}
                              /\ flag = "mount_only" => \E f \in files : f.is = "missing"

RowsSound(rows, since) == \A i \in DOMAIN rows : RowSound(rows[i], use[i], snap[i], since[i])

\* What a row of the second look says of the copy held, with the store's use.
CopySound(row, flag, held) ==
  /\ \/ row.integrated
     \/ flag = "mount_only" /\ row.status \in {"absent", "excluded"}
     \/ row.status = "absent"
     \/ row.status = "error"
     \/ row.status = "excluded" /\ flag = "no_snapshot" /\ held = 0
  /\ row.status = "error" => flag = "snapshot"

CopiesSound(rows) == \A i \in DOMAIN rows : CopySound(rows[i], use[i], snap[i])

StoreInv == /\ StoreTypes /\ PassKnows /\ BeforeCopy
            /\ storeStage # "idle" => RowsSound(store_rows, passFiles)
            /\ storeStage \in {"snapshots", "vacuum"} => CopiesSound(store_rows)
            /\ RowsSound(projection.rows, projection.since)
            /\ CopiesSound(projection.rows)

LEMMA StoreInitSound == StoreInit => StoreInv
<1> SUFFICES ASSUME StoreInit PROVE StoreInv
  OBVIOUS
<1>1. StoreTypes
  BY StoreAssumption DEF StoreInit, StoreTypes, StoreFiles
<1>2. PassKnows /\ BeforeCopy
  BY DEF StoreInit, PassKnows, BeforeCopy
<1>3. RowsSound(projection.rows, projection.since) /\ CopiesSound(projection.rows)
  BY DEF StoreInit, RowsSound, CopiesSound
<1>4. QED
  BY <1>1, <1>2, <1>3 DEF StoreInit, StoreInv

\* The rows of a pass and of the projection are numbered as the stores are.
LEMMA RowsOfStores ==
  ASSUME StoreInv
  PROVE  /\ storeStage # "idle" => /\ DOMAIN store_rows = 1..(at - 1)
                                   /\ DOMAIN store_rows \subseteq Declared
         /\ DOMAIN projection.rows \subseteq Declared
BY StoreAssumption DEF StoreInv, StoreTypes, PassKnows, Declared

LEMMA ChangeStep ==
  ASSUME StoreInv, ChangeStore
  PROVE  StoreInv'
<1> USE DEF StoreInv
<1>1. PICK i \in Declared, is \in Conditions :
        /\ store' = [store EXCEPT ![i] = [is |-> is, version |-> @.version + 1]]
        /\ passFiles' = [passFiles EXCEPT
                           ![i] = IF storeStage = "idle" THEN {} ELSE @ \cup {store'[i]}]
  BY DEF ChangeStore
<1>2. UNCHANGED <<use, snap, storeStage, at, noted, store_rows, store_metrics, projection>>
  BY DEF ChangeStore
<1>3. /\ store'[i] \in StoreFiles /\ store'[i].version = store[i].version + 1
      /\ \A k \in Declared \ {i} : store'[k] = store[k] /\ passFiles'[k] = passFiles[k]
      /\ storeStage # "idle" => passFiles'[i] = passFiles[i] \cup {store'[i]}
      /\ storeStage = "idle" => passFiles'[i] = {}
  BY <1>1 DEF StoreTypes, StoreFiles
<1>4. StoreTypes'
  BY <1>1, <1>2, <1>3 DEF StoreTypes
<1>5. \A k \in Declared : store[k].version <= store'[k].version
  <2>1. \A k \in Declared : store[k].version \in Nat
    BY DEF StoreTypes, StoreFiles
  <2>2. QED
    BY <1>3, <2>1
<1>6. PassKnows'
  <2>1. storeStage # "idle" => \A k \in Declared : store'[k] \in passFiles'[k]
    BY <1>3 DEF PassKnows
  <2>2. ASSUME NEW k \in Declared, NEW f \in passFiles'[k] \cup projection.since[k]
        PROVE  f.version <= store'[k].version
    <3>1. f = store'[k] \/ f \in passFiles[k] \cup projection.since[k]
      BY <1>3, <2>2
    <3>2. /\ store[k].version \in Nat /\ store'[k].version \in Nat
          /\ f \in StoreFiles
      BY <1>2, <1>3, <1>4, <2>2 DEF StoreTypes, StoreFiles
    <3>3. f \in passFiles[k] \cup projection.since[k] => f.version <= store[k].version
      BY DEF PassKnows
    <3>4. QED
      BY <1>5, <3>1, <3>2, <3>3 DEF StoreFiles
  <2>3. QED
    BY <1>2, <2>1, <2>2 DEF PassKnows
<1>7. storeStage # "idle" => \A k \in Declared : passFiles[k] \subseteq passFiles'[k]
  BY <1>3
<1>8. BeforeCopy'
  BY <1>2, <1>7 DEF BeforeCopy
<1>9. storeStage # "idle" => RowsSound(store_rows, passFiles)'
  BY <1>2, <1>7, RowsOfStores DEF RowsSound, RowSound
<1>10. /\ RowsSound(projection.rows, projection.since)' /\ CopiesSound(projection.rows)'
       /\ storeStage' \in {"snapshots", "vacuum"} => CopiesSound(store_rows)'
  BY <1>2 DEF RowsSound, CopiesSound
<1>11. QED
  BY <1>2, <1>4, <1>6, <1>8, <1>9, <1>10

\* The first pass over the stores records rows that the second replaces; the pass starts, and
\* starts over, with none.
LEMMA EmptyRowsStep ==
  ASSUME StoreInv, StartPass \/ SnapshotAll
  PROVE  StoreInv'
<1> USE DEF StoreInv
<1>1. /\ storeStage' \in {"metadata", "snapshots"} /\ at' = 1 /\ store_rows' = <<>>
      /\ UNCHANGED <<use, store, snap, projection>>
      /\ \A i \in Declared : store[i] \in passFiles'[i]
      /\ \A i \in Declared : passFiles'[i] \subseteq passFiles[i] \cup {store[i]}
      /\ passFiles' \in [Declared -> SUBSET StoreFiles]
  BY DEF StartPass, SnapshotAll, PassKnows, StoreTypes
<1>2. StoreTypes'
  BY <1>1, StoreAssumption DEF StoreTypes
<1>3. PassKnows'
  <2>1. \A i \in Declared : store[i].version <= store[i].version
    BY DEF StoreTypes, StoreFiles
  <2>2. QED
    BY <1>1, <2>1 DEF PassKnows
<1>4. BeforeCopy' /\ RowsSound(store_rows, passFiles)' /\ CopiesSound(store_rows)'
  BY <1>1 DEF BeforeCopy, RowsSound, CopiesSound
<1>5. RowsSound(projection.rows, projection.since)' /\ CopiesSound(projection.rows)'
  BY <1>1 DEF RowsSound, CopiesSound
<1>6. QED
  BY <1>2, <1>3, <1>4, <1>5

\* A row that is sound is appended and the pass goes to the next store; the copy of this one
\* may have changed, so long as the projection's row of it is still sound.
LEMMA AppendStep ==
  ASSUME StoreInv, NEW row \in StoreRows, at \in Declared, storeStage # "idle",
         store_rows' = Append(store_rows, row), at' = at + 1,
         storeStage' \in {"metadata", "snapshots"},
         UNCHANGED <<use, store, passFiles, projection>>,
         NEW held \in Nat, snap' = [snap EXCEPT ![at] = held],
         storeStage' = "snapshots" => storeStage # "metadata" /\ CopySound(row, use[at], held),
         RowSound(row, use[at], held, passFiles[at]),
         at \in DOMAIN projection.rows =>
           /\ RowSound(projection.rows[at], use[at], held, projection.since[at])
           /\ CopySound(projection.rows[at], use[at], held)
  PROVE  StoreInv'
<1> USE DEF StoreInv
<1>1. /\ at \in Nat /\ at + 1 \in 1..(NStores + 1) /\ Len(store_rows) = at - 1
      /\ DOMAIN store_rows = 1..(at - 1) /\ at \notin DOMAIN store_rows
      /\ Len(store_rows') = (at + 1) - 1
  BY StoreAssumption DEF StoreTypes, PassKnows, Declared
<1>2. StoreTypes'
  BY <1>1 DEF StoreTypes
<1>3. PassKnows' /\ BeforeCopy'
  BY <1>1 DEF PassKnows, BeforeCopy
<1>4. /\ snap'[at] = held
      /\ \A i \in Declared \ {at} : snap'[i] = snap[i]
  BY DEF StoreTypes
<1>5. /\ RowsSound(store_rows, passFiles)'
      /\ storeStage' \in {"snapshots", "vacuum"} => CopiesSound(store_rows)'
  <2>1. /\ DOMAIN store_rows' = DOMAIN store_rows \cup {at} /\ store_rows'[at] = row
        /\ \A i \in DOMAIN store_rows : store_rows'[i] = store_rows[i]
    BY <1>1 DEF StoreTypes
  <2>2. RowsSound(store_rows, passFiles)'
    BY <1>1, <1>4, <2>1, RowsOfStores DEF RowsSound
  <2>3. ASSUME storeStage' = "snapshots" PROVE CopiesSound(store_rows)'
    <3>1. CopiesSound(store_rows) /\ CopySound(row, use[at], held)
      BY <2>3 DEF StoreTypes
    <3>2. QED
      BY <1>1, <1>4, <2>1, <3>1, RowsOfStores DEF CopiesSound
  <2>4. QED
    BY <2>2, <2>3
<1>6. RowsSound(projection.rows, projection.since)' /\ CopiesSound(projection.rows)'
  <2>1. RowsSound(projection.rows, projection.since)'
    BY <1>4, RowsOfStores DEF RowsSound
  <2>2. CopiesSound(projection.rows)'
    BY <1>4, RowsOfStores DEF CopiesSound
  <2>3. QED
    BY <2>1, <2>2
<1>7. QED
  BY <1>2, <1>3, <1>5, <1>6

\* A row made of what the store is now.
LEMMA TextRowSound ==
  ASSUME StoreInv, at \in Declared, storeStage # "idle", NEW held
  PROVE  /\ StoreRow(Text(at), FALSE) \in StoreRows
         /\ RowSound(StoreRow(Text(at), FALSE), use[at], held, passFiles[at])
         /\ ~ Present(at) \/ use[at] = "mount_only" =>
              CopySound(StoreRow(Text(at), FALSE), use[at], held)
<1>1. store[at] \in passFiles[at] /\ store[at].is \in Conditions /\ use[at] \in Uses
  BY DEF StoreInv, StoreTypes, StoreFiles, PassKnows
<1>2. Text(at) \in {"not present", "metadata only", "bad header", "failed", "none"}
  BY <1>1 DEF Text, Conditions
<1>3. /\ Text(at) = "none" /\ Present(at) => store[at].is = "good"
      /\ Text(at) = "metadata only" => use[at] = "mount_only"
      /\ Text(at) = "not present" => ~ Present(at)
      /\ Text(at) \in {"bad header", "failed"} => use[at] # "mount_only"
      /\ Text(at) = "failed" /\ Present(at) => store[at].is = "malformed"
      /\ Text(at) = "bad header" => ~ Present(at)
      /\ ~ Present(at) /\ use[at] = "mount_only" => store[at].is = "missing"
      /\ Present(at) /\ use[at] = "mount_only" => Text(at) = "metadata only"
      /\ Present(at) => store[at].is # "missing"
      /\ ~ Present(at) => store[at].is \notin {"good", "malformed"}
  BY <1>1 DEF Text, Present, Conditions
<1>4. ClassifyStore(Present(at), Text(at)) \in {"absent", "error", "excluded", "ok"}
  BY DEF ClassifyStore
<1>5. StoreRow(Text(at), FALSE) \in StoreRows
  BY <1>2, <1>4 DEF StoreRow, StoreRows, StoreTexts
<1>6. RowSound(StoreRow(Text(at), FALSE), use[at], held, passFiles[at])
  BY <1>1, <1>2, <1>3 DEF RowSound, StoreRow, ClassifyStore, ErrorTexts
<1>7. ~ Present(at) \/ use[at] = "mount_only" =>
        CopySound(StoreRow(Text(at), FALSE), use[at], held)
  BY <1>3 DEF CopySound, StoreRow, ClassifyStore, ErrorTexts
<1>8. QED
  BY <1>5, <1>6, <1>7

LEMMA LookStep ==
  ASSUME StoreInv, CollectSqlite \/ SkipSnapshot
  PROVE  StoreInv'
<1>1. at \in Declared /\ storeStage # "idle" /\ storeStage' \in {"metadata", "snapshots"}
      /\ UNCHANGED <<use, store, passFiles, projection>>
  BY DEF CollectSqlite, SkipSnapshot, StoreInv
<1>2. CASE /\ Record(StoreRow(Text(at), FALSE)) /\ UNCHANGED snap
           /\ storeStage' = "snapshots" =>
                storeStage # "metadata" /\ (~ Present(at) \/ use[at] = "mount_only")
  <2>1. snap' = [snap EXCEPT ![at] = snap[at]] /\ snap[at] \in Nat
    BY <1>1, <1>2 DEF StoreInv, StoreTypes
  <2>2. at \in DOMAIN projection.rows =>
          /\ RowSound(projection.rows[at], use[at], snap[at], projection.since[at])
          /\ CopySound(projection.rows[at], use[at], snap[at])
    BY DEF StoreInv, RowsSound, CopiesSound
  <2>4. storeStage' = "snapshots" =>
          storeStage # "metadata" /\ CopySound(StoreRow(Text(at), FALSE), use[at], snap[at])
    BY <1>1, <1>2, TextRowSound
  <2>5. QED
    BY <1>1, <1>2, <2>1, <2>2, <2>4, TextRowSound, AppendStep DEF Record
<1>3. CASE /\ Present(at) /\ use[at] = "no_snapshot"
           /\ Record(StoreRow("metadata only", FALSE)) /\ snap' = Uncopied
           /\ SkipSnapshot
  <2>1. snap' = [snap EXCEPT ![at] = 0] /\ 0 \in Nat
    BY <1>3 DEF Uncopied
  <2>2. PICK row : row = [status |-> "excluded", text |-> "metadata only", integrated |-> FALSE]
    OBVIOUS
  <2>3. /\ StoreRow("metadata only", FALSE) = row
        /\ row \in StoreRows /\ RowSound(row, use[at], 0, passFiles[at])
        /\ CopySound(row, use[at], 0)
    <3>1. StoreRow("metadata only", FALSE) = row
      BY <1>3, <2>2 DEF StoreRow, ClassifyStore, ErrorTexts
    <3>2. row \in StoreRows
      BY <2>2 DEF StoreRows, StoreTexts
    <3>3. store[at] \in passFiles[at] /\ store[at].is # "missing"
      BY <1>1, <1>3 DEF Present, StoreInv, PassKnows
    <3>4. RowSound(row, use[at], 0, passFiles[at]) /\ CopySound(row, use[at], 0)
      BY <1>3, <2>2, <3>3 DEF RowSound, CopySound
    <3>5. QED
      BY <3>1, <3>2, <3>4
  <2>4. at \in DOMAIN projection.rows =>
          /\ RowSound(projection.rows[at], use[at], 0, projection.since[at])
          /\ CopySound(projection.rows[at], use[at], 0)
    BY <1>3 DEF StoreInv, RowsSound, RowSound, CopiesSound, CopySound
  <2>5. storeStage # "metadata"
    BY <1>3 DEF SkipSnapshot
  <2>6. QED
    BY <1>1, <1>3, <2>1, <2>3, <2>4, <2>5, AppendStep DEF Record
<1>4. QED
  BY <1>2, <1>3 DEF CollectSqlite, SkipSnapshot

LEMMA BeginCopyStep ==
  ASSUME StoreInv, BeginSnapshot
  PROVE  StoreInv'
<1> USE DEF StoreInv
<1>1. /\ at \in Declared /\ Present(at) /\ use[at] = "snapshot" /\ storeStage # "idle"
      /\ storeStage' = "vacuum" /\ noted' = Text(at)
      /\ UNCHANGED <<use, store, snap, at, store_rows, passFiles, projection>>
  BY DEF BeginSnapshot
<1>2. StoreTypes' /\ PassKnows'
  BY <1>1 DEF StoreTypes, PassKnows
<1>3. BeforeCopy'
  <2>1. store[at] \in passFiles[at] /\ store[at].is \in {"malformed", "good"}
    BY <1>1 DEF PassKnows, Present
  <2>2. Text(at) \in {"failed", "none"}
    BY <1>1, <2>1 DEF Text
  <2>3. QED
    BY <1>1, <2>1, <2>2 DEF BeforeCopy
<1>4. /\ RowsSound(store_rows, passFiles)' /\ RowsSound(projection.rows, projection.since)'
      /\ CopiesSound(store_rows)' /\ CopiesSound(projection.rows)'
  <2>1. CopiesSound(store_rows)
    BY DEF BeginSnapshot
  <2>2. QED
    BY <1>1, <2>1 DEF RowsSound, CopiesSound
<1>5. QED
  BY <1>1, <1>2, <1>3, <1>4

\* The copy is of the store as it is now, no older than any file a pass has seen.
LEMMA VacuumStep ==
  ASSUME StoreInv, Vacuum
  PROVE  StoreInv'
<1>1. /\ at \in Declared /\ storeStage # "idle" /\ storeStage' = "snapshots"
      /\ UNCHANGED <<use, store, passFiles, projection>>
      /\ use[at] = "snapshot" /\ noted \in {"failed", "none"}
      /\ \E f \in passFiles[at] : f.is \in {"malformed", "good"}
      /\ store[at] \in passFiles[at] /\ store[at].version \in Nat \ {0}
      /\ storeStage = "vacuum"
  BY DEF Vacuum, StoreInv, StoreTypes, StoreFiles, BeforeCopy, PassKnows
<1>2. CASE /\ store[at].is = "good"
           /\ Record([status |-> ClassifyStore(TRUE, noted), text |-> noted,
                      integrated |-> Integrated(TRUE)])
           /\ snap' = [snap EXCEPT ![at] = store[at].version]
  <2>1. PICK row : row = [status |-> ClassifyStore(TRUE, noted), text |-> noted,
                          integrated |-> Integrated(TRUE)]
    OBVIOUS
  <2>2. /\ row \in StoreRows /\ row.integrated
        /\ row.status \in {"ok", "error"}
    BY <1>1, <2>1 DEF StoreRows, StoreTexts, ClassifyStore, ErrorTexts, Integrated
  <2>3. store[at].version >= store[at].version
    BY <1>1
  <2>4. /\ RowSound(row, use[at], store[at].version, passFiles[at])
        /\ CopySound(row, use[at], store[at].version)
    BY <1>1, <1>2, <2>2, <2>3 DEF RowSound, CopySound
  <2>5. at \in DOMAIN projection.rows =>
          /\ RowSound(projection.rows[at], use[at], store[at].version, projection.since[at])
          /\ CopySound(projection.rows[at], use[at], store[at].version)
    <3>1. \A f \in projection.since[at] : store[at].version >= f.version
      <4>1. \A f \in projection.since[at] : f.version <= store[at].version /\ f.version \in Nat
        BY <1>1 DEF StoreInv, StoreTypes, StoreFiles, PassKnows
      <4>2. QED
        BY <1>1, <4>1
    <3>2. at \in DOMAIN projection.rows =>
            RowSound(projection.rows[at], use[at], store[at].version, projection.since[at])
      BY <1>1, <3>1 DEF StoreInv, RowsSound, RowSound
    <3>3. at \in DOMAIN projection.rows =>
            CopySound(projection.rows[at], use[at], store[at].version)
      BY <1>1 DEF StoreInv, CopiesSound, CopySound
    <3>4. QED
      BY <3>2, <3>3
  <2>6. QED
    BY <1>1, <1>2, <2>1, <2>2, <2>4, <2>5, AppendStep DEF Record
<1>3. CASE /\ Record([status |-> "error", text |-> "failed", integrated |-> Integrated(FALSE)])
           /\ UNCHANGED snap
  <2>1. PICK row : row = [status |-> "error", text |-> "failed",
                          integrated |-> Integrated(FALSE)]
    OBVIOUS
  <2>2. /\ row \in StoreRows /\ RowSound(row, use[at], snap[at], passFiles[at])
        /\ CopySound(row, use[at], snap[at])
    BY <1>1, <2>1 DEF StoreRows, StoreTexts, Integrated, RowSound, CopySound
  <2>3. snap' = [snap EXCEPT ![at] = snap[at]] /\ snap[at] \in Nat
    BY <1>1, <1>3 DEF StoreInv, StoreTypes
  <2>4. at \in DOMAIN projection.rows =>
          /\ RowSound(projection.rows[at], use[at], snap[at], projection.since[at])
          /\ CopySound(projection.rows[at], use[at], snap[at])
    BY DEF StoreInv, RowsSound, CopiesSound
  <2>5. QED
    BY <1>1, <1>3, <2>1, <2>2, <2>3, <2>4, AppendStep DEF Record
<1>4. QED
  BY <1>2, <1>3 DEF Vacuum

\* The pass ends: its rows are the projection, or nothing is.
LEMMA EndPassStep ==
  ASSUME StoreInv, WriteProjection \/ AbortPass
  PROVE  StoreInv'
<1> USE DEF StoreInv
<1>1. /\ storeStage' = "idle" /\ passFiles' = [i \in Declared |-> {}]
      /\ UNCHANGED <<use, store, snap, at, store_rows>>
  BY DEF WriteProjection, AbortPass
<1>2. CASE WriteProjection
  <2>1. /\ projection'.rows = store_rows /\ projection'.since = passFiles
        /\ storeStage = "snapshots" /\ at \notin Declared
    BY <1>2 DEF WriteProjection
  <2>2. Len(store_rows) <= NStores
    BY <2>1, StoreAssumption DEF StoreTypes, PassKnows, Declared
  <2>3. StoreTypes'
    BY <1>1, <2>1, <2>2 DEF StoreTypes
  <2>4. PassKnows' /\ BeforeCopy'
    BY <1>1, <2>1 DEF PassKnows, BeforeCopy
  <2>5. RowsSound(projection.rows, projection.since)' /\ CopiesSound(projection.rows)'
    BY <1>1, <2>1 DEF RowsSound, CopiesSound
  <2>6. QED
    BY <1>1, <2>3, <2>4, <2>5
<1>3. CASE AbortPass
  BY <1>1, <1>3 DEF AbortPass, StoreTypes, PassKnows, BeforeCopy, RowsSound, CopiesSound
<1>4. QED
  BY <1>2, <1>3

LEMMA StoreStepSound == StoreInv /\ [StoreNext]_storeVars => StoreInv'
<1> SUFFICES ASSUME StoreInv, [StoreNext]_storeVars PROVE StoreInv'
  OBVIOUS
<1>1. CASE UNCHANGED storeVars
  BY <1>1 DEF storeVars, StoreInv, StoreTypes, PassKnows, BeforeCopy, RowsSound, CopiesSound
<1>2. QED
  BY <1>1, ChangeStep, EmptyRowsStep, LookStep, BeginCopyStep, VacuumStep, EndPassStep
  DEF StoreNext

LEMMA StoreSound == StoreSpec => []StoreInv
BY StoreInitSound, StoreStepSound, PTL DEF StoreSpec

\* A store called integrated is served by a copy no older than the pass that said so, for any
\* stores and whatever fails in the passes after it (collect-system-health.py:748-753, :914).
LEMMA IntegratedIsServed == StoreSpec => []IntegratedServed
<1>1. StoreInv => IntegratedServed
  BY DEF StoreInv, RowsSound, RowSound, IntegratedServed, Rows
<1>2. QED
  BY <1>1, StoreSound, PTL

\* No copy is left of a store that is not integrated, but of one read by stat only, not
\* present or not copied for an error (:886-893, :928-933).
LEMMA OthersAreUncopied == StoreSpec => []OthersUncopied
<1>1. StoreInv => OthersUncopied
  BY DEF StoreInv, CopiesSound, CopySound, OthersUncopied, Rows
<1>2. QED
  BY <1>1, StoreSound, PTL

\* The copies Grafana is served are as the page says (collect-system-health.py:886-919).
THEOREM CopiesAlwaysMatch == StoreSpec => []CopiesMatchPage
<1>1. IntegratedServed /\ OthersUncopied => CopiesMatchPage
  BY DEF CopiesMatchPage
<1>2. QED
  BY <1>1, IntegratedIsServed, OthersAreUncopied, PTL

\* A status is true of the file at some time of its pass, and what is to be copied and
\* cannot be used is an error (:648-667).
THEOREM StatusIsTrue == StoreSpec => []StatusTrue
<1>1. ASSUME StoreInv, NEW i \in Rows
      PROVE  LET row == projection.rows[i]
             IN CASE row.status = "ok"       -> "good" \in During(i) /\ row.integrated
                  [] row.status = "excluded" -> use[i] # "snapshot" /\ During(i) # {"missing"}
                  [] row.status = "error"    -> /\ use[i] = "snapshot"
                                                /\ During(i) \cap {"malformed", "good"} # {}
                  [] OTHER -> /\ During(i) \ {"malformed", "good"} # {}
                              /\ use[i] = "mount_only" => "missing" \in During(i)
  <2>1. projection.rows[i].status \in {"absent", "error", "excluded", "ok"}
    <3>1. projection.rows \in Seq(StoreRows) /\ i \in DOMAIN projection.rows
      BY <1>1 DEF StoreInv, StoreTypes, Rows
    <3>2. projection.rows[i] \in StoreRows
      BY <3>1
    <3>3. QED
      BY <3>2 DEF StoreRows
  <2>2. /\ RowSound(projection.rows[i], use[i], snap[i], projection.since[i])
        /\ CopySound(projection.rows[i], use[i], snap[i])
    BY <1>1 DEF StoreInv, RowsSound, CopiesSound, Rows
  <2>3. QED
    BY <2>1, <2>2 DEF RowSound, CopySound, During
<1>2. StoreInv => StatusTrue
  BY <1>1 DEF StatusTrue
<1>3. QED
  BY <1>2, StoreSound, PTL

-----------------------------------------------------------------------------
(* The update reports.                                                     *)

\* What a drift report holds was measured: of the unit, what the advice on its verdict will
\* claim, and all of it behind exit 0; of the package, that a pocket had a newer one.
HasNewer(was) == \E p \in Pockets : was.in[p] > was.installed

Measured(d) ==
  /\ UnitClaim(UnitAdvice(d.verdict), d.image, d.seen, d.verdict)
  /\ d.exit = 0 =>
       \/ d.image.is = "pinned" /\ d.seen # 0 /\ d.verdict # "NOT CHECKED"
       \/ d.image.is = "floating" /\ d.image.chosen
       \/ d.image.is = "local"
  /\ d.apt # {} => HasNewer(d.package)

\* The pocket an inventory gives is one that had the package, and none had one it gives none.
Attributed(v) ==
  /\ v.pocket = "security" => v.package.in["security"] # 0
  /\ v.pocket = "Not in any" => \A p \in Pockets : v.package.in[p] = 0

Lines == [is : {"none", "local", "floating", "pinned"}, digest : Nat, held : Nat,
          tag : {"release", "rolling", "none"}, chosen : BOOLEAN]

\* Advice carries the files it was given for, which may since have been replaced.
ReportInv ==
  /\ image \in Lines /\ upstream \in Nat /\ order \in Orders
  /\ drift # None => Measured(drift)
  /\ inventory # None => Attributed(inventory)
  /\ advice # None =>
       /\ Measured(advice.drift) /\ Attributed(advice.inventory)
       /\ advice.unit = UnitAdvice(advice.drift.verdict)
       /\ "SECURITY" \in advice.apt => advice.inventory.pocket = "security"
       /\ advice.apt \cap {"SECURITY", "TAKE_NOW"} # {} => advice.drift.apt # {}
       /\ "ORPHANED" \in advice.apt => advice.inventory.pocket = "Not in any"
  /\ StatusEarned

LEMMA ReportInitSound == ReportInit => ReportInv
<1> SUFFICES ASSUME ReportInit PROVE ReportInv
  OBVIOUS
<1>1. image \in Images /\ order \in Orders
  BY ReportAssumption DEF ReportInit
<1>2. image \in Lines
  BY <1>1 DEF Images, Lines
<1>3. QED
  BY <1>1, <1>2 DEF ReportInit, ReportInv, StatusEarned

\* The first index that has the package has it.
LEMMA IndexedHas ==
  ASSUME order \in Orders
  PROVE  /\ IndexedAs = "security" => package.in["security"] # 0
         /\ IndexedAs = "Not in any" => \A p \in Pockets : package.in[p] = 0
<1> DEFINE having == {i \in DOMAIN order : package.in[order[i]] # 0}
<1>1. /\ DOMAIN order = 1..4
      /\ \A i \in 1..4 : order[i] \in Pockets
      /\ \A p \in Pockets : \E i \in 1..4 : order[i] = p
  BY DEF Orders, Pockets
<1>2. CASE having = {}
  <2>1. IndexedAs = "Not in any"
    BY <1>2 DEF IndexedAs
  <2>2. \A p \in Pockets : package.in[p] = 0
    BY <1>1, <1>2
  <2>3. QED
    BY <2>1, <2>2
<1>3. CASE having # {}
  <2>1. PICK least \in having : \A i \in having : least <= i
    <3>1. \A i \in having : i \in {1, 2, 3, 4}
      BY <1>1
    <3>2. PICK i \in having : TRUE
      BY <1>3
    <3> HIDE DEF having
    <3>3. CASE 1 \in having
      BY <3>1, <3>3
    <3>4. CASE 1 \notin having /\ 2 \in having
      BY <3>1, <3>4
    <3>5. CASE 1 \notin having /\ 2 \notin having /\ 3 \in having
      BY <3>1, <3>5
    <3>6. CASE 1 \notin having /\ 2 \notin having /\ 3 \notin having
      BY <3>1, <3>2, <3>6
    <3>7. QED
      BY <3>3, <3>4, <3>5, <3>6
  <2>2. Min(having) \in having
    BY <2>1 DEF Min
  <2>3. IndexedAs = order[Min(having)]
    BY <1>3 DEF IndexedAs
  <2>4. /\ package.in[order[Min(having)]] # 0
        /\ order[Min(having)] \in Pockets
    BY <1>1, <2>2
  <2>5. "Not in any" \notin Pockets
    BY DEF Pockets
  <2>6. QED
    BY <2>3, <2>4, <2>5
<1>4. QED
  BY <1>2, <1>3

LEMMA VerdictMeasured ==
  ASSUME ReportInv, NEW answer, NEW offline \in BOOLEAN,
         offline \/ image.is # "pinned" => answer = 0
  PROVE  LET verdict == UnitVerdict(answer, offline)
         IN /\ UnitClaim(UnitAdvice(verdict), image, answer, verdict)
            /\ \/ verdict \in Findings
               \/ image.is = "pinned" /\ answer # 0 /\ verdict # "NOT CHECKED"
               \/ image.is = "floating" /\ image.chosen
               \/ image.is = "local"
<1> DEFINE verdict == UnitVerdict(answer, offline)
<1>0. image \in Lines
  BY DEF ReportInv
<1>1. /\ image.is \in {"none", "local", "floating", "pinned"}
      /\ image.tag \in {"release", "rolling", "none"}
  BY <1>0 DEF Lines
<1>2. CASE image.is # "pinned"
  BY <1>1, <1>2 DEF UnitVerdict, UnitClaim, UnitAdvice, Uncompared, Findings
<1>3. CASE image.is = "pinned" /\ (offline \/ answer = 0)
  <2>1. verdict \in {"NOT CHECKED", "UNRESOLVED"} /\ answer = 0
    BY <1>3 DEF UnitVerdict
  <2>2. UnitClaim(UnitAdvice(verdict), image, answer, verdict)
    BY <1>3, <2>1 DEF UnitClaim, UnitAdvice, Uncompared
  <2>3. QED
    BY <2>1, <2>2 DEF Findings
<1>4. CASE image.is = "pinned" /\ ~offline /\ answer # 0
  <2>1. /\ answer = image.digest => verdict = "IN SYNC"
        /\ answer # image.digest =>
             verdict = IF image.held = image.digest THEN "HELD"
                       ELSE IF image.tag = "release" THEN "DRIFT"
                       ELSE IF image.tag = "rolling" THEN "BEHIND TRACKED TAG"
                       ELSE "BEHIND LATEST"
    BY <1>4 DEF UnitVerdict
  <2>2. UnitClaim(UnitAdvice(verdict), image, answer, verdict)
    BY <1>1, <1>4, <2>1 DEF UnitClaim, UnitAdvice
  <2>3. verdict # "NOT CHECKED"
    BY <2>1
  <2>4. QED
    BY <1>4, <2>2, <2>3
<1>5. QED
  BY <1>2, <1>3, <1>4

LEMMA DriftReportSound ==
  ASSUME ReportInv, DriftReport
  PROVE  Measured(drift')
<1>1. PICK offline \in BOOLEAN, heard \in BOOLEAN, answer \in {0, upstream} :
        /\ answer \in TagDigest(offline)
        /\ drift'.verdict = UnitVerdict(answer, offline) /\ drift'.seen = answer
        /\ drift'.image = image /\ drift'.package = package
        /\ drift'.exit = IF UnitVerdict(answer, offline) \in Findings THEN 1 ELSE 0
        /\ drift'.apt = IF heard /\ Candidate > package.installed THEN CandidateIn ELSE {}
  BY DEF DriftReport, TagDigest
<1>2. offline \/ image.is # "pinned" => answer = 0
  BY <1>1 DEF TagDigest
<1> DEFINE verdict == UnitVerdict(answer, offline)
<1>3. /\ UnitClaim(UnitAdvice(verdict), image, answer, verdict)
      /\ \/ verdict \in Findings
         \/ image.is = "pinned" /\ answer # 0 /\ verdict # "NOT CHECKED"
         \/ image.is = "floating" /\ image.chosen
         \/ image.is = "local"
  BY <1>2, VerdictMeasured
<1>4. drift'.apt # {} => \E p \in Pockets : package.in[p] > package.installed
  BY <1>1 DEF CandidateIn
<1>5. /\ drift'.verdict = verdict /\ drift'.seen = answer /\ drift'.image = image
      /\ drift'.package = package
      /\ drift'.exit = 0 => verdict \notin Findings
  BY <1>1
<1> HIDE DEF verdict
<1>6. UnitClaim(UnitAdvice(drift.verdict), drift.image, drift.seen, drift.verdict)'
  BY <1>3, <1>5 DEF UnitClaim, UnitAdvice
<1>7. drift'.exit = 0 =>
        \/ drift'.image.is = "pinned" /\ drift'.seen # 0 /\ drift'.verdict # "NOT CHECKED"
        \/ drift'.image.is = "floating" /\ drift'.image.chosen
        \/ drift'.image.is = "local"
  BY <1>3, <1>5
<1>8. HasNewer(drift.package)' \/ drift'.apt = {}
  BY <1>4, <1>5 DEF HasNewer
<1>9. QED
  BY <1>6, <1>7, <1>8 DEF Measured

LEMMA TrackSound ==
  ASSUME TrackUnmanaged
  PROVE  StatusEarned'
<1>1. PICK answer \in {0, file.offered}, offline \in BOOLEAN :
        /\ tracked'.status = Status(answer, offline) /\ tracked'.of = file
        /\ tracked'.seen = IF offline THEN 0 ELSE answer
  BY DEF TrackUnmanaged
<1>2. Status(answer, offline) = "CURRENT" =>
        /\ ~offline /\ answer # 0 /\ answer = file.version
        /\ file.kind = "AppImage" => file.there /\ file.version # 0
  BY DEF Status, Compared
<1>3. Status(answer, offline) = "BEHIND" =>
        /\ ~offline /\ answer # 0 /\ answer # file.version
        /\ file.kind = "AppImage" => file.there /\ file.version # 0
  BY DEF Status, Compared
<1>4. file.registered \/ (file.there /\ file.kind = "AppImage") =>
        Status(answer, offline) # "none"
  BY DEF Status, Compared
<1>5. QED
  BY <1>1, <1>2, <1>3, <1>4 DEF StatusEarned

LEMMA ReportStepSound == ReportInv /\ [ReportNext]_reportVars => ReportInv'
<1> SUFFICES ASSUME ReportInv, [ReportNext]_reportVars PROVE ReportInv'
  OBVIOUS
<1> USE DEF ReportInv, worldVars
<1>1. CASE UNCHANGED reportVars
  BY <1>1 DEF reportVars, StatusEarned
<1>2. CASE DriftReport
  <2>1. UNCHANGED <<image, upstream, order, inventory, advice, tracked>>
    BY <1>2 DEF DriftReport
  <2>2. QED
    BY <1>2, <2>1, DriftReportSound DEF StatusEarned
<1>3. CASE Inventory
  <2>1. /\ inventory'.pocket = IndexedAs /\ inventory'.package = package
        /\ UNCHANGED <<image, upstream, order, drift, advice, tracked>>
    BY <1>3 DEF Inventory
  <2>2. Attributed(inventory')
    BY <2>1, IndexedHas DEF Attributed
  <2>3. QED
    BY <2>1, <2>2 DEF StatusEarned
<1>4. CASE Recommend
  <2>1. /\ advice'.drift = drift /\ advice'.inventory = inventory
        /\ advice'.unit = UnitAdvice(drift.verdict) /\ advice'.apt = PackageAdvice
        /\ inventory # None /\ drift # None
        /\ UNCHANGED <<image, upstream, order, inventory, drift, tracked>>
    BY <1>4 DEF Recommend
  <2>2. /\ "SECURITY" \in PackageAdvice => drift.apt # {} /\ inventory.pocket = "security"
        /\ "TAKE_NOW" \in PackageAdvice => drift.apt # {}
        /\ "ORPHANED" \in PackageAdvice => inventory.pocket = "Not in any"
    BY DEF PackageAdvice
  <2>3. QED
    BY <2>1, <2>2 DEF StatusEarned
<1>5. CASE TrackUnmanaged
  <2>1. UNCHANGED <<image, upstream, order, inventory, drift, advice>>
    BY <1>5 DEF TrackUnmanaged
  <2>2. QED
    BY <1>5, <2>1, TrackSound
<1>6. CASE Release \/ Upgrade \/ Download
  <2>1. upstream' \in Nat
    <3>1. upstream' \in {upstream, upstream + 1}
      BY <1>6 DEF Release, Upgrade, Download
    <3>2. upstream \in Nat
      BY Zenon
    <3> HIDE DEF ReportInv
    <3>3. QED
      BY <3>1, <3>2
  <2>2. UNCHANGED <<image, order, inventory, drift, advice, tracked>>
    BY <1>6, Zenon DEF Release, Upgrade, Download
  <2>3. QED
    BY <2>1, <2>2 DEF StatusEarned
<1>7. CASE Promote
  <2>1. /\ image' \in Lines
        /\ UNCHANGED <<upstream, order, inventory, drift, advice, tracked>>
    BY <1>7 DEF Promote, Lines
  <2>2. QED
    BY <2>1 DEF StatusEarned
<1>8. QED
  BY <1>1, <1>2, <1>3, <1>4, <1>5, <1>6, <1>7 DEF ReportNext

LEMMA ReportsSound == ReportSpec => []ReportInv
BY ReportInitSound, ReportStepSound, PTL DEF ReportSpec

\* Advice claims of a unit and of a package what the files it read had measured of them, but
\* for the uncompared units, whatever is released, promoted and upgraded between the
\* programs and in whichever order they run (recommend.py:122-266).
THEOREM AdviceIsMeasured == ReportSpec => []AdviceMeasured
<1>1. ReportInv => AdviceMeasured
  BY DEF ReportInv, AdviceMeasured, Measured, Attributed, HasNewer, PackageClaim
<1>2. QED
  BY <1>1, ReportsSound, PTL

\* Exit 0 leaves no image unmeasured, and an unmanaged file is called behind or current only
\* by a release that was read (drift-report.py:630-634, track-unmanaged.py:137-217).
THEOREM FindingsAreEarned == ReportSpec => []FindingsEarned
<1>1. ReportInv => CleanExitMeasured
  BY DEF ReportInv, CleanExitMeasured, Measured
<1>2. ReportInv => FindingsEarned
  BY <1>1 DEF ReportInv, FindingsEarned
<1>3. QED
  BY <1>2, ReportsSound, PTL

-----------------------------------------------------------------------------
(* The update plan.                                                        *)

Listed == {"pull", "deploy", "reload", "restart", "upgrade"}
Argv   == [verb : Listed, version : Nat, whole : BOOLEAN, plain : BOOLEAN]

\* The steps the validator takes.
Accepted == {s \in Argv : ValidateStep(s)}

LEMMA RunnableIsAccepted ==
  ASSUME NEW s \in Argv, s.verb = "pull" => s.whole
  PROVE  Runnable(s) \in Seq(Accepted)
<1>1. CASE ArgvIsSafe(s)
  <2>1. s \in Accepted
    BY <1>1 DEF Accepted, ArgvIsSafe, ValidateStep
  <2>2. QED
    BY <1>1, <2>1 DEF Runnable
<1>2. CASE ~ArgvIsSafe(s)
  BY <1>2 DEF Runnable
<1>3. QED
  BY <1>1, <1>2

\* The generator writes no step the validator refuses, as long as it pulls whole
\* digests only.
LEMMA StepsAreAccepted ==
  ASSUME NEW t \in Traits, NEW row, row.target \in Nat,
         t.kind = "container" /\ row.target # 0 => t.checkable
  PROVE  UpdateSteps(t, row) \in Seq(Accepted)
<1>1. t.checkable \in BOOLEAN /\ t.plain \in BOOLEAN
  BY DEF Traits
<1>2. CASE t.kind = "container" /\ row.target # 0
  <2>1. Pull(row.target, t.checkable) \in Argv /\ t.checkable
    BY <1>1, <1>2 DEF Pull, Argv, Listed
  <2>2. Runnable(Pull(row.target, t.checkable)) \in Seq(Accepted)
    BY <2>1, RunnableIsAccepted DEF Pull
  <2>3. \A verb \in {"deploy", "reload", "restart"} :
          Runnable(Step(verb, TRUE)) \in Seq(Accepted)
    <3> TAKE verb \in {"deploy", "reload", "restart"}
    <3>1. Step(verb, TRUE) \in Argv /\ Step(verb, TRUE).verb # "pull"
      BY DEF Step, Argv, Listed
    <3>2. QED
      BY <3>1, RunnableIsAccepted
  <2>4. UpdateSteps(t, row) =
          Runnable(Pull(row.target, t.checkable)) \o Runnable(Step("deploy", TRUE))
            \o Runnable(Step("reload", TRUE)) \o Runnable(Step("restart", TRUE))
    BY <1>2 DEF UpdateSteps
  <2> DEFINE s1 == Runnable(Pull(row.target, t.checkable))
             s2 == Runnable(Step("deploy", TRUE))
             s3 == Runnable(Step("reload", TRUE))
             s4 == Runnable(Step("restart", TRUE))
  <2>5. s1 \in Seq(Accepted) /\ s2 \in Seq(Accepted) /\ s3 \in Seq(Accepted)
          /\ s4 \in Seq(Accepted)
    BY <2>2, <2>3
  <2> HIDE DEF s1, s2, s3, s4
  <2>6. s1 \o s2 \in Seq(Accepted)
    BY <2>5, ConcatProperties
  <2>7. s1 \o s2 \o s3 \in Seq(Accepted)
    BY <2>5, <2>6, ConcatProperties
  <2>8. s1 \o s2 \o s3 \o s4 \in Seq(Accepted)
    BY <2>5, <2>7, ConcatProperties
  <2>9. QED
    BY <2>4, <2>8 DEF s1, s2, s3, s4
<1>3. CASE t.kind \in {"snap", "flatpak", "apt", "desktop"}
  <2>1. Step("upgrade", t.plain) \in Argv /\ Step("upgrade", t.plain).verb # "pull"
    BY <1>1 DEF Step, Argv, Listed
  <2>2. UpdateSteps(t, row) = Runnable(Step("upgrade", t.plain))
    BY <1>3 DEF UpdateSteps
  <2>3. QED
    BY <2>1, <2>2, RunnableIsAccepted
<1>4. CASE /\ ~(t.kind = "container" /\ row.target # 0)
           /\ t.kind \notin {"snap", "flatpak", "apt", "desktop"}
  <2>1. UpdateSteps(t, row) = <<>>
    BY <1>4 DEF UpdateSteps
  <2>2. QED
    BY <2>1
<1>5. QED
  BY <1>2, <1>3, <1>4

\* An item with steps whose row says NO was read on both sides, which differ, and its
\* digest is a whole one.
LEMMA NoIsMeasured ==
  ASSUME NEW t \in Traits, NEW current \in Nat, NEW goal \in Nat,
         NEW tagged \in BOOLEAN,
         UpdateSteps(t, RowOf(t, current, goal, tagged)) # <<>>,
         MatchOf(RowOf(t, current, goal, tagged)) = "NO"
  PROVE  /\ goal # current /\ goal # 0
         /\ RowOf(t, current, goal, tagged).target \in Nat
         /\ t.kind = "container" => t.checkable
<1>1. CASE t.kind = "container"
  <2>1. PICK row : row = RowOf(t, current, goal, tagged)
    OBVIOUS
  <2>2. row = Containers(t, current, goal, tagged)
    BY <1>1, <2>1 DEF RowOf
  <2>3. /\ row.pinHash = IF t.fixed THEN current ELSE 0
        /\ row.relHash = IF t.checkable THEN goal ELSE 0
        /\ row.target = goal /\ row.nocompare = FALSE /\ row.force = "none"
        /\ row.local = FALSE
    BY <2>2 DEF Containers, Row
  <2>4. row.pinHash = 0 => row.pinned.says = "noVersion"
    <3>1. row.pinned = Known(IF tagged THEN IF t.fixed THEN current ELSE 0 ELSE 0, "noVersion")
      BY <2>2 DEF Containers, Row
    <3>2. row.pinHash = 0 => row.pinned = Word("noVersion")
      BY <2>3, <3>1 DEF Known
    <3>3. QED
      BY <3>2 DEF Word
  <2>5. MatchOf(row) = "NO"
    BY <2>1
  <2>6. row.pinHash # 0 /\ row.relHash # 0 /\ row.pinHash # row.relHash
    BY <2>3, <2>4, <2>5 DEF MatchOf
  <2>7. QED
    BY <2>1, <2>3, <2>6
<1>2. CASE t.kind \in {"snap", "flatpak", "apt", "desktop"}
  <2>1. PICK row : row = RowOf(t, current, goal, tagged)
    OBVIOUS
  <2>2. MatchOf(row) = "NO"
    BY <2>1
  <2>3. \/ row = Snaps(t, current, goal)
        \/ row = Flatpaks(t, current, goal)
        \/ row = ThirdPartyApt(t, current, goal)
        \/ row = DesktopApps(t, current, goal)
    <3>1. t.kind = "snap" => row = Snaps(t, current, goal)
      BY <2>1 DEF RowOf
    <3>2. t.kind = "flatpak" => row = Flatpaks(t, current, goal)
      BY <2>1 DEF RowOf
    <3>3. t.kind = "apt" => row = ThirdPartyApt(t, current, goal)
      BY <2>1 DEF RowOf
    <3>4. t.kind = "desktop" => row = DesktopApps(t, current, goal)
      BY <2>1 DEF RowOf
    <3>5. QED
      BY <1>2, <3>1, <3>2, <3>3, <3>4
  <2>4. goal # 0
    <3> SUFFICES ASSUME goal = 0 PROVE FALSE
      OBVIOUS
    <3>1. \/ row.released = Word("marker") /\ row.nocompare = FALSE /\ row.force = "none"
          \/ row.nocompare = FALSE /\ row.force = "undecided"
      BY <2>3 DEF Snaps, Flatpaks, ThirdPartyApt, DesktopApps, Row, Known
    <3>2. Word("marker").says = "marker"
      BY DEF Word
    <3>3. QED
      BY <2>2, <3>1, <3>2 DEF MatchOf
  <2>5. /\ row.pinned = Version(current) /\ row.released = Version(goal)
        /\ row.relHash = 0 /\ row.target = 0 /\ row.nocompare = FALSE /\ row.force = "none"
        /\ row.local = FALSE
    BY <2>3, <2>4 DEF Snaps, Flatpaks, ThirdPartyApt, DesktopApps, Row, Known
  <2>6. ~SameVersion(row.pinned, row.released)
    BY <2>2, <2>5 DEF MatchOf
  <2>7. QED
    BY <1>2, <2>1, <2>4, <2>5, <2>6 DEF SameVersion
<1>3. CASE t.kind \notin {"container", "snap", "flatpak", "apt", "desktop"}
  BY <1>3 DEF UpdateSteps
<1>4. QED
  BY <1>1, <1>2, <1>3

\* What an item may be changed by.
Earned(e, had) ==
  e.decision = "eligible" =>
    /\ ~approval /\ policy = "default"
    /\ e.goal \notin {0, e.current}
    /\ e.current = 0 => traits.kind \in MayBeBlank
    /\ e.goal < e.current => traits.kind \in {"container", "snap", "flatpak"}
    /\ e.goal = had => traits.kind \in Recorded \cup MayBeBlank

\* apt's versions only grow, so that its inventory is never ahead of the host.
VersionsGrow ==
  /\ have \in Nat \ {0} /\ offer \in Nat \ {0} /\ recorded \in Nat \ {0}
  /\ traits.kind \in {"apt", "desktop"} => recorded <= have

\* Every plan that was ever read or reviewed can be run.
Plans == {plan, raw, told} \cup reviewed

PlansSound ==
  /\ \A p \in Plans : p.entry.goal \in Nat /\ ValidatePlan(p)
  /\ Earned(plan.entry, plan.had)

RunSound ==
  /\ stage # "idle" => expect \in reviewed
  /\ stage = "checked" => raw = expect

PlanInv ==
  /\ traits \in Traits /\ policy \in {"float", "hold", "default"}
  /\ VersionsGrow /\ PlansSound /\ RunSound /\ ApprovedBytes

LEMMA NoPlanSound ==
  /\ NoPlan.entry.goal = 0 /\ ValidatePlan(NoPlan) /\ NoPlan.entry.decision = "none"
BY DEF NoPlan, NoEntry, ValidatePlan

LEMMA PlanInitSound == PlanInit => PlanInv
<1> SUFFICES ASSUME PlanInit PROVE PlanInv
  OBVIOUS
<1>1. traits \in Traits /\ policy \in {"float", "hold", "default"}
  BY PlanAssumption DEF PlanInit
<1>2. VersionsGrow /\ RunSound /\ ApprovedBytes
  BY DEF PlanInit, VersionsGrow, RunSound, ApprovedBytes
<1>3. PlansSound
  <2>1. Plans = {NoPlan} /\ plan = NoPlan /\ offer = 1
    BY DEF PlanInit, Plans
  <2>2. QED
    BY <2>1, NoPlanSound DEF PlansSound, Earned
<1>4. QED
  BY <1>1, <1>2, <1>3 DEF PlanInv

\* The entry a refresh writes is earned and accepted.
LEMMA EntrySound ==
  ASSUME PlanInv, NEW current \in Nat, NEW goal \in Nat, NEW tagged \in BOOLEAN,
         NEW no, NEW had,
         current = 0 => traits.kind \in MayBeBlank,
         traits.kind \in {"apt", "desktop"} /\ goal # 0 => current <= goal,
         had = current \/ traits.kind \in Recorded \cup MayBeBlank
  PROVE  LET e == Entry(RowOf(traits, current, goal, tagged), current, goal)
         IN /\ e.goal \in {0, goal}
            /\ Earned(e, had)
            /\ ValidatePlan([no |-> no, had |-> had, entry |-> e])
<1> DEFINE row      == RowOf(traits, current, goal, tagged)
           steps    == UpdateSteps(traits, row)
           decision == Decision(MatchOf(row), steps)
           e        == Entry(row, current, goal)
<1>1. CASE MatchOf(row) \in {"yes", "summary", "local"}
  <2>1. e = NoEntry
    BY <1>1 DEF Entry
  <2>2. QED
    BY <2>1 DEF NoEntry, Earned, ValidatePlan
<1>2. CASE MatchOf(row) \notin {"yes", "summary", "local"}
  <2>1. /\ e.decision = decision /\ e.goal = goal /\ e.current = current
        /\ e.steps = IF decision = "eligible" THEN steps ELSE <<>>
    BY <1>2 DEF Entry
  <2>2. decision \in {"eligible", "excluded"}
    BY DEF Decision
  <2>3. CASE decision # "eligible"
    <3>1. DOMAIN e.steps = {}
      BY <2>1, <2>3
    <3>2. QED
      BY <2>1, <2>2, <2>3, <3>1 DEF Earned, ValidatePlan
  <2>4. CASE decision = "eligible"
    <3>1. /\ ~approval /\ policy # "float" /\ steps # <<>> /\ MatchOf(row) = "NO"
          /\ policy # "hold"
      BY <2>4, Zenon DEF Decision
    <3>2. traits \in Traits /\ policy = "default"
      BY <3>1 DEF PlanInv
    <3>3. /\ goal # current /\ goal # 0 /\ row.target \in Nat
          /\ traits.kind = "container" => traits.checkable
      BY <3>1, <3>2, NoIsMeasured
    <3>4. steps \in Seq(Accepted)
      BY <3>2, <3>3, StepsAreAccepted
    <3>5. \A i \in DOMAIN steps : ValidateStep(steps[i])
      BY <3>4 DEF Accepted
    <3>6. ValidatePlan([no |-> no, had |-> had, entry |-> e])
      BY <2>1, <2>4, <3>1, <3>5 DEF ValidatePlan
    <3>7. Earned(e, had)
      <4>1. traits.kind \in {"container", "snap", "flatpak", "apt", "desktop"}
        BY <3>1 DEF UpdateSteps
      <4>2. e.goal < e.current => traits.kind \in {"container", "snap", "flatpak"}
        BY <2>1, <3>3, <4>1
      <4>3. e.goal = had => traits.kind \in Recorded \cup MayBeBlank
        BY <2>1, <3>3
      <4>4. QED
        BY <2>1, <3>1, <3>2, <3>3, <4>2, <4>3 DEF Earned
    <3>8. QED
      BY <2>1, <3>6, <3>7
  <2>5. QED
    BY <2>3, <2>4
<1>3. QED
  BY <1>1, <1>2

LEMMA RefreshSound == PlanInv /\ Refresh => PlanInv'
<1> SUFFICES ASSUME PlanInv, Refresh PROVE PlanInv'
  OBVIOUS
<1>1. UNCHANGED <<traits, policy, approval, have, copy, running, offer, recorded, reviewed,
                  raw, expect, stage, told, ran>>
  BY DEF Refresh, itemVars, hostVars, runVars
<1>2. PICK answered \in BOOLEAN, tagged \in BOOLEAN, blank \in BOOLEAN :
        plan' = [no    |-> plan.no + 1,
                 had   |-> have,
                 entry |-> Entry(RowOf(traits, Current(blank), IF answered THEN Offered ELSE 0,
                                       answered /\ tagged),
                                 Current(blank), IF answered THEN Offered ELSE 0)]
  BY DEF Refresh
<1> DEFINE current == Current(blank)
           goal == IF answered THEN Offered ELSE 0
<1>3. /\ current \in Nat /\ goal \in Nat
      /\ current = 0 => traits.kind \in MayBeBlank
      /\ traits.kind \in {"apt", "desktop"} /\ goal # 0 => current <= goal
      /\ have = current \/ traits.kind \in Recorded \cup MayBeBlank
  BY DEF PlanInv, VersionsGrow, Current, Offered, Recorded, MayBeBlank
<1>4. /\ plan'.entry.goal \in {0, goal} /\ Earned(plan'.entry, have) /\ ValidatePlan(plan')
      /\ plan'.had = have
  <2> DEFINE e == Entry(RowOf(traits, current, goal, answered /\ tagged), current, goal)
  <2>1. (answered /\ tagged) \in BOOLEAN
    OBVIOUS
  <2>2. plan' = [no |-> plan.no + 1, had |-> have, entry |-> e]
    BY <1>2
  <2> HIDE DEF current, goal
  <2>3. /\ e.goal \in {0, goal} /\ Earned(e, have)
        /\ ValidatePlan([no |-> plan.no + 1, had |-> have, entry |-> e])
    BY <1>3, <2>1, EntrySound
  <2> HIDE DEF e
  <2>4. QED
    BY <2>2, <2>3
<1>5. \A p \in Plans' : p = plan' \/ p \in Plans
  BY <1>1 DEF Plans
<1>6. PlansSound'
  <2>1. plan'.entry.goal \in Nat
    BY <1>3, <1>4
  <2>2. \A p \in Plans : p.entry.goal \in Nat /\ ValidatePlan(p)
    BY DEF PlanInv, PlansSound
  <2>3. Earned(plan.entry, plan.had)'
    BY <1>1, <1>4 DEF Earned
  <2>4. QED
    BY <1>1, <1>4, <1>5, <2>1, <2>2, <2>3 DEF PlansSound, ValidatePlan, ValidateStep
<1>7. QED
  BY <1>1, <1>6 DEF PlanInv, VersionsGrow, RunSound, ApprovedBytes

LEMMA PlanStepSound == PlanInv /\ [PlanNext]_planVars => PlanInv'
<1> SUFFICES ASSUME PlanInv, [PlanNext]_planVars PROVE PlanInv'
  OBVIOUS
<1> USE DEF PlanInv, itemVars, hostVars, runVars
<1>1. ASSUME UNCHANGED <<itemVars, offer, plan>>, Plans' \subseteq Plans,
             VersionsGrow', RunSound', ApprovedBytes'
      PROVE  PlanInv'
  BY <1>1 DEF PlansSound, Earned
<1>2. CASE UNCHANGED planVars
  BY <1>2 DEF planVars, VersionsGrow, PlansSound, Plans, Earned, RunSound, ApprovedBytes
<1>3. CASE Refresh
  BY <1>3, RefreshSound
<1>4. CASE Review
  <2>1. UNCHANGED <<itemVars, hostVars, offer, recorded, plan, runVars>>
    BY <1>4 DEF Review
  <2>2. reviewed' = reviewed \cup {plan}
    BY <1>4 DEF Review
  <2>3. Plans' \subseteq Plans
    BY <2>1, <2>2 DEF Plans
  <2>4. QED
    BY <1>1, <2>1, <2>2, <2>3 DEF VersionsGrow, RunSound, ApprovedBytes
<1>5. CASE ReadPlan
  <2>1. /\ stage' = "read" /\ raw' = plan /\ expect' \in reviewed
        /\ UNCHANGED <<itemVars, hostVars, offer, recorded, plan, reviewed, told, ran>>
    BY <1>5 DEF ReadPlan
  <2>2. Plans' \subseteq Plans
    BY <2>1 DEF Plans
  <2>3. QED
    BY <1>1, <2>1, <2>2 DEF VersionsGrow, RunSound, ApprovedBytes
<1>6. CASE CheckHash
  <2>1. /\ stage = "read" /\ stage' = IF raw = expect THEN "checked" ELSE "idle"
        /\ UNCHANGED <<itemVars, hostVars, offer, recorded, plan, reviewed, raw, expect,
                       told, ran>>
    BY <1>6 DEF CheckHash
  <2>2. Plans' \subseteq Plans
    BY <2>1 DEF Plans
  <2>3. QED
    BY <1>1, <2>1, <2>2 DEF VersionsGrow, RunSound, ApprovedBytes
<1>7. CASE Judge
  <2>1. /\ stage = "checked" /\ stage' = "idle" /\ told' \in {told, raw}
        /\ UNCHANGED <<itemVars, hostVars, offer, recorded, plan, reviewed, raw, expect>>
    BY <1>7 DEF Judge
  <2>2. Plans' \subseteq Plans
    BY <2>1 DEF Plans
  <2>3. raw \in reviewed
    BY <2>1 DEF RunSound
  <2>4. QED
    BY <1>1, <2>1, <2>2, <2>3 DEF VersionsGrow, RunSound, ApprovedBytes
<1>8. CASE RunStep
  <2>1. /\ have' \in {have, Offered}
        /\ UNCHANGED <<itemVars, offer, recorded, plan, reviewed, raw, expect, stage, told>>
    BY <1>8 DEF RunStep
  <2>1a. VersionsGrow'
    BY <2>1 DEF VersionsGrow, Offered
  <2>2. Plans' \subseteq Plans
    BY <2>1 DEF Plans
  <2>3. QED
    BY <1>1, <2>1, <2>1a, <2>2 DEF RunSound, ApprovedBytes
<1>9. CASE Supersede
  <2>1. /\ offer' \in Nat \ {0}
        /\ UNCHANGED <<itemVars, hostVars, recorded, plan, reviewed, runVars>>
    BY <1>9, PlanAssumption DEF Supersede
  <2>2. Plans' = Plans
    BY <2>1 DEF Plans
  <2>3. QED
    BY <2>1, <2>2 DEF VersionsGrow, PlansSound, Earned, RunSound, ApprovedBytes
<1>10. CASE EditUnit
  <2>1. /\ have' = told.entry.goal /\ told.entry.goal # 0
        /\ traits.kind = "container" /\ UNCHANGED <<itemVars, copy, running, offer, recorded, plan, reviewed, runVars>>
    BY <1>10 DEF EditUnit
  <2>2. told.entry.goal \in Nat
    BY DEF PlansSound, Plans
  <2>3. Plans' \subseteq Plans
    BY <2>1 DEF Plans
  <2>4. VersionsGrow'
    BY <2>1, <2>2 DEF VersionsGrow
  <2>5. QED
    BY <1>1, <2>1, <2>3, <2>4 DEF RunSound, ApprovedBytes
<1>11. CASE TakeInventory
  <2>1. /\ recorded' = have
        /\ UNCHANGED <<itemVars, hostVars, offer, plan, reviewed, runVars>>
    BY <1>11 DEF TakeInventory
  <2>2. Plans' \subseteq Plans
    BY <2>1 DEF Plans
  <2>3. QED
    BY <1>1, <2>1, <2>2 DEF VersionsGrow, RunSound, ApprovedBytes
<1>12. QED
  BY <1>2, <1>3, <1>4, <1>5, <1>6, <1>7, <1>8, <1>9, <1>10, <1>11 DEF PlanNext

LEMMA PlansAreSound == PlanSpec => []PlanInv
BY PlanInitSound, PlanStepSound, PTL DEF PlanSpec

\* An item the plan calls eligible has no rule against it and was offered something else than
\* what is on record; that this is newer, was read and is not there already holds but for
\* the sources named (plan.py:137-179), for any versions, refreshes and withdrawals.
THEOREM EligibleIsEarned == PlanSpec => []EligibleEarned
<1>1. PlanInv => EligibleEarned
  BY DEF PlanInv, PlansSound, Earned, EligibleEarned
<1>2. QED
  BY <1>1, PlansAreSound, PTL

\* The validator accepts every plan the generator writes, and what it last called valid
\* is what the operator reviewed, wherever refreshes fall (apply-plan.py:213-323).
THEOREM PlansAlwaysStand == PlanSpec => []PlanStands
<1>1. PlanInv => PlanStands
  BY DEF PlanInv, PlansSound, Plans, PlanAccepted, PlanStands
<1>2. QED
  BY <1>1, PlansAreSound, PTL
=============================================================================
