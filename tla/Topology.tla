------------------------------ MODULE Topology ------------------------------
(* generate-topology.py: a pass asks podman and the kernel, command by     *)
(* command, merges the answers with the Quadlet files, judges the          *)
(* documented claims, and writes its artifacts one file after another.     *)
(* The host moves on between the questions, any command may fail, and a    *)
(* pass may die.                                                           *)
EXTENDS Naturals, FiniteSets

CONSTANTS
  Workloads,  \* workload networks, each declared by a Quadlet file
  Claimed,    \* live workload networks the documents claim
  MaxShifts,  \* times the host changes
  MaxPasses

ASSUME TopoAssumption == /\ {"ps", "ls", "ss"} \cap Workloads = {}
                         /\ MaxPasses \in Nat /\ MaxShifts \in Nat

\* A host: whether a container of the retired database is there, running or not, each
\* network, and whether an unapproved socket is open beyond loopback.
HostStates == [retired : BOOLEAN, net : [Workloads -> {"absent", "internal", "open"}],
               exposed : BOOLEAN]

VARIABLES
  now,        \* the host
  shifts, passes,
  question,   \* the step the pass is at, "none" between passes
  declares,   \* networks whose file says Internal=false
  present,    \* the answers: the retired database's container is listed,
  listed,     \* the networks, with what inspect said of each,
  sockets,    \* and whether ss answered, and of an exposed socket
  course,     \* the hosts since the pass began, until the answers are merged
  deaf,       \* the commands of the pass that failed
  verdicts,   \* the claims of topology-inventory.json, with their pass's course and deaf
  sheet       \* a diagram's files: the pass of its .dot and .svg, of the tables of its
              \* page, and of the picture in it; 0 for none or torn

topoVars == <<now, shifts, passes, question, declares, present, listed, sockets, course,
              deaf, verdicts, sheet>>

Unlisted == [n \in Workloads |-> "unlisted"]
Nothing  == /\ present' = FALSE /\ listed' = Unlisted
            /\ sockets' = [heard |-> FALSE, exposed |-> FALSE]
            /\ course' = {} /\ deaf' = {}

TopoInit ==
  /\ now \in HostStates /\ shifts = 0 /\ passes = 0 /\ question = "none"
  /\ declares \in SUBSET Workloads /\ present = FALSE /\ listed = Unlisted
  /\ sockets = [heard |-> FALSE, exposed |-> FALSE] /\ course = {} /\ deaf = {}
  /\ verdicts = [of |-> <<>>, course |-> {}, deaf |-> {}]
  /\ sheet = [dot |-> 0, svg |-> 0, tables |-> 0, picture |-> 0]

Shift ==
  /\ shifts < MaxShifts /\ shifts' = shifts + 1
  /\ \/ now' = [now EXCEPT !.retired = ~@]
     \/ now' = [now EXCEPT !.exposed = ~@]
     \/ \E n \in Workloads, is \in {"absent", "internal", "open"} :
          now' = [now EXCEPT !.net[n] = is]
  /\ course' = IF course = {} THEN {} ELSE course \cup {now'}
  /\ UNCHANGED <<passes, question, declares, present, listed, sockets, deaf, verdicts, sheet>>

-----------------------------------------------------------------------------
(* The questions.  A command that fails, hangs or answers no JSON yields   *)
(* an empty answer.                                                        *)

StartTopology ==
  /\ question = "none" /\ passes < MaxPasses
  /\ passes' = passes + 1 /\ question' = "ps" /\ course' = {now}
  /\ UNCHANGED <<now, shifts, declares, present, listed, sockets, deaf, verdicts, sheet>>

Then(before, next) == question = before /\ question' = next
Heard(what, ok) == deaf' = IF ok THEN deaf ELSE deaf \cup {what}

LiveContainers == \E ok \in BOOLEAN :
  /\ Then("ps", "ls") /\ Heard("ps", ok) /\ present' = (ok /\ now.retired)
  /\ UNCHANGED <<now, shifts, passes, declares, listed, sockets, course, verdicts, sheet>>

LiveNetworks == \E ok \in BOOLEAN :
  /\ Then("ls", "inspect") /\ Heard("ls", ok)
  /\ listed' = [n \in Workloads |->
                  IF ok /\ now.net[n] # "absent" THEN "uninspected" ELSE "unlisted"]
  /\ UNCHANGED <<now, shifts, passes, declares, present, sockets, course, verdicts, sheet>>

\* One inspect call; a network that is gone by now fails it.
InspectNetwork(n) == \E ok \in BOOLEAN :
  /\ question = "inspect" /\ listed[n] = "uninspected"
  /\ LET replied == ok /\ now.net[n] # "absent"
     IN  /\ Heard(n, replied)
         /\ listed' = [listed EXCEPT ![n] = IF replied THEN now.net[n] ELSE "unknown"]
  /\ UNCHANGED <<now, shifts, passes, question, declares, present, sockets, course, verdicts,
                 sheet>>

\* A host always has some listener, so an empty answer is that of a command that failed.
LiveListeners == \E ok \in BOOLEAN :
  /\ Then("inspect", "build") /\ Heard("ss", ok)
  /\ \A n \in Workloads : listed[n] # "uninspected"
  /\ sockets' = [heard |-> ok, exposed |-> ok /\ now.exposed]
  /\ UNCHANGED <<now, shifts, passes, declares, present, listed, course, verdicts, sheet>>

-----------------------------------------------------------------------------
(* The merge and the claims.                                               *)

LiveNets == {n \in Workloads : listed[n] # "unlisted"}

\* network_record: what inspect said, else what the file declares.
InternalFalse(n) == listed[n] = "open" \/ (listed[n] = "unknown" /\ n \in declares)

\* Mutant: declared containers count as observed.
RetiredDeclared == TRUE
\* names: containers with a live row; the Quadlet file still declares the retired one.
RetiredLive == present

\* evaluate_drift.
EvaluateDrift ==
  IF ~sockets.heard /\ LiveNets = {} THEN <<>>  \* "live-probe-unavailable"
  ELSE [count     |-> Cardinality(LiveNets) = Claimed,
        retired   |-> ~RetiredLive,
        internal  |-> \A n \in LiveNets : ~InternalFalse(n),
        listeners |-> ~sockets.exposed]

\* build_inventory, and its JSON file.
BuildInventory ==
  /\ Then("build", "dot")
  /\ verdicts' = [of |-> EvaluateDrift, course |-> course, deaf |-> deaf]
  /\ Nothing /\ UNCHANGED <<now, shifts, passes, declares, sheet>>

-----------------------------------------------------------------------------
(* The diagrams, of which one is followed.                                 *)

WriteDot == /\ Then("dot", "svg") /\ sheet' = [sheet EXCEPT !.dot = passes]
            /\ UNCHANGED <<now, shifts, passes, declares, present, listed, sockets, course,
                           deaf, verdicts>>

\* Mutant: a picture that is there is taken, whichever pass drew it.
TextIfThere(drawn) == sheet.svg # 0 \/ drawn
\* The page is written when dot exited with 0 and its picture was read back.
SvgText(drawn) == drawn

\* dot may be missing or fail, and may then have cut the file short.
RenderSvg == \E drawn, cut \in BOOLEAN :
  /\ question = "svg" /\ question' = IF SvgText(drawn) THEN "page" ELSE "none"
  /\ sheet' = [sheet EXCEPT !.svg = IF drawn THEN passes ELSE IF cut THEN 0 ELSE @]
  /\ UNCHANGED <<now, shifts, passes, declares, present, listed, sockets, course, deaf,
                 verdicts>>

WritePage == /\ Then("page", "none")
             /\ sheet' = [sheet EXCEPT !.tables = passes, !.picture = sheet.svg]
             /\ UNCHANGED <<now, shifts, passes, declares, present, listed, sockets, course,
                            deaf, verdicts>>

\* A full disk, a signal: what is written stays.
AbortTopology == /\ question # "none" /\ question' = "none" /\ Nothing
                 /\ UNCHANGED <<now, shifts, passes, declares, verdicts, sheet>>

TopoNext == \/ Shift \/ StartTopology \/ LiveContainers \/ LiveNetworks
            \/ \E n \in Workloads : InspectNetwork(n)
            \/ LiveListeners \/ BuildInventory \/ WriteDot \/ RenderSvg \/ WritePage
            \/ AbortTopology

TopoSpec == TopoInit /\ [][TopoNext]_topoVars

-----------------------------------------------------------------------------
(* Properties.                                                             *)

\* What a claim says of one host, and the command it is judged by.
Holds(claim, h) ==
  CASE claim = "count"   -> Cardinality({n \in Workloads : h.net[n] # "absent"}) = Claimed
    [] claim = "retired" -> ~h.retired
    [] OTHER             -> ~h.exposed
Behind == [count |-> "ls", retired |-> "ps", listeners |-> "ss"]

\* A claim reported as matched held at some time of its pass, and one reported as drift failed
\* at some time, unless the command behind it failed; on one that failed nothing is called
\* drift but the count.  The networks are asked one by one, so of their flag this is said of
\* each (generate-topology.py:683-765).
ClaimsMeasured ==
  verdicts.of # <<>> =>
    /\ \A claim \in DOMAIN Behind :
         IF Behind[claim] \in verdicts.deaf THEN claim = "count" \/ verdicts.of[claim]
         ELSE \E h \in verdicts.course : Holds(claim, h) = verdicts.of[claim]
    /\ verdicts.deaf \cap (Workloads \cup {"ls"}) = {} =>
         IF verdicts.of.internal
         THEN \A n \in Workloads : \E h \in verdicts.course : h.net[n] # "open"
         ELSE \E n \in Workloads, h \in verdicts.course : h.net[n] = "open"

\* A page's tables and the picture in it are of one pass, whichever passes died and
\* whatever dot did (:2644-2661).
PageOfOnePass == sheet.tables = sheet.picture
=============================================================================
