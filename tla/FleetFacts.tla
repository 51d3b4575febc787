----------------------------- MODULE FleetFacts -----------------------------
(* scripts/operations/collect-system-health.py on the containers: podman   *)
(* is asked three times and the kernel once for its sockets, and the       *)
(* answers are joined in the projection.  Containers come and go between   *)
(* the questions, and any command may fail.                                *)
EXTENDS Naturals, FiniteSets

CONSTANTS
  Fleet,     \* containers: each is on the one network and publishes one port
  HostPorts, \* port numbers of the host
  MaxMoves   \* times a container, or a socket of another process, comes or goes

\* The owner of a socket that is no container's, "host-process".
ASSUME FleetAssumption == "host" \notin Fleet

VARIABLES
  serves,     \* the number of the port each container publishes, at some address of its own
  up,         \* the containers that exist
  hostSockets, \* the numbers on which another process listens, at some other address
  moves,
  lastAsked,  \* the last question of the pass: "none", "ps", "inspect", ...
  containers, attachments, published, members, listeners, \* its answers
  clean,      \* every command of the pass answered and no container moved
  fleet       \* the tables in schema ao_status, and whether their pass was clean

answers   == <<containers, attachments, published, members, listeners>>
sources   == <<serves, up, hostSockets>>
fleetVars == <<sources, moves, lastAsked, answers, clean, fleet>>

NonePublished == [p \in {} |-> p]

FleetInit ==
  /\ serves \in [Fleet -> HostPorts] /\ up = Fleet /\ hostSockets \in SUBSET HostPorts
  /\ moves = 0 /\ lastAsked = "none" /\ clean = TRUE
  /\ containers = {} /\ attachments = {} /\ published = NonePublished
  /\ members = {} /\ listeners = {}
  /\ fleet = [containers |-> {}, attachments |-> {}, members |-> {}, listeners |-> {},
              clean |-> TRUE]

Move == /\ moves < MaxMoves /\ moves' = moves + 1
        /\ \/ /\ \E c \in Fleet : up' = IF c \in up THEN up \ {c} ELSE up \cup {c}
              /\ UNCHANGED hostSockets
           \/ /\ \E p \in HostPorts :
                   hostSockets' = IF p \in hostSockets THEN hostSockets \ {p}
                                  ELSE hostSockets \cup {p}
              /\ UNCHANGED up
        /\ clean' = (lastAsked = "none")
        /\ UNCHANGED <<serves, lastAsked, answers, fleet>>

\* run, run_json: a command that fails, hangs or answers no JSON yields no rows.
Ran(rows, ok) == IF ok THEN rows ELSE {}

Ask(before, now, ok) == lastAsked = before /\ lastAsked' = now /\ clean' = (clean /\ ok)

Ps == \E ok \in BOOLEAN :
  /\ lastAsked = "none" /\ lastAsked' = "ps" /\ clean' = ok
  /\ containers' = Ran(up, ok)
  /\ UNCHANGED <<sources, moves, attachments, published, members, listeners, fleet>>

\* The map of published ports is by number alone: of two containers that publish one
\* number, at two addresses or protocols, the one inspected last has the entry.
Owners(attached) ==
  {map \in [{serves[c] : c \in attached} -> attached] :
     \A p \in DOMAIN map : serves[map[p]] = p}

\* podman inspect fails as a whole when one of the listed containers is gone.
Inspect == \E ok \in BOOLEAN :
  /\ Ask("ps", "inspect", ok)
  /\ attachments' = Ran(containers, ok /\ containers \subseteq up)
  /\ published' \in Owners(attachments')
  /\ UNCHANGED <<sources, moves, containers, members, listeners, fleet>>

\* Mutant: the members are those of now.
MemberCountNow == Cardinality(up)
\* The members of the network are the attachments inspect gave.
MemberCount == Cardinality(attachments)

CollectNetworks == \E ok \in BOOLEAN :
  /\ Ask("inspect", "networks", ok)
  /\ members' = Ran({MemberCount}, ok)
  /\ UNCHANGED <<sources, moves, containers, attachments, published, listeners, fleet>>

\* A socket is credited by its number to the container inspect says publishes it, whatever
\* its address and whoever listens.
Owner(p) == IF p \in DOMAIN published THEN published[p] ELSE "host"
Socket(p, by) == [port |-> p, by |-> by, owner |-> Owner(p)]

CollectListeners == \E ok \in BOOLEAN :
  /\ Ask("networks", "sockets", ok)
  /\ listeners' = Ran({Socket(serves[c], c) : c \in up}
                        \cup {Socket(p, "host") : p \in hostSockets}, ok)
  /\ UNCHANGED <<sources, moves, containers, attachments, published, members, fleet>>

\* collect_units, collect_disks, collect_gpu: tables that are joined with nothing.
CollectHost == \E ok \in BOOLEAN :
  /\ Ask("sockets", "host", ok) /\ UNCHANGED <<sources, moves, answers, fleet>>

\* write_projection, in one transaction; or the pass dies and nothing is committed.  A
\* pass is a process, so the next begins with nothing.
WriteFleet ==
  /\ lastAsked # "none" /\ lastAsked' = "none"
  /\ \/ /\ lastAsked = "host"
        /\ fleet' = [containers |-> containers, attachments |-> attachments,
                     members |-> members, listeners |-> listeners, clean |-> clean]
     \/ UNCHANGED fleet
  /\ containers' = {} /\ attachments' = {} /\ published' = NonePublished
  /\ members' = {} /\ listeners' = {} /\ clean' = TRUE
  /\ UNCHANGED <<sources, moves>>

FleetNext == \/ Move \/ Ps \/ Inspect \/ CollectNetworks \/ CollectListeners \/ CollectHost
             \/ WriteFleet

FleetSpec == FleetInit /\ [][FleetNext]_fleetVars

-----------------------------------------------------------------------------
(* Properties.                                                             *)

\* "member counts agree with the container table" (:452): whatever moves meanwhile, the
\* count is that of the attachments, and every attachment is of a container listed.
MembersAgree == /\ fleet.members \subseteq {Cardinality(fleet.attachments)}
                /\ fleet.attachments \subseteq fleet.containers

\* A socket is credited only to a listed container that publishes its number - to another
\* than the one that listens only when both publish that number, and a process of the
\* host's likewise; and when every command answered and nothing moved, no container's
\* socket is called the host's (:513-520).
ListenersAttributed ==
  \A l \in fleet.listeners :
    /\ l.owner # "host" => l.owner \in fleet.attachments /\ serves[l.owner] = l.port
    /\ l.by # "host" /\ l.owner = "host" => ~fleet.clean

\* The tables of one projection agree with each other: both of the above.
TablesAgree == MembersAgree /\ ListenersAttributed
=============================================================================
