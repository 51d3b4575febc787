----------------------------- MODULE UpdatePlan -----------------------------
(* The update plan of one item of software: refresh-install-log.sh writes  *)
(* it from the row of the item (provenance/plan.py, policy.py), an operator *)
(* reviews it, apply-plan.py checks it against the reviewed hash, and the  *)
(* operator runs its steps.  Meanwhile publishers release, packages are    *)
(* upgraded by hand, and every refresh replaces the file.                  *)
EXTENDS SoftwareRows, Sequences

CONSTANTS
  Items,       \* the traits the item may have
  MaxVersion,  \* versions the publisher releases
  MaxPlans     \* refreshes

VARIABLES
  traits, policy, approval, \* the item, its PIN_POLICY and whether NEEDS_APPROVAL names it
  have,     \* installed version; of a container the digest its unit in quadlet/ pins
  copy,     \* of a container, the digest of the deployed copy of the unit
  running,  \* and of the container that runs
  offer,    \* the version the publisher has now, which may be an older one
  recorded, \* the version in inventory-full.json and unmanaged-software.yaml
  plan,     \* update-plan.json
  reviewed, \* the plans whose hash the operator has noted
  raw,      \* what a run of apply-plan.py has read
  expect,   \* the plan whose hash it was given
  stage,    \* of that run: "idle", "read", "checked"
  told,     \* the plan the last run called valid under --expect-hash
  ran       \* steps of told that were run

planVars == <<traits, policy, approval, have, copy, running, offer, recorded, plan,
              reviewed, raw, expect, stage, told, ran>>
itemVars == <<traits, policy, approval>>
hostVars == <<have, copy, running>>
runVars  == <<raw, expect, stage, told, ran>>

ASSUME PlanAssumption == Items \subseteq Traits /\ MaxVersion \in Nat /\ MaxPlans \in Nat

\* A plan file: its generation (the timestamp in it), the entry of the item, and what was
\* installed when it was made, which the file does not hold.
NoEntry == [verdict |-> "yes", decision |-> "none", steps |-> <<>>, current |-> 0, goal |-> 0]
NoPlan  == [no |-> 0, had |-> 0, entry |-> NoEntry]

PlanInit ==
  /\ traits \in Items
  /\ policy \in IF traits.kind = "container" THEN {"float", "hold", "default"} ELSE {"default"}
  /\ approval \in IF traits.kind = "container" THEN BOOLEAN ELSE {FALSE}
  /\ have = 1 /\ copy = 1 /\ running = 1 /\ offer = 1 /\ recorded = 1
  /\ plan = NoPlan /\ reviewed = {} /\ raw = NoPlan /\ expect = NoPlan /\ stage = "idle"
  /\ told = NoPlan /\ ran = 0

-----------------------------------------------------------------------------
(* The plan.                                                               *)

Recorded == {"apt", "desktop", "executable", "deb", "unindexed"}

Pull(version, whole) == [verb |-> "pull", version |-> version, whole |-> whole, plain |-> TRUE]
Step(verb, plain)    == [verb |-> verb, version |-> 0, whole |-> TRUE, plain |-> plain]

\* The generator's own rule of what may be run: the verb is listed, or it is the deploy
\* script, and the arguments are plain.  It does not look at a digest.
ArgvIsSafe(s) == s.verb \in {"pull", "deploy", "reload", "restart", "upgrade"} /\ s.plain

\* A step that is not safe becomes prose.
Runnable(s) == IF ArgvIsSafe(s) THEN <<s>> ELSE <<>>

\* update_steps: the argv part.  A sha512 digest counts as complete too.
UpdateSteps(t, row) ==
  CASE t.kind = "container" /\ row.target # 0 ->
         Runnable(Pull(row.target, t.checkable)) \o Runnable(Step("deploy", TRUE))
           \o Runnable(Step("reload", TRUE)) \o Runnable(Step("restart", TRUE))
    [] t.kind \in {"snap", "flatpak", "apt", "desktop"} -> Runnable(Step("upgrade", t.plain))
    [] OTHER -> <<>>

\* Mutant: an unknown verdict authorises an update.
DecisionHopeful(verdict, steps) ==
  IF approval \/ policy = "float" \/ (policy = "hold" /\ verdict = "NO") \/ steps = <<>>
  THEN "excluded" ELSE "eligible"

Decision(verdict, steps) ==
  IF \/ approval
     \/ policy = "float"
     \/ policy = "hold" /\ verdict = "NO"
     \/ steps = <<>>
     \/ verdict # "NO"
  THEN "excluded" ELSE "eligible"

\* The entry write_update_plan makes of a row; none for an item with nothing to do.
Entry(row, current, goal) ==
  LET steps    == UpdateSteps(traits, row)
      decision == Decision(MatchOf(row), steps)
  IN IF MatchOf(row) \in {"yes", "summary", "local"} THEN NoEntry
     ELSE [verdict |-> MatchOf(row), decision |-> decision, current |-> current, goal |-> goal,
           steps |-> IF decision = "eligible" THEN steps ELSE <<>>]

\* apt's candidate is never older than what is installed; a channel or a tag may be.
Offered == IF traits.kind \in {"apt", "desktop"} /\ offer < have THEN have ELSE offer

\* Sources whose installed version may be blank: a flatpak without one, an application whose
\* package the inventory does not have.
MayBeBlank == {"flatpak", "desktop"}

\* What the row has of the installed side.
Current(blank) ==
  IF blank /\ traits.kind \in MayBeBlank THEN 0
  ELSE IF traits.kind \in Recorded THEN recorded ELSE have

\* A refresh replaces the file at once.  A lookup that fails leaves the offer unknown.
Refresh ==
  /\ plan.no < MaxPlans
  /\ \E answered, tagged, blank \in BOOLEAN :
       LET current == Current(blank)
           goal    == IF answered THEN Offered ELSE 0
       IN plan' = [no    |-> plan.no + 1,
                   had   |-> have,
                   entry |-> Entry(RowOf(traits, current, goal, answered /\ tagged),
                                   current, goal)]
  /\ UNCHANGED <<itemVars, hostVars, offer, recorded, reviewed, runVars>>

-----------------------------------------------------------------------------
(* apply-plan.py.                                                          *)

\* validate_step: an allowed verb, plain arguments, and a whole sha256 in a pull.
ValidateStep(s) == /\ s.verb \in {"pull", "deploy", "reload", "restart", "upgrade"}
                   /\ s.plain
                   /\ s.verb = "pull" => s.whole

ValidatePlan(p) ==
  LET e == p.entry
  IN e # NoEntry => /\ e.decision \in {"eligible", "excluded"}
                    /\ e.decision = "eligible" => e.steps # <<>>
                    /\ \A i \in DOMAIN e.steps : ValidateStep(e.steps[i])

\* The operator reads the plan and notes its hash.
Review == /\ plan.no # 0 /\ reviewed' = reviewed \cup {plan}
          /\ UNCHANGED <<itemVars, hostVars, offer, recorded, plan, runVars>>

ReadPlan == /\ stage = "idle" /\ plan.no # 0
            /\ raw' = plan /\ stage' = "read" /\ expect' \in reviewed
            /\ UNCHANGED <<itemVars, hostVars, offer, recorded, plan, reviewed, told, ran>>

\* --expect-hash against the bytes that were read, or exit 4.
CheckHash == /\ stage = "read"
             /\ stage' = IF raw = expect THEN "checked" ELSE "idle"
             /\ UNCHANGED <<itemVars, hostVars, offer, recorded, plan, reviewed, raw, expect, told, ran>>

\* Mutant: the plan is loaded from the file once more after its hash was compared.
JudgeReread ==
  /\ stage = "checked" /\ stage' = "idle"
  /\ IF ValidatePlan(plan) THEN told' = plan /\ ran' = 0 ELSE UNCHANGED <<told, ran>>
  /\ UNCHANGED <<itemVars, hostVars, offer, recorded, plan, reviewed, raw, expect>>

\* The rest of main: validate, snapshot and print what was read; exit 0 or 3.
Judge ==
  /\ stage = "checked" /\ stage' = "idle"
  /\ IF ValidatePlan(raw) THEN told' = raw /\ ran' = 0 ELSE UNCHANGED <<told, ran>>
  /\ UNCHANGED <<itemVars, hostVars, offer, recorded, plan, reviewed, raw, expect>>

-----------------------------------------------------------------------------
(* The host.                                                               *)

\* The operator runs the next step that the validated plan names.
RunStep ==
  /\ ran < Len(told.entry.steps)
  /\ LET verb == told.entry.steps[ran + 1].verb
     IN /\ have'    = IF verb = "upgrade" THEN Offered ELSE have
        /\ copy'    = IF verb = "deploy" THEN have ELSE copy
        /\ running' = CASE verb = "upgrade" -> Offered [] verb = "restart" -> copy
                        [] OTHER -> running
  /\ ran' = ran + 1
  /\ UNCHANGED <<itemVars, offer, recorded, plan, reviewed, raw, expect, stage, told>>

\* A publisher releases, takes a release back or moves its tag back.
Supersede == /\ offer' \in 1..MaxVersion \ {offer}
             /\ UNCHANGED <<itemVars, hostVars, recorded, plan, reviewed, runVars>>

\* The prose under `manual`: Image= is edited to the version of the plan.
EditUnit == /\ traits.kind = "container" /\ told.entry.goal \notin {0, have}
            /\ have' = told.entry.goal
            /\ UNCHANGED <<itemVars, copy, running, offer, recorded, plan, reviewed, runVars>>

\* inventory-full.py, which a refresh does not run.
TakeInventory == /\ recorded # have /\ recorded' = have
                 /\ UNCHANGED <<itemVars, hostVars, offer, plan, reviewed, runVars>>

PlanNext == Refresh \/ Review \/ ReadPlan \/ CheckHash \/ Judge \/ RunStep \/ Supersede
            \/ EditUnit \/ TakeInventory

PlanSpec == PlanInit /\ [][PlanNext]_planVars

-----------------------------------------------------------------------------
(* Properties.                                                             *)

\* An item that may be changed has no rule against it, and the publisher answered with
\* something else than what is on record: "?" "must never authorise an update"
\* (plan.py:159).  That the item is behind is another matter, with three exceptions.
\* A blank installed version compares like one that was read; "NO" is any difference, so that
\* a tag or a channel that moved back is a target too; and an inventory older than the
\* upgrade has the plan offer what is there already.
EligibleEarned ==
  LET e == plan.entry
  IN e.decision = "eligible" =>
       /\ ~approval /\ policy = "default"
       /\ e.goal \notin {0, e.current}
       /\ e.current = 0 => traits.kind \in MayBeBlank
       /\ e.goal < e.current => traits.kind \in {"container", "snap", "flatpak"}
       /\ e.goal = plan.had => traits.kind \in Recorded \cup MayBeBlank

\* Whatever the sources answer, the validator, which repeats the allowlist and the digest
\* rule by hand, accepts every plan the generator writes (apply-plan.py:45-49).
PlanAccepted == ValidatePlan(plan)

\* The steps that are run are those of a plan the operator reviewed, although a refresh
\* may replace the file between any two moments (apply-plan.py:17-25).
ApprovedBytes == told \in {NoPlan} \cup reviewed

\* A plan is neither stopped by the other program's copy of its rules nor replaced under
\* the operator: both of the above.
PlanStands == PlanAccepted /\ ApprovedBytes
=============================================================================
