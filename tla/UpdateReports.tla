---------------------------- MODULE UpdateReports ----------------------------
(* The three reports of ao-build-update on one container unit, one apt     *)
(* package and one file no package manager owns: inventory-full.py and     *)
(* drift-report.py measure, recommend.py reads what they left on disk, and *)
(* track-unmanaged.py compares files with its registry.  Between any two   *)
(* of them publishers release and the operator promotes and upgrades.      *)
(* Versions are numbers; 0 is none.                                        *)
EXTENDS Naturals, FiniteSets, FiniteSetsExt

CONSTANTS
  MaxRelease, \* versions each publisher releases
  Worlds      \* hosts to begin with: records of an image, a package, an order and a file

Pockets == {"base", "updates", "security", "third"}

VARIABLES
  image,     \* the Image= line: what it is, its digest, the policy on it
  upstream,  \* the digest of the tag the policy names, or of latest
  package,   \* the installed version and the version in each pocket's index, 0 if none
  order,     \* the pockets as the index files' names sort
  file,      \* the unmanaged file: its kind, there or not, registered or not, its versions
  inventory, \* inventory-full.json: the pocket the package is given, "none" before a run
  drift,     \* drift.json: what was measured, and of what; "none" before a run
  advice,    \* docs/recommendations.md: advice on the unit and on the package
  tracked    \* docs/unmanaged.md: the status of the file

reportVars == <<image, upstream, package, order, file, inventory, drift, advice, tracked>>
worldVars  == <<image, upstream, package, order, file>>

None == [at |-> "none"]

\* What a unit, the indexes and a file can be like.  A digest is held or not, and only a
\* reference with a digest has a policy; a package is Ubuntu's or a third party's.
Images ==
  {i \in [is : {"none", "local", "floating", "pinned"}, digest : {1}, held : {0, 1},
          tag : {"release", "rolling", "none"}, chosen : BOOLEAN] :
     /\ i.chosen => i.is = "floating"
     /\ i.is # "pinned" => i.held = 0 /\ i.tag = "none"}
Packages == {[installed |-> 1, in |-> p] :
               p \in {q \in [Pockets -> {0, 1}] : q["third"] = 0 \/ q["base"] = 0}}
Orders   == {<<"security", "updates", "base", "third">>, <<"updates", "base", "security", "third">>}
Files    == [kind : {"AppImage", "executable"}, there : BOOLEAN, registered : BOOLEAN,
             checkable : BOOLEAN, version : {0, 1}, offered : {1}]

ASSUME ReportAssumption ==
  Worlds \subseteq [image : Images, package : Packages, order : Orders, file : Files]

ReportInit ==
  /\ \E w \in Worlds : image = w.image /\ package = w.package /\ order = w.order /\ file = w.file
  /\ upstream = 1
  /\ inventory = None /\ drift = None /\ advice = None /\ tracked = None

-----------------------------------------------------------------------------
(* drift-report.py.                                                        *)

\* Mutant: the release tag is looked at before the operator's hold.
UnitVerdictEager(answer, offline) ==
  CASE image.is # "pinned" -> "LOCAL BUILD"
    [] image.is = "pinned" /\ answer \in {0, image.digest} -> "IN SYNC"
    [] OTHER -> IF image.tag = "release" THEN "DRIFT" ELSE "BEHIND LATEST"

\* The verdict on a unit; answer is what the registry said, 0 if nothing.
UnitVerdict(answer, offline) ==
  CASE image.is = "none"     -> "NO Image= LINE"
    [] image.is = "local"    -> "LOCAL BUILD"
    [] image.is = "floating" -> IF image.chosen THEN "UNPINNED BY CHOICE" ELSE "NOT PINNED"
    [] OTHER ->
      CASE offline -> "NOT CHECKED"
        [] ~offline /\ answer = 0 -> "UNRESOLVED"
        [] OTHER -> IF answer = image.digest THEN "IN SYNC"
                    ELSE IF image.held = image.digest THEN "HELD"
                    ELSE IF image.tag = "release" THEN "DRIFT"
                    ELSE IF image.tag = "rolling" THEN "BEHIND TRACKED TAG" ELSE "BEHIND LATEST"

\* Mutant: an upstream that was not read is no finding.
FindingsLenient == {"DRIFT", "NO Image= LINE", "NOT PINNED"}
\* The outcomes of the summary that make the report exit with 1.
Findings == {"DRIFT", "NO Image= LINE", "NOT PINNED", "UNRESOLVED", "NOT CHECKED"}

\* What the registry says of the tag: its digest, or nothing - for a host without an API, a
\* refused token, an error, no connection or an answer without the header.  It is asked
\* for a digest only, and not offline.
TagDigest(offline) == IF offline \/ image.is # "pinned" THEN {0} ELSE {0, upstream}

\* What apt would install, and the pockets that have it.
Candidate   == Max({package.in[p] : p \in Pockets} \cup {package.installed})
CandidateIn == {p \in Pockets : package.in[p] = Candidate}

\* The unit and the package as they are measured; apt is asked for the packages behind
\* their candidate.  An apt that fails or takes too long is not heard: its exit is dropped,
\* no package is listed, and the exit of the report is that of the units.
DriftReport ==
  \E offline \in BOOLEAN, heard \in BOOLEAN : \E answer \in TagDigest(offline) :
    /\ drift' = [at |-> "run", verdict |-> UnitVerdict(answer, offline), seen |-> answer,
                 image |-> image, package |-> package,
                 exit |-> IF UnitVerdict(answer, offline) \in Findings THEN 1 ELSE 0,
                 apt |-> IF heard /\ Candidate > package.installed THEN CandidateIn ELSE {}]
    /\ UNCHANGED <<worldVars, inventory, advice, tracked>>

-----------------------------------------------------------------------------
(* inventory-full.py and recommend.py.                                     *)

\* index_files: the first index, by file name, that has the package at all.
IndexedAs ==
  LET having == {i \in DOMAIN order : package.in[order[i]] # 0}
  IN IF having = {} THEN "Not in any" ELSE order[Min(having)]

Inventory == /\ inventory' = [at |-> "run", pocket |-> IndexedAs, package |-> package]
             /\ UNCHANGED <<worldVars, drift, advice, tracked>>

\* The advice on a unit: its class, and for those of class LEAVE the reason it gives.  No
\* verdict but the chosen one begins with "UNPINNED".
UnitAdvice(verdict) ==
  CASE verdict = "IN SYNC" -> "none"
    [] verdict = "DRIFT"   -> "REVIEW"
    [] verdict = "BEHIND TRACKED TAG" -> "TAKE_NOW"
    [] verdict = "UNRESOLVED"  -> "BLOCKED"
    [] verdict = "HELD"        -> "LEAVE, held"
    [] verdict = "UNPINNED BY CHOICE" -> "LEAVE, chosen"
    [] verdict = "LOCAL BUILD" -> "LEAVE, built here"
    [] OTHER                   -> "LEAVE, no stable channel"

\* The advice on a package: by the pocket the inventory gives it when drift.json lists
\* it, and by the inventory alone when no index had it.
PackageAdvice ==
  {a \in {"SECURITY", "TAKE_NOW", "ORPHANED"} :
     CASE a = "SECURITY" -> drift.apt # {} /\ inventory.pocket = "security"
       [] a = "TAKE_NOW" -> drift.apt # {} /\ inventory.pocket # "security"
       [] a = "ORPHANED" -> inventory.pocket = "Not in any"}

\* It exits without writing when a file it reads is not there.
Recommend ==
  /\ inventory # None /\ drift # None
  /\ advice' = [at |-> "run", unit |-> UnitAdvice(drift.verdict), apt |-> PackageAdvice,
                drift |-> drift, inventory |-> inventory]
  /\ UNCHANGED <<worldVars, inventory, drift, tracked>>

-----------------------------------------------------------------------------
(* track-unmanaged.py.                                                     *)

\* What the vendor's answer says of a file that can be checked, 0 being no answer.  A
\* version that is not known is "unknown" for an executable, which no release is called.
Compared(answer, offline) ==
  CASE offline \/ answer = 0 -> "NOT CHECKED"
    [] OTHER -> IF file.version = 0 /\ file.kind = "AppImage" THEN "UNVERSIONED-LOCAL"
                ELSE IF answer = file.version THEN "CURRENT" ELSE "BEHIND"

\* The status of a file.  AppImages are looked for on disk; executables are those of the
\* registry, there or not.
Status(answer, offline) ==
  CASE ~file.registered ->
         IF file.there /\ file.kind = "AppImage" THEN "UNREGISTERED" ELSE "none"
    [] file.registered /\ ~file.there /\ file.kind = "AppImage" -> "MISSING"
    [] OTHER -> IF ~file.checkable THEN "UNCHECKABLE" ELSE Compared(answer, offline)

TrackUnmanaged ==
  \E answer \in {0, file.offered}, offline \in BOOLEAN :
    /\ tracked' = [at |-> "run", status |-> Status(answer, offline), of |-> file,
                   seen |-> IF offline THEN 0 ELSE answer]
    /\ UNCHANGED <<worldVars, inventory, drift, advice>>

-----------------------------------------------------------------------------
(* The world.                                                              *)

Release ==
  \/ /\ upstream < MaxRelease /\ upstream' = upstream + 1
     /\ UNCHANGED <<image, package, order, file, inventory, drift, advice, tracked>>
  \/ /\ \E p \in Pockets : /\ package.in[p] # 0 /\ Candidate < MaxRelease
                           /\ package' = [package EXCEPT !.in[p] = Candidate + 1]
     /\ UNCHANGED <<image, upstream, order, file, inventory, drift, advice, tracked>>
  \/ /\ file.offered < MaxRelease /\ file' = [file EXCEPT !.offered = @ + 1]
     /\ UNCHANGED <<image, upstream, package, order, inventory, drift, advice, tracked>>

\* promote-image-digest.sh, apt upgrade, a download by hand: to what is on offer.
Promote == /\ image.is \in {"pinned", "floating"}
           /\ image' = [image EXCEPT !.is = "pinned", !.digest = upstream, !.chosen = FALSE]
           /\ UNCHANGED <<upstream, package, order, file, inventory, drift, advice, tracked>>

Upgrade == /\ package' = [package EXCEPT !.installed = Candidate]
           /\ UNCHANGED <<image, upstream, order, file, inventory, drift, advice, tracked>>

Download == /\ file.version # 0 /\ file' = [file EXCEPT !.there = TRUE, !.version = file.offered]
            /\ UNCHANGED <<image, upstream, package, order, inventory, drift, advice, tracked>>

ReportNext == DriftReport \/ Inventory \/ Recommend \/ TrackUnmanaged
              \/ Release \/ Promote \/ Upgrade \/ Download

ReportSpec == ReportInit /\ [][ReportNext]_reportVars

-----------------------------------------------------------------------------
(* Properties.                                                             *)

\* The verdicts of a unit that was not compared with anything: recommend.py tells them all
\* that no stable channel is declared for the image (recommend.py:199-211).
Uncompared == {"NOT CHECKED", "NOT PINNED", "NO Image= LINE"}

\* What each advice on a unit claims, of the image it was measured on and the digest read.
UnitClaim(a, unit, seen, verdict) ==
  LET behind == unit.is = "pinned" /\ seen \notin {0, unit.digest}
  IN CASE a = "none"     -> unit.is = "pinned" /\ seen = unit.digest
       [] a = "REVIEW"   -> behind /\ unit.held # unit.digest /\ unit.tag = "release"
       [] a = "TAKE_NOW" -> behind /\ unit.held # unit.digest /\ unit.tag = "rolling"
       [] a = "BLOCKED"  -> unit.is = "pinned" /\ seen = 0
       [] a = "LEAVE, held"       -> behind /\ unit.held = unit.digest
       [] a = "LEAVE, chosen"     -> unit.is = "floating" /\ unit.chosen
       [] a = "LEAVE, built here" -> unit.is = "local"
       [] OTHER -> \/ behind /\ unit.tag = "none"
                   \/ verdict \in Uncompared

\* What each advice on a package claims: that the package was behind in some pocket when
\* drift.json was written; that the security index held it, or none did, when
\* the inventory was taken - at another time, maybe, and in another version.
PackageClaim(a, was, indexed) ==
  LET behind == \E p \in Pockets : was.in[p] > was.installed
  IN /\ a \in {"SECURITY", "TAKE_NOW"} => behind
     /\ a = "SECURITY" => indexed.in["security"] # 0
     /\ a = "ORPHANED" => \A p \in Pockets : indexed.in[p] = 0

\* "A recommendation must not claim a finding the measurement did not make"
\* (recommend.py:132-133): whatever is released, promoted and upgraded between the
\* three programs, advice claims of a unit what the report it read had measured, but for
\* the uncompared, and of a package what report and inventory had, each at its time.
AdviceMeasured ==
  advice # None =>
    /\ UnitClaim(advice.unit, advice.drift.image, advice.drift.seen, advice.drift.verdict)
    /\ \A a \in advice.apt :
         PackageClaim(a, advice.drift.package, advice.inventory.package)

\* A report that exits with 0 leaves no image unmeasured: every unit with a digest was
\* compared, and every floating one is floating by choice (drift-report.py:630-633).  The
\* exit says nothing of packages and snaps, whose commands may have failed.
CleanExitMeasured ==
  drift # None /\ drift.exit = 0 =>
    CASE drift.image.is = "pinned"   -> drift.seen # 0 /\ drift.verdict # "NOT CHECKED"
      [] drift.image.is = "floating" -> drift.image.chosen
      [] OTHER                       -> drift.image.is = "local"

\* A file is called behind or current only by a release that was read, and current by
\* the same version (track-unmanaged.py:160-163, :197-212).  An AppImage so called is there
\* and its version known, and none that is there or registered is left out; an
\* executable is called so by the registry alone, and behind when its version is unknown.
StatusEarned ==
  tracked # None =>
    LET of == tracked.of
    IN /\ tracked.status = "CURRENT" => tracked.seen # 0 /\ tracked.seen = of.version
       /\ tracked.status = "BEHIND"  => tracked.seen \notin {0, of.version}
       /\ tracked.status \in {"CURRENT", "BEHIND"} /\ of.kind = "AppImage" =>
            of.there /\ of.version # 0
       /\ of.registered \/ (of.there /\ of.kind = "AppImage") => tracked.status # "none"

\* An exit of 0 is no silence of a registry, and a status is none of a vendor: both of the
\* above.
FindingsEarned == CleanExitMeasured /\ StatusEarned
=============================================================================
