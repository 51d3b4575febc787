---------------------------- MODULE SoftwareRows ----------------------------
(* The rows of the software status document: what provenance/collector.py  *)
(* says of one item of each source, and the verdict provenance/render.py   *)
(* reaches on it.  A version is a number, its digest is identified with    *)
(* it, and versions 2n - 1 and 2n differ in the Debian revision only.      *)
(* A text that is no version keeps only what match_of can tell of it.  The *)
(* document's "-" is "dash" here and its "?" is "undecided".               *)
EXTENDS Naturals

Kinds == {"container", "localUnit", "snap", "flatpak", "apt", "desktop", "launcher",
          "appimage", "executable", "deb", "unindexed", "ubuntu", "headline", "kde",
          "ros", "gazebo"}

\* Facts of an item that no update changes.
Traits ==
  {t \in [kind     : Kinds,
          hashed   : BOOLEAN,  \* dpkg has an .md5sums file of it; the vendor's file is there
          checkable : BOOLEAN, \* a feed is recorded; the registry's digest is a sha256, not
                               \* a sha512; the ROS repository is recorded as reachable
          fixed    : BOOLEAN,  \* a digest is pinned; the version is in the file's name;
                               \* a ROS package is on the wrong suite
          plain    : BOOLEAN] : \* its name is a word to a shell, not blank and no syntax
     ~t.plain => t.kind \in {"snap", "flatpak", "apt", "desktop"}}

\* What is read of an item: the installed version and the one on offer, 0 if unknown.
Word(s)    == [says |-> s, core |-> 0, rev |-> 0]
Version(v) == IF v = 0 THEN Word("dash") ELSE [says |-> "value", core |-> (v + 1) \div 2, rev |-> v]
Known(v, s) == IF v = 0 THEN Word(s) ELSE Version(v)

Row(pinned, released, pinHash, relHash) ==
  [pinned |-> pinned, released |-> released,
   pinHash |-> pinHash, relHash |-> relHash, \* the sha256 the text holds, 0 if none
   target |-> 0,         \* rel_digest if it is a whole digest
   local |-> FALSE, nocompare |-> FALSE, force |-> "none"]

Summary == [Row(Word("prose"), Word("prose"), 0, 0) EXCEPT !.nocompare = TRUE]

\* Both columns are worked out from the installed packages, so they never differ: the row
\* is kept from a comparison it could not fail.
KdeBlock(have) == [Row(Version(have), Version(have), 0, 0) EXCEPT !.nocompare = TRUE]

\* The release that is installed, beside words on how it is updated.
UbuntuHeadline(have) == [Row(Version(have), Word("prose"), 0, 0) EXCEPT !.nocompare = TRUE]

Local   == [Row(Word("prose"), Word("prose"), 0, 0) EXCEPT !.local = TRUE]

-----------------------------------------------------------------------------
(* Sources.  have and offer are 0 when they could not be read.             *)

\* The hash of a .deb's file manifest, or of a vendor's file, never equals a publisher's
\* hash: it is the hash of something else.  100 + v keeps the two apart.
Identity(t, have) == IF t.hashed THEN 100 + have ELSE 0

\* Both tags are resolved by the registry's tag list, which fails on its own.
Containers(t, have, offer, tagged) ==
  LET pin == IF t.fixed THEN have ELSE 0
  IN [Row(Known(IF tagged THEN pin ELSE 0, "noVersion"),
          Known(IF tagged THEN offer ELSE 0, "noVersion"),
          pin, IF t.checkable THEN offer ELSE 0) EXCEPT !.target = offer]

Snaps(t, have, offer)    == Row(Version(have), Known(offer, "marker"), 0, 0)
Flatpaks(t, have, offer) == Row(Version(have), Known(offer, "marker"), 0, 0)

\* rel_hash is "candidate:<version>", which is no digest.
ThirdPartyApt(t, have, offer) ==
  Row(Version(have), Known(offer, "marker"), Identity(t, have), 0)

DesktopApps(t, have, offer) ==
  LET row == Row(Version(have), Known(offer, "prose"), Identity(t, have), 0)
  IN IF offer = 0 THEN [row EXCEPT !.force = "undecided"] ELSE row

\* A launcher no package owns; its own file is the identity.
RawLauncher == Row(Word("prose"), Word("prose"), 100, 0)

AppImages(t, have, offer) ==
  Row(Known(IF t.fixed THEN have ELSE 0, "noVersion"),
      Known(IF t.checkable THEN offer ELSE 0, "marker"), Identity(t, have), 0)

Executables(t, have, offer) ==
  Row(Known(have, "marker"), Known(IF t.checkable THEN offer ELSE 0, "marker"),
      Identity(t, have), 0)

DirectDebs(t, have)    == Row(Version(have), Word("unknown"), Identity(t, have), 0)
UnindexedDebs(t, have) == Row(Version(have), Word("marker"), Identity(t, have), 0)

\* The verdict is the recorded policy's: nothing is compared.
RosSummary(t) == [Row(Word("prose"), Word("prose"), 0, 0) EXCEPT
                    !.force = IF t.checkable /\ ~t.fixed THEN "yes" ELSE "NO"]

\* The row of an item.
RowOf(t, have, offer, tagged) ==
  CASE t.kind = "container"  -> Containers(t, have, offer, tagged)
    [] t.kind = "snap"       -> Snaps(t, have, offer)
    [] t.kind = "flatpak"    -> Flatpaks(t, have, offer)
    [] t.kind = "apt"        -> ThirdPartyApt(t, have, offer)
    [] t.kind = "desktop"    -> DesktopApps(t, have, offer)
    [] t.kind = "launcher"   -> RawLauncher
    [] t.kind = "appimage"   -> AppImages(t, have, offer)
    [] t.kind = "executable" -> Executables(t, have, offer)
    [] t.kind = "deb"        -> DirectDebs(t, have)
    [] t.kind = "unindexed"  -> UnindexedDebs(t, have)
    [] t.kind = "ros"        -> RosSummary(t)
    [] t.kind = "ubuntu"     -> Summary
    [] t.kind = "headline"   -> UbuntuHeadline(have)
    [] t.kind = "kde"        -> KdeBlock(have)
    [] t.kind \in {"localUnit", "gazebo"}       -> Local

-----------------------------------------------------------------------------
(* The verdict.                                                            *)

SameVersion(a, b) == a.core = b.core

MatchOf(r) ==
  IF r.nocompare THEN "summary"
  ELSE IF r.force # "none" THEN r.force
  ELSE IF "marker" \in {r.pinned.says, r.released.says} THEN "undecided"
  ELSE IF r.pinHash # 0 \/ r.relHash # 0
    THEN IF r.pinHash = 0 \/ r.relHash = 0 THEN "undecided"
         ELSE IF r.pinHash = r.relHash THEN "yes" ELSE "NO"
  ELSE IF r.local THEN "local"
  ELSE IF r.released.says \in {"dash", "unknown"} \/ r.pinned.says = "noVersion" THEN "undecided"
  ELSE IF SameVersion(r.pinned, r.released) THEN "yes" ELSE "NO"

=============================================================================
