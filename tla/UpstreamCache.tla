---------------------------- MODULE UpstreamCache ----------------------------
(* What scripts/build-update/provenance/collector.py knows of a publisher's *)
(* image: a disk cache with a time to live, the memos of one run, a token   *)
(* that is cached like a value, and Docker Hub's tag pages.  The units of   *)
(* one repository are read in turn by containers().                         *)
(* A version is a number; its digest and its tag are identified with it.    *)
(* Page p of a tag list of n versions holds version n - p + 1.  0 is None.  *)
EXTENDS Integers, FiniteSets, FiniteSetsExt

CONSTANTS
  NUnits,      \* container units of the repository, in the order they are read
  Published,   \* versions the publisher has at the beginning, the one that runs among them
  MaxPublish,  \* versions it may add
  HubPages,    \* AO_HUB_PAGES
  TTL,         \* AO_CACHE_TTL in hours
  MaxHour,
  Unasked      \* the memo of the digest that is not filled yet

ASSUME CacheAssumption ==
  /\ NUnits \in Nat \ {0} /\ Published \in Nat \ {0} /\ HubPages \in Nat \ {0} /\ TTL \in Nat
  /\ Unasked \notin Int

UnitNo == 1..NUnits
Pages  == 1..HubPages
Token  == -1
Manifest == 0
Keys   == {Token, Manifest} \cup Pages

VARIABLES
  hour,   \* the clock; a run takes minutes, an hour passes between runs only
  since,  \* the hour each version was published; the newest is what the tag names
  disk,   \* CACHE_DIR: per key the hour and the value, or None's record
  mode,   \* "idle", or the run that is on: "online", or "refresh" with a TTL of 0
  digest, \* _RAW_CACHE of the tag
  placed, \* _TAG_CACHE of the repository: {}, or {the versions on the pages that were read}
  pin,    \* the version each unit pins, 0 if it floats
  rows,   \* what the run has said of the units so far
  upset   \* a fetch of this run failed (a refused one did not)

cacheVars == <<hour, since, disk, mode, digest, placed, pin, rows, upset>>

Latest == Cardinality(DOMAIN since)
Absent == [ts |-> 0, value |-> 0]

CacheInit ==
  /\ hour = 1 /\ since = [v \in 1..Published |-> 0] /\ disk = [k \in Keys |-> Absent]
  /\ mode = "idle" /\ digest = Unasked /\ placed = {} /\ rows = <<>> /\ upset = FALSE
  /\ pin \in [UnitNo -> 0..Published]

Publish ==
  /\ Latest < Published + MaxPublish
  /\ since' = [v \in 1..Latest + 1 |-> IF v <= Latest THEN since[v] ELSE hour]
  /\ UNCHANGED <<hour, disk, mode, digest, placed, pin, rows, upset>>

HourPasses ==
  /\ mode = "idle" /\ hour < MaxHour /\ hour' = hour + 1
  /\ UNCHANGED <<since, disk, mode, digest, placed, pin, rows, upset>>

\* A new process: its memos are empty.
StartRun(m) ==
  /\ mode = "idle" /\ mode' = m
  /\ digest' = Unasked /\ placed' = {} /\ rows' = <<>> /\ upset' = FALSE
  /\ UNCHANGED <<hour, since, disk, pin>>

-----------------------------------------------------------------------------
(* Lookups, given the set ok of keys whose fetch would succeed.            *)

CacheTTL == IF mode = "refresh" THEN 0 ELSE TTL

Fresh(k) == disk[k] # Absent /\ hour - disk[k].ts < CacheTTL

\* get_json: fresh from disk, else fetched, else stale from disk, else None.
GetJson(k, served, ok) ==
  IF Fresh(k) \/ k \notin ok THEN disk[k].value ELSE served

\* Mutant: a failed fetch is cached like an answer.
CacheWriteFailures(asked, served, ok) ==
  [k \in Keys |-> IF k \in asked /\ ~Fresh(k)
                  THEN [ts |-> hour, value |-> IF k \in ok THEN served[k] ELSE 0]
                  ELSE disk[k]]
\* _cache_write: what a fetch leaves on disk.
CacheWrite(asked, served, ok) ==
  [k \in Keys |-> IF k \in asked \cap ok /\ ~Fresh(k) THEN [ts |-> hour, value |-> served[k]]
                  ELSE disk[k]]

\* The registry takes a token for some minutes; get_json keeps it for the TTL.
TokenTaken(ok) == GetJson(Token, hour, ok) = hour

\* registry_digest_raw: memo, fresh record, or a fetch whose failure is None for the run.
RegistryDigest(ok) ==
  CASE digest # Unasked                  -> digest
    [] digest = Unasked /\ Fresh(Manifest) -> disk[Manifest].value
    [] OTHER -> IF Manifest \in ok /\ TokenTaken(ok) THEN Latest ELSE 0

\* The keys registry_digest_raw fetches, and of those the ones it may store.
Fetched == IF digest # Unasked \/ Fresh(Manifest) THEN {} ELSE {Token, Manifest}

\* A manifest that was not served is not stored.
Kept(ok) == IF TokenTaken(ok) THEN Fetched ELSE Fetched \ {Manifest}

OnPage(p, ok) == GetJson(p, Latest, ok) - p + 1

\* _hub_tags stops at the page that has the digest, or where there is no next page.
LastPage(want, ok) ==
  Min({p \in Pages : \/ p = HubPages
                     \/ \E q \in 1..p : OnPage(q, ok) = want
                     \/ OnPage(p, ok) <= 1})

\* version_for asks for the pin first, then for the released digest; the first of the two
\* fills the memo, for every later unit of the repository too.
AskedFor(u, ok) ==
  IF placed # {} THEN 0
  ELSE IF pin[u] # 0 THEN pin[u] ELSE RegistryDigest(ok)

HubTags(u, ok) ==
  LET want == AskedFor(u, ok)
  IN IF want = 0 THEN placed ELSE {{OnPage(p, ok) : p \in 1..LastPage(want, ok)} \ {0}}

\* The loop body of containers(): the released digest, then both versions.
ReadUnit ==
  /\ mode # "idle" /\ Cardinality(DOMAIN rows) < NUnits
  /\ \E ok \in SUBSET Keys :
       LET u     == Cardinality(DOMAIN rows) + 1
           rel   == RegistryDigest(ok)
           want  == AskedFor(u, ok)
           pages == IF want = 0 THEN {} ELSE 1..LastPage(want, ok)
           asked == {k \in Fetched \cup pages : ~Fresh(k)}
           found == HubTags(u, ok)
           row   == [released |-> rel, pinNamed |-> pin[u] \in UNION found]
       IN /\ ok \subseteq asked \/ asked = {}
          /\ digest' = rel /\ placed' = found
          /\ disk' = CacheWrite(Kept(ok) \cup pages,
                                [k \in Keys |-> IF k = Token THEN hour ELSE Latest], ok)
          /\ rows' = [v \in 1..u |-> IF v = u THEN row ELSE rows[v]]
          /\ upset' = (upset \/ ~(asked \subseteq ok))
  /\ UNCHANGED <<hour, since, mode, pin>>

\* The run ends, or is killed where it stands.
EndRun == mode # "idle" /\ mode' = "idle"
          /\ UNCHANGED <<hour, since, disk, digest, placed, pin, rows, upset>>

CacheNext == \/ Publish \/ HourPasses \/ ReadUnit \/ EndRun
             \/ \E m \in {"online", "refresh"} : StartRun(m)

CacheSpec == CacheInit /\ [][CacheNext]_cacheVars

-----------------------------------------------------------------------------
(* Properties.                                                             *)

\* A digest a run calls released was what the tag named less than the TTL ago, and now in
\* a refresh, whatever failed (:34, :153-180); the tag pages' stale values are not it.
ReleasedFresh ==
  mode # "idle" => \A u \in DOMAIN rows :
    LET next == rows[u].released + 1
    IN next \in DOMAIN since /\ next > 1 =>
         since[next] >= hour \/ hour - since[next] < CacheTTL

\* "A failed fetch must never be cached" (:177): without a failure in this very run a
\* digest is unresolved only because get_json kept a token longer than the registry does.
UnresolvedExplained ==
  mode # "idle" /\ ~upset => \A u \in DOMAIN rows :
    rows[u].released = 0 => Fresh(Token) /\ disk[Token].ts < hour

\* When nothing fails and nothing cached is used, a pin within AO_HUB_PAGES is given its
\* version, unless a unit read earlier stopped the paging before it (:200-202).
PinNamed ==
  mode = "refresh" /\ ~upset => \A u \in DOMAIN rows :
    pin[u] > Latest - HubPages /\ pin[u] # 0 =>
      rows[u].pinNamed \/ \E w \in 1..u - 1 : pin[w] = 0 \/ pin[w] > pin[u]

\* What the cache tells of a publisher is fresh, is missing only for a cause, and in a run
\* without either names the version behind a pin.
CacheEarned == ReleasedFresh /\ UnresolvedExplained /\ PinNamed
=============================================================================
