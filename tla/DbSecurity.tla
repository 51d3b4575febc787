----------------------------- MODULE DbSecurity -----------------------------
(* collect-db-security.py: every pass queries the PostgreSQL targets and   *)
(* opens the SQLite ones, each of which may fail at any query, and         *)
(* replaces the textfile node_exporter serves to Prometheus, which refuses *)
(* a file with a series twice.                                             *)
EXTENDS Naturals, Sequences, SequencesExt

CONSTANTS
  NPostgres,  \* PG_TARGETS, numbered first
  NSqlite,    \* SQLITE_TARGETS
  NQueries    \* queries a PostgreSQL target is asked

ASSUME SecurityAssumption == NPostgres \in Nat /\ NSqlite \in Nat /\ NQueries \in Nat \ {0}

Postgres == 1..NPostgres
Targets  == 1..(NPostgres + NSqlite)

\* A line: a metric, the one query it is the answer of or 0, its label and its value.
Sample(name, target, value) ==
  [name |-> name, query |-> 0, target |-> target, value |-> value]
Answer(query, target) == [Sample("answer", target, 1) EXCEPT !.query = query]

VARIABLES
  scraping,  \* the target the pass is at, 0 between passes
  lines,     \* the samples so far
  faults,    \* ghost: what befell each target in this pass
  prom, promFaults  \* the file, and what befell the targets of its pass

securityVars == <<scraping, lines, faults, prom, promFaults>>

Stamp == Sample("timestamp", 0, 1)

SecurityInit ==
  /\ scraping = 0 /\ lines = <<>> /\ prom = <<>>
  /\ faults = [t \in Targets |-> "none"] /\ promFaults = faults

StartScrape == /\ scraping = 0 /\ scraping' = 1 /\ lines' = <<Stamp>>
               /\ faults' = [t \in Targets |-> "none"] /\ UNCHANGED <<prom, promFaults>>

Failed(t) == <<Sample("reachable", t, 0), Sample("scrape_error", t, 1)>>

\* collect_postgres, when the first k queries answer and the next, if any, does not, after
\* which nothing more is asked of the target.
PostgresLines(t, k) ==
  LET read == (IF k > 0 THEN <<Sample("reachable", t, 1)>> ELSE <<>>)
                \o [n \in 1..k |-> Answer(n, t)]
  IN  read \o (IF k = NQueries THEN <<Sample("scrape_error", t, 0)>>
               ELSE Failed(t))

\* collect_sqlite: no file, no stat, no connection, a quick_check that fails - which is
\* swallowed, its series labelled unknown instead of with a result - or all of it.
SqliteLines(t, fault) ==
  CASE fault = "absent" -> Failed(t)
    [] fault = "stat"   -> <<Sample("reachable", t, 1), Sample("scrape_error", t, 1)>>
    [] fault = "open"   -> <<Sample("reachable", t, 1), Sample("size_bytes", t, 1),
                             Sample("scrape_error", t, 1)>>
    [] OTHER            -> <<Sample("reachable", t, 1), Sample("size_bytes", t, 1),
                             Sample("tables", t, 1),
                             Sample(IF fault = "check" THEN "integrity_unknown"
                                    ELSE "integrity_ok", t, 1),
                             Sample("scrape_error", t, 0)>>

\* Mutant: an exception leaves the target out.
AfterNothing(t) == <<>>
\* An exception drops the target's lines and says that it is not reachable.
AfterException(t) == IF t \in Postgres THEN Failed(t) ELSE <<Sample("reachable", t, 0)>>

Emit(new, fault) == /\ lines' = lines \o new /\ scraping' = scraping + 1
                    /\ faults' = [faults EXCEPT ![scraping] = fault]
                    /\ UNCHANGED <<prom, promFaults>>

ScrapePostgres ==
  /\ scraping \in Postgres
  /\ \E k \in 0..NQueries :
       Emit(PostgresLines(scraping, k),
            IF k = NQueries THEN "none" ELSE IF k = 0 THEN "unreachable" ELSE "midway")

ScrapeSqlite ==
  /\ scraping \in Targets \ Postgres
  /\ \E fault \in {"absent", "stat", "open", "check", "none"} :
       Emit(SqliteLines(scraping, fault), fault)

ScrapeException == scraping \in Targets /\ Emit(AfterException(scraping), "exception")

\* The temporary file takes the place of the one that is served.
ReplaceProm == /\ scraping = NPostgres + NSqlite + 1 /\ scraping' = 0
               /\ prom' = lines /\ promFaults' = faults /\ UNCHANGED <<lines, faults>>

\* The pass dies before: the file stays.
AbandonScrape == scraping # 0 /\ scraping' = 0 /\ UNCHANGED <<lines, faults, prom, promFaults>>

SecurityNext == \/ StartScrape \/ ScrapePostgres \/ ScrapeSqlite \/ ScrapeException
                \/ ReplaceProm \/ AbandonScrape

SecuritySpec == SecurityInit /\ [][SecurityNext]_securityVars

-----------------------------------------------------------------------------
(* Properties.                                                             *)

Has(sample) == Contains(prom, sample)

\* Every target is in every file, and one that was not read to the end shows it: not
\* reachable, or a scrape error (collect-db-security.py:270-283) - but for a file whose
\* integrity could not be read, which stands as reachable and without an error, and is
\* told by the label of one series alone (:254-261).
FaultVisible ==
  prom # <<>> => \A t \in Targets :
    CASE promFaults[t] \in {"none", "check"} ->
           /\ Has(Sample("reachable", t, 1)) /\ Has(Sample("scrape_error", t, 0))
           /\ promFaults[t] = "check" => Has(Sample("integrity_unknown", t, 1))
      [] OTHER -> Has(Sample("reachable", t, 0)) \/ Has(Sample("scrape_error", t, 1))

Twice(t) == \E i, j \in DOMAIN prom :
              /\ i < j /\ prom[i].target = t /\ prom[j].target = t
              /\ prom[i].name = prom[j].name /\ prom[i].query = prom[j].query

\* "Exactly one series per (metric, label) pair" (:186-188) fails only of a PostgreSQL target
\* that stopped answering between two queries.
TwiceOnlyMidway == \A t \in Targets : Twice(t) => promFaults[t] = "midway"

\* Prometheus takes the file, but for a target that stopped answering between two queries,
\* and finds every failure in it, that of an integrity check by its label: both of the above.
ScrapeTold == FaultVisible /\ TwiceOnlyMidway
=============================================================================
