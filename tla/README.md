# ALWAYS ON: TLA+ models of the programs that run the site

ALWAYS ON is one workstation that runs a small business: a storefront, a Mastodon
instance, payments, AI agents that work on the repository, simulations and a
monitoring stack. There is no common server. The repository is a collection of
short Python services and shell jobs under `scripts/`, started by systemd timers,
Podman quadlets (`quadlet/`) and by hand. They meet in files under `/tmp` and
`artifacts/`, in PostgreSQL, in git worktrees and over loopback HTTP.

What is hard to test is therefore the same everywhere: two invocations of a
script at once, a script killed half way, a file that is older than the world it
describes, an answer that comes after its caller has given up, a question whose answer
was true a moment ago. This directory holds a TLA+ module for each component that has
such behaviour, the TLC configurations that check it on small instances, and proofs
checked by TLAPS. `PROJECT.json` maps every definition to the lines it translates and
lists runs, mutants, findings, hazards and theorems.

    tlc -workers 4 -config SupervisorSerial.cfg MCSupervisor.tla    # one run
    tlapm SupervisorProofs.tla                                      # one proof

## Inventory

Five components serve or watch for ever:

| Component | State | Operations | Meets | Hard about it | Correct when |
|---|---|---|---|---|---|
| Agent supervisor: `orchestration/supervise.py`, `rotate-agents.py` | per work group a pid file, a nudge count, `events.jsonl`, a git worktree; agent processes | `guard`, `spawn`, `nudge`, `watch`, `stop` | a timer, the dashboard and the operator start passes; agents write the logs it reads | no lock between passes; read, decide, act with seconds in between; crashes, full disk, reboot | one agent per worktree, none unsupervised, nudges within `MAX_NUDGES`, a live session is left alone |
| Payment ingress: `payment/ao-payment-relay.py`, `ao-payment-adapter.py` | sockets of two single-threaded servers, rows of `payment_provider_events` | forward, time out, verify, insert, reply, restart | providers repeat; the relay gives up after 15 s on an adapter that goes on | late answers, commit with a lost reply, restarts | what a provider is told is true of the database, only verified events leave rows, every provider hears back |
| Coordinator watch: `orchestration/coordinator-watch.sh`, `dashboard-note.py` | `decision-scan.json`, the heartbeat file, notes on the dashboard | guard, compile gate, two scans, human count, heartbeat | agents log while it scans; its pass can be killed; its notes can be lost | state saved before it is told, stamped whether or not it was told | every group that waits is named once for each event, and the watch is never silent for long |
| Mastodon bridge: `mastodon/mastodon-openclaw-bridge.py` | a cursor on disk and in memory, the page it works on | poll, rewind, advance, ask, post, restart | Mastodon's notifications grow, are deleted and renumbered; OpenClaw answers | cursor compared with a table that moves; crash between write and reply | a mention is answered once; none is skipped; old ones are left alone |
| Chat relay: `openclaw/chat-relay.py` | the limiter's table, a thread per connection | refuse, limit, read, forward, retry, answer | the tunnel reuses connections; the gateway is slow | minute computed before the lock; unread bodies on kept connections | the limit holds, refusals are earned, every visitor hears back |

The others are jobs: a timer or the operator starts them, they run and end.

| Component | State | Operations | Meets | Hard about it | Correct when |
|---|---|---|---|---|---|
| Payment reconciliation: `payment/ao-payment-reconcile.sh` | `payment_references`, the audit log | `record` | operators who record one reference again, or at once | the audit line follows the commit | a row's money is what its approver gave; the audit names the approver |
| Software status: `build-update/provenance/collector.py`, `apt_history.py` | the upstream cache, the rows of a run | read the logs, ask registries, compare | apt rotates its logs; registries publish and fail | stale cache, half-answered runs, missing sources | a date, digest or verdict is told only when it was read |
| Update plan: `provenance/plan.py`, `policy.py`, `apply-plan.py` | the plan file, its approval | generate, review, validate, report | a refresh replaces the file under the operator | rules written twice; the file read twice | the steps told are of a plan that was reviewed, and no plan is stopped by its own validator |
| Drift, inventory, advice: `drift-report.py`, `inventory-full.py`, `recommend.py`, `track-unmanaged.py` | `drift.json`, reports, the exit code | measure, attribute, advise | publishers release and operators promote between the programs | two files of two times are joined | advice rests on a measurement; exit 0 leaves no image uncompared |
| System health collector: `operations/collect-system-health.py` | the projection, copies of SQLite stores | ask podman, `ss`, the stores; copy | containers and files move between questions | answers of different moments joined; a failed copy beside an old one | the tables agree; a copy is as the page says |
| Database security collector: `collect-db-security.py` | the textfile for Prometheus | query, give up, replace | databases that fail at any query | a series twice spoils the file | every failure shows, be it only in a label |
| Topology generator: `generate-topology.py` | pages and pictures | ask, judge claims, draw, write | the host moves, commands fail, `dot` fails | an empty answer looks like an empty host | a verdict was so at some time; a page is of one pass |
| Dashboard: `dashboard-writer.py`, `render-dashboard.py` | `answers.json`, the page, the fields of a tab | render, type, post, reload, clear | two posts at once; a page older than the answers | read, merge, write without a lock; prefilled fields | an answer saved is kept; typed text is dropped only where a post was under way |
| Progress metrics: `collect-metrics.py`, `render-dashboard.py` | the tracker, `history.jsonl` | count, guard, append, plot | edits of the tracker; an append cut short | a broken row, a broken line | a point counts every item once |
| Model ledger: `probe-freemium.py`, `supervise.py` | verdicts per model, two copies of one file | probe, recheck, save, choose | two runs of minutes each; the supervisor reads | a save writes what was loaded long ago | a group is diverted only to a model that passed |
| Image acquisition: `ao-build-update.py` | reports, the audit log | check, name, fetch, report | runs of one second | a free name looked for before it is taken | every ended run leaves its report, unless another began in its second |
| Proposals compiler: `compile-proposals.py` | the issue register, the `.applied` ledger | read proposals, tell them, two saves | killed between the saves or in one; sessions rewrite their files under it | the ledger follows the register | a row stays, a proposal is told once |
| Fabrication collector: `ao-fabrication-collect.py` | rows of observations, its tally | ask each machine, insert | machines off, answering badly; a database that refuses | the kinds of failure told apart over a pass | a clean pass lost nothing |

Not modelled, with the reason (`PROJECT.json` repeats it for each):

| Component | State and operations | Why not |
|---|---|---|
| Wallet and secrets (`fetch-kwallet-secret.sh`, `ops/wallet-*`) | one output file per call | D-Bus I/O |
| Mastodon TLS proxy, purge, provisioning | sockets; none; none | byte copying; one-off scripts |
| Quadlet deployment, image promotion, provision, bootstrap | unit files, packages | sequential copies run by the operator; the state is systemd's and apt's |
| Backup and restore, backup health, web console | restic repositories, dumps | the state and its locks are restic's; a reader of them; static files |
| Ledger manifests, sales intake | documents | one file in, one file out; the ledger gateway does not exist yet |
| Simulation, validation, mapping, radio, storefront | YAML schedules, meshes; exit codes; stubs | pure functions of files, geometry, read-only checks, `PENDING` stubs |

What a reader of these should look at: `fetch-kwallet-secret.sh:193` (two
units that fetch to one output share its temporary file), `mastodon-local-proxy.py:140` (the
TLS handshake runs in the accept loop without a timeout), `mastodon-social-purge.py:112` (the
loop ends at the first post to keep), `restic-run.sh:50` (the journal's snapshot is the newest
of the tag, be it another run's) and `promote-image-digest.sh:149` (`mv` across file systems
is a copy that a full disk cuts short).

## Modules

| Module | Models | Extends or composes |
|---|---|---|
| `Supervisor` | passes, agents, files, faults | |
| `OneAgent` | abstract: agents are launched into empty worktrees, within a budget | |
| `SupervisorPromise` | the refinement mapping and the invariant behind it | `Supervisor`; `INSTANCE OneAgent` |
| `SupervisorHistory` | two history variables: who was made a stray, which group was treated twice at once | `SupervisorPromise` |
| `MCSupervisor`, `MCSupervisorHistory` | symmetry sets for TLC | `SupervisorPromise`; `SupervisorHistory` |
| `SupervisorProofs` | proofs | `SupervisorHistory` |
| `PaymentIngress` | relay, adapter, rows | |
| `Intake` | abstract: what a payment provider may count on | |
| `PaymentPromise` | the refinement mapping | `PaymentIngress`; `INSTANCE Intake` |
| `PaymentProofs` | proofs | `PaymentPromise`, `Reconciliation` |
| `CoordinatorWatch`, `CoordinatorProofs` | the watch; proofs | |
| `MastodonBridge`, `BridgeProofs` | notifications, the bridge; proofs | |
| `ChatRelay`, `ChatRelayProofs` | connections, limiter; proofs | |
| `AptHistory` | apt's rotated logs and the parser | |
| `UpstreamCache` | the cache of registry answers, hub paging | |
| `SoftwareRows` | pure: the columns of a status row and their comparison | |
| `UpdatePlan` | generator, operator, validator | `SoftwareRows` |
| `UpdateReports` | drift, inventory, advice, unmanaged files | |
| `StoreSnapshots`, `FleetFacts` | the two halves of the health collector | |
| `DbSecurity`, `Topology` | the two other collectors | |
| `Dashboard`, `Progress`, `ModelLedger`, `Acquisition`, `Fabrication`, `Reconciliation`, `Proposals` | what operators and timers run | |
| `MCJobs` | the jobs in one run | all job modules |
| `CollectorProofs` | proofs | `FleetFacts`, `Topology`, `StoreSnapshots`, `UpdatePlan`, `UpdateReports` |
| `OperatorProofs` | proofs | `Acquisition`, `ModelLedger`, `Fabrication`, `Proposals` |
| `StatusProofs` | proofs | `AptHistory`, `UpstreamCache`, `DbSecurity`, `Progress`, `Dashboard` |

Definitions whose comment starts with "Mutant:" are not part of a specification. Each
is a definition as a plausible bug would have it, and a property that holds of the
specification fails when the mutant takes the definition's place.

The jobs meet only in files that one of them writes whole and another reads later; where that
matters (the plan and its validator, the drift report and its advice, the probes and the
supervisor's choice of a model) writer and reader are in one module. `MCJobs` therefore adds no
interaction: its variable `job` picks the program that runs and the others stay in one state.
It is one run because every one of these instances is small.

### Supervisor

`runs[g][r]` is the phase of the process `r` of group `g`; `pid`, `nudges`, `wt` are
the files under `/tmp` and the worktree; `log` is what `events()` keeps of
`events.jsonl`, reduced to the seven cases `state()` tells apart. An invoker is a
running copy of the script. It has the locals of the Python code: the states it has
`seen`, the groups `todo`, the group `cur`, the nudge count it read (`budget`) and
the process it is retiring or has started (`hold`).

A pass is cut where the code waits, forks, or looks again at something another
process may change: reading each group's state (`ReadState`), deciding (`GuardRespawns`,
`GuardRecovers`, `WatchDecides`), picking a group (`GuardPick` and the others),
the limit and the first look at the old process (`NudgeLimit`, `NudgeBegin`), the
five seconds of grace and SIGKILL (`Retire`, `RetireRefused`), the worktree (`MakeWorktree`,
`StartFails`), the count of a nudge (`WriteCount`), `Popen` (`StartAgent`) and the pid file
(`RecordPid`). What lies between two of these points is one step. Agents start, log, err,
finish, exit and go quiet on their own.

Faults: a pass killed anywhere (`Crash`); a full `/tmp` or a kill that cuts the pid file
(`RecordFails`), a nudge's count (`CountFails`) or one of the counts a respawn resets
(`RespawnFails`); a cleaner that removes a worktree (`CleanTmp`); a reboot that wipes `/tmp`
(`Reboot`). A cut file is `Garbled`: `int('')` raises, so that each pass that reads it
ends there (`ReadState`, `SpawnPick`, `StopPick`, `NudgeGarbled`).

`Units` are the invokers inside a `Type=oneshot` unit, as the timer's guard is. An agent started
there is `caged`: it lives in the unit's cgroup, which systemd kills when the pass ends
(`UnitStops`), since `KillMode` is not set.

Abstracted: event text (only its effect on `state()`), clocks (`GoIdle` is the passing
of `STUCK_MIN`), branches and commits, the wording of prompts. A pid is not reused
while a pid file or a pass still names it.

`SteadySpec` has the passes and the agents, `QuietSpec` reboots too, and `Spec` everything:
`stop`, the dashboard's stop button, crashes, full disks and the cleaner. All let any command
run at any time. `status` and `report` only read. `HSpec` (in `SupervisorHistory`) is `Spec`
with the two history variables.

The dashboard's stop button (`BeginButton`, `ButtonPick`) is not `stop`: it signals the agents it
finds by their command lines and any pass that watches, and then forgets the pid and the nudge
count of every group, whether or not a guard is at work on it.

One behaviour of `stop` is by design and is why it is not in `QuietSpec`: `cmd_stop`
sends SIGTERM and removes the pid file at once, so an agent that has not exited yet is
no longer known and the next pass may start one beside it. Another is visible in every
run: until a new agent writes `agent_start`, the log of the previous run speaks for it.

### PaymentIngress

A transmission `<<event, n>>` moves from the relay's socket (`queue`) into its hands (`inbound`,
while it reads headers and body; `relay`, once it has forwarded them and waits), the adapter's
socket (`backlog`), the `adapter`, and leaves a row, an answer, both or neither. The relay reads
without a timeout (`ao-payment-relay.py:72`) and serves one connection at a time: a sender that
stalls there holds all the others up. A sender may hang up (`HangUp`), in the middle of its body
("cut") or after it. The relay may time out (`RelayTimesOut`) while the adapter goes on;
`StoreFails` is an insert that fails before or after its commit; either side may restart.
`answer` is what the provider is told, "reset" standing for a broken connection. Bodies are
abstracted to signed, sized, well-formed and `Raising`: a header or body on which the adapter
raises (a signature `compare_digest` cannot take, a body that does not decode or normalize),
whose connection then breaks and of which the relay says 503. `old` marks a timestamp past the
replay window. A Coinbase event is asked for a PayPal signature (`ao-payment-adapter.py:209`),
so that none is ever accepted: the model does what the code does. `GET /health` asks the adapter
with a timeout of its own, 10 s, and is left out.

`Intake` says what of this a provider sees: of each delivery it hears at most once, a row is
made once, of a verified event, before its outcome is told, and nothing told is taken back or
contradicted by a later row. The one thing it may hear wrongly is 503, of a commit that went
through or an adapter that was only late, and then it repeats the event. `PaymentPromise` maps
`rows` and `answer` onto it.

### CoordinatorWatch

Events of a group are counted by `last`; `asks` are the groups whose last 30 events hold
decision language, `waits` those that log nothing more until the operator decides. `seen` is
`decision-scan.json`, `draft` the scan's copy of it, `found` its report. The scan runs twice:
`ScanGroup` to `EndScan` for the journal, then again to `EndRescan` for the note. `told` is the
last event a note named, `beat` the age of the heartbeat file in passes. The script does not
look at the exit status of `dashboard-note.py` (`coordinator-watch.sh:144-146`): a note may be
lost (`NoteLost`) and the pass goes on, and stamps the heartbeat file, as if it had been posted.
A write of `decision-scan.json` may be cut, which is read back as no group ever reported
(`SaveCut`, `forgot`), and so may the stamp, which makes the heartbeat due at once (`Stamp`).
The guard that the pass starts is the Supervisor's and is not repeated here. That a group which
has spent its nudges reaches the operator is not claimed: `supervise.py status`, which
`PostLimits` greps, does not print the limit.

### MastodonBridge

`table` maps notification ids to notifications; a page is the `Limit` newest. A post by an
author the bot follows that also mentions it makes two of them, `mention` and `status`, and gets
two replies (`mastodon-openclaw-bridge.py:256`): what is counted is replies per notification.
`cursor` is the file, `last` the variable in memory, `batch` what is left of the page in hand.
Ids are compared as the code does: as numbers in the loop, as strings when the cursor is first
set (`AsString` orders the decimal strings of 0..99, so the model sees that '9' comes after
'10'). `AdvanceFails` and `RewindFails` are a full disk under `write_state`; the loop then goes
on with what it has in memory. Deleting a post removes its notification; `Reset` renumbers the
table. The first cursor is the string maximum of the page (`:230`), behind the newest where ids
pass from 9 to 10. The wording of prompts and replies is left out.

### ChatRelay

A connection has a thread (`pc`), a message and, until the limiter is done with it, a client;
`left` are the connections that still hold the body of a message refused before it was read: for
its length, for a chunked or unparsable one, or by the limiter. Such a body is the next thing
the connection's thread reads. It may be one bad request line, answered with a page and a closed
connection (`Misread`), or hold a whole request, which is handled and answered although nobody
sent it (`ReadBody`, `unasked`); the replies behind that one are out of step (`ahead`), and who
asked next is given an answer that is not his ("stale"). A visitor may hang up (`HangUp`), and a
handler may raise (`Raises`). The limiter's look at its table is one step because it holds the
lock for it; the minute is computed one step earlier (`Stamp`), because the code computes it
before taking the lock. `passed` and `slack` are history variables: what each client got through
for each minute, and one limit for each late thread and restart.

### Reconciliation

`says[r]` are the arguments of run `r` and `recording[r]` how far it is; `payment` is the table
by reference, `audited` the log's lines. `Commit` is the upsert as PostgreSQL makes it, with or
without psql being told; `Refuse`, `Cut` are `set -e` and an end from outside. The order and
the provider of a reference are one value (`sale`), amount, currency and settlement another.

### AptHistory, UpstreamCache, SoftwareRows

`AptHistory`: apt writes stanzas (`Transact`), logrotate moves them (`Rotate`), a rotated file
may become unreadable (`Tear`); the parser is a fold over the files in the order the code reads
them (`LogFiles`, `Absorb`), evaluated in every state since every report parses them again. That
order is of the file names, in which `.10` comes before `.2`: `NameOrder` is a constant, and the
theorem holds for every order.

`UpstreamCache`: `disk` is the cache directory, `digest` and `placed` the memos of one run. A run
reads the units of one repository in turn; `ReadUnit` chooses which fetches succeed. The token
is cached as the code does, under the same time to live as values.

`SoftwareRows` is pure: how a row's installed, pinned and released columns, with their markers
for failed lookups, become "yes", "NO" or neither. Versions are compared by core and Debian
revision, which the code strips.

### UpdatePlan

One item of any kind, whose installed version may be blank and whose offer may move back.
`Refresh` is `plan.py` over the row of the moment; `Review` is the operator noting a hash;
`ReadPlan`, `CheckHash`, `Judge` are the steps of `apply-plan.py` between which the file may be
replaced; `RunStep` is the operator doing what it told. Publishers release, the unit in
`quadlet/` and its deployed copy are edited, inventories are taken again.

### UpdateReports

One container unit, one apt package, one unmanaged file. `DriftReport`, `Inventory`, `Recommend`
and `TrackUnmanaged` are whole programs, since each reads its sources once and writes at the
end; what lies between them is the world's: `Release`, `Promote`, `Upgrade`, `Download`. `apt
list` may not be heard (`snap refresh`, which fails the same way, is left out), and unmanaged
files are AppImages and executables.

### StoreSnapshots, FleetFacts

Two halves of one pass of the health collector that share nothing. In the first a pass reads a
store (`CollectSqlite`), later copies it (`BeginSnapshot`, `Vacuum`; the copy replaces the
served file or fails), and writes the tables at the end; a pass may die anywhere. In the second
each question to podman and the kernel is an action that may fail, `Move` lets containers come
and go between them, and the joins are those of the code: by port number alone, which several
containers and the host may share (`serves`, `hostSockets`). Units, disks and GPUs are answers
that come or do not.

### DbSecurity, Topology

`DbSecurity`: a target answers the first `k` queries and then fails, or an exception is caught
around it; `quick_check` may fail by itself, which the code keeps to a label; `ReplaceProm` puts
the temporary file in place.

`Topology`: `LiveContainers`, `LiveNetworks`, `InspectNetwork`, `LiveListeners` ask,
`BuildInventory` judges the documented claims, `WriteDot`, `RenderSvg` and `WritePage` write one
diagram's files. `course` remembers the hosts met in the pass. Layout is left out, and passes do
not overlap.

### Dashboard, Progress

`Dashboard`: one tab, any number of posts at once, each in the writer's steps (read, open the
temporary file, write, rename); files are inodes, so that two threads with one temporary file
write into what the other has renamed. The page is rendered on its own schedule from what
`answers.json` held; the tab reloads when it believes nothing is unsaved. Of the buttons only
the answers' are modelled here: start and stop act on agents, and are commands of `Supervisor`.

`Progress`: rows of two sections of the tracker, each open, done, broken or absent; a pass
counts, refuses what does not reconcile, and appends a line that may be cut short, which spoils
the next one.

### ModelLedger, Acquisition, Fabrication

`ModelLedger`: `filed` are the two copies of the ledger, `run` the two runs with what each
loaded. A probe takes minutes, may find that the model deleted the test file, which raises and
ends the run, and a save opens and writes each copy in turn; a write that fails is caught and
the run goes on, two that overlap may leave a torn tail; a reboot wipes `/tmp` (`Wipe`).
`ModelFor` is the supervisor's choice.

`Acquisition`: runs check references against the allowlist, write the audit line, choose the
first free report name of their second, open the report and fill it; they may overlap and die
anywhere.

`Fabrication`: the daemon's pass and a run by hand over the same table; a machine is good, off,
answers badly, or is reached and breaks the connection (reset, closed without an answer, TLS),
which `is_offline_error` counts as off; the database may refuse the row.

### Proposals

A pass of `compile-proposals.py` in its steps: it reads the files not in the ledger
(`BeginPass`), tells them in three loops, closes first, then updates, then new rows (`TellNext`,
in the order of `Turn`), opens the register, which empties it (`Truncate`), writes it
(`WriteSections`), reads the files again and notes those it can (`NoteApplied`). It may die at
any of these (`PassDies`), and sessions write their files between any two (`WriteProposal`). A
row is the set of what was told in it, as `<<file, pass>>`. The register at this commit lacks
the heading of the completed rows, so that a pass with anything to tell raises before its first
write; `whole` is therefore free in the initial state and says whether the headings are there.

`open('w').write` may be cut anywhere. Cut before the heading of the completed rows it leaves a
register on which the later passes raise (`Truncate` and a death). Cut among the completed rows
it leaves one that looks whole (`CutWrite`): the open rows are there and, of each completed
issue, the first rows or none; the next pass works on what is left. `Completed` are the issues
closed at first, `cutAway` those that lost rows so.

### OneAgent, SupervisorPromise

`OneAgent` says what the supervisor promises in terms of worktrees, agents and launches left;
`SupervisorPromise` maps `runs` and `nudges` onto it and holds the invariant that makes the
mapping sound.

## Runs

"Distinct" is the number of distinct states. Deadlock is checked except where
bounds on events, posts or messages let the system come to rest, and in `jobs` and
`decision_stands`, whose programs end.

| Run | Instance | Asks | Distinct |
|---|---|---|---|
| `supervisor_serial` | 2 groups, 2 pids each, 1 invoker, 2 nudges, reboots | `AtMostOneAgent`, `AgentsRecorded`, and that every step is one `OneAgent` allows | 1 169 786 |
| `supervisor_racing` | 1 group, the timer in its unit and an operator, 1 nudge; overlaps, crashes, stop, the stop button, full disk, a cleaner | `TypeOK`, `NudgesCapped`, `OnlyStraysEscape`: a second or an unrecorded agent comes only of two passes at one group, a stop or a fault | 1 323 386 |
| `supervisor_recovers` | 2 groups, the timer's guard alone, in its unit, 1 nudge | violation of `GuardStopsNoSession` | |
| `supervisor_overlap` | 1 group, timer and dashboard | violation of `AtMostOneAgent` | |
| `payment_ingress` | a PayPal event sent twice, a Coinbase event on which the adapter raises, an oversized one | told 200 is stored, refused left no row, every step is one `Intake` allows, every transmission answered if no sender stalls for ever | 269 940 |
| `coordinator_watch` | 2 groups, 2 events each, heartbeat every 2 passes, one note lost in a row, kills, cut writes | `NoRepost`, `NeverSilent` | 8 032 852 |
| `coordinator_tells` | 1 group, no kills | violation of `BlockedIsTold` | |
| `bridge` | 3 notifications with ids from 9 to 11, pages of 2, one crash, deletion, renumbering | `RepliesBounded`, `MentionsAsked` | 579 192 |
| `bridge_history` | 2 posts, one deleted | violation of `HistoryIgnored` | |
| `chat_relay` | 3 messages, 2 clients, 2 connections, 1 per minute, 2 minutes, a table of 1, one restart | `RateBounded`, `LimitEarned`, `MisreadsPaidFor`, `EveryMessageAnswered` | 441 167 |
| `jobs` | each job over its own instance (below) | twenty invariants, one or two for each job | 1 608 200 |
| `decision_stands` | 2 items, 3 typed texts, 3 posts | violation of `DecisionStands` | |

What the `jobs` run asks of each program:

| Module | Properties |
|---|---|
| `AptHistory` | `DatesEarned`: an install date is that of the earliest install the files hold, with no removal among them; a package that is gone has none while every file is readable, and one that is there is called gone only while they hold a removal |
| `UpstreamCache` | `CacheEarned`: a released digest is fresh, an unresolved one has a cause, and where neither failure nor cache interferes a pin within `AO_HUB_PAGES` has its version |
| `UpdatePlan` | `EligibleEarned`: the publisher answered with something else than is on record and no rule is against it, and what is not behind has one of three causes; `PlanStands`: the validator takes what the generator writes, and the steps told are of a reviewed plan |
| `UpdateReports` | `AdviceMeasured`: advice claims what was measured, but for a unit not compared, which is told of as one without a stable channel; `FindingsEarned`: exit 0 has compared every image that is pinned, and a file's status rests on a release that was read |
| `StoreSnapshots` | `CopiesMatchPage`: a copy is of a store the page calls integrated, or an old one of a store read by stat only, absent or not copied for an error; `StatusTrue`: a status was so at some time of its pass, absent also of a file without a readable header |
| `FleetFacts` | `TablesAgree`: counts and attachments agree with the container table, a socket is credited only to a listed container that publishes its number, and a clean pass denies none its own |
| `DbSecurity` | `ScrapeTold`: every target that failed shows as such, a `quick_check` that failed in a label only, and the file is one Prometheus takes but for a target that broke off midway |
| `Topology` | `ClaimsMeasured`: a verdict was so at some time or its command failed; `PageOfOnePass` |
| `Dashboard` | `NothingTypedLost`: saved answers stay while posts do not overlap; a reload drops no text that no post carried, unless it was typed while a post was under way whose answer marked it saved |
| `Progress` | `PlotReconciles`: each point counts each item once, and every hour with a whole record is plotted |
| `ModelLedger` | `DivertedEarned`: a group moves only to a model that passed, be it an earlier task, and not to one that failed since, unless that verdict is being saved, was cut, or was found beside another run; `OneCopyReadable` |
| `Acquisition` | `RunsTraced`: a whole report for every run that ended, unless another began in its second beside it; a line of the audit for every report, cut ones too |
| `Fabrication` | `OutcomeEarned`: clean means every machine was recorded or gave no answer; failed means one answered |
| `Reconciliation` | `ApprovalHolds`: the row and the audit tell of one approval and its money |
| `Proposals` | `RegisterAccounts`: a register with both headings has every row it had, but for completed rows that a cut write left out, and tells a file twice only when the first pass could not note it |

What the violations show:

- `supervisor_recovers`. The timer's guard runs in a `Type=oneshot` unit, and the agents a pass
  revives are in its cgroup: systemd kills them when the pass ends, against "never stop a live
  session" in `coordinator-watch.sh`. The guard alone, with nothing failing, keeps no group at
  work.
- `supervisor_overlap`. `cmd_guard` acts on a snapshot it took earlier and nothing
  excludes a second pass, which the dashboard and the timer both start: two agents in
  one worktree, against `supervise.py:563-565`.
- `coordinator_tells`. The first of two scans marks a group as reported; the second,
  whose output is the note, then has nothing to say about it.
- `bridge_history`. The newest notification being older than the cursor is taken for a
  renumbered table; a deleted post looks the same, and a historical mention is answered.
- `decision_stands`. The browser sends every field that is not blank, also those the page was
  rendered with. A page rendered before the last save and loaded after it holds the older
  answer, and saving another item from it writes the older over the newer: no two posts overlap.

### Seen while modelling, without a run

Where the model follows the code and the code departs from what one would expect. Each was seen
in the source, and the properties above are stated so that they hold beside it.

- Supervisor: a nudges file cut by a full disk makes every later nudge of its group raise
  (`supervise.py:428`). Payment: one sender that stalls holds up every provider
  (`ao-payment-relay.py:72`). Coordinator: a heartbeat is stamped whether or not its note was
  posted (`coordinator-watch.sh:144-146`).
- Chat relay: a refusal sent before its body is read leaves the body on a connection that stays
  open (`chat-relay.py:400-404`), where it may be read as a request of its own. Bridge: the
  string maximum of the first cursor (`:230`) answers historical mentions too; the run that
  shows them answered has a deletion.
- Reconciliation: a reference recorded again keeps the order and the provider of the first time
  (`ao-payment-reconcile.sh:79-84`); its approver never approved them.
- apt history: files are read in the order of their names (`apt_history.py:69`), so that dates
  told as removed, purged or upgraded may be an older file's; a removal sticks, and an install
  after it starts no fresh record (`:182-209`, against the comment at `:200-202`), so that a
  package that is there may be called gone.
- Update plan: "NO" is any difference (`render.py:110-121`), so that a tag or channel that moved
  back is offered, a blank installed version compares like one that was read, and an inventory
  older than the upgrade offers what is there.
- Drift and advice: a failed `apt list` or `snap refresh` reads as no drift with exit 0
  (`drift-report.py:147-152`, `:292`, `:504-514`); "NOT CHECKED", "NOT PINNED" and "NO Image=
  LINE" are advised as "No declared stable channel" (`recommend.py:199-211`, against
  `:132-133`); an executable of unknown version is "BEHIND" and its presence is not looked at
  (`track-unmanaged.py:189-217`).
- Software status: a row whose source was blank is compared like one that was read
  (`render.py:110-121`); the count of released hashes is made over the pinned ones
  (`refresh-install-log.sh:74-75`, column 10 for 11); the hub memo keeps a truncated list;
  Debian revisions are stripped; a raw launcher that vanished is "yes"; apt's "(none)" is
  compared as a version; an installed version newer than the offered one is behind; candidates
  compare differently in `collector.py:497-499` and `render.py:334-338`.
- Acquisition: a report is truncated and then written (`ao-build-update.py:274`), so that a
  death leaves a cut one; `--sync` records installed and promoted as true and does neither; an
  unqualified reference ends the run before the audit; a free report name is looked for before
  it is taken.
- Health collector: a failing `podman inspect` drops every attachment and owner, so that
  failed questions look like an empty host; metrics are of the first look at a store, its row of the
  second; copies of a store read by stat only are never removed
  (`collect-system-health.py:928-933`) and a failed vacuum leaves the old copy served; a file
  with a bad or unreadable header is "absent" (`:684`, `:806-813`, against the texts of
  `:649-654`); a `no_snapshot` store that could not be read is "excluded"; sockets are matched
  by port number alone (`:423-427`, `:539`), so that one of the host, or of another container,
  is credited to whoever publishes that number.
- Dashboard: text typed while a post is under way is marked as saved by the answer to that post
  (`render-dashboard.py:505-513`), and the next reload drops it, against `:492-493` ("It never
  silently loses text"); overlapping posts lose answers and can leave a half-written file,
  against `dashboard-writer.py:188`; a closed item is still listed, prefilled with the answer of
  the item before it (`render-dashboard.py:263-264`, `:292`); rendering raises while the first
  unsettled item is closed; a page without questions has no auto-reload and no stop button;
  clearing a field and saving keeps the stored answer.
- Ledger: a model rechecked to ERROR or TIMEOUT is no longer dry and no recheck looks at it
  again (`probe-freemium.py:287`); a PASS of an older task is accepted (`supervise.py:211-218`,
  against `probe-freemium.py:20-27`, `:35`); a model that deletes the test file raises at `:208`
  and ends the run, and every later one that comes to that model, where the docstring says it
  "gets FAIL"; a run that overlaps another writes its older ledger over the newer verdicts;
  "429" anywhere is dry.
- Database security: a series can appear twice in a file for a target that fails midway
  (`collect-db-security.py:186-188`); `integrity_ok` is always 1; a `quick_check` that fails
  shows in the label of a series beside `scrape_error` 0 (`:254-260`), and that label is not
  escaped.
- Proposals: a register cut among its completed rows looks whole, and the next pass works on
  what is left of it, against "Never drops a row that has no proposal"
  (`compile-proposals.py:12`, `:140`); a death between the two saves, or a session that rewrites
  its file while they are made, has the next pass tell the same file again
  (`compile-proposals.py:140-142`); closing an issue drops what its open row had been told; a
  file whose action has no loop is noted as applied and told nowhere.
- Fabrication: a machine that is reached and breaks the connection is counted as off
  (`ao-fabrication-collect.py:71-79`, against `:61-66`, "reachable but unusable is a real
  failure"); an exception that is not caught ends the pass for the other machines (`:257`).
- Progress: an append cut short takes the next record with it; an item malformed in one section with
  a good row in the other is counted without a word.
- Topology: a failed `podman ps`, `ss` or `inspect` is told as "match", a failed `network ls` as
  drift of the count; stopped containers are called running; when `dot` fails the older page
  stays while the journal says OK. The test for bracketed loopback listeners (`[::1]`, `:433-450`)
  is left out of the model.

### Bounds, and why they are enough

- Two invokers suffice for a race between passes: every interference in
  `supervise.py` is between one reader and one writer of a group's files. Two groups show
  that treating one neither skips nor disturbs another. Two pids are an old and a new
  agent; the overlap run has three.
- `MaxNudges` of 1 or 2 reaches the limit, and in the serial run one more than the first
  nudge. The proofs cover every other value.
- In the ingress a second transmission is the first repetition; a third meets the same states as
  the second. The event sent twice is refused with 401 when it is old, the raising one with 503
  or 401, the oversized one with 400 or a reset; the adapter's 400, 404 and 501 are not reached:
  `RefusedLeavesNoRow` covers them in its proof only.
- Two events per group in the watch are one that is reported and one that advances past
  it; a period of 2 has a pass with and one without a heartbeat; one lost note in a row shows
  what a lost one costs, and the proof has any number.
- Three notifications over pages of two are the smallest table with a notification pushed off the
  page; ids run from 9 to 11 since that is where string and numeric order part.
- In the chat relay `PerMinute` is 1, so that two messages of one client meet the limit;
  the table's bound is 1, so that two clients overflow it; two minutes have one boundary.
- `AptHistory`: two architectures are a first and an alternative spelling; three transactions
  are an install, an upgrade and a removal; two files are a current and a rotated one.
  `AptRuns`: the second architecture is not installed at first.
- `UpstreamCache`: two units share a repository's pages; three versions over two pages have one
  that is on neither; a TTL of 2 in 3 hours lets an entry expire. `CacheRuns`: the first unit
  pins the newest version or none, the second any.
- `UpdatePlan`, `UpdateReports`: one row of each kind; two plans are the reviewed one and its
  replacement; two versions are one behind and one level or, after a withdrawal, ahead; the
  hosts of `MCWorlds` have one thing of interest each, since no rule looks at two.
- `StoreSnapshots`, `FleetFacts`, `Topology`: two stores, two containers, one to two moves of the
  world during a pass and two passes: an answer before and one after a change, in one
  pass and in the next. `StoreRuns` fixes the second store to a good one,
  `FleetRuns` gives a process of the host one of the two ports at first, and `TopoRuns` begins
  with the network there, and with the retired container and the exposed socket or without both.
- `DbSecurity`: two PostgreSQL targets of two queries and a SQLite one, so that a target may fail
  before, between and after its queries, and beside one that does not.
- `Dashboard`: two items, two texts, two posts: an item that is saved and one that is carried along.
  `Progress`: two items in two sections, two records, two hours; `ProgressRuns` has the first
  item open at first.
- `ModelLedger`: two runs of two probes over two models, one reboot; in `LedgerRuns` the second
  model and no other has a PASS of an earlier task. `Acquisition`: two runs within two seconds,
  one of them with `--fetch` (`AcquireRuns`). `Fabrication`: two machines, the daemon beside a run
  by hand, two seconds.
- `Reconciliation`: two runs over two references, two sales and two amounts.
- `Proposals`: two files and two issues, one with an open row and one with a completed row, one
  rewrite and two passes: a file told, changed or not, and told again or passed over, beside one
  that is not.

### Fairness, and why the code justifies it

- Supervisor: none. `supervisor_recovers` refutes an action property: no liveness is claimed of
  the team, since as deployed the agents end with the pass that started them.
- Ingress: the relay's socket timeout ends a wait for the adapter (weak), and the accept
  queue is first in, first out (strong: others are served before). Nothing is assumed of a sender,
  the adapter or the database; `EveryTransmissionAnswered` has the premise that no sender stalls for
  ever, since the code has no timeout against one that does.
- Coordinator: the timer fires and a pass that is not killed ends.
- Bridge: `Restart=always`, and every call has a timeout, so the bridge as a whole goes on.
- Chat relay: each thread goes on; the lock is held for a look at the table and a call to
  the gateway ends after `UPSTREAM_TIMEOUT_S`. A message is taken to arrive whole.
- Jobs: none. Their properties are safety; a job may be killed or not started again.

## Proofs

All proofs are for every value of the constants, under the `ASSUME` of the module
(finite sets where something is counted, bounds in `Nat`, `None` distinct from the rest).
Every one goes `Init => Inv`, `Inv /\ [Next]_vars => Inv'`, `Inv => Property`.

| Theorem | States | Inductive invariant |
|---|---|---|
| `SupervisorProofs!TypeCorrect` | `[]TypeOK` | `TypeInv`: `TypeOK` and `PassShape` (a pass inside a group has that group and that process) |
| `CapHolds` | `[]NudgesCapped`, however passes overlap, crash or stop | `TypeInv` and the cap; the property already bounds the count in hand, without which the file's bound is not inductive |
| `OthersAreKept` | `HSpec => []OnlyStraysEscape`, however passes overlap, die, stop or fill the disk | `Orderly`: in a group no two passes have treated at once, one pass at most treats it, every agent but the strays is recorded, and that pass has it in hand or has seen there is none (`Tidy`) |
| `OneAgentPerWorktree`, `NoAgentUnrecorded` | one invoker and no `stop`: one agent per worktree, every live agent recorded | adds `LaunchAlone`: a group about to get an agent has none, and a launched one is alone until recorded |
| `SupervisorImplements` | one invoker and no `stop`: `QuietSpec => OneAgentPromise` | adds `BudgetFresh`: the count read is still the one on disk until the nudge is spent, and is spent by the launch |
| `PaymentProofs!AcceptedMeansStored`, `RefusedMeansNoRow`, `RowsAreVerified` | what a provider is told is true of the rows | `IngressInv`: a transmission is in one place at a time (`OnePlace`) and the adapter works on a verified, whole one (`AdapterSound`) |
| `PaymentProofs!IngressKeepsPromise` | `Spec => IntakePromise` | `IngressInv` and `Unheard`: until a provider hears of a transmission the relay has it or nobody will answer it, and what the adapter is about to insert is not there yet |
| `CoordinatorProofs!AlertsAreNews` | no group is named twice for one event, but once more after a cut write of the state file | `ScanInv`: told <= seen <= draft <= last while a scan runs, for the groups no cut write has wiped out (`forgot`) |
| `WatchIsNeverSilent` | `[]NeverSilent`: silent for one period, and one more for each lost note, wherever passes are killed or a stamp is cut | `QuietInv`: until the heartbeat is due, the passes since the last note number no more than those counted towards it and a period for each lost note (`Allowed`), and a pass that runs has counted itself already |
| `BridgeProofs!RepliesAreBounded` | a notification gets one reply, and one more for each deletion or renumbering | `BridgeInv`: `TableShape` (a notification is made once, by an id given out; a renumbering moves it backwards only) and `ReplyBudget`: the replies given, plus those that can still come of the page in hand and of either cursor, are within the bound |
| `ChatRelayProofs!RateHolds`, `LimitIsEarned` | the limit holds up to the slack; a refusal is earned by the client's own messages | `RelayInv`: an entry counts no more than its client got through, and no less but for the slack (`TableSound`) |
| `ChatRelayProofs!MisreadsArePaidFor` | `[]MisreadsPaidFor`: each body left unread spoils one message or makes one request that nobody sent, and replies are out of step behind such a request only | `InFlight`: a message in a connection's hands is in one place and its body is read; `BodyDebt`: the messages spent on a body, and the bodies still lying on a connection, number no more than those left unread |
| `CollectorProofs!TablesAlwaysAgree` | `[]TablesAgree` | `FleetInv`: questions are asked in order, a pass called clean has seen everything (`CleanSeesAll`), the map from port numbers to owners is of listed containers that publish them (`MapSound`), and the tables in hand and written agree |
| `CollectorProofs!ClaimsAreMeasured`, `PagesAreOfOnePass` | `[]ClaimsMeasured`, `[]PageOfOnePass` | `TopoInv`: the hosts met in a pass reach up to now, each answer in hand was so of one of them or its command is among the deaf ones, and the picture and the tables in hand are of the pass |
| `CollectorProofs!CopiesAlwaysMatch`, `StatusIsTrue` | `[]CopiesMatchPage`, `[]StatusTrue` | `StoreInv`: versions only grow and the pass knows the file of now (`PassKnows`), what holds before the copy (`BeforeCopy`) and of the copies and rows so far (`CopiesSound`, `RowsSound`) |
| `CollectorProofs!EligibleIsEarned`, `PlansAlwaysStand` | `[]EligibleEarned`, `[]PlanStands` | `PlanInv`: every plan that is in the file, in hand or reviewed passes the validator, the one in the file was earned by the row it was made of (`PlansSound`), and a checked plan is a reviewed one (`RunSound`) |
| `CollectorProofs!AdviceIsMeasured`, `FindingsAreEarned` | `[]AdviceMeasured`, `[]FindingsEarned` | `ReportInv`: a report's verdict holds what the advice on it will claim, an exit of 0 the digest it rests on (`Measured`), an inventory the pockets it read (`Attributed`), and advice carries the files it was given for |
| `OperatorProofs!RunsAreTraced` | `[]RunsTraced` | `AcquireInv`: two runs at work that began in one second are both shared (`BesideShared`); a run is in the audit before it chooses its name; a name about to be written holds nothing or a shared run's report, and a cut report is of a run that is writing, died or is shared (`ReportsSound`); a free name exists since there are more names than runs (pigeonhole) |
| `OperatorProofs!DiversionIsEarned`, `CopyStaysReadable` | `[]DivertedEarned`, `[]OneCopyReadable` | `LedgerInv`: every PASS in memory or in a copy was earned, now or of an earlier task (`LedgersEarned`); while saves are whole, one that was refuted since is not kept but for a verdict found beside another run (`VerdictsKept`); and while runs keep apart a copy is torn only as long as it is being written, with the other readable (`SavesInTurn`) |
| `OperatorProofs!OutcomeIsEarned` | `[]OutcomeEarned` | `FabInv`: the tally counts no failure as long as every machine before the one asked is done with, and a counted failure has a machine that gave an answer; one that broke the connection gave none (`NoAnswer`) |
| `OperatorProofs!RegisterIsAccounted` | `[]RegisterAccounts` | `ProposalInv`: what the register tells is noted, counted as not noted, or of the pass that has just saved (`RegisterSound`); what a pass has in hand is told by itself or by a pass before it that noted it or is known not to have (`DraftSound`); and both keep every row but those a cut write left out |
| `PaymentProofs!ApprovalAlwaysHolds` | `[]ApprovalHolds` | `ReconInv`: a row is that of the last run to commit one but for its order (`RowOfNewest`), and a run past its commit left a row (`RunTold`) |
| `StatusProofs!DatesAreEarned` | `[]DatesEarned` | `AptInv`: a package that is gone has the stanza of its removal in no older a file than any other of its stanzas (`GoneTold`), so that rotation, which drops the oldest file, never leaves an install without the removal that followed it, in whatever order the files are read. What the parser makes of the files is a lemma (`HistoryParsed`, below) |
| `StatusProofs!CacheIsEarned` | `[]CacheEarned` | `CacheInv`: a record on disk was the newest version when it was written (`DiskSound`); the memo of a digest is as fresh as the rows told from it (`RunSound`); once a unit is read the memo of the pages reaches down to its pin (`PagesReach`) |
| `StatusProofs!ScrapeIsTold` | `[]ScrapeTold` | `SecurityInv`: the lines so far are of the targets before the one in hand and tell each one's failure, that of a `quick_check` by its label (`PassTold`), as those of the file do (`FileTold`) |
| `StatusProofs!PlotAlwaysReconciles` | `[]PlotReconciles` | `ProgressInv`: a record that parses counts its tracker's items once, and an append that came through whole is plotted, or one after it of its hour is (`Plotted`) |
| `StatusProofs!NothingTypedIsLost` | `[]NothingTypedLost` | `BoardInv`: an unsent text is in its field and differs from what was saved, so that the tab does not reload, unless the answer to another post marked it (`UnsentHeld`); a post answered before the next is sent owns the temporary file, and what it merged has every item saved (`InTurn`) |

`OneAgentPerWorktree`, `NoAgentUnrecorded` and `SupervisorImplements` take `OneInvoker` as a
hypothesis. None holds without it: `supervisor_overlap` shows two agents in one worktree, so the
refinement and the record fail with it. What is left of them when passes overlap, die and stop
the team is `OthersAreKept`, which takes no such hypothesis.

Recursion. The parser of `AptHistory` is two recursive functions over files and stanzas, and
what it computes for every number of them needs an induction; the library's rules take an
operator as a parameter, which no installed prover can instantiate. The proofs go around them
with the well-ordering of the naturals (`LeastNatural`): of the lengths for which no function
satisfies the equation there is no least one (`RotatedUpToIs`, `IndexAfterIs`), and of the
stanzas up to which the index is wrong there is no first one (`AllIndexed`).

Only model-checked: the three liveness properties (`EveryTransmissionAnswered`, `MentionsAsked`,
`EveryMessageAnswered`), since fairness and `ENABLED` are out of the prover's reach. The other
35 properties of the passing runs are theorems. The types of the variables are part of each
inductive invariant.

## What is left

1. Compositions: the coordinator's pass with the supervisor's guard, so that killing the one
   between two groups of the other is one behaviour; the supervisor with a lock around a pass,
   as the smallest change under which `OneInvoker` need not be assumed.
2. The collectors' layout: diagrams, Markdown, HTML, PDF and Grafana dashboards, where no
   property is about it.
