# claudecatraz, in TLA+

claudecatraz lets a coding agent work in a locked-down container.  The only way
from that container to a git forge is the **Warden**, a reverse proxy that holds
the forge's tokens and decides, request by request, what the agent may do.  The
`catraz` command line tool sets the stack up, edits its configuration and starts
what it has checked.  This directory holds a TLA+ model of both, the TLC runs that
check it and theorems about it checked by TLAPS.

* [Inventory](#inventory): the system's parts and what makes each correct
* [Modules](#modules): how state and actions correspond to the code
* [Runs](#runs): what each run checks, its bounds, the fairness it assumes
* [Where code and documentation disagree](#where-code-and-documentation-disagree)
* [Proofs](#proofs)
* [What is not modelled](#what-is-not-modelled) and the [plan](#plan)

Run a check with `tlc -config X.cfg M.tla`, where `PROJECT.json` names the
module `M` of each configuration, and a proof with `tlapm M.tla`, where `M` is
`WardenProofs`, `WardenSteps`, `LedgerProofs`, `PagingProofs`, `PktLineProofs`,
`LifecycleProofs`, `StackProofs` or `OperatorProofs`.

## Inventory

Paths are relative to `src/`; the Warden's package is `warden/warden/`, the
command line tool's `src/catraz/`.

### The Warden

| Part | State | Operations | What makes it correct |
|---|---|---|---|
| Kernel (`core/guard.py`, `recognizer.py`, `model.py`) | one pipeline per request: intent, quota snapshot, decision | parse, snapshot, gates, enrich, decide, record, forward or deny, audit | the order holds on every path; nothing is forwarded that a gate would deny |
| Configuration (`core/config.py`, `config_load.py`, `guards/git/endpoints.py`) | immutable after start | host, project and namespace tests, access mode, cascades | default deny; a host's settings never leak to another host |
| Quota store (`core/state.py`, `guards/git/*/state.py`) | SQLite: `writes`, `agent_branches`, `agent_mrs`, `meta` | `record_write`, `add_branch`, `replace_*`, `prune`, `mark_reconciled`, counts | no write is lost from its window; counters follow the forge; rows belong to one host and project |
| Git guard (`guards/git/transport/`) | its lock and branch table | smart-HTTP discovery, fetch, push; reconcile | a push is judged whole, recorded whole, then streamed |
| REST guard (`guards/git/gitlab/`) | its lock, MR table, numeric-id aliases, namespace cache | catalog of 33 rows; MR lookup; reconcile | an MR write concerns the agent's branches only; ids stand for projects of one host |
| Transport (`core/transport.py`) | one HTTP client, one upstream per open host | REST and git calls, pagination, the reconcile loop | read token for reads, write token only after a decision; one failing project does not stop the others |
| Audit log (`core/audit.py`) | unbounded in-memory queue, one writer task | `log`, `stop` | one event per request, in order, none lost at an orderly stop |
| Life cycle (`__main__.py`, `context.py`) | reconcile task, two servers | reconcile before the port opens, periodic reconcile, shutdown | an unreconciled guard denies; a failing guard does not lock the other |
| pkt-line parser (`guards/git/transport/pktline.py`) | the buffered head of one stream | `read_until_flush`, `parse_commands` | every byte forwarded once; the commands judged are the commands sent |

How they interact: the client's HTTP request enters `Guard.handle`, which both
guards inherit.  The guards share the SQLite connection, the HTTP client and the
audit log, but each has its own reconcile lock.  The reconcile task runs beside
the handlers in the same event loop and rewrites the tables the handlers read.
The forge is changed by what the Warden forwards and by people.

What is hard here:

* **Suspension.**  Handlers suspend while a body is read, while the REST guard
  looks up a merge request, and while the forge answers; reconcile suspends for
  every listing.  What was read before is used after.
* **Commits.**  Each row is a commit; a crash may fall between two of them.
* **Unknown outcomes.**  A forwarded write may be executed though the Warden saw
  an error or died.
* **Persistence of half the state.**  The tables and the unlocked mark survive a
  restart, the aliases and the cache do not.
* **Partial failure.**  One project of one host may fail for ever.

### The command line tool and the containers

| Part | State | Operations | What makes it correct |
|---|---|---|---|
| Asset cache (`paths.py`) | a versioned directory with a marker | extract, invalidate by signature | what is trusted was extracted completely |
| Compose (`compose.py`) | `.catraz/compose.resolved.yml`, host fragment | render, check invariants, run | what runs is what was checked |
| Stack, run, reload (`commands/`) | running services | up, down, one-off and remote runs, reload of stale services | a changed configuration is not left running |
| Setup and credentials (`commands/setup/`, `auth.py`, `envfile.py`) | files under `.catraz/` | wizard, copy of credentials | what init writes the Warden can read and grants what was meant |
| Policy, doctor, images (`policy.py`, `doctor.py`, `image.py`) | none of their own | edits of `warden.toml`, diagnostics | an edit keeps the rest of the file; the report is what the Warden enforces |
| Egress allowlist, proxy (`egress_allowlist.py`, `forward-proxy/`) | a generated list | merge, validate | only listed domains |
| Container bootstrap (`assets/container/`, `assets/agents/`) | the agent's home | write git routing and agent settings | a fresh container is configured or does not start |

The tool and the Warden meet in files: `warden.toml`, the two token files and
`.env`.  The tool edits them with line patterns and reads them with lenient readers
of its own; the Warden reads them once, at start, with TOML and strict rules; docker
compose renders `.env` into what it starts.  The tool's commands are short-lived
processes that share the asset cache, the rendered compose file and the containers,
and nothing but the operator's patience keeps two of them apart.

What is hard here:

* **Three readers of one file.**  What a pattern takes for a table's end, TOML and
  the doctor may not.
* **Two terminals.**  A command's check and its use of what it checked are separate
  docker calls.
* **Kills.**  Each command may stop between any two of its steps and leave a half
  extracted cache or half recreated services.
* **Time stamps.**  Reload compares file times with container starts, while files
  are read at other moments.

## Modules

```
WardenConfig              requests, endpoints, the kernel's gates
  GitPolicy               recognizer and decision of the git guard
  RestPolicy              recognizer and decision of the REST guard
    Warden                the process, the store, the forge: the state machine
      WardenProperties      what is promised    --implements-->  WriteLedger
        MCWarden            finite deployments for TLC
        WardenProofs        the inductive invariant and what follows from it
          WardenSteps         what no step does
            LedgerProofs        the refinement

AuditLog                  queue, writer task and file
  Lifecycle               start, servers, handlers, reconcile, teardown, crash
    LifecycleProofs         the order of the teardown
Paging                    one listing, page by page, against a changing forge
  PagingProofs              what slips between pages
PktLine                   the body of a push in chunks, the Warden's parser and the forge's
  MCPktLine                 bodies put together from pieces
  PktLineProofs             the two parsers agree

WardenToml                the files, TOML's and the Warden's reading of them
  PolicyEdit              the editors
    Doctor                the diagnosing reader
      Operator            init, the wizard, allow
        MCOperator          files and answers
        OperatorProofs      the files through every edit, the readers' agreement
Stack                     run, reload and down over cache, rendering and containers
  MCStack                 symmetry of the terminals
  StackProofs             the cache, reload and the check of the invariants
```

In every module the operators marked *Fault* are defects someone could introduce: a
dropped normalisation, a moved comparison, a lost condition.  Nothing uses them; each
is there to be put in place of the operator it precedes, and a property then fails.

### The Warden's requests and counters

**WardenConfig** is `core/config.py` and the gates of `core/guard.py`.  An
endpoint is a record with its cascades resolved.  Host headers are mapped to
normalised hosts by a constant function; code that forgets to normalise would use
the header itself.  A project name is its bare name and two flags, a surrounding
slash and a `.git` suffix, because the code strips them in different places:
`normalize_project` both, the allowlist comparison slashes only, reconcile's keys
none.  A request record has the fields of both guards' intents; bodies, headers
and URLs are reduced to what is decided on: the catalog row, the state event or
search scope, the branch field, the iid, the ref commands.

**GitPolicy** and **RestPolicy** are pure operators: `RefCommandAction`,
`CheckRef` and `PushAllowed` for pushes, with the quota a push spends within
itself; `RestActions`, `BranchNamespaceCheck`, `QuotaCheck` for REST.

**Warden** is the state machine.  The Warden is one asyncio loop, so a section of
code between two suspending awaits is one action:

| Action | Code |
|---|---|
| `Arrive`, `ParseRaises` | routes; `parse`, which may raise |
| `Gate` | `handle` from the snapshot on: `state_view`, recognition, `kernel_gates`, and, without a lookup or with a cached answer, `decide` |
| `LookedUp`, `LookupRaises` | `enrich` resumes with the forge's answer or an exception; `decide` with the **old** snapshot |
| `RecordRow`, `AddBranch` | one commit of `record` each |
| `Send` | `forward` hands the request to the forge |
| `Reply`, `ForwardRaises` | the answer is relayed and logged, or an exception leaves the handler |
| `Apply`, `Refuse`, `ForgeCleanup` | the forge: at any time after the send, also after the Warden gave up; people |
| `TakeListing`, `InstallListing`, `ListFails` | one project of `for_each_host_project`: the forge's answer, its installation, an exception |
| `EndPass` | `reconcile` of a guard returns: latch, aliases, the next guard's turn, the port opens after the first pass of both |
| `Wake` | the periodic task: `prune`, then `reconcile_all` |
| `Crash`, `Restart`, `Tick` | the process and the clock |

`record` commits once per row and `reconcile` continues without an await from the
last project to `mark_reconciled`.  A crash can fall there, other tasks cannot run:
the variable `loop` names the task that holds the event loop in between.

State: `writes`, `branches`, `mrs` and `latch` are the tables and survive `Crash`;
`req`, `recon`, `aliases` and `nsCache` are memory and do not.  `latch` is the set
of guards with a row in `meta`.  An entry of the namespace cache may have expired
whenever it is looked at, so `Gate` may use it or not.  `refs` and `openMrs` are
the forge's branches and merge requests in the agent's namespace, `calls` the
writes it was sent.  A row carries an `id` (its primary key) so that two writes in
the same tick are two rows.

**Abstractions worth knowing**

* The clock is monotone; `time.time` is not when the host's clock is set back.
* Listings are atomic at the forge, which is exact for up to 100 items (one page);
  `Paging` is about longer ones.  The source branch of a merge request does not
  change.
* A listing lists the namespace's branches only, so the forge's set holds only
  those.
* A merge request gets an iid of `OwnIid` when its source is in the namespace,
  which is the only source `mr.create` admits.
* A git request that is neither push discovery nor a push is one value.

**WriteLedger** is the abstract specification of the store's `writes` table: entries
are charged to an account, a write to the forge is paid with entries of one account
that were charged before and that pay for nothing else, and an entry leaves only by
age.  `WardenProperties!Ledger` maps it onto `Warden`: the accounts are hosts, the
entries the rows of `writes`, the payments the row sets of the writes sent.
`RecordRow` is `Charge`, `Send` is `Spend`, the prune of `Wake` is `Expire`, `Tick`
is `Tick`, and every other action, of both guards, reconcile, crash and restart,
stutters.  The guards share one table, and nothing in the code says that a row
belongs to one write; the ledger is that statement.

### Listings, streams and the process

**Paging** refines one listing of `Warden`.  `get_paginated` asks for page after
page by number while items are created and deleted, so an item can slip to a page
already read or be listed twice.  `FetchPage` is one turn of its loop, `FetchFails`
`raise_for_status` or the connection, `Install` the `DELETE` and the
`INSERT OR REPLACE`s of `replace_branches`, which is one transaction.

**PktLine** starts where `Warden` already has ref commands: from the bytes.  A body
is a sequence of units, where a length has `Prefix` digits to base `Base` (4 and 16
in the code, 2 and 4 in the run).  `Receive` is a chunk in `read_until_flush`'s loop
with `_find_command_end` over everything buffered, `Parse` is `parse_commands` over
the head, after `_maybe_gunzip`, `SendHead` and `Relay` are the three parts of the
forwarded stream.  `ForgeCommands` is git's own reader, external.

**AuditLog** and **Lifecycle** are the process around the pipeline: `_serve`,
`_run_servers`, `AppContext.aclose`.  A handler is reduced to what it uses: the
database at its gates, the client when it forwards, the log at its end.  `Teardown`,
`CloseRouter`, `StopAudit`, `CloseState` are the steps of the teardown between its
awaits; `Write` has the three outcomes of `os.write`, whole, short and failed.

### The operator's files

A text is a sequence of lines, each a header or a key with the set of strings that
is its value.  A line is `bare` when it is spelled as the tool's patterns expect; a
comment behind a header or a quoted key makes it not bare, which TOML does not
notice.  **WardenToml** reads a text twice: `WellFormed` and `Value` are TOML,
`GitParses`, `Validate`, `TokensParse` are `config_load.py`, and `Enforced` is what
the loaded `Config` then grants, by the cascades of `config.py`.  **PolicyEdit** are
the editors of `policy.py` and `_secrets.py`, which work on lines: `BlockEnd` is the
next header that the pattern matches, whatever TOML thinks.  **Doctor** is the third
reader.  **Operator** puts them together: `InitYes`, `InitInteractive` and one
action per prompt of the wizard, `AllowCommand` at any moment between two prompts,
`Quit` at any of them.

### The stack

**Stack** has one action per docker call or file operation.  `asset_root`, which
precedes every docker call, is `BeginExtract`, one `Copy` per piece, `Mark`, and
`HasAssets` when it has returned.  `Render` and `Write` are `generate_resolved`,
`Check` is `assert_invariants`, `EnsureInfra`, `Start` and `RunAgent` are `run`,
`List`, `Decide` and `Up` are `reload`.  `Kill` ends a command anywhere.  Containers
read their own file some time after they are created (`Load`) and may be restarted
by docker (`Restart`).  The clock counts edits: it is the smallest clock in which
"edited before" and "started after" can be told apart.

## Runs

Deadlock is checked where the system cannot stop (`pagination`).  Elsewhere the model
stops when its bounds are used up: the clock, the write log, the commands, the
restarts, or one push that is over.

| Run | Module | Properties | Deployment |
|---|---|---|---|
| `push_accounting` | `MCWarden` | `TypeOK`, `RecordedBeforeForwarded`, `PushWithinLimits`, `KeepsLedger` | one host, one branch and two writes allowed, two requests in flight, pushes of one and two commands |
| `rates` | `MCWarden` | `RecordedBeforeForwarded`, `RateOvershootBounded`, `LockedNeverSpends`, `RateForgetsOnlyByTime` | one write an hour allowed, two merge request notes race, the clock runs over the window twice |
| `confinement` | `MCWarden` | `Confined` | a full, a read-only, a closed and an unknown host; one request of every kind with every spelling |
| `reconcile` | `MCWarden` | `UnlockMeansComplete`, `ReconcileTouchesOneProject`, `GuardUnlocks`, `CountersConverge` | two hosts with the same project path |
| `audit_log` | `Lifecycle` | `TypeOK`, `NothingElseLost`, `StopDrains`, `ClosedDatabaseUnused`, `StopEnds` | two handlers, three events, two runs of the process |
| `command_section` | `MCPktLine` | `TypeOK`, `ForwardedOnce`, `ExecutedWasJudged`, `ChunksDoNotMatter` | bodies of up to two lines, good and broken, four ends and four payloads, zipped or not |
| `pagination` | `Paging` | `TypeOK`, `UndercountBounded`, `NeverOvercounts`, `CounterTrueInTheEnd` | five items, two to a page, three changes during a listing |
| `operator` | `MCOperator` | `TypeOK`, `EnforcedIsValid`, `DoctorAgrees`, `EditStaysInHost`, `TokenFilesStayReadable`, `TemplateStaysLoadable` | nineteen sets of files, two hosts, one in two spellings, two commands |
| `stack` | `MCStack` | `TypeOK`, `TrustedIsComplete`, `EditsNoticed`, `AgentChecked`, `ReloadApplies` | two terminals, two commands, one edit, both kinds of installation |
| `branch_race`, `plain_endpoint` | `MCWarden` | see [below](#where-code-and-documentation-disagree) | one host; a plain endpoint beside a GitLab one |
| `edit_spills` | `MCOperator` | see [below](#where-code-and-documentation-disagree) | one file with a comment behind a header |

What they show of the Warden:

* `RecordedBeforeForwarded`: every write sent to the forge has one row per ref
  command, in order, and keeps it for its hour, whatever crashes, prunes or
  reconciles come between.  With `prune` at the window's edge moved by one
  comparison, it fails.
* `KeepsLedger`: moreover the rows of one write pay for no other, and the whole store
  behaves as `WriteLedger`.
* `RateForgetsOnlyByTime`: between two ticks the window of a host never loses a
  row.
* `PushWithinLimits`: a push has no await between snapshot and last row, so when
  it is handed to `forward` its own commands are counted and neither ceiling is
  exceeded, even beside concurrent requests.
* `RateOvershootBounded`: REST requests do have that await, so the hourly ceiling
  can be exceeded, by at most one write per other request in flight.
* `Confined`: whatever is relayed with a token is for an open host (writable if
  the token is the write token, as for push discovery), an allowed project (by
  path or by an id of the same host) and enabled, reversible actions; every name a
  write gives is in the agent's namespace, and a push changes no tag and deletes no
  branch.  The actions are those of the request as a whole: a ref command that is
  recognised as nothing, in a push with others that are recognised, is judged by its
  name only (see [below](#where-code-and-documentation-disagree)).
* `LockedNeverSpends`: nothing is sent for a guard that never reconciled.
* `UnlockMeansComplete`: the latch is set only by a pass that replaced every
  project of every open host.
* `ReconcileTouchesOneProject`: counted rows vanish only by the replacement of
  their own host and project.
* `GuardUnlocks`: a guard whose forge answers is unlocked in the end, also if the
  other guard's requests always fail and clients stall.
* `CountersConverge`: if the process stays up and agent and forge fall quiet, the
  counters become and stay equal to the forge's.
* `NothingElseLost`, `StopDrains`: an audit event is missing from the file only if
  its own write failed, the process was killed, or it was logged behind the stop's
  sentinel, which happens only when a server failed and left handlers running.
* `ClosedDatabaseUnused`, `StopEnds`: the teardown's order keeps a reconcile that can
  still write from a closed database.  The failure of one server ends the process
  whatever its clients do; a stop signal ends it if every request in flight ends, and
  not otherwise.  Neither depends on the disk.
* `ForwardedOnce`, `ExecutedWasJudged`, `ChunksDoNotMatter`: the forge gets the
  client's bytes, and executes no command the Warden has not judged, however the
  stream was cut, framed or compressed.
* `UndercountBounded`, `NeverOvercounts`, `CounterTrueInTheEnd`: what page-by-page
  listing costs: one item missed per deletion during the listing, none invented, and
  all of it made good by a listing of a quiet forge.

And of the command line tool:

* `EnforcedIsValid`: though only what each table sets is validated, every effective
  limit is valid, and an explicit empty list never inherits.
* `DoctorAgrees`: for every file the Warden accepts, the doctor's own copy of the
  cascade comes to the same actions; a report without complaints names the mode that
  is enforced for each endpoint.
* `EditStaysInHost`, `TemplateStaysLoadable`, `TokenFilesStayReadable`: an edit for
  one host leaves the other hosts' grants alone, provided no header carries a comment
  (`edit_spills`); init and allow in any order keep a file of the template's layout
  loadable; a token is replaced for its own host only, in any spelling.
* `TrustedIsComplete`: a cache whose marker matches is complete and of one version,
  whatever was killed and edited, as long as two commands did not extract side by
  side.
* `EditsNoticed`, `ReloadApplies`: reload misses no edit of a file a service reads
  itself; it misses an edit of `.env` only if that fell between the rendering and the
  start of a command, or if the container was restarted since.
* `AgentChecked`: an agent is started from the content that passed the invariants,
  as long as no other command rewrote the rendered file in between.

### Bounds

In the Warden's runs `Room` keeps the number of rows ever recorded below `MaxRows` by
admitting a request only if its rows fit; `MaxTime` stops the clock; `MaxBatch` is the
longest push.  `MaxRows` exceeds the ceilings of the deployment, so ceilings are
reached and refused; two requests are enough for every race between handlers, because
a handler's interference with another is a row or a branch more; a window of one tick
and two ticks of time put rows before, on and after the edge.  Two hosts and one
shared path are enough for collisions of keys, which concern two keys.  `confinement` has
one slot and two rows: what is relayed is decided for each request alone, and two ref
commands show every mix of a push.

`Lifecycle`: `Handler` are slots for requests in flight, `MaxLog` bounds the events
ever logged and `MaxRuns` the starts; three events put one on a torn line between two
others, two runs have an earlier run's file.  `Paging`: five items make three pages,
the last one short; `MaxChanges` of three lets items slip, come and go in one listing.
`MCPktLine`: with a prefix of two digits to base four, lengths reach from the flush
over the impossible 1 to past the end of the body.  `MCOperator`: each file differs
from the template in one thing one of the readers treats otherwise; `MaxCommands` of
two runs every command after every other, and an `allow` between any two prompts.
`MCStack`: two commands and one edit, which may fall between any two of their steps,
a killed one followed by another, or two side by side.  That is one edit only: what
two edits during the same command do is not covered.

### Fairness

`Warden`'s `FairSpec` assumes that a section holding the loop runs on, that an
upstream request is answered or times out (`httpx.Timeout(30, read=300)`), and that a
resumed task is scheduled (asyncio's ready queue is a FIFO; strong fairness,
because the loop may be busy in between).  It assumes nothing of a client, which
may stall a body for ever, and nothing of a restart.  The liveness properties
state their other conditions themselves: that the process stays up, and that from
some time on the forge answers.

`Lifecycle`'s is that of the same event loop: the main task, the writer and a
cancelled task run when they can, and a server whose handlers are over returns.
Nothing is promised of a handler: the HTTP client's timeouts bound the forge, not a
client that stalls the body of its push, and uvicorn is configured without
`timeout_graceful_shutdown`, so a drain may wait for ever.  That no client does so
(`ClientsGoOn`: each handler is idle again and again) is a condition of the half of
`StopEnds` that is about a signal; the half about a failed server, where `gather` raises
at once, has none.  No fairness for signals, requests, failures or restarts.  `Paging`'s is that of the
reconcile loop, which sleeps for `reconcile_interval_s` only; that the forge answers
from some time on and is quiet are conditions of the property.

## Where code and documentation disagree

Each is a run that must find its property violated.

| Run | Statement | What the code does |
|---|---|---|
| `branch_race` | `warden.toml`: "max simultaneously existing branches" | a listing taken before a push is installed after it and erases its row; the next push creates one branch too many |
| `plain_endpoint` | `assets/config/README.md`: plain "is for a host with no REST API" | reconcile asks it over REST, the assertion fails in every pass, and no host is ever unlocked |
| `edit_spills` | `policy.py`: "touching only that block and preserving everything else" | a header with a comment behind it is not seen, and the projects of the next host are replaced as well |

Others that the models reach or that were met on the way, without a run of their own:

* `transport/policy.py` says that "an unrecognized ref shape — denies fail-closed too" and
  that "one denied ref-command rejects the batch".  But `Guard.handle` gates a push by the
  union of its commands' actions and never calls the `action_gate` that looks at each,
  and `check_ref` tests only the name behind an optional `refs/heads/`.  So a push of
  `refs/heads/claude/a` and a bare `claude/b` is admitted, recorded and forwarded; the
  run `confinement` reaches it (`<<Cmd("a"), Outside("b")>>`), and `Confined` states what
  does hold of it.  Git itself refuses a name that does not begin with `refs/`, so no
  branch comes of it (`Created`); a bare name to be created is counted as a branch until
  the next reconcile.
* `warden.toml` calls `max_writes_per_hour` a maximum; requests in flight overshoot it
  (`RateOvershootBounded` is what does hold).
* `max_open_mrs` is compared with a counter that `mr.create` does not touch: it stands
  still until the next reconcile.  REST `branch.create` likewise adds no
  `agent_branches` row.
* `core/audit.py` says "exactly one on every pipeline exit"; an exception in parse,
  enrich or forward leaves `Guard.handle` without an event.
* `__main__.py` says of an incomplete first reconcile that the state stays locked; the
  mark of an earlier run is in the database, and the guard starts unlocked.
* `transport/guard.py` says a branch is not counted twice; with a slash around an
  entry of `allowed_projects` reconcile keys by the entry and a push by the normalised
  path, and it is, until the next reconcile.
* `doctor.py` promises that its cascade and the Warden's never drift.  They do not in
  what they grant (`DoctorAgrees`), but it compares hosts as they are spelled, so
  `GL:443` in `warden.toml` and `gl` in a token file are reported as two hosts.
* A misplaced quota, in `[git]` or directly in an endpoint, is silently ignored by the
  Warden, while an unknown key in a rules table is refused.
* With `[git.rules]` behind the endpoints, the pattern editors take it for part of the
  last endpoint's block and may add that endpoint's `allowed_projects` there.  The
  Warden then refuses the file (`EditStaysInHost` allows that outcome,
  `TemplateStaysLoadable` is stated for the template's order).  Likewise a `[git.rules]`
  the pattern does not recognise is added a second time, and the file refused.
* The wizard replaces the projects with its own answer: what `allow` added in another
  terminal during the prompt is lost.
* Design document 05 (section 5.4) calls the check before each start not to be bypassed;
  between the two another command may write the file.  `AgentChecked` has the condition.
* The cache signature of an installed wheel is Python's `hash` of a string, which is
  salted per process: no other process ever trusts that cache, and each extracts again.
* `compose_ps` returns nothing when docker fails, and `reload` then reports that the
  stack is not running and exits with success.

## Proofs

The theorems hold for every value of the constants that satisfies the assumptions:
any hosts, projects, endpoints, agents, terminals, any number of requests in flight,
any window, push length and bound.

| Module | Theorem | Property |
|---|---|---|
| `WardenProofs` | `Invariance` | the inductive invariant `IInv` |
| | `TypeCorrect` | `TypeOK` |
| | `EveryWriteRecorded` | `RecordedBeforeForwarded` |
| | `EveryWriteConfined` | `Confined` |
| | `NoWriteWhileLocked` | `LockedNeverSpends` |
| `WardenSteps` | `RateOnlyAges` | `RateForgetsOnlyByTime` |
| | `UnlockIsComplete` | `UnlockMeansComplete` |
| | `ReconcileStaysInProject` | `ReconcileTouchesOneProject` |
| | `RateOvershoot` | `RateOvershootBounded` |
| | `PushStaysWithinLimits` | `PushWithinLimits` |
| `LedgerProofs` | `LedgerKept` | `KeepsLedger` |
| `PagingProofs` | `PagingTypeCorrect` | `TypeOK` |
| | `UndercountIsBounded` | `UndercountBounded` |
| | `CountedOnce` | `NeverOvercounts` |
| `PktLineProofs` | `PktTypeCorrect` | `TypeOK` |
| | `BytesForwardedOnce` | `ForwardedOnce` |
| | `BoundaryIsTheBodys` | `ChunksDoNotMatter` |
| | `JudgedBeforeExecuted` | `ExecutedWasJudged` |
| `LifecycleProofs` | `ReconcileStopsFirst` | `ClosedDatabaseUnused` |
| | `OrderlyStopDrains` | `StopDrains` |
| | `EveryEventAccounted` | `NothingElseLost` |
| | `LifecycleTypeCorrect` | `TypeOK` |
| `StackProofs` | `TrustHolds` | `TrustedIsComplete` |
| | `EditsAreNoticed` | `EditsNoticed` |
| | `ReloadIsApplied` | `ReloadApplies` |
| | `AgentIsChecked` | `AgentChecked` |
| | `StackTypeCorrect` | `TypeOK` |
| `OperatorProofs` | `OperatorTypeCorrect` | `TypeOK` |
| | `EnforcedRulesValid` | `EnforcedIsValid` |
| | `DoctorIsRight` | `DoctorAgrees` |
| | `TokensStayReadable` | `TokenFilesStayReadable` |

The assumptions are those the modules state: constants have their types
(`ConfigAssumption`, `WardenAssumption`, `PagingAssumption`, `PktLineAssumption`,
`LifecycleAssumption`, `StackAssumption`, `TomlAssumption`, `OperatorAssumption`),
requests are well-formed, slots are finitely many and none is named like a task, and
`None` and `Unset` are none of the values they stand beside.  The runs evaluate them.
One, `LiteralsAreStrings`, is true in TLA+ as it stands; the provers have no rule for
it.

**Warden.**  The properties speak of writes already sent, so the invariant must say
what a request in the pipeline has earned so far:

* `Admitted`: from `record` to `await` the request is cleared by the gates,
  in the agent's branches and its guard is unlocked.  In `read` it is cleared; in
  `lookup` too, and unlocked if its snapshot says so: `decide` looks at the snapshot only, and
  that is sound because the latch never shrinks.
* `Begun`: its rows so far are for its first commands, in order, with ids below
  the next one, and each is kept.
* `ReconcileSound`: aliases are numeric ids of allowed projects of their host,
  also those collected by a pass in progress.
* `TablesFinite`: the counters are cardinalities; without finiteness nothing is
  known of them.

None of this is disturbed by the steps of others because what it rests on moves
one way: a row is kept until it is old, the clock and the ids only grow, the latch
only grows (`SoundStable`, `SlotsStable`, `CallsStable`).  So each action's lemma
looks only at what it changes itself.  `GatesClear`, `DecideRecognizes` and
`DecisionScopes` derive from the gates and the policies what the properties say of
a request that is relayed; that a write was recognised at all is the kernel's gate, and
`NoDelete` and `NoTag` follow from the criticality of the union.

The action properties need little more: `PassSound` says that what a pass still has
to do, has installed and is working on are together all it began with, as long as its
guard is not among the failed.  For the ledger, `Owned` adds that the rows a request
has recorded and not sent yet pay for no other request and no write, and that all ids
are below the next one; then each row set that is sent is disjoint from those before
it, and every step is one of `WriteLedger`'s or leaves the ledger alone.

The quota properties count, and the property alone says nothing of what is still to
come.  `QuotaInv` counts that in.  `Fits`: what a push has recorded together with what
it will still record is within both limits, and the branches of its commands so far
are in the table.  `RateSound`: the rows in a host's window, those the request that
holds the loop has still to record (`Left`), and one for each request that waits in
`enrich` with a snapshot that will admit it (`Late`) are at most the ceiling and one
per other slot.  Both rest on `LoopSound`: only the holder of the loop is between two
commits, so nobody else's rows come between.  A request admitted at once adds its rows
within the ceiling; one admitted late moves from `Late` to `Left`.

**Paging.**  `PassedOver`: of what was there throughout, what lies before the next page
and was not listed is no more than what was deleted.  A deletion moves everything behind
it by one place and so lets at most one item slip over the border; a creation moves
items the other way only.  `SeenSound`: what exists and what was listed has been seen.

**PktLine.**  The forge reads packet by packet what the Warden parsed packet by packet,
so the two are compared from every packet on (`Agree`): up to the flush they see the
same packets, and without a flush the same buffer.  `EndStays` says that an end found in
a part of the body is the end in the whole.  Both are inductions from the end of the
buffer, since a reader's result at a packet depends on the packets behind it.  The
library's induction theorems take an operator as a parameter, which the provers cannot
instantiate; `FromTheEnd` is the induction for a *set* of positions, proved from the
well-foundedness of strict inclusion on the finite sets, and `FramingDefines` shows from
it that the recursive functions exist at all.  The state's part is short: `PktInv` says
where the boundary is and what each phase has parsed and sent.

**Operator.**  What the readers make of a text they make of any text that loads, so
`EnforcedRulesValid` and `DoctorIsRight` are about the operators of `WardenToml` and
`Doctor`: since every endpoint's host is its own, the endpoint a grant is looked up for
is the one it came from, and a host has one line in a token file the Warden reads.  The
type invariant is inductive as it stands.  `Without`, the loop that leaves out a host's
lines, is followed from the first line on: at every line, what is kept is what is not
the host's, and readable if the file was (`Keeps`).

**Lifecycle.**  The invariant `LifeInv` says in which stages of the teardown the
reconcile can still run, and where late events are, the ones logged after the
sentinel: behind the sentinel, and in the queue once the writer is done, there are no
others.  `EveryEventAccounted` adds `Ordered`: every event is in the file, dropped,
lost or in the queue; the queue is in the order of logging and later than all that is
in the file; and a torn line ends in an event whose write fell short.

**Stack.**  Each theorem has an invariant of its own, above `Typed` (shapes) and
`Staged` (what a command holds at each step).

* `Cached`: the version in a signature is never ahead of the source, so an extraction
  that began with the present version has copied the present version; while some
  command could trust the marker, nobody is extracting and the tree is complete.  The
  property alone is not inductive, since it says nothing of a tree half copied.
* `Noticed`: whatever a container lacks was edited after its start, or its service is
  in `hidden`; and a command that is about to start containers from an older `.env`
  has put every service there.
* `Reloaded`: a service that lacks an edit older than the reload is among those the
  reload has seen to be stale, or will see, or is going to recreate.  It rests on
  `Noticed` when the starts are listed, and on `LacksShrinks`: no step of another
  terminal adds to what this reload has to catch.
* `Vouched`: a command past its check that has what it checked to itself would read
  the same content now.

`StackTypeCorrect` adds `Clocked` to the shapes: every time stamp, of files, containers
and commands, is behind the clock.

Model-checked only: the liveness properties `GuardUnlocks`, `CountersConverge`,
`StopEnds` and `CounterTrueInTheEnd`, which need fairness and `ENABLED` and are out of
the prover's reach; and `EditStaysInHost` and `TemplateStaysLoadable`, which relate what
TOML reads of a text before and after a line is changed or put in.  That the resolved
configuration the request modules take as a constant is one `Enforced` arrives at is not
stated.

## What is not modelled

Of the modelled parts:

* Parsing of URLs, JSON bodies and headers: a request names its catalog row.  The
  pkt-line length is digits only, while `int(..., 16)` also takes signs, blanks and
  underscores.
* The rejection report of a denied push and all wording; the admin API, which only
  reads; the schema version gate of the database.
* In `warden.toml`: the four quotas are one; `[git.endpoint.rules]` as a header of its
  own (dotted keys stand for it); numbers from the environment.
* `project.ci.trigger` among the actions the doctor looks at: its warning is the test of
  `project.mr.create` once more.
* `.env` as a text, the Anthropic key, the egress offer and credential sync of the
  wizard; the doctor's probes of docker, images, network and tokens.
* In `Stack`: removal of a cache tree and the rewriting of the rendered file are one
  step each; the hosts fragment; the single invariants, of which there is one, "good"
  or "bad"; files that are deleted, which neither the signature nor reload notices;
  the token files, which reload does not look at.

Components left out: the egress allowlist, a pure merge of domain lists for a proxy
that is third-party code, and the agent container's bootstrap, one sequential run of
file copies in a container that starts with nothing.

## Plan

What is left is to prove:

1. `EditStaysInHost` and `TemplateStaysLoadable`: lemmas on what `KeysOf` and `Value`
   are in a text with a line changed, put in or added, from which the tables of the
   text before and after an edit correspond; then one lemma per editor.
2. That `Paging`'s installed listing is one `InstallListing` of `Warden` may do when
   nothing changes while it is read, as a refinement of one listing.
