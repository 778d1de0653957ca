------------------------------- MODULE Stack -------------------------------
(***************************************************************************)
(* The command line tool and the stack it runs: `catraz run`, `run         *)
(* claude-remote`, `reload` and `down`, any of them at the same time from  *)
(* several terminals and each killed at any moment, over one asset cache   *)
(* (paths.py), one rendered compose file (compose.py) and one set of       *)
(* containers, while the operator edits files.                             *)
(*                                                                         *)
(* The clock counts edits: a file's version is the time of its last edit,  *)
(* and every edit is later than all that went before it.                   *)
(***************************************************************************)
EXTENDS Naturals, FiniteSets

CONSTANTS
    Cli,            \* terminals
    None,
    MaxCommands,    \* bound: commands entered
    MaxTime         \* bound: edits

\* SERVICE_CONFIG: what each infra service reads when it starts.
Infra == {"gitlab-warden", "forward-proxy"}
ServiceConfig(s) == IF s = "gitlab-warden" THEN "warden.toml" ELSE "squid.conf"
File == {"warden.toml", "squid.conf", ".env"}

\* The extracted tree: the compose files, and the build contexts copied after them.
Piece == {"compose", "contexts"}

ASSUME StackAssumption ==
    /\ MaxCommands \in Nat /\ MaxTime \in Nat \ {0}
    /\ None \notin Nat /\ None \notin Nat \X Nat /\ None \notin {"resolved", "layered"}
    /\ None \notin [env : Nat, override : {"good", "bad"}]
    /\ None \notin [env : Nat, started : Nat, loaded : Nat \cup {None}]
    /\ \A S \in SUBSET Infra : None \notin [S -> Nat \cup {None}]

VARIABLES
    now, mtime, override, source, \* the operator's files and the packaged assets
    installed,                    \* a wheel, not a source tree
    marker, tree,                 \* .extracted and assets/ in the cache
    resolved,                     \* .catraz/compose.resolved.yml
    container,                    \* infra service -> its container
    proc, commands,
    shared, hidden                \* for the properties only

files == <<now, mtime, override, source, installed>>
cache == <<marker, tree, shared>>
vars == <<files, cache, resolved, container, proc, commands, hidden>>

Idle == [cmd |-> "none", step |-> "none", id |-> 0, force |-> FALSE, assets |-> "ask",
         sig |-> None, prefix |-> None, content |-> None, targets |-> {}, starts |-> None,
         began |-> 0, alone |-> FALSE, done |-> FALSE]

Running == {s \in Infra : container[s] # None}

Init ==
    /\ now = 1 /\ mtime = [f \in File |-> 1] /\ override \in {"good", "bad"} /\ source = 1
    /\ installed \in BOOLEAN
    /\ marker = None /\ tree = [p \in Piece |-> None] /\ resolved = None
    /\ container = [s \in Infra |-> None]
    /\ proc = [c \in Cli |-> Idle] /\ commands = 0
    /\ shared = FALSE /\ hidden = {}

Set(c, p) == proc' = [proc EXCEPT ![c] = p]
Ended(done) == [Idle EXCEPT !.done = done]
To(c, step) == [proc[c] EXCEPT !.step = step, !.assets = "ask"]
At(c, step) == proc[c].step = step

Enter(c, cmd, force) ==
    /\ proc[c].cmd = "none" /\ commands < MaxCommands
    /\ commands' = commands + 1
    /\ Set(c, [Idle EXCEPT !.cmd = cmd, !.force = force,
                           !.id = IF installed THEN commands + 1 ELSE 0,
                           !.began = IF cmd = "reload" THEN now ELSE 0,
                           !.step = IF cmd = "reload" THEN "list" ELSE "render"])
    /\ UNCHANGED <<files, cache, resolved, container, hidden>>

\* A signal, or an error nothing catches.
Kill(c) ==
    /\ proc[c].cmd # "none" /\ Set(c, Ended(FALSE))
    /\ UNCHANGED <<files, cache, resolved, container, commands, hidden>>
-----------------------------------------------------------------------------
(* asset_root, which every docker compose call goes through.               *)

DockerStep == {"list", "render", "check", "infra", "start", "up", "agent", "down"}

Extracting(c) == proc[c].cmd # "none" /\ proc[c].assets \in Piece \cup {"mark"}

\* The newest time in the source tree; for a wheel Python's hash of RECORD, which is
\* salted anew in every process (its id).
Signature(c) == <<source, proc[c].id>>

\* Fault: the marker is written before the files it vouches for.
BeginExtractMarked(c) ==
    /\ proc[c].step \in DockerStep
    /\ proc[c].assets = "ask" /\ marker # Signature(c)
    /\ tree' = [p \in Piece |-> None]
    /\ marker' = Signature(c)
    /\ shared' = \E d \in Cli \ {c} :
                    Extracting(d) \/ (installed /\ proc[d].cmd # "none")
    /\ Set(c, [proc[c] EXCEPT !.assets = "compose", !.sig = Signature(c)])
    /\ UNCHANGED <<files, resolved, container, commands, hidden>>

\* The signature is taken first; what was extracted with another one goes.
BeginExtract(c) ==
    /\ proc[c].step \in DockerStep
    /\ proc[c].assets = "ask" /\ marker # Signature(c)
    /\ tree' = IF marker # None THEN [p \in Piece |-> None] ELSE tree
    /\ shared' = \E d \in Cli \ {c} :
                    Extracting(d) \/ (installed /\ proc[d].cmd # "none")
    /\ Set(c, [proc[c] EXCEPT !.assets = "compose", !.sig = Signature(c)])
    /\ UNCHANGED <<files, marker, resolved, container, commands, hidden>>

Copy(c) ==
    /\ proc[c].cmd # "none" /\ proc[c].assets \in Piece
    /\ tree' = [tree EXCEPT ![proc[c].assets] = source]
    /\ Set(c, [proc[c] EXCEPT !.assets = IF @ = "compose" THEN "contexts" ELSE "mark"])
    /\ UNCHANGED <<files, marker, shared, resolved, container, commands, hidden>>

Mark(c) ==
    /\ proc[c].cmd # "none" /\ proc[c].assets = "mark"
    /\ marker' = proc[c].sig
    /\ Set(c, [proc[c] EXCEPT !.assets = "ready", !.sig = None])
    /\ UNCHANGED <<files, tree, shared, resolved, container, commands, hidden>>

\* asset_root has returned.
HasAssets(c) == proc[c].assets = "ready" \/ (proc[c].assets = "ask" /\ marker = Signature(c))
-----------------------------------------------------------------------------
(* Rendering (prepare, generate_resolved) and the check of the invariants. *)

\* What `docker compose config` makes of the layered files now.
Layered == [env |-> mtime[".env"], override |-> override]

\* What a docker command reads when it is run.
ContentOf(c) == IF proc[c].prefix = "resolved" THEN resolved ELSE Layered

AfterRender == [run |-> "check", remote |-> "check", reload |-> "up", down |-> "down"]

\* Fault: a failed rendering leaves open what the next command is to run.
RenderSilently(c) ==
    /\ At(c, "render") /\ HasAssets(c)
    /\ \/ /\ tree["compose"] # None
          /\ Set(c, [To(c, "write") EXCEPT !.content = Layered])
       \/ Set(c, To(c, AfterRender[proc[c].cmd]))
    /\ UNCHANGED <<files, cache, resolved, container, commands, hidden>>

\* Without success, or without a compose file, the command goes on with the layers.
Render(c) ==
    /\ At(c, "render") /\ HasAssets(c)
    /\ \/ /\ tree["compose"] # None
          /\ Set(c, [To(c, "write") EXCEPT !.content = Layered])
       \/ Set(c, [To(c, AfterRender[proc[c].cmd]) EXCEPT !.prefix = "layered"])
    /\ UNCHANGED <<files, cache, resolved, container, commands, hidden>>

\* Whoever relies on what was there before no longer has it to itself.
Write(c) ==
    /\ At(c, "write")
    /\ resolved' = proc[c].content
    /\ proc' = [d \in Cli |->
                   IF d = c
                   THEN [To(c, AfterRender[proc[c].cmd]) EXCEPT
                                   !.prefix = "resolved", !.content = None,
                                   !.alone = TRUE]
                   ELSE [proc[d] EXCEPT !.alone = @ /\ proc[d].prefix = "layered"]]
    /\ UNCHANGED <<files, cache, container, commands, hidden>>

Checked(c, content) ==
    /\ At(c, "check") /\ HasAssets(c)
    /\ IF content.override = "good" /\ (proc[c].prefix = "resolved" \/ tree["compose"] # None)
       THEN Set(c, [To(c, IF proc[c].cmd = "run" THEN "infra" ELSE "start") EXCEPT
                       !.alone = @ \/ proc[c].prefix = "layered"])
       ELSE Set(c, Ended(FALSE))
    /\ UNCHANGED <<files, cache, resolved, container, commands, hidden>>

\* Fault: assert_invariants without its prefix checks the layers.
CheckLayers(c) == Checked(c, Layered)

Check(c) == Checked(c, ContentOf(c))
-----------------------------------------------------------------------------
(* Containers.                                                             *)

Fresh(content) == [env |-> content.env, started |-> now, loaded |-> None]

\* No rendering with an older .env is left.
Settled ==
    /\ resolved # None => resolved.env = mtime[".env"]
    /\ \A c \in Cli : At(c, "write") => proc[c].content.env = mtime[".env"]

Create(services, content) ==
    /\ container' = [s \in Infra |-> IF s \in services THEN Fresh(content) ELSE container[s]]
    /\ hidden' = IF Settled THEN hidden \ services ELSE hidden

\* Without --force-recreate: those that are not there or were created from another
\* rendering.  Any of them may fail.
Outdated(content) ==
    {s \in Infra : container[s] = None \/ container[s].env # content.env}

\* _ensure_infra: healthy containers are left alone, whatever they were created from.
EnsureInfra(c) ==
    /\ At(c, "infra") /\ HasAssets(c)
    /\ \/ Running = Infra /\ Set(c, To(c, "agent"))
       \/ Set(c, To(c, "start"))
    /\ UNCHANGED <<files, cache, resolved, container, commands, hidden>>

\* up -d; claude-remote has the agent come up with it.
Start(c) ==
    /\ At(c, "start") /\ HasAssets(c)
    /\ \E services \in SUBSET Outdated(ContentOf(c)) : Create(services, ContentOf(c))
    /\ Set(c, IF proc[c].cmd = "run" THEN To(c, "agent")
              ELSE Ended(TRUE))
    /\ UNCHANGED <<files, cache, resolved, commands>>

RunAgent(c) ==
    /\ At(c, "agent") /\ HasAssets(c)
    /\ Set(c, Ended(TRUE))
    /\ UNCHANGED <<files, cache, resolved, container, commands, hidden>>

Down(c) ==
    /\ At(c, "down") /\ HasAssets(c)
    /\ container' = [s \in Infra |-> None]
    /\ Set(c, Ended(FALSE))
    /\ UNCHANGED <<files, cache, resolved, commands, hidden>>

\* A service reads its file some time after its container was started.
Load(s) ==
    /\ container[s] # None /\ container[s].loaded = None
    /\ container' = [container EXCEPT ![s].loaded = mtime[ServiceConfig(s)]]
    /\ UNCHANGED <<files, cache, resolved, proc, commands, hidden>>

\* The restart policy: the same container, started again, or given up.
Restart(s) ==
    /\ container[s] # None
    /\ \/ /\ container' = [container EXCEPT ![s].started = now, ![s].loaded = None]
          /\ hidden' = IF container[s].env = mtime[".env"] THEN hidden ELSE hidden \cup {s}
       \/ container' = [container EXCEPT ![s] = None] /\ UNCHANGED hidden
    /\ UNCHANGED <<files, cache, resolved, proc, commands>>
-----------------------------------------------------------------------------
(* reload.                                                                 *)

\* Containers that run, and when they were started as far as that can be read; a
\* failing `ps` looks like a stack that is down.
List(c) ==
    /\ At(c, "list") /\ HasAssets(c)
    /\ \E seen \in {Running, {}} : \E unreadable \in SUBSET seen :
          IF seen = {} /\ ~proc[c].force THEN Set(c, Ended(FALSE))
          ELSE Set(c, [To(c, "decide") EXCEPT
                          !.starts = [s \in seen |-> IF s \in unreadable THEN None
                                                     ELSE container[s].started]])
    /\ UNCHANGED <<files, cache, resolved, container, commands, hidden>>

\* Fault: only the service's own files count.
StaleWithoutEnv(s, start) == start = None \/ mtime[ServiceConfig(s)] > start

\* stale_services.
Stale(s, start) ==
    start = None \/ \E f \in {ServiceConfig(s), ".env"} : mtime[f] > start

Decide(c) ==
    LET starts == proc[c].starts
        targets == IF proc[c].force THEN Infra ELSE {s \in DOMAIN starts : Stale(s, starts[s])}
    IN /\ At(c, "decide")
       /\ IF targets = {} THEN Set(c, Ended(TRUE))
          ELSE Set(c, [To(c, "render") EXCEPT !.targets = targets, !.starts = None, !.force = FALSE])
       /\ UNCHANGED <<files, cache, resolved, container, commands, hidden>>

\* Fault: up -d alone recreates only what was created from another rendering.
UpUnforced(c) ==
    /\ At(c, "up") /\ HasAssets(c)
    /\ Create(proc[c].targets \cap Outdated(ContentOf(c)), ContentOf(c))
    /\ Set(c, Ended(TRUE))
    /\ UNCHANGED <<files, cache, resolved, commands>>

\* up -d --force-recreate --build, which may fail half-way.
Up(c) ==
    /\ At(c, "up") /\ HasAssets(c)
    /\ \E services \in SUBSET proc[c].targets :
          /\ Create(services, ContentOf(c))
          /\ Set(c, Ended(services = proc[c].targets))
    /\ UNCHANGED <<files, cache, resolved, commands>>
-----------------------------------------------------------------------------
(* The operator's editor.                                                  *)

\* Between the reading of .env and the start of the containers.
InFlight(c) ==
    \/ At(c, "write")
    \/ proc[c].prefix = "resolved" /\ proc[c].step \in {"check", "infra", "start", "up"}

Edit(f) ==
    /\ now < MaxTime /\ now' = now + 1 /\ mtime' = [mtime EXCEPT ![f] = now + 1]
    /\ hidden' = IF f = ".env" /\ \E c \in Cli : InFlight(c) THEN Infra ELSE hidden
    /\ UNCHANGED <<override, source, installed, cache, resolved, container, proc, commands>>

EditOverride ==
    /\ now < MaxTime /\ now' = now + 1
    /\ override' = IF override = "good" THEN "bad" ELSE "good"
    /\ proc' = [c \in Cli |-> [proc[c] EXCEPT !.alone = @ /\ proc[c].prefix = "resolved"]]
    /\ UNCHANGED <<mtime, source, installed, cache, resolved, container, commands, hidden>>

\* A source file is edited, or another wheel installed.
Upgrade ==
    /\ now < MaxTime /\ now' = now + 1 /\ source' = now + 1
    /\ UNCHANGED <<mtime, override, installed, cache, resolved, container, proc, commands, hidden>>

Next ==
    \/ \E c \in Cli :
          \/ \E cmd \in {"run", "remote", "down"} : Enter(c, cmd, FALSE)
          \/ \E force \in BOOLEAN : Enter(c, "reload", force)
          \/ Kill(c) \/ BeginExtract(c) \/ Copy(c) \/ Mark(c)
          \/ Render(c) \/ Write(c) \/ Check(c)
          \/ EnsureInfra(c) \/ Start(c) \/ RunAgent(c) \/ Down(c)
          \/ List(c) \/ Decide(c) \/ Up(c)
    \/ \E s \in Infra : Load(s) \/ Restart(s)
    \/ \E f \in File : Edit(f)
    \/ EditOverride \/ Upgrade

Spec == Init /\ [][Next]_vars
-----------------------------------------------------------------------------
(* Properties.                                                             *)

Time == 1 .. MaxTime
Content == [env : Time, override : {"good", "bad"}]
Step == {"none", "list", "decide", "render", "write", "check", "infra", "start", "up",
         "agent", "down"}

TypeOK ==
    /\ now \in Time /\ mtime \in [File -> 1 .. now] /\ source \in 1 .. now
    /\ override \in {"good", "bad"} /\ installed \in BOOLEAN /\ shared \in BOOLEAN
    /\ tree \in [Piece -> {None} \cup 1 .. source]
    /\ resolved \in {None} \cup Content
    /\ \A s \in Running :
           container[s] \in [env : Time, started : 1 .. now, loaded : {None} \cup Time]
    /\ \A c \in Cli : /\ proc[c].step \in Step
                      /\ proc[c].cmd = "none" <=> proc[c].step = "none"
                      /\ proc[c].prefix = "resolved" => resolved # None
                      /\ proc[c].step \in {"check", "start", "infra", "up", "agent", "down"} =>
                             proc[c].prefix # None
    /\ commands \in 0 .. MaxCommands /\ hidden \subseteq Infra

\* "source/wheel unchanged -> trust cache": whatever extraction was killed at any point
\* and whatever was edited while it ran, a cache that is trusted is all there and of one
\* version, as long as invocations do not extract into it side by side (asset_root).
TrustedIsComplete ==
    \A c \in Cli :
        ~shared /\ proc[c].cmd # "none" /\ marker = Signature(c) =>
            tree = [p \in Piece |-> source]

Behind(s, f) ==
    LET has == IF f = ".env" THEN container[s].env ELSE container[s].loaded
    IN container[s] # None /\ has # None /\ has < mtime[f]

\* A file a running service has not read since its last edit is noticed by the next
\* reload, through every restart and every other command; an edit of .env is missed only
\* if it fell between the reading and the starting of some command, or if the container
\* has restarted since (stale_services, which compares with the container's start).
EditsNoticed ==
    \A s \in Infra : \A f \in {ServiceConfig(s), ".env"} :
        Behind(s, f) => \/ Stale(s, container[s].started)
                        \/ f = ".env" /\ s \in hidden

\* When reload says that it has reloaded, or that there is nothing to, no service that
\* runs is without an edit made before the command was entered, whatever other commands
\* did meanwhile (cmd_reload); but for the edits of .env that are missed.
ReloadApplies ==
    [][\A c \in Cli :
           proc[c].cmd = "reload" /\ proc'[c].done =>
               \A s \in Infra : \A f \in {ServiceConfig(s), ".env"} :
                   Behind(s, f)' /\ mtime[f] <= proc[c].began =>
                       f = ".env" /\ s \in hidden']_vars

\* "cannot verify trust boundary" is an error: an agent runs with what satisfied the
\* invariants, whatever the operator edits in the meantime, as long as no other command
\* writes the rendered file (or, for the layers, nobody edits them) between the check and
\* the start (assert_invariants, _run_oneoff, _start_remote_daemon).
AgentChecked ==
    [][\A c \in Cli :
           proc[c].cmd \in {"run", "remote"} /\ proc'[c].done /\ proc[c].alone =>
               ContentOf(c).override = "good"]_vars
=============================================================================
