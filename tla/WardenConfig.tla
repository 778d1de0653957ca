---------------------------- MODULE WardenConfig ----------------------------
(***************************************************************************)
(* The Warden's configuration as its guards see it, the shape of a parsed  *)
(* request, and the kernel's gates (core/config.py, core/guard.py).        *)
(*                                                                         *)
(* An Endpoint record is one [[git.endpoint]] after the rules and actions  *)
(* cascades have been resolved and the token files have been read.  Names  *)
(* are model values; a project name additionally remembers the two pieces  *)
(* of spelling the code strips, because it strips them in some places only.*)
(***************************************************************************)
EXTENDS Integers, Sequences, FiniteSets

CONSTANTS
    RawHost,        \* Host headers, as spelled by the client
    Host,           \* normalised host names
    NormalizeHost,  \* RawHost -> Host: case, port and trailing dot removed
    Endpoint,       \* the configured hosts, each mapped to its endpoint
    Name,           \* project paths and numeric project ids
    NoName,         \* the project of a projectless request
    NumericId,      \* <<host, name>> -> the forge's numeric id of that project
    Ref,            \* branch (and tag) names
    Iid             \* merge request numbers

Guard == {"git", "api"}

Irreversible == {"repo.branch.delete", "repo.tag.create", "repo.tag.delete",
                 "project.mr.merge"}

ActionId ==
    Irreversible \cup
    {"repo.read", "repo.branch.create", "repo.branch.push",
     "project.read", "project.mr.create", "project.mr.edit", "project.mr.close",
     "project.mr.comment", "project.ci.trigger", "project.issue.create",
     "project.issue.edit", "project.issue.close", "project.issue.comment",
     "instance.projects.read", "instance.users.read", "instance.meta.read"}

\* A project name with the decoration normalize_project removes.
Spelling == [name : Name, slash : BOOLEAN, git : BOOLEAN]

EndpointRecord ==
    [type : {"gitlab", "plain"}, projects : SUBSET Spelling,
     actions : SUBSET ActionId, read : BOOLEAN, write : BOOLEAN,
     namespace : SUBSET Ref,
     maxBranches : Nat, maxMrs : Nat, maxWrites : Nat]

Listed == DOMAIN Endpoint

ASSUME ConfigAssumption ==
    /\ NormalizeHost \in [RawHost -> Host]
    /\ Listed \subseteq Host
    /\ Endpoint \in [Listed -> EndpointRecord]
    /\ NoName \in Name
    /\ NumericId \in [Host \X Name -> Name]

-----------------------------------------------------------------------------
(* Requests.  One record shape serves both guards: op, service and ref     *)
(* commands are the git guard's, row, event, branch and iid the REST       *)
(* guard's (branch is the literal namespace field of the body).            *)

\* ref is the name the client sent, without refs/heads/ when it starts so; a name in
\* the space "other" starts with neither refs/heads/ nor refs/tags/, and may be bare.
Command == [space : {"heads", "tags", "other"}, ref : Ref,
            oldZero : BOOLEAN, newZero : BOOLEAN]

GitOp == {"advertise-upload", "advertise-receive", "upload-pack", "receive-pack"}

WriteRow == {"mr.create", "mr.note", "mr.discussion", "mr.discussion_reply",
             "mr.update", "mr.merge", "pipeline.trigger", "mr.pipeline.trigger",
             "pipeline.retry", "pipeline.cancel", "job.retry", "job.cancel",
             "job.play", "branch.create", "issue.create", "issue.update",
             "issue.note", "unmatched.write"}

ReadRow == {"read.repository", "read.artifacts", "read.snippets", "read.search",
            "read.group_search", "read.projects", "read.groups",
            "read.merge_requests", "read.issues", "read.users", "read.user",
            "read.events", "read.version", "read.metadata",
            "read.broadcast_messages", "read.project", "unmatched.read"}

IntentRecord ==
    [guard : Guard, op : GitOp \cup {"rest", "graphql"}, host : RawHost,
     project : Spelling, cmds : Seq(Command), oversize : BOOLEAN,
     row : WriteRow \cup ReadRow,
     field : {"absent", "close", "reopen", "merge", "projects", "users", "other"},
     branch : Ref, iid : Iid]

\* Each guard serves its own routes.
Intent == {i \in IntentRecord : i.guard = "git" <=> i.op \in GitOp}

\* The credential axis: git push discovery needs the write token too.
NeedsWrite(i) ==
    \/ i.op \in {"advertise-receive", "receive-pack"}
    \/ i.op = "rest" /\ i.row \in WriteRow

NormalizeProject(p) == [p EXCEPT !.slash = FALSE, !.git = FALSE]

StripSlashes(p) == [p EXCEPT !.slash = FALSE]

-----------------------------------------------------------------------------
(* Configuration queries.                                                  *)

HostOf(i) == NormalizeHost[i.host]

\* No read token means closed even when a write token exists.
AccessMode(h) ==
    IF h \notin Listed \/ ~Endpoint[h].read THEN "closed"
    ELSE IF Endpoint[h].write THEN "read-write" ELSE "read-only"

OpenHosts == {h \in Listed : AccessMode(h) # "closed"}

InNamespace(h, ref) == h \in Listed /\ ref \in Endpoint[h].namespace

GitProjectAllowed(h, p) ==
    /\ h \in Listed
    /\ \E allowed \in Endpoint[h].projects :
           NormalizeProject(p) = StripSlashes(allowed)

-----------------------------------------------------------------------------
(* The kernel's gates, in the order of kernel_gates.  aliases is the set   *)
(* of <<host, numeric id>> the REST guard accepts beside the paths.        *)

HostGate(i) == AccessMode(HostOf(i)) # "closed"

WriteCredentialGate(i) == NeedsWrite(i) => AccessMode(HostOf(i)) = "read-write"

\* Fault: a numeric id resolved on one host is accepted on every host.
ProjectAllowedAnyHost(i, aliases) ==
    \/ GitProjectAllowed(HostOf(i), i.project)
    \/ /\ i.guard = "api"
       /\ \E h \in Host : <<h, NormalizeProject(i.project).name>> \in aliases

ProjectAllowed(i, aliases) ==
    \/ GitProjectAllowed(HostOf(i), i.project)
    \/ i.guard = "api" /\ <<HostOf(i), NormalizeProject(i.project).name>> \in aliases

ProjectGate(i, aliases) == i.project.name = NoName \/ ProjectAllowed(i, aliases)

CriticalityGate(recognized) == recognized \cap Irreversible = {}

ActionGate(i, recognized) == recognized \subseteq Endpoint[HostOf(i)].actions

KernelGates(i, recognized, aliases) ==
    /\ HostGate(i)
    /\ WriteCredentialGate(i)
    /\ ProjectGate(i, aliases)
    /\ NeedsWrite(i) => recognized # {}
    /\ CriticalityGate(recognized)
    /\ ActionGate(i, recognized)
=============================================================================
