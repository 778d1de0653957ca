----------------------------- MODULE RestPolicy -----------------------------
(***************************************************************************)
(* The GitLab REST guard's recognizer catalog and its pure decision        *)
(* (guards/git/gitlab/recognizers.py and policy.py).  A row stands for the *)
(* method and path template it matches.                                    *)
(***************************************************************************)
EXTENDS WardenConfig

\* Rows whose branch is a literal field of the body.
LiteralRow == {"mr.create", "pipeline.trigger", "branch.create"}

\* Rows that carry only an iid: the branch is looked up at the forge.
LookupRow == {"mr.note", "mr.discussion", "mr.discussion_reply", "mr.update",
              "mr.pipeline.trigger"}

MrStateEvent(i) ==
    CASE i.field = "absent" -> {"project.mr.edit"}
      [] i.field \in {"close", "reopen"} -> {"project.mr.close"}
      [] i.field = "merge" -> {"project.mr.merge"}
      [] OTHER -> {}

IssueStateEvent(i) ==
    CASE i.field = "absent" -> {"project.issue.edit"}
      [] i.field \in {"close", "reopen"} -> {"project.issue.close"}
      [] OTHER -> {}

\* "projects" also stands for merge_requests, issues and milestones.
SearchScope(i) ==
    CASE i.field = "projects" -> {"instance.projects.read"}
      [] i.field = "users" -> {"instance.users.read"}
      [] OTHER -> {}

RestActions(i) ==
    CASE i.op = "graphql" -> {}
      [] i.row = "mr.create" -> {"project.mr.create"}
      [] i.row \in {"mr.note", "mr.discussion", "mr.discussion_reply"} -> {"project.mr.comment"}
      [] i.row = "mr.update" -> MrStateEvent(i)
      [] i.row = "mr.merge" -> {"project.mr.merge"}
      [] i.row \in {"pipeline.trigger", "mr.pipeline.trigger", "pipeline.retry",
                    "pipeline.cancel", "job.retry", "job.cancel", "job.play"}
            -> {"project.ci.trigger"}
      [] i.row = "branch.create" -> {"repo.branch.create"}
      [] i.row = "issue.create" -> {"project.issue.create"}
      [] i.row = "issue.update" -> IssueStateEvent(i)
      [] i.row = "issue.note" -> {"project.issue.comment"}
      [] i.row \in {"read.repository", "read.artifacts", "read.snippets"} -> {"repo.read"}
      [] i.row \in {"read.search", "read.group_search"} -> SearchScope(i)
      [] i.row \in {"read.projects", "read.groups", "read.merge_requests", "read.issues"}
            -> {"instance.projects.read"}
      [] i.row \in {"read.users", "read.user", "read.events"} -> {"instance.users.read"}
      [] i.row \in {"read.version", "read.metadata", "read.broadcast_messages"}
            -> {"instance.meta.read"}
      [] i.row = "read.project" -> {"project.read"}
      [] OTHER -> {}

NeedsSourceLookup(i) == i.op = "rest" /\ i.row \in LookupRow /\ i.project.name # NoName

BranchNamespaceCheck(i, mrSourceOk) ==
    /\ i.row \in LiteralRow => InNamespace(HostOf(i), i.branch)
    /\ i.row \in LookupRow => mrSourceOk = "in"

\* Fault: the snapshot's lock is ignored, and an empty table counts as free.
QuotaCheckUnlocked(i, view) ==
    /\ view.writes < Endpoint[HostOf(i)].maxWrites
    /\ RestActions(i) = {"project.mr.create"} => view.mrs < Endpoint[HostOf(i)].maxMrs

\* Fault: a counter at its limit passes.
QuotaCheckAtLimit(i, view) ==
    /\ ~view.locked
    /\ view.writes <= Endpoint[HostOf(i)].maxWrites
    /\ RestActions(i) = {"project.mr.create"} => view.mrs <= Endpoint[HostOf(i)].maxMrs

\* Only opening a merge request spends the open-MR quota.
QuotaCheck(i, view) ==
    LET limits == Endpoint[HostOf(i)] IN
    /\ ~view.locked
    /\ view.writes < limits.maxWrites
    /\ RestActions(i) = {"project.mr.create"} => view.mrs < limits.maxMrs

RestDecide(i, view, mrSourceOk) ==
    /\ i.op # "graphql"
    /\ RestActions(i) # {}
    /\ NeedsWrite(i) => BranchNamespaceCheck(i, mrSourceOk) /\ QuotaCheck(i, view)
=============================================================================
