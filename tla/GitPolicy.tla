------------------------------ MODULE GitPolicy ------------------------------
(***************************************************************************)
(* The git transport guard's recognizer and its pure decision              *)
(* (guards/git/transport/recognizers.py and policy.py).                    *)
(***************************************************************************)
EXTENDS WardenConfig

IsCreate(cmd) == cmd.oldZero
IsDelete(cmd) == cmd.newZero

\* Delete is tested before create, so zero-to-zero recognizes as a delete.
RefCommandAction(cmd) ==
    IF cmd.space = "heads"
    THEN {IF IsDelete(cmd) THEN "repo.branch.delete"
          ELSE IF IsCreate(cmd) THEN "repo.branch.create" ELSE "repo.branch.push"}
    ELSE IF cmd.space = "tags"
    THEN {IF IsDelete(cmd) THEN "repo.tag.delete" ELSE "repo.tag.create"}
    ELSE {}

GitActions(i) ==
    IF i.op = "receive-pack"
    THEN UNION {RefCommandAction(i.cmds[k]) : k \in DOMAIN i.cmds}
    ELSE {"repo.read"}

CreatesBefore(i, k) == Cardinality({j \in 1 .. k - 1 : IsCreate(i.cmds[j])})

\* Fault: every command is checked as if it were alone in its push.
CheckRefAlone(i, k, view) ==
    /\ InNamespace(HostOf(i), i.cmds[k].ref)
    /\ ~view.locked
    /\ IsCreate(i.cmds[k]) => view.branches < Endpoint[HostOf(i)].maxBranches
    /\ view.writes < Endpoint[HostOf(i)].maxWrites

\* One command, with the quota its predecessors in the same push have spent.
\* The namespace is the only test of the name: handle passes the union of the
\* actions to kernel_gates, so a command recognised as nothing gets here with others.
CheckRef(i, k, view) ==
    LET limits == Endpoint[HostOf(i)] IN
    /\ InNamespace(HostOf(i), i.cmds[k].ref)
    /\ ~view.locked
    /\ IsCreate(i.cmds[k]) => view.branches + CreatesBefore(i, k) < limits.maxBranches
    /\ view.writes + (k - 1) < limits.maxWrites

\* A push is all or nothing.
PushAllowed(i, view) ==
    /\ i.cmds # <<>>
    /\ ~i.oversize
    /\ \A k \in DOMAIN i.cmds : CheckRef(i, k, view)

\* Discovery and fetch are passed through once the kernel's gates are.
GitDecide(i, view) == i.op = "receive-pack" => PushAllowed(i, view)
=============================================================================
