------------------------------ MODULE MCWarden ------------------------------
(***************************************************************************)
(* Finite deployments and agents for the Warden's runs.                    *)
(***************************************************************************)
EXTENDS WardenProperties, TLC

CONSTANTS r1, r2

MCRawHost == {"GL:8080", "MIRROR.", "Shut", "elsewhere"}
MCHost == {"gl", "mirror", "shut", "other"}
MCNormalizeHost == [x \in MCRawHost |-> CASE x = "GL:8080" -> "gl"
                                          [] x = "MIRROR." -> "mirror"
                                          [] x = "Shut" -> "shut"
                                          [] OTHER -> "other"]

MCName == {"", "p", "q", "17", "18", "27"}
MCNoName == ""
\* The same path has another id on each host; ids are known by themselves.
MCNumericId == [x \in MCHost \X MCName |->
                    CASE x = <<"gl", "p">> -> "17"
                      [] x = <<"mirror", "p">> -> "27"
                      [] x[2] = "q" -> "18"
                      [] OTHER -> x[2]]
MCRef == {"a", "b", "main", "refs/tags/a", "refs/notes/a"}
MCIid == {"!1", "!2"}
MCOwnIid == {"!1"}

Plain(n) == [name |-> n, slash |-> FALSE, git |-> FALSE]
Slashed(n) == [Plain(n) EXCEPT !.slash = TRUE]

Gitlab == [type |-> "gitlab", projects |-> {Plain("p")}, actions |-> ActionId,
           read |-> TRUE, write |-> TRUE, namespace |-> {"a", "b"},
           maxBranches |-> 1, maxMrs |-> 1, maxWrites |-> 2]

OneHost == "gl" :> Gitlab
TightHost == "gl" :> [Gitlab EXCEPT !.maxWrites = 1]
TwoHosts == ("gl" :> Gitlab) @@ ("mirror" :> [Gitlab EXCEPT !.maxBranches = 2])
PlainMirror == ("gl" :> Gitlab) @@ ("mirror" :> [Gitlab EXCEPT !.type = "plain"])

Cmd(ref) == [space |-> "heads", ref |-> ref, oldZero |-> FALSE, newZero |-> FALSE]
Create(ref) == [Cmd(ref) EXCEPT !.oldZero = TRUE]
Delete(ref) == [Cmd(ref) EXCEPT !.newZero = TRUE]

Rest(row) == [guard |-> "api", op |-> "rest", host |-> "GL:8080", project |-> Plain("p"),
              cmds |-> <<>>, oversize |-> FALSE, row |-> row, field |-> "absent",
              branch |-> "a", iid |-> "!1"]
Git(op) == [Rest("unmatched.read") EXCEPT !.guard = "git", !.op = op]
Push(cmds) == [Git("receive-pack") EXCEPT !.cmds = cmds]
Tag(ref) == [Cmd(ref) EXCEPT !.space = "tags"]
\* A full name outside refs/heads/ and refs/tags/, or a bare one.
Outside(ref) == [Cmd(ref) EXCEPT !.space = "other"]

\* Fits, can never fit one branch, and needs two rows of the hourly limit.
Pushes == {Push(<<Create("a")>>), Push(<<Create("a"), Create("b")>>),
           Push(<<Cmd("a"), Create("b")>>)}
OneUpdate == {Push(<<Cmd("a")>>)}
SinglePushes == {Push(<<Create("a")>>), Push(<<Create("b")>>)}
Notes == {Rest("mr.note")}
\* One guard works on each of two hosts that share a project path.
PushElsewhere == {[Push(<<Create("a")>>) EXCEPT !.host = "MIRROR."], Rest("mr.create")}

\* One of everything the recognizers and gates tell apart, on every host.
AllGit ==
    {Git(op) : op \in {"advertise-upload", "advertise-receive", "upload-pack"}}
    \cup {Push(cmds) : cmds \in
             {<<>>, <<Create("a")>>, <<Create("main")>>, <<Delete("a")>>,
              <<[Create("a") EXCEPT !.newZero = TRUE]>>, <<Cmd("a"), Cmd("main")>>,
              <<Tag("refs/tags/a")>>, <<Cmd("a"), Tag("refs/tags/a")>>,
              <<Outside("b")>>, <<Cmd("a"), Outside("b")>>,
              <<Cmd("a"), [Outside("b") EXCEPT !.newZero = TRUE]>>,
              <<Cmd("a"), Outside("refs/notes/a")>>}}
    \cup {[Push(<<Cmd("a")>>) EXCEPT !.oversize = TRUE]}
AllRest ==
    {[Rest("unmatched.read") EXCEPT !.op = "graphql"]}
    \cup {[Rest(row) EXCEPT !.field = f] :
             row \in {"mr.update", "issue.update"},
             f \in {"absent", "close", "reopen", "merge", "other"}}
    \cup {[Rest(row) EXCEPT !.field = f] : row \in {"read.search"}, f \in {"users", "other"}}
    \cup {[Rest(row) EXCEPT !.branch = b] : row \in LiteralRow, b \in {"a", "main"}}
    \cup {[Rest(row) EXCEPT !.iid = n] : row \in LookupRow \cup {"mr.merge"}, n \in MCIid}
    \cup {Rest(row) : row \in {"unmatched.write", "unmatched.read", "job.play",
                               "read.project", "issue.create"}}
Addressed ==
    {[i EXCEPT !.host = h, !.project = p] :
         i \in {Git("advertise-receive"), Push(<<Cmd("a")>>), Rest("job.play")},
         h \in MCRawHost,
         p \in {Plain(""), Slashed("p"), Plain("q"), Plain("17"), Plain("27")}}
Everything == AllGit \cup AllRest \cup Addressed

\* A full host, one without a write token, and one with only a write token.
ThreeAccesses ==
    ("gl" :> [Gitlab EXCEPT !.actions = @ \ {"project.issue.create"}])
    @@ ("mirror" :> [Gitlab EXCEPT !.write = FALSE])
    @@ ("shut" :> [Gitlab EXCEPT !.read = FALSE])

ReqSymmetry == Permutations(Req)
=============================================================================
