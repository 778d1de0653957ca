----------------------------- MODULE PolicyEdit -----------------------------
(***************************************************************************)
(* How `catraz init` and `catraz allow` rewrite warden.toml and the token  *)
(* files (policy.py, commands/setup/_secrets.py): line by line with        *)
(* patterns, so that comments and order survive.  Only the questions       *)
(* "which hosts are there" and "what do they allow" go through TOML.       *)
(***************************************************************************)
EXTENDS WardenToml, SequencesExt

CONSTANT Plausible  \* project entries validate_project has nothing against

\* None of them is the "" that stands for no entry.
ASSUME PlausibleAssumption == Plausible \subseteq STRING \ {""}

\* True in TLA+ of any literal; the proof system has no rule for it.
ASSUME LiteralsAreStrings ==
    {"endpoint", "host", "type", "gitlab", "projects", "rules", "prefixes", "bot/"}
        \subseteq STRING

Line(key, value) == [key |-> key, value |-> value, bare |-> TRUE]

\* The CLI's own reading of the endpoints: none when TOML does not parse.
ReadableEndpoints(text) == IF WellFormed(text) THEN EndpointHeads(text) ELSE {}

HasHost(text, head) == Value(text, head, "host") \notin {Unset, Wrong}

HeadsFor(text, h) ==
    {k \in ReadableEndpoints(text) : HasHost(text, k) /\ NormalOf(Value(text, k, "host")) = h}

\* first_endpoint_host, normalised as every use of it is; Unset when there is none.
FirstEndpointHost(text) ==
    LET heads == {k \in ReadableEndpoints(text) : HasHost(text, k)}
    IN IF heads = {} THEN Unset ELSE NormalOf(Value(text, Min(heads), "host"))

ReadAllowedProjects(text, h) ==
    LET heads == HeadsFor(text, h)
        projects == Value(text, Min(heads), "projects")
    IN IF heads = {} \/ projects \in {Unset, Wrong} THEN {} ELSE projects

\* Fault: an endpoint is looked for by its spelling.
EnsureSpelledEndpoint(text, h) ==
    IF \E k \in ReadableEndpoints(text) : Value(text, k, "host") = {h} THEN text
    ELSE text \o <<Line("endpoint", {}), Line("host", {h}), Line("type", {"gitlab"})>>

EnsureGitEndpoint(text, h) ==
    IF HeadsFor(text, h) # {} THEN text
    ELSE text \o <<Line("endpoint", {}), Line("host", {h}), Line("type", {"gitlab"})>>
-----------------------------------------------------------------------------
(* The pattern editors.                                                    *)

\* `key = [...]` as the editors' patterns match it.
Matches(line, key) == line.key = key /\ line.bare /\ line.value # Wrong

\* Lines first .. last of the text: their `key` lines get the value, or one is added
\* behind the last.
SetInBlock(text, first, last, key, value) ==
    IF \E k \in first .. last : Matches(text[k], key)
    THEN [k \in DOMAIN text |->
             IF k \in first .. last /\ Matches(text[k], key)
             THEN [text[k] EXCEPT !.value = value] ELSE text[k]]
    ELSE InsertAt(text, last + 1, Line(key, value))

BareHeads(text, key) == {k \in DOMAIN text : text[k].key = key /\ text[k].bare}

\* Everything up to the next [[git.endpoint]] line the pattern matches, whatever
\* other tables begin before it.
BlockEnd(text, head) ==
    LET after == {k \in BareHeads(text, "endpoint") : k > head}
    IN IF after = {} THEN Len(text) ELSE Min(after) - 1

\* The host an editor sees in a block: that of the first line its pattern matches.
BlockHost(text, head) ==
    LET at == {k \in head + 1 .. BlockEnd(text, head) : Matches(text[k], "host")}
    IN IF at = {} THEN Unset ELSE NormalOf(text[Min(at)].value)

BlocksFor(text, h) == {k \in BareHeads(text, "endpoint") : BlockHost(text, k) = h}

\* Fault: the block of the first endpoint is taken, whatever its host.
SetFirstAllowedProjects(text, h, projects) ==
    IF BareHeads(text, "endpoint") = {} THEN text
    ELSE LET head == Min(BareHeads(text, "endpoint"))
         IN SetInBlock(text, head + 1, BlockEnd(text, head), "projects", projects)

\* No block for the host is a ValueError: nothing is written.
SetEndpointAllowedProjects(text, h, projects) ==
    IF BlocksFor(text, h) = {} THEN text
    ELSE LET head == Min(BlocksFor(text, h))
         IN SetInBlock(text, head + 1, BlockEnd(text, head), "projects", projects)

\* A block of [git.rules] ends at the next header, bare or not.
SetGitRulesBranchPrefixes(text, prefixes) ==
    IF BareHeads(text, "rules") = {}
    THEN text \o <<Line("rules", {}), Line("prefixes", prefixes)>>
    ELSE LET head == Min(BareHeads(text, "rules"))
             after == {k \in DOMAIN text : k > head /\ text[k].key \in Header}
         IN SetInBlock(text, head + 1, IF after = {} THEN Len(text) ELSE Min(after) - 1,
                       "prefixes", prefixes)

\* cmd_allow: nothing is written when there is no endpoint or nothing new.
Allow(text, projects) ==
    LET h == FirstEndpointHost(text)
        existing == ReadAllowedProjects(text, h) \ {""}
        merged == existing \cup (projects \cap Plausible)
    IN IF h = Unset \/ projects \cap Plausible = {} \/ merged = existing THEN text
       ELSE SetEndpointAllowedProjects(text, h, merged)
-----------------------------------------------------------------------------
(* Token files.                                                            *)

\* Fault: a host's line is found by its spelling.
UpsertSpelledToken(file, h, token) ==
    Append(SelectSeq(file, LAMBDA line : line.host # h), [host |-> h, token |-> token])

IsFor(line, h) == line.host # Unset /\ NormalizeHost[line.host] = h

Without(file, h) ==
    LET kept[k \in 0 .. Len(file)] ==
            IF k = 0 THEN <<>>
            ELSE IF IsFor(file[k], h) THEN kept[k - 1] ELSE Append(kept[k - 1], file[k])
    IN kept[Len(file)]

\* Every line that starts with the host in any spelling, well-formed or not, makes
\* way for one line with its key.
UpsertGroupedToken(file, h, token) == Append(Without(file, h), [host |-> h, token |-> token])

\* The current token, offered as the wizard's default; the first well-formed line wins.
ReadGroupedToken(file, h) ==
    LET at == {k \in HostLines(file) : file[k].token # Unset /\ NormalizeHost[file[k].host] = h}
    IN IF at = {} THEN Unset ELSE file[Min(at)].token
=============================================================================
