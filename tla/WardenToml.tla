----------------------------- MODULE WardenToml -----------------------------
(***************************************************************************)
(* warden.toml and the token files as text, what TOML makes of that text,  *)
(* and what the Warden makes of it at start (core/config_load.py,          *)
(* core/config.py).                                                        *)
(*                                                                         *)
(* A text is a sequence of lines, each a table header or a key with its    *)
(* value, the set of the strings in it.  A line is bare when it is spelled *)
(* the way the command line tool's patterns expect; otherwise a comment    *)
(* follows the header, or the key or its value is quoted in another way,   *)
(* which TOML does not care about.  One quota stands for the four.         *)
(***************************************************************************)
EXTENDS Naturals, Sequences, FiniteSets, FiniteSetsExt

CONSTANTS
    Written,        \* hosts as spelled in the files
    Host,           \* normalised hosts
    NormalizeHost,  \* Written -> Host
    Unset, Wrong    \* no value, and a value of the wrong TOML type

ASSUME TomlAssumption ==
    /\ Host \subseteq Written
    /\ NormalizeHost \in [Written -> Host]
    /\ \A h \in Host : NormalizeHost[h] = h
    /\ Written \subseteq STRING
    /\ Unset \notin STRING \cup {Wrong, {}, {"5"}, {"claude/"}}

Header == {"git", "rules", "endpoint"}

\* A host is a string, or a value of the wrong type.
TextLine ==
    {line \in [key : STRING, value : {Wrong} \cup SUBSET STRING, bare : BOOLEAN] :
        line.key = "host" => line.value \in {Wrong} \cup {{w} : w \in Written}}

TokenLine == [host : Written \cup {Unset}, token : STRING \cup {Unset}]

\* Four actions of the built-in default and one outside it.
DefaultActions == {"repo.read", "repo.branch.push", "project.read", "project.mr.create"}
KnownActions == DefaultActions \cup {"repo.tag.create"}
ValidActions(type) ==
    IF type = {"plain"} THEN {"repo.read", "repo.branch.push", "repo.tag.create"}
    ELSE KnownActions
-----------------------------------------------------------------------------
(* TOML.                                                                   *)

Heads(text) == {k \in DOMAIN text : text[k].key \in Header}

\* The lines of the table that starts at a header, or of what is above the first (0).
KeysOf(text, head) == head + 1 .. Min({k \in Heads(text) : k > head} \cup {Len(text) + 1}) - 1

Value(text, head, key) ==
    LET at == {k \in KeysOf(text, head) : text[k].key = key}
    IN IF at = {} THEN Unset ELSE text[Min(at)].value

EndpointHeads(text) == {k \in DOMAIN text : text[k].key = "endpoint"}

\* [git] or [git.rules], which a text has at most once.
TableValue(text, table, key) ==
    LET heads == {k \in DOMAIN text : text[k].key = table}
    IN IF heads = {} THEN Unset ELSE Value(text, Min(heads), key)

\* No line is beyond TOML, and no table but [[git.endpoint]] and no key of a table
\* is there twice.
WellFormed(text) ==
    /\ \A k \in DOMAIN text : text[k].key # "garbage"
    /\ \A j, k \in Heads(text) : text[j].key = text[k].key => j = k \/ text[k].key = "endpoint"
    /\ \A head \in Heads(text) \cup {0} : \A j, k \in KeysOf(text, head) :
           text[j].key = text[k].key => j = k
-----------------------------------------------------------------------------
(* The Warden's loader.                                                    *)

EndpointAt(text, head) ==
    [host |-> Value(text, head, "host"), type |-> Value(text, head, "type"),
     projects |-> Value(text, head, "projects"), actions |-> Value(text, head, "actions"),
     rules |-> [prefixes |-> Value(text, head, "rules.prefixes"),
                quota |-> Value(text, head, "rules.quota")]]

GitRules(text) == [prefixes |-> TableValue(text, "rules", "prefixes"),
                   quota |-> TableValue(text, "rules", "quota")]

GitActions(text) == TableValue(text, "git", "actions")

NormalOf(written) == NormalizeHost[CHOOSE w \in written : TRUE]

\* An unknown key of a rules table is refused; one of [git] or an endpoint is not.
RulesParse(text) ==
    /\ \A head \in {k \in Heads(text) : text[k].key = "rules"} :
           \A k \in KeysOf(text, head) : text[k].key \in {"prefixes", "quota"}
    /\ Wrong \notin {GitRules(text).prefixes, GitRules(text).quota}

ActionsParse(actions) == actions # Wrong /\ (actions # Unset => actions \subseteq KnownActions)

EndpointParses(e) ==
    /\ e.host \notin {Unset, Wrong}
    /\ e.type \in {{"gitlab"}, {"plain"}}
    /\ e.projects # Wrong
    /\ ActionsParse(e.actions)
    /\ e.actions # Unset => e.actions \subseteq ValidActions(e.type)
    /\ Wrong \notin {e.rules.prefixes, e.rules.quota}

\* _parse_git, without top-level keys, and with every endpoint's host its own.
GitParses(text) ==
    /\ KeysOf(text, 0) = {}
    /\ RulesParse(text)
    /\ ActionsParse(GitActions(text))
    /\ \A h \in EndpointHeads(text) : EndpointParses(EndpointAt(text, h))
    /\ \A g, h \in EndpointHeads(text) :
           NormalOf(Value(text, g, "host")) = NormalOf(Value(text, h, "host")) => g = h

RulesValid(rules) == /\ rules.quota # {"0"}
                     /\ rules.prefixes # {} /\ (rules.prefixes # Unset => "" \notin rules.prefixes)

\* Fault: only the defaults are validated.
ValidateDefaults(text) == RulesValid(GitRules(text))

\* _validate: what each table sets, not what the cascade makes of it.
Validate(text) ==
    /\ RulesValid(GitRules(text))
    /\ \A h \in EndpointHeads(text) : RulesValid(EndpointAt(text, h).rules)

\* A line of a token file has a host and a token; a comment has neither, and a
\* malformed line no token.
HostLines(file) == {k \in DOMAIN file : file[k].host # Unset}

TokensParse(file) ==
    /\ \A k \in HostLines(file) : file[k].token # Unset
    /\ \A j, k \in HostLines(file) :
           NormalizeHost[file[j].host] = NormalizeHost[file[k].host] => j = k

TokenOf(file, h) ==
    LET at == {k \in HostLines(file) : NormalizeHost[file[k].host] = h}
    IN IF at = {} THEN Unset ELSE file[Min(at)].token

\* from_env returns, instead of raising ConfigError.
Loads(text, tokens) ==
    /\ WellFormed(text) /\ GitParses(text) /\ Validate(text)
    /\ TokensParse(tokens.read) /\ TokensParse(tokens.write)
-----------------------------------------------------------------------------
(* What a loaded configuration grants.                                     *)

Cascade(override, domain, builtin) ==
    IF override # Unset THEN override ELSE IF domain # Unset THEN domain ELSE builtin

\* Fault: an explicit empty list falls through like an absent key.
CascadeFalsy(override, domain, builtin) ==
    IF override \notin {Unset, {}} THEN override
    ELSE IF domain \notin {Unset, {}} THEN domain ELSE builtin

EffectiveRules(text, e) ==
    [prefixes |-> Cascade(e.rules.prefixes, GitRules(text).prefixes, {"claude/"}),
     quota |-> Cascade(e.rules.quota, GitRules(text).quota, {"5"})]

EffectiveActions(text, e) ==
    IF e.actions # Unset THEN e.actions
    ELSE Cascade(Unset, GitActions(text), DefaultActions) \cap ValidActions(e.type)

AccessMode(tokens, h) ==
    IF TokenOf(tokens.read, h) = Unset THEN "closed"
    ELSE IF TokenOf(tokens.write, h) = Unset THEN "read-only" ELSE "read-write"

Hosts(text) == {NormalOf(Value(text, h, "host")) : h \in EndpointHeads(text)}

\* What the agent may do on each host.
Enforced(text, tokens) ==
    [h \in Hosts(text) |->
        LET e == EndpointAt(text, CHOOSE k \in EndpointHeads(text) :
                                      NormalOf(Value(text, k, "host")) = h)
        IN [mode |-> AccessMode(tokens, h),
            type |-> e.type,
            projects |-> IF e.projects = Unset THEN {} ELSE e.projects \ {""},
            actions |-> EffectiveActions(text, e),
            rules |-> EffectiveRules(text, e)]]
=============================================================================
