------------------------------ MODULE Operator ------------------------------
(***************************************************************************)
(* The operator at the command line: `catraz init` (--yes, or the wizard   *)
(* prompt by prompt, each with --from), `catraz allow` in another          *)
(* terminal, and the two readers of what they leave behind, the Warden at  *)
(* its next start and `catraz doctor`.                                     *)
(*                                                                         *)
(* Each edit of a file is one step; between two prompts of the wizard      *)
(* anything may happen, and the wizard may be left at any of them.         *)
(***************************************************************************)
EXTENDS Doctor

CONSTANTS
    Token,
    NoFile,
    Template,   \* the warden.toml that is shipped
    Files,      \* contents of warden.toml and the token files found at first
    Sources,    \* what an init may be told to inherit --from
    Answers,    \* sets of projects an operator may name
    MaxCommands \* bound: commands entered

File == [toml : Seq(TextLine) \cup {NoFile}, tokens : [{"read", "write"} -> Seq(TokenLine)]]

ASSUME OperatorAssumption ==
    /\ Token \subseteq STRING
    /\ NoFile \notin Seq(TextLine) /\ Template \in Seq(TextLine)
    /\ Files \cup Sources \subseteq File
    /\ MaxCommands \in Nat

VARIABLES
    toml, tokens,   \* .catraz/config/warden.toml, .catraz/secrets/{read,write}_tokens
    wizard,         \* the prompt it waits at, and what it has learned
    commands,
    edited          \* the host the last step wrote for, for the properties only

vars == <<toml, tokens, wizard, commands, edited>>

Away == [step |-> "none", host |-> Unset, force |-> FALSE, write |-> FALSE]

Init ==
    /\ \E f \in Files : toml = f.toml /\ tokens = f.tokens
    /\ wizard = Away /\ commands = 0 /\ edited = Unset

Command == commands < MaxCommands /\ commands' = commands + 1

\* stage_inherited and _init_config_templates: an inherited file replaces a missing
\* one, with --yes any; a token file with nothing in it is never inherited.
Staged(source, yes) ==
    IF source # NoFile /\ source.toml # NoFile /\ (toml = NoFile \/ yes) THEN source.toml
    ELSE IF toml = NoFile THEN Template ELSE toml

StagedTokens(source, yes) ==
    [f \in {"read", "write"} |->
        IF source # NoFile /\ source.tokens[f] # <<>> /\ (tokens[f] = <<>> \/ yes)
        THEN source.tokens[f] ELSE tokens[f]]

Upserted(file, h, token) == IF token = Unset THEN file ELSE UpsertGroupedToken(file, h, token)

\* init --yes: without a host and tokens in the environment no endpoint is added.
InitYes(source, h, read, write) ==
    /\ wizard = Away /\ Command
    /\ h = Unset => read = Unset /\ write = Unset
    /\ toml' = IF h = Unset THEN Staged(source, TRUE)
               ELSE EnsureGitEndpoint(Staged(source, TRUE), h)
    /\ tokens' = LET staged == StagedTokens(source, TRUE)
                 IN [read |-> Upserted(staged.read, h, read),
                     write |-> Upserted(staged.write, h, write)]
    /\ edited' = IF source = NoFile /\ toml # NoFile THEN h ELSE Unset
    /\ UNCHANGED wizard

InitInteractive(source, force) ==
    /\ wizard = Away /\ Command
    /\ toml' = Staged(source, FALSE) /\ tokens' = StagedTokens(source, FALSE)
    /\ wizard' = [Away EXCEPT !.step = "host", !.force = force]
    /\ edited' = Unset

\* Fault: the prompt for the host takes no answer for one.
AnswerHostEmpty(h, write) ==
    /\ wizard.step = "host"
    /\ wizard' = [wizard EXCEPT !.step = "read", !.write = write]
    /\ UNCHANGED <<toml, tokens, commands, edited>>

\* Declining leaves the files as they are.
AnswerHost(h, write) ==
    /\ wizard.step = "host"
    /\ wizard' = [wizard EXCEPT !.step = "read", !.host = h, !.write = write]
    /\ UNCHANGED <<toml, tokens, commands, edited>>

\* What the operator typed, or else what the file has, unless forced.
Answered(file, typed) ==
    IF typed # Unset THEN typed
    ELSE IF wizard.force THEN Unset ELSE ReadGroupedToken(file, wizard.host)

\* Behind the last token: the endpoint is there, and the projects are asked for
\* unless some are set.
GoOnToProjects ==
    /\ toml' = EnsureGitEndpoint(toml, wizard.host)
    /\ wizard' = [wizard EXCEPT !.step =
                     IF ReadAllowedProjects(toml', wizard.host) # {} /\ ~wizard.force
                     THEN "prefix" ELSE "projects"]

AnswerRead(typed) ==
    /\ wizard.step = "read"
    /\ tokens' = [tokens EXCEPT !.read = Upserted(@, wizard.host, Answered(@, typed))]
    /\ IF wizard.write THEN wizard' = [wizard EXCEPT !.step = "write"] /\ UNCHANGED toml
       ELSE GoOnToProjects
    /\ edited' = wizard.host /\ UNCHANGED commands

AnswerWrite(typed) ==
    /\ wizard.step = "write"
    /\ tokens' = [tokens EXCEPT !.write = Upserted(@, wizard.host, Answered(@, typed))]
    /\ GoOnToProjects
    /\ edited' = wizard.host /\ UNCHANGED commands

\* The wizard's list replaces whatever is there now; without a block for the host it
\* ends with an error.
AnswerProjects(projects) ==
    LET valid == projects \cap Plausible IN
    /\ wizard.step = "projects"
    /\ IF valid = {} THEN wizard' = [wizard EXCEPT !.step = "prefix"] /\ UNCHANGED toml
       ELSE /\ toml' = SetEndpointAllowedProjects(toml, wizard.host, valid)
            /\ wizard' = IF BlocksFor(toml, wizard.host) = {} THEN Away
                         ELSE [wizard EXCEPT !.step = "prefix"]
    /\ edited' = wizard.host /\ UNCHANGED <<tokens, commands>>

AnswerPrefix(prefix) ==
    /\ wizard.step = "prefix"
    /\ toml' = SetGitRulesBranchPrefixes(toml, {prefix})
    /\ wizard' = Away /\ edited' = Unset
    /\ UNCHANGED <<tokens, commands>>

Quit ==
    /\ wizard # Away /\ wizard' = Away /\ edited' = Unset
    /\ UNCHANGED <<toml, tokens, commands>>

AllowCommand(projects) ==
    /\ toml # NoFile /\ Command
    /\ toml' = Allow(toml, projects)
    /\ edited' = FirstEndpointHost(toml)
    /\ UNCHANGED <<tokens, wizard>>

Typed == Token \cup {Unset}

Next ==
    \/ \E s \in Sources \cup {NoFile} :
          \/ \E h \in Host \cup {Unset}, r, w \in Typed : InitYes(s, h, r, w)
          \/ \E force \in BOOLEAN : InitInteractive(s, force)
    \/ \E h \in Host, write \in BOOLEAN : AnswerHost(h, write)
    \/ \E t \in Typed : AnswerRead(t) \/ AnswerWrite(t)
    \/ \E ps \in Answers : AnswerProjects(ps) \/ AllowCommand(ps)
    \/ AnswerPrefix("bot/")
    \/ Quit

Spec == Init /\ [][Next]_vars
-----------------------------------------------------------------------------
(* Properties.                                                             *)

Accepted == toml # NoFile /\ Loads(toml, tokens)

TypeOK ==
    /\ toml \in Seq(TextLine) \cup {NoFile}
    /\ tokens \in [{"read", "write"} -> Seq(TokenLine)]
    /\ wizard \in [step : {"none", "host", "read", "write", "projects", "prefix"},
                   host : Host \cup {Unset}, force : BOOLEAN, write : BOOLEAN]
    /\ wizard.step \notin {"none", "host"} => wizard.host \in Host
    /\ wizard = Away \/ toml # NoFile
    /\ commands \in 0 .. MaxCommands /\ edited \in Host \cup {Unset}

\* "touching only that block and preserving everything else": whatever order and
\* spelling the file has, an edit for a host leaves what the Warden grants on every
\* other host as it was, and on that host all but its projects and access, or else
\* the Warden refuses the file (ensure_git_endpoint, set_endpoint_allowed_projects).
EditStaysInHost ==
    [][edited' # Unset /\ <<toml, tokens>>' # <<toml, tokens>> /\ Accepted /\ Accepted' =>
           LET old == Enforced(toml, tokens)
               new == Enforced(toml', tokens') IN
           /\ DOMAIN new \in {DOMAIN old, DOMAIN old \cup {edited'}}
           /\ \A g \in DOMAIN old :
                 new[g] = IF g # edited' THEN old[g]
                          ELSE [old[g] EXCEPT !.projects = new[g].projects,
                                              !.mode = new[g].mode]]_vars

\* Every limit the cascade arrives at is a valid one, although only what each table
\* sets is validated; no action is enabled the endpoint's type cannot enforce; and an
\* explicit empty list grants nothing instead of inheriting (_validate against
\* effective_rules and effective_actions).
EnforcedIsValid ==
    Accepted =>
        LET enforced == Enforced(toml, tokens) IN
        \A k \in EndpointHeads(toml) :
            LET e == EndpointAt(toml, k)
                granted == enforced[NormalOf(e.host)] IN
            /\ RulesValid(granted.rules) /\ Unset \notin {granted.rules.prefixes, granted.rules.quota}
            /\ granted.actions \subseteq ValidActions(e.type)
            /\ {} \in {e.actions, IF e.actions = Unset THEN GitActions(toml) ELSE Unset} =>
                   granted.actions = {}

\* "what init writes is exactly what the warden reads": a token file the Warden can
\* read stays so through every spelling of hosts and every repeated init, whatever
\* else it holds; a token is only ever replaced for the host it was given for
\* (_upsert_grouped_token against _parse_token_file).
TokenFilesStayReadable ==
    [][\A f \in {"read", "write"} :
           edited' # Unset /\ tokens'[f] # tokens[f] /\ TokensParse(tokens[f]) =>
               /\ TokensParse(tokens'[f])
               /\ TokenOf(tokens'[f], edited') # Unset
               /\ \A h \in Host \ {edited'} :
                     TokenOf(tokens'[f], h) = TokenOf(tokens[f], h)]_vars

\* "so the two never drift": for any file the Warden accepts the doctor works out the
\* same actions for every endpoint; when it has nothing to complain of, every endpoint
\* is open in just the mode it reports (check_tokens, check_action_coherence).
DoctorAgrees ==
    Accepted =>
        LET granted == Enforced(toml, tokens)
            findings == Findings(toml, tokens) IN
        \A k \in DoctorHeads(toml) :
            LET h == NormalOf(Value(toml, k, "host")) IN
            /\ DoctorActions(toml, k) = granted[h].actions
            /\ Clean(findings) =>
                   /\ granted[h].mode # "closed"
                   /\ Finding("ok", granted[h].mode, SpelledHost(toml, k)) \in findings

\* The layout of the shipped template: other tables before the endpoints, nothing
\* commented, [git.rules] present.
Shipped(text) ==
    /\ \A k \in DOMAIN text : text[k].bare
    /\ BareHeads(text, "rules") # {}
    /\ \A j \in EndpointHeads(text), k \in DOMAIN text :
           text[k].key \in {"git", "rules"} => k < j

SourcesShipped ==
    \A s \in Sources : s.toml # NoFile => Shipped(s.toml) /\ Loads(s.toml, s.tokens)

\* From a file of the template's layout that the Warden accepts, init and allow, in any
\* order, with any answers and left at any prompt, never make one it refuses.
TemplateStaysLoadable ==
    [][toml' # toml /\ Accepted /\ Shipped(toml) /\ SourcesShipped =>
           Accepted' /\ Shipped(toml')]_vars
=============================================================================
