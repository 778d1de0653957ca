------------------------------- MODULE Doctor -------------------------------
(***************************************************************************)
(* What `catraz doctor` says of warden.toml and the token files (doctor.py *)
(* check_tokens, check_policy, check_action_coherence): a second reading   *)
(* of both, more lenient than the Warden's and with hosts compared as they *)
(* are spelled.  The online probe of the tokens is left out.               *)
(***************************************************************************)
EXTENDS PolicyEdit

\* Endpoint tables with a host; the rest is skipped.
DoctorHeads(text) == {k \in ReadableEndpoints(text) : HasHost(text, k)}

SpelledHost(text, head) == CHOOSE w \in Value(text, head, "host") : TRUE

OrElse(value, default) == IF value \in {Unset, Wrong} THEN default ELSE value

\* Raw host -> token; malformed lines are skipped and the last of several wins.
GroupedTokens(file) ==
    LET lines == {k \in HostLines(file) : file[k].token # Unset}
    IN [w \in {file[k].host : k \in lines} |->
           file[Max({k \in lines : file[k].host = w})].token]

DoctorActions(text, head) ==
    LET override == OrElse(Value(text, head, "actions"), Unset)
        inherited == OrElse(IF WellFormed(text) THEN GitActions(text) ELSE Unset, DefaultActions)
    IN IF override # Unset THEN override
       ELSE inherited \cap ValidActions(Value(text, head, "type"))

WriteAction == KnownActions \ {"repo.read", "project.read"}

Finding(level, section, about) == [level |-> level, section |-> section, about |-> about]

\* Fault: an endpoint with only a write token is reported as usable.
CheckTokensAnyToken(text, tokens) ==
    LET read == DOMAIN GroupedTokens(tokens.read)
        write == DOMAIN GroupedTokens(tokens.write)
        spelled == {SpelledHost(text, k) : k \in DoctorHeads(text)}
    IN {Finding("warn", "unmatched", w) : w \in (read \cup write) \ spelled}
       \cup {Finding(IF w \notin read \cup write THEN "warn" ELSE "ok",
                     IF w \in write THEN "read-write" ELSE "read-only", w) : w \in spelled}

\* check_tokens: tokens of no endpoint, and the mode of each endpoint.
CheckTokens(text, tokens) ==
    LET read == DOMAIN GroupedTokens(tokens.read)
        write == DOMAIN GroupedTokens(tokens.write)
        spelled == {SpelledHost(text, k) : k \in DoctorHeads(text)}
    IN {Finding("warn", "unmatched", w) : w \in (read \cup write) \ spelled}
       \cup {Finding(IF w \in read THEN "ok" ELSE "warn",
                     IF w \notin read THEN "closed"
                     ELSE IF w \in write THEN "read-write" ELSE "read-only", w) :
                w \in spelled}

\* check_policy: every endpoint but the first of its host is a duplicate; an empty or
\* implausible allowlist is pointed out.
CheckPolicy(text) ==
    {LET h == NormalOf(Value(text, k, "host"))
         projects == OrElse(Value(text, k, "projects"), {})
         level == IF \E j \in DoctorHeads(text) : j < k /\ NormalOf(Value(text, j, "host")) = h
                  THEN "bad"
                  ELSE IF projects = {} THEN "warn"
                  ELSE IF projects \subseteq Plausible THEN "ok" ELSE "bad"
     IN Finding(level, "policy", SpelledHost(text, k)) : k \in DoctorHeads(text)}

\* check_action_coherence: write actions without a write token; merge requests with no
\* way to bring their branch to the forge.  The same test of project.ci.trigger is left
\* out with that action.
CheckActionCoherence(text, tokens) ==
    {Finding("warn", "read-only", SpelledHost(text, k)) : k \in
        {k \in DoctorHeads(text) :
            /\ DoctorActions(text, k) \cap WriteAction # {}
            /\ SpelledHost(text, k) \notin DOMAIN GroupedTokens(tokens.write)}}
    \cup
    {Finding("warn", "no branch", SpelledHost(text, k)) : k \in
        {k \in DoctorHeads(text) :
            /\ "project.mr.create" \in DoctorActions(text, k)
            /\ "repo.branch.push" \notin DoctorActions(text, k)}}

Findings(text, tokens) ==
    CheckTokens(text, tokens) \cup CheckPolicy(text) \cup CheckActionCoherence(text, tokens)

\* What `doctor --strict` exits zero on.
Clean(findings) == \A f \in findings : f.level = "ok"
=============================================================================
