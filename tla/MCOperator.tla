----------------------------- MODULE MCOperator -----------------------------
(***************************************************************************)
(* Files an operator may have, and the answers they give.                  *)
(***************************************************************************)
EXTENDS Operator

MCHost == {"gl", "mirror"}
MCWritten == {"gl", "mirror", "GL:443"}
MCNormalizeHost == [w \in MCWritten |-> IF w = "GL:443" THEN "gl" ELSE w]
MCPlausible == {"g/p", "g/q"}
MCAnswers == {{"g/q", "leaf"}, {"leaf"}}

Commented(line) == [line EXCEPT !.bare = FALSE]

GitTable == <<Line("git", {}), Line("actions", DefaultActions)>>
RulesTable == <<Line("rules", {}), Line("prefixes", {"claude/"}), Line("quota", {"5"})>>
MCTemplate == GitTable \o RulesTable

Endpoint(written, type) ==
    <<Line("endpoint", {}), Line("host", {written}), Line("type", {type})>>

\* Endpoints that override nothing, narrow, or deny everything.
Gl == Endpoint("GL:443", "gitlab") \o <<Line("projects", {"g/p"})>>
Narrow == Endpoint("gl", "gitlab") \o <<Line("actions", {}), Line("rules.prefixes", {"bot/"})>>
Mirror == Endpoint("mirror", "plain") \o <<Line("rules.quota", {"1"})>>

\* The template's layout with overrides and without, and its tables behind the endpoints.
MCTexts ==
    {MCTemplate \o Gl \o Mirror, MCTemplate \o Mirror \o Narrow, Gl \o GitTable}

\* No file, none of the template's tables, and texts that are refused or read
\* otherwise by one of the readers for one thing each.
OddTexts ==
    {NoFile, MCTemplate,
     Mirror \o Narrow \o RulesTable,
     <<Line("git", {}), Line("actions", {})>> \o Gl,
     <<Line("rules", {}), Line("prefixes", {""})>> \o Gl,
     MCTemplate \o Mirror \o <<Line("rules.prefixes", {})>>,
     MCTemplate \o Narrow \o <<Line("projects", Wrong)>>,
     MCTemplate \o Endpoint("mirror", "plain") \o <<Line("actions", KnownActions)>>,
     MCTemplate \o Gl \o Narrow,
     <<Commented(Line("rules", {})), Line("quota", {"1"})>> \o Gl,
     <<Line("endpoint", {}), Commented(Line("host", {"gl"})), Line("type", {"gitlab"})>>,
     Mirror \o <<Commented(Line("projects", {"g/p", ""}))>>,
     <<Line("garbage", {})>>}

Entry(written, token) == [host |-> written, token |-> token]

NoTokens == [read |-> <<>>, write |-> <<>>]
SomeTokens ==
    {[read |-> <<Entry(Unset, Unset), Entry("gl", "old"), Entry("mirror", "old")>>,
      write |-> <<Entry("GL:443", "old")>>],
     [read |-> <<Entry("GL:443", "old")>>, write |-> <<Entry("mirror", Unset)>>]}

MCFiles ==
    {[toml |-> text, tokens |-> file] : text \in MCTexts, file \in SomeTokens}
    \cup {[toml |-> text, tokens |-> NoTokens] : text \in OddTexts}
MCSources == {[toml |-> MCTemplate \o Gl \o Mirror,
               tokens |-> [read |-> <<Entry("GL:443", "old")>>, write |-> <<>>]]}

\* An endpoint's header with a comment behind it.
HeaderComment ==
    {[toml |-> MCTemplate \o Endpoint("mirror", "plain")
                          \o <<Commented(Line("endpoint", {}))>> \o Tail(Gl),
      tokens |-> NoTokens]}
=============================================================================
