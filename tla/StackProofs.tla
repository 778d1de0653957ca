----------------------------- MODULE StackProofs -----------------------------
(***************************************************************************)
(* What the command line tool promises of its asset cache, of reload and   *)
(* of the compose invariants, for any number of terminals, commands and    *)
(* edits.                                                                  *)
(***************************************************************************)
EXTENDS Stack, TLAPS

Stamp == Nat \cup {None}
Rendering == [env : Nat, override : {"good", "bad"}]
Box == [env : Nat, started : Nat, loaded : Stamp]

Cmd == {"none", "run", "remote", "reload", "down"}
Assets == {"ask", "compose", "contexts", "mark", "ready"}
Sigs == (Nat \X Nat) \cup {None}
Prefix == {None, "resolved", "layered"}
Held == Rendering \cup {None}
Starts == (UNION {[S -> Stamp] : S \in SUBSET Infra}) \cup {None}

Slot ==
    [cmd : Cmd, step : Step, id : Nat, force : BOOLEAN, assets : Assets, sig : Sigs,
     prefix : Prefix, content : Held, targets : SUBSET Infra, starts : Starts,
     began : Nat, alone : BOOLEAN, done : BOOLEAN]

\* The shapes the other invariants speak of, and the clock above every time.
Typed ==
    /\ now \in Nat /\ mtime \in [File -> 0 .. now] /\ source \in 0 .. now
    /\ override \in {"good", "bad"} /\ installed \in BOOLEAN /\ shared \in BOOLEAN
    /\ marker \in (Nat \X Nat) \cup {None} /\ tree \in [Piece -> Stamp]
    /\ resolved \in Rendering \cup {None}
    /\ container \in [Infra -> Box \cup {None}]
    /\ proc \in [Cli -> Slot] /\ commands \in Nat /\ hidden \subseteq Infra

\* What a command holds at each of its steps.
Staged ==
    \A c \in Cli :
        /\ proc[c].cmd = "none" <=> proc[c].step = "none"
        /\ proc[c].step \in {"list", "decide", "up"} => proc[c].cmd = "reload"
        /\ proc[c].step \in {"check", "infra", "start", "agent"} => proc[c].cmd \in {"run", "remote"}
        /\ proc[c].step = "down" => proc[c].cmd = "down"
        /\ proc[c].step = "write" => proc[c].content # None
        /\ proc[c].step = "decide" => proc[c].starts # None
        /\ proc[c].prefix = "resolved" => resolved # None
        /\ proc[c].cmd # "none" => ~proc[c].done
        /\ proc[c].began <= now
-----------------------------------------------------------------------------
(* Shapes.                                                                 *)

LEMMA NoneApart == None # "resolved" /\ None # "layered"
BY StackAssumption

LEMMA IdleTyped == Idle \in Slot /\ Ended(TRUE) \in Slot /\ Ended(FALSE) \in Slot
<1>1. /\ "none" \in Cmd /\ "none" \in Step /\ "ask" \in Assets /\ None \in Sigs
      /\ None \in Prefix /\ None \in Held /\ None \in Starts
  BY DEF Cmd, Step, Assets, Sigs, Prefix, Held, Starts
<1>2. QED
  BY <1>1 DEF Idle, Ended, Slot

LEMMA SetTyped ==
    ASSUME proc \in [Cli -> Slot], NEW c \in Cli, NEW p \in Slot, Set(c, p)
    PROVE  /\ proc' \in [Cli -> Slot] /\ proc'[c] = p
           /\ \A d \in Cli \ {c} : proc'[d] = proc[d]
BY DEF Set

LEMMA ToTyped ==
    ASSUME proc \in [Cli -> Slot], NEW c \in Cli, NEW step \in Step
    PROVE  To(c, step) \in Slot
<1>1. "ask" \in Assets
  BY DEF Assets
<1>2. QED
  BY <1>1 DEF To, Slot

\* Everything but the step is taken along.
LEMMA ToFields ==
    ASSUME proc \in [Cli -> Slot], NEW c \in Cli, NEW step \in Step
    PROVE  LET p == To(c, step) IN
           /\ p \in Slot
           /\ p.step = step /\ p.assets = "ask" /\ p.cmd = proc[c].cmd /\ p.id = proc[c].id
           /\ p.force = proc[c].force /\ p.sig = proc[c].sig /\ p.prefix = proc[c].prefix
           /\ p.content = proc[c].content /\ p.targets = proc[c].targets
           /\ p.starts = proc[c].starts /\ p.began = proc[c].began
           /\ p.alone = proc[c].alone /\ p.done = proc[c].done
<1>1. proc[c] \in Slot
  OBVIOUS
<1>2. QED
  BY <1>1, ToTyped DEF To, Slot

LEMMA AloneFields ==
    ASSUME NEW p \in Slot, NEW b
    PROVE  LET q == [p EXCEPT !.alone = b] IN
           /\ q.cmd = p.cmd /\ q.step = p.step /\ q.id = p.id /\ q.force = p.force
           /\ q.assets = p.assets /\ q.sig = p.sig /\ q.prefix = p.prefix
           /\ q.content = p.content /\ q.targets = p.targets /\ q.starts = p.starts
           /\ q.began = p.began /\ q.alone = b /\ q.done = p.done
BY DEF Slot

LEMMA EndedFields ==
    /\ Ended(TRUE) \in Slot /\ Ended(TRUE).cmd = "none" /\ Ended(TRUE).step = "none"
    /\ Ended(TRUE).assets = "ask" /\ Ended(TRUE).prefix = None /\ Ended(TRUE).began = 0
    /\ Ended(TRUE).alone = FALSE /\ Ended(TRUE).done = TRUE
    /\ Ended(FALSE) \in Slot /\ Ended(FALSE).cmd = "none" /\ Ended(FALSE).step = "none"
    /\ Ended(FALSE).assets = "ask" /\ Ended(FALSE).prefix = None /\ Ended(FALSE).began = 0
    /\ Ended(FALSE).alone = FALSE /\ Ended(FALSE).done = FALSE
BY IdleTyped DEF Ended, Idle

LEMMA LayeredTyped ==
    ASSUME Typed
    PROVE  Layered \in Rendering
BY DEF Typed, Layered, Rendering, File


\* Whatever a command does next is a slot; writing the rendered file changes others, too.
LEMMA MoveTyped ==
    ASSUME Typed, Staged, NEW c \in Cli,
           \/ \E cmd \in {"run", "remote", "down", "reload"}, force \in BOOLEAN : Enter(c, cmd, force)
           \/ Kill(c) \/ BeginExtract(c) \/ Copy(c) \/ Mark(c) \/ Render(c) \/ Check(c)
           \/ EnsureInfra(c) \/ Start(c) \/ RunAgent(c) \/ Down(c)
           \/ List(c) \/ Decide(c) \/ Up(c)
    PROVE  \E p \in Slot : Set(c, p)
<1>1. /\ proc \in [Cli -> Slot] /\ proc[c] \in Slot /\ now \in Nat /\ commands + 1 \in Nat
      /\ source \in Nat
  BY DEF Typed
<1>2. \A step \in Step : To(c, step) \in Slot
  BY <1>1, ToTyped
<1>3. {"list", "decide", "render", "write", "check", "infra", "start", "up", "agent", "down"} \subseteq Step
  BY DEF Step
<1>4. ASSUME NEW cmd \in {"run", "remote", "down", "reload"}, NEW force \in BOOLEAN,
             Enter(c, cmd, force)
      PROVE  \E p \in Slot : Set(c, p)
  <2> DEFINE id == IF installed THEN commands + 1 ELSE 0
             began == IF cmd = "reload" THEN now ELSE 0
             step == IF cmd = "reload" THEN "list" ELSE "render"
             p == [Idle EXCEPT !.cmd = cmd, !.force = force, !.id = id, !.began = began,
                               !.step = step]
  <2>1. step \in Step /\ cmd \in Cmd /\ id \in Nat /\ began \in Nat
    BY <1>1, <1>3 DEF Cmd
  <2>2. Set(c, p)
    BY <1>4 DEF Enter
  <2> HIDE DEF id, began, step
  <2>3. p \in Slot
    BY <2>1, IdleTyped DEF Idle, Slot
  <2>4. QED
    BY <2>2, <2>3
<1>5. CASE Kill(c) \/ RunAgent(c) \/ Down(c)
  BY <1>5, IdleTyped DEF Kill, RunAgent, Down
<1>6. CASE BeginExtract(c)
  <2>1. "compose" \in Assets /\ Signature(c) \in Sigs
    BY <1>1 DEF Assets, Sigs, Signature, Slot
  <2>2. [proc[c] EXCEPT !.assets = "compose", !.sig = Signature(c)] \in Slot
    BY <1>1, <2>1 DEF Slot
  <2>3. QED
    BY <1>6, <2>2 DEF BeginExtract
<1>7. CASE Copy(c)
  <2> DEFINE next == IF proc[c].assets = "compose" THEN "contexts" ELSE "mark"
  <2>1. next \in Assets
    BY DEF Assets
  <2>2. Set(c, [proc[c] EXCEPT !.assets = next])
    BY <1>7 DEF Copy
  <2> HIDE DEF next
  <2>3. [proc[c] EXCEPT !.assets = next] \in Slot
    BY <1>1, <2>1 DEF Slot
  <2>4. QED
    BY <2>2, <2>3
<1>8. CASE Mark(c)
  <2>1. "ready" \in Assets /\ None \in Sigs
    BY DEF Assets, Sigs
  <2>2. [proc[c] EXCEPT !.assets = "ready", !.sig = None] \in Slot
    BY <1>1, <2>1 DEF Slot
  <2>3. QED
    BY <1>8, <2>2 DEF Mark
<1>9. CASE Render(c)
  <2>1. /\ Layered \in Held /\ "layered" \in Prefix
        /\ To(c, "write") \in Slot /\ To(c, AfterRender[proc[c].cmd]) \in Slot
    <3>1. proc[c].cmd # "none" => AfterRender[proc[c].cmd] \in Step
      BY <1>1 DEF Slot, Cmd, Step, AfterRender
    <3>2. proc[c].cmd # "none"
      BY <1>9 DEF Render, At, Staged
    <3>3. QED
      BY <1>2, <1>3, <3>1, <3>2, LayeredTyped DEF Held, Prefix
  <2>2. [To(c, "write") EXCEPT !.content = Layered] \in Slot
    BY <2>1 DEF Slot
  <2>3. [To(c, AfterRender[proc[c].cmd]) EXCEPT !.prefix = "layered"] \in Slot
    BY <2>1 DEF Slot
  <2>4. QED
    BY <1>9, <2>2, <2>3 DEF Render
<1>10. CASE Check(c)
  <2>1. /\ To(c, "infra") \in Slot /\ To(c, "start") \in Slot /\ Ended(FALSE) \in Slot
        /\ (proc[c].alone \/ proc[c].prefix = "layered") \in BOOLEAN
    BY <1>1, <1>2, <1>3, IdleTyped
  <2> DEFINE next == To(c, IF proc[c].cmd = "run" THEN "infra" ELSE "start")
             alone == next.alone \/ proc[c].prefix = "layered"
  <2>2. next \in Slot /\ alone \in BOOLEAN
    BY <2>1
  <2>3. Set(c, [next EXCEPT !.alone = alone]) \/ Set(c, Ended(FALSE))
    BY <1>10 DEF Check, Checked
  <2> HIDE DEF next, alone
  <2>4. [next EXCEPT !.alone = alone] \in Slot
    BY <2>2 DEF Slot
  <2>5. QED
    BY <2>1, <2>3, <2>4
<1>11. CASE EnsureInfra(c)
  BY <1>2, <1>3, <1>11 DEF EnsureInfra
<1>12. CASE Start(c)
  BY <1>2, <1>3, <1>12, IdleTyped DEF Start
<1>13. CASE List(c)
  <2>1. Set(c, Ended(FALSE)) \/ \E starts \in Starts : Set(c, [To(c, "decide") EXCEPT !.starts = starts])
    <3>1. SUFFICES ASSUME NEW seen \in SUBSET Infra, NEW unreadable \in SUBSET seen,
                          seen = {} \/ seen = Running
                   PROVE  [s \in seen |-> IF s \in unreadable THEN None
                                          ELSE container[s].started] \in Starts
      BY <1>13 DEF List, Running
    <3>2. \A s \in seen : container[s].started \in Nat
      BY <3>1 DEF Running, Typed, Box
    <3>3. QED
      BY <3>2 DEF Starts, Stamp
  <2>2. \A starts \in Starts : [To(c, "decide") EXCEPT !.starts = starts] \in Slot
    BY <1>2, <1>3 DEF Slot
  <2>3. QED
    BY <2>1, <2>2, IdleTyped
<1>14. CASE Decide(c)
  <2>1. Set(c, Ended(TRUE)) \/
        \E targets \in SUBSET Infra :
            Set(c, [To(c, "render") EXCEPT !.targets = targets, !.starts = None, !.force = FALSE])
    <3>1. proc[c].starts # None => DOMAIN proc[c].starts \subseteq Infra
      BY <1>1 DEF Slot, Starts
    <3>2. proc[c].starts # None
      BY <1>14 DEF Decide, At, Staged
    <3>3. QED
      BY <1>14, <3>1, <3>2 DEF Decide
  <2>2. None \in Starts
    BY DEF Starts
  <2> DEFINE next == To(c, "render")
  <2>3. next \in Slot
    BY <1>2, <1>3
  <2> HIDE DEF next
  <2>4. \A targets \in SUBSET Infra :
            [next EXCEPT !.targets = targets, !.starts = None, !.force = FALSE] \in Slot
    BY <2>2, <2>3 DEF Slot
  <2>5. QED
    BY <2>1, <2>4, IdleTyped DEF next
<1>15. CASE Up(c)
  BY <1>15, IdleTyped DEF Up
<1>16. QED
  BY <1>4, <1>5, <1>6, <1>7, <1>8, <1>9, <1>10, <1>11, <1>12, <1>13, <1>14, <1>15

Entry(c) ==
    \E cmd \in {"run", "remote", "down", "reload"}, force \in BOOLEAN : Enter(c, cmd, force)

\* A command's step, as far as it concerns its own slot.
Move(c) ==
    \/ Entry(c) \/ Kill(c) \/ BeginExtract(c) \/ Copy(c) \/ Mark(c) \/ Render(c) \/ Check(c)
    \/ EnsureInfra(c) \/ Start(c) \/ RunAgent(c) \/ Down(c) \/ List(c) \/ Decide(c) \/ Up(c)

\* A step by what it does, with the trivial ones last.
LEMMA NextCases ==
    ASSUME [Next]_vars
    PROVE  \/ \E c \in Cli : Move(c) \/ Write(c)
           \/ \E s \in Infra : Load(s) \/ Restart(s)
           \/ \E f \in File : Edit(f)
           \/ EditOverride \/ Upgrade \/ UNCHANGED vars
BY DEF Next, Move, Entry

LEMMA MoveSlot ==
    ASSUME Typed, Staged, NEW c \in Cli, Move(c)
    PROVE  /\ proc' \in [Cli -> Slot]
           /\ \A d \in Cli \ {c} : proc'[d] = proc[d]
<1>1. \E p \in Slot : Set(c, p)
  BY MoveTyped DEF Move, Entry
<1>2. QED
  BY <1>1, SetTyped DEF Typed

LEMMA CreateTyped ==
    ASSUME Typed, NEW services \in SUBSET Infra, NEW content \in Rendering, Create(services, content)
    PROVE  container' \in [Infra -> Box \cup {None}] /\ hidden' \subseteq Infra
<1>1. Fresh(content) \in Box
  BY DEF Typed, Fresh, Box, Stamp, Rendering
<1>2. QED
  BY <1>1 DEF Create, Typed

\* What a command reads is a rendering.
LEMMA ContentTyped ==
    ASSUME Typed, Staged, NEW c \in Cli
    PROVE  ContentOf(c) \in Rendering
BY LayeredTyped DEF Typed, Staged, ContentOf

\* The steps that create containers, with what they create them from.
LEMMA CreateCases ==
    ASSUME Typed, Staged, NEW c \in Cli, Start(c) \/ Up(c)
    PROVE  \E services \in SUBSET Infra : Create(services, ContentOf(c))
<1>1. Outdated(ContentOf(c)) \subseteq Infra /\ proc[c].targets \subseteq Infra
  BY DEF Outdated, Typed, Slot
<1>2. QED
  BY <1>1 DEF Start, Up

LEMMA MoveKeepsTyped ==
    ASSUME Typed, Staged, NEW c \in Cli, Move(c)
    PROVE  Typed'
<1>1. proc' \in [Cli -> Slot]
  BY MoveSlot
<1>2. UNCHANGED <<files, resolved>> /\ commands' \in {commands, commands + 1}
  BY DEF Move, Entry, Enter, Kill, BeginExtract, Copy, Mark, Render, Check, Checked, EnsureInfra,
         Start, RunAgent, Down, List, Decide, Up, cache
<1>3. container' \in [Infra -> Box \cup {None}] /\ hidden' \subseteq Infra
  <2>1. CASE Start(c) \/ Up(c)
    BY <2>1, CreateCases, ContentTyped, CreateTyped
  <2>2. CASE UNCHANGED hidden /\ (UNCHANGED container \/ container' = [s \in Infra |-> None])
    BY <2>2 DEF Typed
  <2>3. QED
    BY <2>1, <2>2 DEF Move, Entry, Enter, Kill, BeginExtract, Copy, Mark, Render, Check, Checked,
         EnsureInfra, RunAgent, Down, List, Decide, cache
<1>4. shared' \in BOOLEAN /\ marker' \in (Nat \X Nat) \cup {None} /\ tree' \in [Piece -> Stamp]
  <2>1. CASE BeginExtract(c)
    BY <2>1 DEF BeginExtract, Typed, Stamp
  <2>2. CASE Copy(c)
    BY <2>2 DEF Copy, Typed, Stamp
  <2>3. CASE Mark(c)
    BY <2>3 DEF Mark, Typed, Slot, Sigs
  <2>4. CASE UNCHANGED cache
    BY <2>4 DEF Typed, cache
  <2>5. QED
    BY <2>1, <2>2, <2>3, <2>4 DEF Move, Entry, Enter, Kill, Render, Check, Checked,
         EnsureInfra, Start, RunAgent, Down, List, Decide, Up
<1>5. QED
  BY <1>1, <1>2, <1>3, <1>4 DEF Typed, files

LEMMA NextTyped ==
    ASSUME Typed, Staged, [Next]_vars
    PROVE  Typed'
<1>1. ASSUME NEW c \in Cli, Write(c)
      PROVE  Typed'
  <2> DEFINE mine == To(c, AfterRender[proc[c].cmd])
             slot(d) == IF d = c THEN [mine EXCEPT !.prefix = "resolved", !.content = None, !.alone = TRUE]
                        ELSE [proc[d] EXCEPT !.alone = proc[d].alone /\ proc[d].prefix = "layered"]
  <2>1. proc' = [d \in Cli |-> slot(d)] /\ resolved' = proc[c].content /\ resolved' \in Rendering
    BY <1>1 DEF Write, Typed, Staged, Slot, Held, At
  <2>2. mine \in Slot
    <3>1. AfterRender[proc[c].cmd] \in Step
      BY <1>1 DEF Write, At, Staged, Typed, Slot, Cmd, Step, AfterRender
    <3>2. QED
      BY <3>1, ToTyped DEF Typed
  <2> HIDE DEF mine
  <2>3. \A d \in Cli : slot(d) \in Slot
    <3>1. "resolved" \in Prefix /\ None \in Held
      BY DEF Prefix, Held
    <3>2. [mine EXCEPT !.prefix = "resolved", !.content = None, !.alone = TRUE] \in Slot
      BY <2>2, <3>1 DEF Slot
    <3>3. \A d \in Cli, b \in BOOLEAN : [proc[d] EXCEPT !.alone = b] \in Slot
      BY DEF Typed, Slot
    <3>4. \A d \in Cli : (proc[d].alone /\ proc[d].prefix = "layered") \in BOOLEAN
      OBVIOUS
    <3>5. QED
      BY <3>2, <3>3, <3>4
  <2> HIDE DEF slot
  <2>4. proc' \in [Cli -> Slot]
    BY <2>1, <2>3
  <2>5. QED
    BY <1>1, <2>1, <2>4 DEF Write, Typed, files, cache
<1>2. ASSUME NEW s \in Infra, Load(s) \/ Restart(s)
      PROVE  Typed'
  <2>1. container[s] \in Box /\ mtime[ServiceConfig(s)] \in Nat
    BY <1>2 DEF Load, Restart, Typed, ServiceConfig, File, Infra
  <2>2. /\ [container[s] EXCEPT !.loaded = mtime[ServiceConfig(s)]] \in Box
        /\ [container[s] EXCEPT !.started = now, !.loaded = None] \in Box
    BY <2>1 DEF Box, Stamp, Typed
  <2>3. container' \in [Infra -> Box \cup {None}]
    BY <1>2, <2>2 DEF Load, Restart, Typed
  <2>4. QED
    BY <1>2, <2>3 DEF Load, Restart, Typed, files, cache
<1>3. ASSUME NEW f \in File, Edit(f)
      PROVE  Typed'
  BY <1>3 DEF Edit, Typed, cache
<1>4. ASSUME EditOverride
      PROVE  Typed'
  <2>1. \A d \in Cli, b \in BOOLEAN : [proc[d] EXCEPT !.alone = b] \in Slot
    BY DEF Typed, Slot
  <2>2. \A d \in Cli : (proc[d].alone /\ proc[d].prefix = "resolved") \in BOOLEAN
    OBVIOUS
  <2>3. proc' \in [Cli -> Slot]
    BY <1>4, <2>1, <2>2 DEF EditOverride
  <2>4. QED
    BY <1>4, <2>3 DEF EditOverride, Typed, cache
<1>5. ASSUME Upgrade \/ UNCHANGED vars
      PROVE  Typed'
  BY <1>5 DEF Upgrade, Typed, vars, files, cache
<1>6. QED
  BY <1>1, <1>2, <1>3, <1>4, <1>5, NextCases, MoveKeepsTyped

LEMMA MoveKeepsStaged ==
    ASSUME Typed, Staged, NEW c \in Cli, Move(c)
    PROVE  Staged'
<1> DEFINE Good(p) ==
        /\ p.cmd = "none" <=> p.step = "none"
        /\ p.step \in {"list", "decide", "up"} => p.cmd = "reload"
        /\ p.step \in {"check", "infra", "start", "agent"} => p.cmd \in {"run", "remote"}
        /\ p.step = "down" => p.cmd = "down"
        /\ p.step = "write" => p.content # None
        /\ p.step = "decide" => p.starts # None
        /\ p.prefix = "resolved" => resolved # None
        /\ p.cmd # "none" => ~p.done
        /\ p.began <= now
<1>1. /\ proc \in [Cli -> Slot] /\ proc[c] \in Slot /\ Good(proc[c]) /\ now \in Nat
      /\ UNCHANGED <<now, resolved>> /\ \A d \in Cli \ {c} : proc'[d] = proc[d]
  <2>1. UNCHANGED <<files, resolved>>
    BY DEF Move, Entry, Enter, Kill, BeginExtract, Copy, Mark, Render, Check, Checked, EnsureInfra,
           Start, RunAgent, Down, List, Decide, Up, cache
  <2>2. QED
    BY <2>1, MoveSlot DEF Typed, Staged, files
<1>2. SUFFICES Good(proc'[c])
  BY <1>1 DEF Staged
<1>3. \A p : Set(c, p) => proc'[c] = p
  BY <1>1 DEF Set
<1>4. Good(Ended(TRUE)) /\ Good(Ended(FALSE))
  <2>1. "none" \notin {"list", "decide", "up", "check", "infra", "start", "agent", "down", "write"}
    OBVIOUS
  <2>2. 0 <= now
    BY <1>1
  <2>3. QED
    BY <2>1, <2>2, EndedFields, NoneApart
<1>5. CASE Entry(c)
  <2>1. PICK cmd \in {"run", "remote", "down", "reload"}, force \in BOOLEAN : Enter(c, cmd, force)
    BY <1>5 DEF Entry
  <2> DEFINE id == IF installed THEN commands + 1 ELSE 0
             began == IF cmd = "reload" THEN now ELSE 0
             step == IF cmd = "reload" THEN "list" ELSE "render"
             p == [Idle EXCEPT !.cmd = cmd, !.force = force, !.id = id, !.began = began,
                               !.step = step]
  <2>2. Set(c, p)
    BY <2>1 DEF Enter
  <2>3. began <= now /\ ((step = "list" /\ cmd = "reload") \/ step = "render")
    BY <1>1
  <2> HIDE DEF id, began, step
  <2>4. p.cmd = cmd /\ p.step = step /\ p.began = began /\ p.prefix = None /\ p.done = FALSE
    BY DEF Idle
  <2> HIDE DEF p
  <2>5. Good(p)
    BY <2>3, <2>4, NoneApart
  <2>6. QED
    BY <1>3, <2>2, <2>5
<1>6. CASE Kill(c) \/ RunAgent(c) \/ Down(c) \/ Up(c)
  <2>1. Set(c, Ended(TRUE)) \/ Set(c, Ended(FALSE))
    BY <1>6 DEF Kill, RunAgent, Down, Up
  <2> HIDE DEF Good
  <2>2. QED
    BY <1>3, <1>4, <2>1
<1>7. CASE BeginExtract(c) \/ Copy(c) \/ Mark(c)
  <2>1. PICK assets, sig : \/ Set(c, [proc[c] EXCEPT !.assets = assets, !.sig = sig])
                           \/ Set(c, [proc[c] EXCEPT !.assets = assets])
    BY <1>7 DEF BeginExtract, Copy, Mark
  <2> DEFINE p == [proc[c] EXCEPT !.assets = assets, !.sig = sig]
             q == [proc[c] EXCEPT !.assets = assets]
  <2>2. Good(p) /\ Good(q)
    BY <1>1 DEF Slot
  <2>3. Set(c, p) \/ Set(c, q)
    BY <2>1
  <2> HIDE DEF Good, p, q
  <2>4. QED
    BY <1>3, <2>2, <2>3
<1>8. \A step \in Step :
          LET p == To(c, step) IN
          /\ p \in Slot /\ p.step = step /\ p.cmd = proc[c].cmd /\ p.prefix = proc[c].prefix
          /\ p.content = proc[c].content /\ p.starts = proc[c].starts
          /\ p.began = proc[c].began /\ p.done = proc[c].done
  BY <1>1, ToFields
<1>9. CASE Render(c)
  <2> DEFINE write == To(c, "write")
             after == To(c, AfterRender[proc[c].cmd])
  <2>1. /\ write \in Slot /\ write.step = "write" /\ write.cmd = proc[c].cmd
        /\ write.prefix = proc[c].prefix /\ write.began = proc[c].began /\ write.done = proc[c].done
    BY <1>8 DEF Step
  <2>2. proc[c].cmd # "none"
    BY <1>1, <1>9 DEF Render, At
  <2>3. /\ after \in Slot /\ after.step = AfterRender[proc[c].cmd] /\ after.cmd = proc[c].cmd
        /\ after.prefix = proc[c].prefix /\ after.began = proc[c].began /\ after.done = proc[c].done
    <3>1. AfterRender[proc[c].cmd] \in Step
      BY <1>1, <2>2 DEF AfterRender, Slot, Cmd, Step
    <3>2. QED
      BY <1>8, <3>1
  <2>4. \/ Set(c, [write EXCEPT !.content = Layered])
        \/ Set(c, [after EXCEPT !.prefix = "layered"])
    BY <1>9 DEF Render
  <2>5. Layered # None
    BY LayeredTyped, StackAssumption DEF Rendering
  <2> HIDE DEF write, after
  <2>6. Good([write EXCEPT !.content = Layered])
    BY <1>1, <2>1, <2>2, <2>5 DEF Slot
  <2>7. Good([after EXCEPT !.prefix = "layered"])
    BY <1>1, <2>2, <2>3 DEF Slot, Cmd, AfterRender
  <2> HIDE DEF Good
  <2>8. QED
    BY <1>3, <2>4, <2>6, <2>7
<1>10. CASE Check(c)
  <2> DEFINE next == To(c, IF proc[c].cmd = "run" THEN "infra" ELSE "start")
             alone == next.alone \/ proc[c].prefix = "layered"
  <2>1. proc[c].cmd \in {"run", "remote"}
    BY <1>1, <1>10 DEF Check, Checked, At
  <2>2. /\ next \in Slot /\ next.step \in {"infra", "start"} /\ next.cmd = proc[c].cmd
        /\ next.prefix = proc[c].prefix /\ next.began = proc[c].began /\ next.done = proc[c].done
    BY <1>8 DEF Step
  <2>3. Set(c, [next EXCEPT !.alone = alone]) \/ Set(c, Ended(FALSE))
    BY <1>10 DEF Check, Checked
  <2> HIDE DEF next, alone
  <2>4. Good([next EXCEPT !.alone = alone])
    BY <1>1, <2>1, <2>2 DEF Slot
  <2>5. proc'[c] = [next EXCEPT !.alone = alone] \/ proc'[c] = Ended(FALSE)
    BY <1>3, <2>3
  <2> HIDE DEF Good
  <2>6. QED
    BY <1>4, <2>4, <2>5
<1>11. CASE EnsureInfra(c) \/ Start(c)
  <2>1. proc[c].cmd \in {"run", "remote"}
    BY <1>1, <1>11 DEF EnsureInfra, Start, At
  <2>2. Good(To(c, "agent")) /\ Good(To(c, "start"))
    BY <1>1, <1>8, <2>1 DEF Step
  <2>3. Set(c, To(c, "agent")) \/ Set(c, To(c, "start")) \/ Set(c, Ended(TRUE))
    BY <1>11 DEF EnsureInfra, Start
  <2> HIDE DEF Good
  <2>4. QED
    BY <1>3, <1>4, <2>2, <2>3
<1>12. CASE List(c)
  <2> DEFINE next == To(c, "decide")
  <2>1. /\ next \in Slot /\ next.step = "decide" /\ next.cmd = proc[c].cmd
        /\ next.prefix = proc[c].prefix /\ next.began = proc[c].began /\ next.done = proc[c].done
    BY <1>8 DEF Step
  <2>2. Set(c, Ended(FALSE)) \/ \E S \in SUBSET Infra : \E starts \in [S -> Stamp] :
                                    Set(c, [next EXCEPT !.starts = starts])
    <3>1. \A seen \in {Running, {}}, unreadable \in SUBSET Infra :
              [s \in seen |-> IF s \in unreadable THEN None ELSE container[s].started]
                  \in [seen -> Stamp]
      BY DEF Running, Typed, Box, Stamp
    <3>2. Running \in SUBSET Infra /\ {} \in SUBSET Infra
      BY DEF Running
    <3>3. \/ Set(c, Ended(FALSE))
          \/ \E seen \in {Running, {}} : \E unreadable \in SUBSET seen :
                Set(c, [next EXCEPT !.starts = [s \in seen |-> IF s \in unreadable THEN None
                                                             ELSE container[s].started]])
      BY <1>12 DEF List
    <3> HIDE DEF next
    <3>4. ASSUME NEW seen \in {Running, {}}, NEW unreadable \in SUBSET seen,
                 Set(c, [next EXCEPT !.starts = [s \in seen |-> IF s \in unreadable THEN None
                                                             ELSE container[s].started]])
          PROVE  \E S \in SUBSET Infra : \E starts \in [S -> Stamp] :
                     Set(c, [next EXCEPT !.starts = starts])
      <4> DEFINE starts == [s \in seen |-> IF s \in unreadable THEN None ELSE container[s].started]
      <4>1. starts \in [seen -> Stamp] /\ seen \in SUBSET Infra
        BY <3>1, <3>2
      <4>2. Set(c, [next EXCEPT !.starts = starts])
        BY <3>4
      <4> HIDE DEF starts
      <4>3. QED
        BY <4>1, <4>2
    <3>5. QED
      BY <3>3, <3>4
  <2>3. \A S \in SUBSET Infra : \A f \in [S -> Stamp] : f # None
    BY StackAssumption DEF Stamp
  <2>4. proc[c].cmd = "reload"
    BY <1>1, <1>12 DEF List, At
  <2> HIDE DEF next
  <2>5. ASSUME NEW starts, starts # None
        PROVE  Good([next EXCEPT !.starts = starts])
    BY <1>1, <2>1, <2>4, <2>5 DEF Slot
  <2> HIDE DEF Good
  <2>6. QED
    BY <1>3, <1>4, <2>2, <2>3, <2>5
<1>13. CASE Decide(c)
  <2> DEFINE next == To(c, "render")
  <2>1. /\ next \in Slot /\ next.step = "render" /\ next.cmd = proc[c].cmd
        /\ next.prefix = proc[c].prefix /\ next.began = proc[c].began /\ next.done = proc[c].done
    BY <1>8 DEF Step
  <2>2. Set(c, Ended(TRUE)) \/ \E targets :
            Set(c, [next EXCEPT !.targets = targets, !.starts = None, !.force = FALSE])
    BY <1>13 DEF Decide
  <2>3. proc[c].cmd = "reload"
    BY <1>1, <1>13 DEF Decide, At
  <2> HIDE DEF next
  <2>4. \A targets : Good([next EXCEPT !.targets = targets, !.starts = None, !.force = FALSE])
    BY <1>1, <2>1, <2>3 DEF Slot
  <2> HIDE DEF Good
  <2>5. QED
    BY <1>3, <1>4, <2>2, <2>4
<1>14. QED
  BY <1>5, <1>6, <1>7, <1>9, <1>10, <1>11, <1>12, <1>13 DEF Move

LEMMA NextStaged ==
    ASSUME Typed, Staged, [Next]_vars
    PROVE  Staged'
<1>1. ASSUME NEW c \in Cli, Write(c)
      PROVE  Staged'
  <2>1. /\ proc[c].cmd # "none" /\ proc[c].content \in Rendering
        /\ resolved' = proc[c].content /\ resolved' # None /\ UNCHANGED now
    BY <1>1, StackAssumption DEF Write, Typed, Staged, Slot, Held, At, Rendering, files
  <2>2. \A d \in Cli \ {c} : proc'[d] = [proc[d] EXCEPT !.alone = @ /\ proc[d].prefix = "layered"]
    BY <1>1 DEF Write, Typed
  <2>3. proc'[c] = [To(c, AfterRender[proc[c].cmd]) EXCEPT
                       !.prefix = "resolved", !.content = None, !.alone = TRUE]
    BY <1>1 DEF Write, Typed
  <2>4. ASSUME NEW d \in Cli \ {c}
        PROVE  /\ proc'[d].cmd = proc[d].cmd /\ proc'[d].step = proc[d].step
               /\ proc'[d].content = proc[d].content /\ proc'[d].starts = proc[d].starts
               /\ proc'[d].done = proc[d].done /\ proc'[d].began = proc[d].began
    <3>1. proc[d] \in Slot
      BY DEF Typed
    <3> DEFINE b == proc[d].alone /\ proc[d].prefix = "layered"
    <3>2. proc'[d] = [proc[d] EXCEPT !.alone = b]
      BY <2>2
    <3> HIDE DEF b
    <3>3. QED
      BY <3>1, <3>2, AloneFields
  <2> DEFINE after == To(c, AfterRender[proc[c].cmd])
  <2>5. /\ after \in Slot /\ after.step = AfterRender[proc[c].cmd] /\ after.cmd = proc[c].cmd
        /\ after.began = proc[c].began /\ after.done = proc[c].done
    <3>1. AfterRender[proc[c].cmd] \in Step
      BY <2>1 DEF AfterRender, Typed, Slot, Cmd, Step
    <3>2. QED
      BY <3>1, ToFields DEF Typed
  <2> HIDE DEF after
  <2>6. /\ proc'[c].cmd = proc[c].cmd /\ proc'[c].step = AfterRender[proc[c].cmd]
        /\ proc'[c].began = proc[c].began /\ proc'[c].done = proc[c].done
    BY <2>3, <2>5 DEF Slot, after
  <2>7. proc[c].cmd \in {"run", "remote", "reload", "down"}
    BY <2>1 DEF Typed, Slot, Cmd
  <2>8. QED
    BY <2>1, <2>4, <2>6, <2>7 DEF Staged, AfterRender
<1>2. ASSUME NEW s \in Infra, Load(s) \/ Restart(s)
      PROVE  Staged'
  BY <1>2 DEF Load, Restart, Staged, files
<1>3. ASSUME NEW f \in File, Edit(f)
      PROVE  Staged'
  BY <1>3 DEF Edit, Staged, Typed, Slot
<1>4. ASSUME EditOverride
      PROVE  Staged'
  <2>1. \A d \in Cli : proc'[d] = [proc[d] EXCEPT !.alone = @ /\ proc[d].prefix = "resolved"]
    BY <1>4 DEF EditOverride
  <2>2. ASSUME NEW d \in Cli
        PROVE  /\ proc'[d].cmd = proc[d].cmd /\ proc'[d].step = proc[d].step
               /\ proc'[d].content = proc[d].content /\ proc'[d].starts = proc[d].starts
               /\ proc'[d].prefix = proc[d].prefix
               /\ proc'[d].done = proc[d].done /\ proc'[d].began = proc[d].began
    <3>1. proc[d] \in Slot
      BY DEF Typed
    <3> DEFINE b == proc[d].alone /\ proc[d].prefix = "resolved"
    <3>2. proc'[d] = [proc[d] EXCEPT !.alone = b]
      BY <2>1
    <3> HIDE DEF b
    <3>3. QED
      BY <3>1, <3>2, AloneFields
  <2>3. resolved' = resolved /\ now' = now + 1 /\ now \in Nat /\ \A d \in Cli : proc[d].began \in Nat
    BY <1>4 DEF EditOverride, Typed, Slot
  <2>4. QED
    BY <2>2, <2>3 DEF Staged
<1>5. ASSUME Upgrade \/ UNCHANGED vars
      PROVE  Staged'
  BY <1>5 DEF Upgrade, Staged, Typed, Slot, vars, files
<1>6. QED
  BY <1>1, <1>2, <1>3, <1>4, <1>5, NextCases, MoveKeepsStaged
-----------------------------------------------------------------------------
(* What each step leaves in the slot of its command.                       *)

SameCommand(c) ==
    /\ proc'[c].cmd = proc[c].cmd /\ proc'[c].id = proc[c].id
    /\ proc'[c].began = proc[c].began /\ proc'[c].done = proc[c].done

Ends(c) == proc'[c].cmd = "none" /\ proc'[c].step = "none" /\ proc'[c].prefix = None

LEMMA SetSlot ==
    ASSUME Typed, NEW c \in Cli, NEW p, Set(c, p)
    PROVE  proc'[c] = p
BY DEF Typed, Set

LEMMA EndSlot ==
    ASSUME Typed, NEW c \in Cli, Set(c, Ended(TRUE)) \/ Set(c, Ended(FALSE))
    PROVE  Ends(c)
BY SetSlot, EndedFields DEF Ends

LEMMA EnterSlot ==
    ASSUME Typed, NEW c \in Cli, NEW cmd \in {"run", "remote", "down", "reload"},
           NEW force \in BOOLEAN, Enter(c, cmd, force)
    PROVE  /\ proc[c].cmd = "none"
           /\ proc'[c].cmd = cmd /\ proc'[c].step \in {"list", "render"}
           /\ proc'[c].step = "render" => cmd # "reload"
           /\ proc'[c].id = IF installed THEN commands + 1 ELSE 0
           /\ proc'[c].assets = "ask" /\ proc'[c].prefix = None /\ proc'[c].done = FALSE
<1> DEFINE id == IF installed THEN commands + 1 ELSE 0
           began == IF cmd = "reload" THEN now ELSE 0
           step == IF cmd = "reload" THEN "list" ELSE "render"
           p == [Idle EXCEPT !.cmd = cmd, !.force = force, !.id = id, !.began = began,
                             !.step = step]
<1>1. Set(c, p) /\ proc[c].cmd = "none"
  BY DEF Enter
<1>2. step \in {"list", "render"} /\ (step = "render" => cmd # "reload")
  OBVIOUS
<1> HIDE DEF id, began, step
<1>3. /\ p.cmd = cmd /\ p.step = step /\ p.id = id /\ p.assets = "ask" /\ p.prefix = None
      /\ p.done = FALSE
  BY DEF Idle
<1> HIDE DEF p
<1>4. proc'[c] = p
  BY <1>1, SetSlot
<1>5. QED
  BY <1>1, <1>2, <1>3, <1>4 DEF id

LEMMA AssetSlot ==
    ASSUME Typed, NEW c \in Cli, BeginExtract(c) \/ Copy(c) \/ Mark(c)
    PROVE  /\ SameCommand(c)
           /\ proc'[c].step = proc[c].step /\ proc'[c].prefix = proc[c].prefix
           /\ proc'[c].content = proc[c].content /\ proc'[c].targets = proc[c].targets
           /\ proc'[c].starts = proc[c].starts /\ proc'[c].force = proc[c].force
           /\ proc'[c].alone = proc[c].alone
           /\ BeginExtract(c) => proc'[c].assets = "compose" /\ proc'[c].sig = Signature(c)
           /\ Copy(c) => /\ proc'[c].assets = IF proc[c].assets = "compose" THEN "contexts" ELSE "mark"
                         /\ proc'[c].sig = proc[c].sig
           /\ Mark(c) => proc'[c].assets = "ready"
<1>1. proc[c] \in Slot
  BY DEF Typed
<1>2. CASE BeginExtract(c)
  <2> DEFINE p == [proc[c] EXCEPT !.assets = "compose", !.sig = Signature(c)]
  <2>1. proc'[c] = p /\ ~Copy(c) /\ ~Mark(c)
    BY <1>2, SetSlot DEF BeginExtract, Copy, Mark, Piece
  <2>2. QED
    BY <1>1, <2>1 DEF Slot, SameCommand
<1>3. CASE Copy(c)
  <2> DEFINE next == IF proc[c].assets = "compose" THEN "contexts" ELSE "mark"
             p == [proc[c] EXCEPT !.assets = next]
  <2>1. proc'[c] = p /\ ~BeginExtract(c) /\ ~Mark(c)
    BY <1>3, SetSlot DEF BeginExtract, Copy, Mark, Piece
  <2> HIDE DEF next
  <2>2. QED
    BY <1>1, <2>1 DEF Slot, SameCommand, next
<1>4. CASE Mark(c)
  <2> DEFINE p == [proc[c] EXCEPT !.assets = "ready", !.sig = None]
  <2>1. proc'[c] = p /\ ~BeginExtract(c) /\ ~Copy(c)
    BY <1>4, SetSlot DEF BeginExtract, Copy, Mark, Piece
  <2>2. QED
    BY <1>1, <2>1 DEF Slot, SameCommand
<1>5. QED
  BY <1>2, <1>3, <1>4

LEMMA RenderSlot ==
    ASSUME Typed, Staged, NEW c \in Cli, Render(c)
    PROVE  /\ SameCommand(c) /\ proc'[c].assets = "ask" /\ proc[c].step = "render"
           /\ proc'[c].targets = proc[c].targets /\ proc'[c].alone = proc[c].alone
           /\ \/ proc'[c].step = "write" /\ proc'[c].content = Layered
              \/ /\ proc'[c].step = AfterRender[proc[c].cmd] /\ proc'[c].prefix = "layered"
                 /\ proc'[c].step \in {"check", "up", "down"}
                 /\ proc'[c].step = "up" => proc[c].cmd = "reload"
<1> DEFINE write == To(c, "write")
           after == To(c, AfterRender[proc[c].cmd])
<1>1. /\ write \in Slot /\ write.step = "write" /\ write.cmd = proc[c].cmd /\ write.assets = "ask"
      /\ write.id = proc[c].id /\ write.began = proc[c].began /\ write.done = proc[c].done
      /\ write.targets = proc[c].targets /\ write.alone = proc[c].alone
  BY ToFields DEF Typed, Step
<1>2. /\ AfterRender[proc[c].cmd] \in Step /\ AfterRender[proc[c].cmd] \in {"check", "up", "down"}
      /\ AfterRender[proc[c].cmd] = "up" => proc[c].cmd = "reload"
  BY DEF Render, At, Staged, Typed, Slot, Cmd, Step, AfterRender
<1>3. /\ after \in Slot /\ after.step = AfterRender[proc[c].cmd] /\ after.cmd = proc[c].cmd
      /\ after.id = proc[c].id /\ after.began = proc[c].began /\ after.done = proc[c].done
      /\ after.assets = "ask" /\ after.targets = proc[c].targets /\ after.alone = proc[c].alone
  BY <1>2, ToFields DEF Typed
<1>4. \/ proc'[c] = [write EXCEPT !.content = Layered]
      \/ proc'[c] = [after EXCEPT !.prefix = "layered"]
  BY SetSlot DEF Render
<1>5. proc[c].step = "render"
  BY DEF Render, At
<1> HIDE DEF write, after
<1>6. CASE proc'[c] = [write EXCEPT !.content = Layered]
  BY <1>1, <1>5, <1>6 DEF Slot, SameCommand
<1>7. CASE proc'[c] = [after EXCEPT !.prefix = "layered"]
  BY <1>2, <1>3, <1>5, <1>7 DEF Slot, SameCommand
<1>8. QED
  BY <1>4, <1>6, <1>7

LEMMA CheckSlot ==
    ASSUME Typed, Staged, NEW c \in Cli, Check(c)
    PROVE  \/ Ends(c) /\ proc'[c].done = FALSE
           \/ /\ SameCommand(c) /\ proc'[c].assets = "ask" /\ ContentOf(c).override = "good"
              /\ proc[c].step = "check" /\ proc'[c].step \in {"infra", "start"}
              /\ proc'[c].prefix = proc[c].prefix
<1> DEFINE next == To(c, IF proc[c].cmd = "run" THEN "infra" ELSE "start")
           alone == next.alone \/ proc[c].prefix = "layered"
<1>1. /\ next \in Slot /\ next.step \in {"infra", "start"} /\ next.cmd = proc[c].cmd
      /\ next.prefix = proc[c].prefix /\ next.began = proc[c].began /\ next.done = proc[c].done
      /\ next.assets = "ask" /\ next.id = proc[c].id
  BY ToFields DEF Typed, Step
<1>2. /\ proc[c].step = "check"
      /\ \/ Set(c, Ended(FALSE))
         \/ ContentOf(c).override = "good" /\ Set(c, [next EXCEPT !.alone = alone])
  BY DEF Check, Checked, At
<1> HIDE DEF next, alone
<1>3. CASE Set(c, Ended(FALSE))
  BY <1>3, EndSlot, SetSlot, EndedFields
<1>4. CASE ContentOf(c).override = "good" /\ Set(c, [next EXCEPT !.alone = alone])
  <2>1. proc'[c] = [next EXCEPT !.alone = alone]
    BY <1>4, SetSlot
  <2>2. QED
    BY <1>1, <1>2, <1>4, <2>1, AloneFields DEF SameCommand
<1>5. QED
  BY <1>2, <1>3, <1>4

LEMMA StartSlot ==
    ASSUME Typed, Staged, NEW c \in Cli, EnsureInfra(c) \/ Start(c)
    PROVE  /\ proc[c].step \in {"infra", "start"}
           /\ \/ Ends(c)
              \/ /\ SameCommand(c) /\ proc'[c].assets = "ask"
                 /\ proc'[c].step \in {"start", "agent"} /\ proc'[c].prefix = proc[c].prefix
                 /\ proc'[c].alone = proc[c].alone
<1> DEFINE start == To(c, "start")
           agent == To(c, "agent")
<1>1. /\ start.step = "start" /\ start.cmd = proc[c].cmd /\ start.assets = "ask"
      /\ start.id = proc[c].id /\ start.began = proc[c].began /\ start.done = proc[c].done
      /\ start.prefix = proc[c].prefix /\ start.alone = proc[c].alone
  BY ToFields DEF Typed, Step
<1>2. /\ agent.step = "agent" /\ agent.cmd = proc[c].cmd /\ agent.assets = "ask"
      /\ agent.id = proc[c].id /\ agent.began = proc[c].began /\ agent.done = proc[c].done
      /\ agent.prefix = proc[c].prefix /\ agent.alone = proc[c].alone
  BY ToFields DEF Typed, Step
<1>3. /\ proc[c].step \in {"infra", "start"}
      /\ Set(c, agent) \/ Set(c, start) \/ Set(c, Ended(TRUE))
  BY DEF EnsureInfra, Start, At
<1> HIDE DEF start, agent
<1>4. proc'[c] = agent \/ proc'[c] = start \/ Ends(c)
  BY <1>3, SetSlot, EndSlot
<1>5. QED
  BY <1>1, <1>2, <1>3, <1>4 DEF SameCommand

LEMMA ListSlot ==
    ASSUME Typed, Staged, NEW c \in Cli, List(c)
    PROVE  \/ Ends(c) /\ proc'[c].done = FALSE
           \/ \E seen \in {Running, {}} : \E unreadable \in SUBSET seen :
                 /\ SameCommand(c) /\ proc'[c].assets = "ask" /\ proc'[c].step = "decide"
                 /\ proc'[c].prefix = proc[c].prefix /\ proc'[c].force = proc[c].force
                 /\ seen = {} => proc[c].force
                 /\ proc'[c].starts = [s \in seen |-> IF s \in unreadable THEN None
                                                      ELSE container[s].started]
<1> DEFINE next == To(c, "decide")
<1>1. /\ next \in Slot /\ next.step = "decide" /\ next.cmd = proc[c].cmd /\ next.assets = "ask"
      /\ next.id = proc[c].id /\ next.began = proc[c].began /\ next.done = proc[c].done
      /\ next.prefix = proc[c].prefix /\ next.force = proc[c].force
  BY ToFields DEF Typed, Step
<1>2. \/ Set(c, Ended(FALSE))
      \/ \E seen \in {Running, {}} : \E unreadable \in SUBSET seen :
            /\ seen = {} => proc[c].force
            /\ Set(c, [next EXCEPT !.starts = [s \in seen |-> IF s \in unreadable THEN None
                                                             ELSE container[s].started]])
  BY DEF List
<1> HIDE DEF next
<1>3. CASE Set(c, Ended(FALSE))
  BY <1>3, EndSlot, SetSlot, EndedFields
<1>4. ASSUME NEW seen \in {Running, {}}, NEW unreadable \in SUBSET seen,
             seen = {} => proc[c].force,
             Set(c, [next EXCEPT !.starts = [s \in seen |-> IF s \in unreadable THEN None
                                                             ELSE container[s].started]])
      PROVE  /\ SameCommand(c) /\ proc'[c].assets = "ask" /\ proc'[c].step = "decide"
             /\ proc'[c].prefix = proc[c].prefix /\ proc'[c].force = proc[c].force
             /\ proc'[c].starts = [s \in seen |-> IF s \in unreadable THEN None
                                                  ELSE container[s].started]
  <2> DEFINE starts == [s \in seen |-> IF s \in unreadable THEN None ELSE container[s].started]
  <2>1. proc'[c] = [next EXCEPT !.starts = starts]
    BY <1>4, SetSlot
  <2> HIDE DEF starts
  <2>2. proc'[c].starts = starts
    BY <1>1, <2>1 DEF Slot
  <2>3. /\ proc'[c].step = next.step /\ proc'[c].cmd = next.cmd /\ proc'[c].assets = next.assets
        /\ proc'[c].id = next.id /\ proc'[c].began = next.began /\ proc'[c].done = next.done
        /\ proc'[c].prefix = next.prefix /\ proc'[c].force = next.force
    BY <1>1, <2>1 DEF Slot
  <2>4. QED
    BY <1>1, <2>2, <2>3 DEF SameCommand, starts
<1>5. QED
  BY <1>2, <1>3, <1>4

LEMMA DecideSlot ==
    ASSUME Typed, Staged, NEW c \in Cli, Decide(c)
    PROVE  LET starts == proc[c].starts
               targets == IF proc[c].force THEN Infra
                          ELSE {s \in DOMAIN starts : Stale(s, starts[s])}
           IN /\ proc[c].step = "decide"
              /\ \/ targets = {} /\ Ends(c)
                 \/ /\ SameCommand(c) /\ proc'[c].assets = "ask" /\ proc'[c].step = "render"
                    /\ proc'[c].prefix = proc[c].prefix /\ proc'[c].targets = targets
<1> DEFINE next == To(c, "render")
           starts == proc[c].starts
           targets == IF proc[c].force THEN Infra
                      ELSE {s \in DOMAIN starts : Stale(s, starts[s])}
<1>1. /\ next \in Slot /\ next.step = "render" /\ next.cmd = proc[c].cmd /\ next.assets = "ask"
      /\ next.id = proc[c].id /\ next.began = proc[c].began /\ next.done = proc[c].done
      /\ next.prefix = proc[c].prefix
  BY ToFields DEF Typed, Step
<1>2. /\ proc[c].step = "decide"
      /\ \/ targets = {} /\ Set(c, Ended(TRUE))
         \/ Set(c, [next EXCEPT !.targets = targets, !.starts = None, !.force = FALSE])
  BY DEF Decide, At
<1> HIDE DEF next, targets
<1>3. CASE targets = {} /\ Set(c, Ended(TRUE))
  BY <1>2, <1>3, EndSlot DEF targets
<1>4. CASE Set(c, [next EXCEPT !.targets = targets, !.starts = None, !.force = FALSE])
  <2>1. proc'[c] = [next EXCEPT !.targets = targets, !.starts = None, !.force = FALSE]
    BY <1>4, SetSlot
  <2>2. /\ proc'[c].step = next.step /\ proc'[c].cmd = next.cmd /\ proc'[c].assets = next.assets
        /\ proc'[c].id = next.id /\ proc'[c].began = next.began /\ proc'[c].done = next.done
        /\ proc'[c].prefix = next.prefix /\ proc'[c].targets = targets
    BY <1>1, <2>1 DEF Slot
  <2>3. QED
    BY <1>1, <1>2, <2>2 DEF SameCommand, targets
<1>5. QED
  BY <1>2, <1>3, <1>4

\* The writer of the rendered file has it to itself; the others lose what they relied on.
LEMMA WriteSlot ==
    ASSUME Typed, Staged, NEW c \in Cli, Write(c)
    PROVE  /\ SameCommand(c) /\ proc'[c].assets = "ask" /\ proc'[c].prefix = "resolved"
           /\ proc[c].step = "write" /\ proc'[c].targets = proc[c].targets
           /\ proc'[c].step \in {"check", "up", "down"}
           /\ proc'[c].step = "up" => proc[c].cmd = "reload"
           /\ proc[c].content \in Rendering
           /\ \A d \in Cli \ {c} :
                 /\ SameCommand(d) /\ proc'[d].step = proc[d].step
                 /\ proc'[d].assets = proc[d].assets /\ proc'[d].sig = proc[d].sig
                 /\ proc'[d].prefix = proc[d].prefix /\ proc'[d].content = proc[d].content
                 /\ proc'[d].targets = proc[d].targets /\ proc'[d].starts = proc[d].starts
                 /\ proc'[d].force = proc[d].force
                 /\ (proc'[d].alone => proc[d].alone /\ proc[d].prefix = "layered")
<1>1. ASSUME NEW d \in Cli \ {c}
      PROVE  /\ SameCommand(d) /\ proc'[d].step = proc[d].step
             /\ proc'[d].assets = proc[d].assets /\ proc'[d].sig = proc[d].sig
             /\ proc'[d].prefix = proc[d].prefix /\ proc'[d].content = proc[d].content
             /\ proc'[d].targets = proc[d].targets /\ proc'[d].starts = proc[d].starts
             /\ proc'[d].force = proc[d].force
             /\ (proc'[d].alone => proc[d].alone /\ proc[d].prefix = "layered")
  <2> DEFINE b == proc[d].alone /\ proc[d].prefix = "layered"
  <2>1. proc[d] \in Slot /\ proc'[d] = [proc[d] EXCEPT !.alone = b]
    BY DEF Write, Typed
  <2>2. b => proc[d].alone /\ proc[d].prefix = "layered"
    OBVIOUS
  <2> HIDE DEF b
  <2>3. proc'[d].alone = b
    BY <2>1, AloneFields
  <2>4. proc'[d].alone => proc[d].alone /\ proc[d].prefix = "layered"
    BY <2>2, <2>3
  <2>5. QED
    BY <2>1, <2>4, AloneFields DEF SameCommand
<1> DEFINE after == To(c, AfterRender[proc[c].cmd])
<1>2. /\ proc[c].step = "write" /\ proc[c].content \in Rendering
      /\ proc'[c] = [after EXCEPT !.prefix = "resolved", !.content = None, !.alone = TRUE]
  BY DEF Write, At, Typed, Staged, Slot, Held
<1>3. /\ AfterRender[proc[c].cmd] \in Step /\ AfterRender[proc[c].cmd] \in {"check", "up", "down"}
      /\ AfterRender[proc[c].cmd] = "up" => proc[c].cmd = "reload"
  BY <1>2 DEF Staged, Typed, Slot, Cmd, Step, AfterRender
<1>4. /\ after \in Slot /\ after.step = AfterRender[proc[c].cmd] /\ after.cmd = proc[c].cmd
      /\ after.id = proc[c].id /\ after.began = proc[c].began /\ after.done = proc[c].done
      /\ after.assets = "ask" /\ after.targets = proc[c].targets
  BY <1>3, ToFields DEF Typed
<1> HIDE DEF after
<1>5. /\ proc'[c].step = after.step /\ proc'[c].cmd = after.cmd /\ proc'[c].assets = after.assets
      /\ proc'[c].id = after.id /\ proc'[c].began = after.began /\ proc'[c].done = after.done
      /\ proc'[c].targets = after.targets /\ proc'[c].prefix = "resolved"
  BY <1>2, <1>4 DEF Slot
<1>6. QED
  BY <1>1, <1>2, <1>3, <1>4, <1>5 DEF SameCommand

LEMMA OverrideSlot ==
    ASSUME Typed, EditOverride, NEW d \in Cli
    PROVE  /\ SameCommand(d) /\ proc'[d].step = proc[d].step
           /\ proc'[d].assets = proc[d].assets /\ proc'[d].sig = proc[d].sig
           /\ proc'[d].prefix = proc[d].prefix /\ proc'[d].content = proc[d].content
           /\ proc'[d].targets = proc[d].targets /\ proc'[d].starts = proc[d].starts
           /\ proc'[d].force = proc[d].force
           /\ (proc'[d].alone => proc[d].alone /\ proc[d].prefix = "resolved")
<1> DEFINE b == proc[d].alone /\ proc[d].prefix = "resolved"
<1>1. proc[d] \in Slot /\ proc'[d] = [proc[d] EXCEPT !.alone = b]
  BY DEF EditOverride, Typed
<1>2. b => proc[d].alone /\ proc[d].prefix = "resolved"
  OBVIOUS
<1> HIDE DEF b
<1>3. proc'[d].alone = b
  BY <1>1, AloneFields
<1>4. proc'[d].alone => proc[d].alone /\ proc[d].prefix = "resolved"
  BY <1>2, <1>3
<1>5. QED
  BY <1>1, <1>4, AloneFields DEF SameCommand
-----------------------------------------------------------------------------
(* What an agent is started with.                                          *)

\* A command that is past its check and has what it checked to itself.
Vouched ==
    \A c \in Cli :
        proc[c].cmd \in {"run", "remote"} /\ proc[c].alone
        /\ proc[c].step \in {"infra", "start", "agent"} => ContentOf(c).override = "good"

LEMMA MoveKeepsVouched ==
    ASSUME Typed, Staged, Vouched, NEW c \in Cli, Move(c)
    PROVE  Vouched'
<1>1. UNCHANGED <<override, resolved>> /\ \A d \in Cli \ {c} : proc'[d] = proc[d]
  <2>1. UNCHANGED <<files, resolved>>
    BY DEF Move, Entry, Enter, Kill, BeginExtract, Copy, Mark, Render, Check, Checked, EnsureInfra,
           Start, RunAgent, Down, List, Decide, Up, cache
  <2>2. QED
    BY <2>1, MoveSlot DEF files
<1>2. \A d \in Cli : ContentOf(d).override =
          IF proc[d].prefix = "resolved" THEN resolved.override ELSE override
  BY DEF ContentOf, Layered
<1>3. \A d \in Cli : ContentOf(d)'.override =
          IF proc'[d].prefix = "resolved" THEN resolved.override ELSE override
  BY <1>1 DEF ContentOf, Layered
<1>4. SUFFICES ASSUME proc'[c].cmd \in {"run", "remote"}, proc'[c].alone,
                      proc'[c].step \in {"infra", "start", "agent"}
               PROVE  ContentOf(c)'.override = "good"
  BY <1>1, <1>2, <1>3 DEF Vouched
<1>5. ~Ends(c)
  BY <1>4 DEF Ends
<1>6. CASE Entry(c)
  BY <1>4, <1>6, EnterSlot DEF Entry
<1>7. CASE Kill(c) \/ RunAgent(c) \/ Down(c) \/ Up(c)
  BY <1>5, <1>7, EndSlot DEF Kill, RunAgent, Down, Up
<1>8. CASE BeginExtract(c) \/ Copy(c) \/ Mark(c)
  BY <1>2, <1>3, <1>4, <1>8, AssetSlot DEF Vouched, SameCommand
<1>9. CASE Render(c)
  BY <1>4, <1>9, RenderSlot
<1>10. CASE Check(c)
  BY <1>2, <1>3, <1>5, <1>10, CheckSlot
<1>11. CASE EnsureInfra(c) \/ Start(c)
  BY <1>2, <1>3, <1>4, <1>5, <1>11, StartSlot DEF Vouched, SameCommand
<1>12. CASE List(c)
  BY <1>4, <1>5, <1>12, ListSlot
<1>13. CASE Decide(c)
  BY <1>4, <1>5, <1>13, DecideSlot
<1>14. QED
  BY <1>6, <1>7, <1>8, <1>9, <1>10, <1>11, <1>12, <1>13 DEF Move

LEMMA NextVouched ==
    ASSUME Typed, Staged, Vouched, [Next]_vars
    PROVE  Vouched'
<1>1. \A d \in Cli : ContentOf(d).override =
          IF proc[d].prefix = "resolved" THEN resolved.override ELSE override
  BY DEF ContentOf, Layered
<1>2. \A d \in Cli : ContentOf(d)'.override =
          IF proc'[d].prefix = "resolved" THEN resolved'.override ELSE override'
  BY DEF ContentOf, Layered
<1>3. ASSUME NEW c \in Cli, Write(c)
      PROVE  Vouched'
  <2>1. proc'[c].step \notin {"infra", "start", "agent"}
    BY <1>3, WriteSlot
  <2>2. ASSUME NEW d \in Cli \ {c}, proc'[d].alone
        PROVE  /\ proc'[d].cmd = proc[d].cmd /\ proc'[d].step = proc[d].step
               /\ proc[d].alone /\ proc[d].prefix = "layered" /\ proc'[d].prefix = "layered"
    BY <1>3, <2>2, WriteSlot DEF SameCommand
  <2>3. override' = override
    BY <1>3 DEF Write, files
  <2>4. QED
    BY <1>1, <1>2, <2>1, <2>2, <2>3 DEF Vouched
<1>4. ASSUME EditOverride
      PROVE  Vouched'
  <2>1. ASSUME NEW d \in Cli, proc'[d].alone
        PROVE  /\ proc'[d].cmd = proc[d].cmd /\ proc'[d].step = proc[d].step
               /\ proc[d].alone /\ proc[d].prefix = "resolved" /\ proc'[d].prefix = "resolved"
    BY <1>4, <2>1, OverrideSlot DEF SameCommand
  <2>2. resolved' = resolved
    BY <1>4 DEF EditOverride
  <2>3. QED
    BY <1>1, <1>2, <2>1, <2>2 DEF Vouched
<1>5. ASSUME UNCHANGED <<override, resolved, proc>>
      PROVE  Vouched'
  BY <1>1, <1>2, <1>5 DEF Vouched
<1>6. ASSUME NEW s \in Infra, Load(s) \/ Restart(s)
      PROVE  Vouched'
  BY <1>5, <1>6 DEF Load, Restart, files
<1>7. ASSUME NEW f \in File, Edit(f)
      PROVE  Vouched'
  BY <1>5, <1>7 DEF Edit
<1>8. ASSUME Upgrade \/ UNCHANGED vars
      PROVE  Vouched'
  BY <1>5, <1>8 DEF Upgrade, vars, files
<1>9. QED
  BY <1>3, <1>4, <1>6, <1>7, <1>8, NextCases, MoveKeepsVouched

LEMMA StartVouched ==
    ASSUME Typed, Staged, Vouched, [Next]_vars, NEW c \in Cli,
           proc[c].cmd \in {"run", "remote"}, proc'[c].done, proc[c].alone
    PROVE  ContentOf(c).override = "good"
<1>1. proc[c].done # TRUE /\ proc[c].done \in BOOLEAN
  BY DEF Staged, Typed, Slot
<1>2. SUFFICES proc[c].step \in {"infra", "start", "agent"}
  BY DEF Vouched
<1>3. ASSUME NEW d \in Cli, Move(d)
      PROVE  proc[c].step \in {"infra", "start", "agent"}
  <2>1. CASE d # c
    BY <1>1, <1>3, <2>1, MoveSlot
  <2>2. CASE d = c
    <3>1. CASE Entry(c)
      BY <3>1, EnterSlot DEF Entry
    <3>2. CASE Kill(c) \/ Down(c)
      BY <3>2, SetSlot, EndedFields DEF Kill, Down
    <3>3. CASE RunAgent(c)
      BY <3>3 DEF RunAgent, At
    <3>4. CASE Up(c) \/ Decide(c)
      BY <3>4 DEF Up, Decide, At, Staged
    <3>5. CASE BeginExtract(c) \/ Copy(c) \/ Mark(c)
      BY <1>1, <3>5, AssetSlot DEF SameCommand
    <3>6. CASE Render(c)
      BY <1>1, <3>6, RenderSlot DEF SameCommand
    <3>7. CASE Check(c)
      BY <1>1, <3>7, CheckSlot DEF SameCommand
    <3>8. CASE EnsureInfra(c) \/ Start(c)
      BY <3>8, StartSlot
    <3>9. CASE List(c)
      BY <1>1, <3>9, ListSlot DEF SameCommand
    <3>10. QED
      BY <1>3, <2>2, <3>1, <3>2, <3>3, <3>4, <3>5, <3>6, <3>7, <3>8, <3>9 DEF Move
  <2>3. QED
    BY <2>1, <2>2
<1>4. ASSUME NEW d \in Cli, Write(d)
      PROVE  FALSE
  BY <1>1, <1>4, WriteSlot DEF SameCommand
<1>5. ASSUME EditOverride
      PROVE  FALSE
  BY <1>1, <1>5, OverrideSlot DEF SameCommand
<1>6. ASSUME proc' = proc
      PROVE  FALSE
  BY <1>1, <1>6
<1>7. QED
  BY <1>3, <1>4, <1>5, <1>6, NextCases DEF Load, Restart, Edit, Upgrade, vars
-----------------------------------------------------------------------------
(* The asset cache.                                                        *)

\* A signature is never ahead of what it is taken of.
Dated ==
    /\ \A c \in Cli : proc[c].cmd # "none" => /\ proc[c].id <= commands
                                              /\ ~installed => proc[c].id = 0
    /\ \A c \in Cli : Extracting(c) => /\ proc[c].sig # None
                                       /\ proc[c].sig[1] <= source /\ proc[c].sig[2] = proc[c].id
    /\ marker # None => /\ marker[1] <= source /\ marker[2] <= commands
                        /\ ~installed => marker[2] = 0

\* Some command may trust the cache.
Trusted ==
    /\ marker # None /\ marker[1] = source
    /\ installed => \E c \in Cli : proc[c].cmd # "none" /\ proc[c].id = marker[2]

\* Nobody extracts beside another: what the one extraction has copied is of its version,
\* and while the cache may be trusted there is none.
Extracted ==
    ~shared =>
        /\ \A c, d \in Cli : Extracting(c) /\ Extracting(d) => c = d
        /\ \A c \in Cli : Extracting(c) /\ proc[c].sig[1] = source =>
               /\ proc[c].assets \in {"contexts", "mark"} => tree["compose"] = source
               /\ proc[c].assets = "mark" => tree["contexts"] = source
        /\ Trusted => /\ tree = [p \in Piece |-> source]
                      /\ \A c \in Cli : ~Extracting(c)

Cached == Dated /\ Extracted

\* Commands that go on, start over or end leave the cache as it is.
LEMMA CalmCached ==
    ASSUME Cached, UNCHANGED <<marker, tree, shared, source, installed, commands>>,
           \A c \in Cli :
              \/ proc'[c].cmd = "none"
              \/ /\ proc'[c].cmd = proc[c].cmd /\ proc'[c].id = proc[c].id
                 /\ \/ proc'[c].assets = "ask"
                    \/ proc'[c].assets = proc[c].assets /\ proc'[c].sig = proc[c].sig
    PROVE  Cached'
<1>1. \A c \in Cli :
          /\ proc'[c].cmd # "none" => proc[c].cmd # "none" /\ proc'[c].id = proc[c].id
          /\ Extracting(c)' => /\ Extracting(c)
                               /\ proc'[c].id = proc[c].id /\ proc'[c].sig = proc[c].sig
                               /\ proc'[c].assets = proc[c].assets
  BY DEF Extracting, Piece
<1>2. Trusted' => Trusted
  BY <1>1 DEF Trusted
<1>3. Dated'
  BY <1>1 DEF Cached, Dated
<1>4. Extracted'
  BY <1>1, <1>2 DEF Cached, Extracted
<1>5. QED
  BY <1>3, <1>4 DEF Cached

LEMMA EnterCached ==
    ASSUME Typed, Cached, NEW c \in Cli, Entry(c)
    PROVE  Cached'
<1>1. /\ proc[c].cmd = "none" /\ proc'[c].cmd # "none" /\ proc'[c].assets = "ask"
      /\ proc'[c].id = IF installed THEN commands + 1 ELSE 0
  BY EnterSlot DEF Entry
<1>2. /\ \A d \in Cli \ {c} : proc'[d] = proc[d]
      /\ UNCHANGED <<marker, tree, shared, source, installed>> /\ commands' = commands + 1
  BY DEF Entry, Enter, Set, Typed, files, cache
<1>3. \A d \in Cli : Extracting(d)' => d # c /\ Extracting(d)
  BY <1>1, <1>2 DEF Extracting, Piece
<1>4. Dated'
  BY <1>1, <1>2, <1>3 DEF Cached, Dated, Typed, Slot
<1>5. Trusted' => Trusted
  <2>1. marker # None /\ proc'[c].id = marker[2] => ~installed
    BY <1>1 DEF Cached, Dated, Typed
  <2>2. QED
    BY <1>1, <1>2, <2>1 DEF Trusted
<1>6. Extracted'
  BY <1>2, <1>3, <1>5 DEF Cached, Extracted
<1>7. QED
  BY <1>4, <1>6 DEF Cached

LEMMA BeginCached ==
    ASSUME Typed, Staged, Cached, NEW c \in Cli, BeginExtract(c)
    PROVE  Cached'
<1>1. /\ proc[c].cmd # "none" /\ marker # Signature(c)
      /\ UNCHANGED <<marker, source, installed, commands>>
      /\ shared' = \E d \in Cli \ {c} : Extracting(d) \/ (installed /\ proc[d].cmd # "none")
  BY DEF BeginExtract, DockerStep, Staged, files
<1>2. /\ \A d \in Cli \ {c} : proc'[d] = proc[d]
      /\ proc'[c].cmd = proc[c].cmd /\ proc'[c].id = proc[c].id
      /\ proc'[c].assets = "compose" /\ proc'[c].sig = Signature(c)
  BY AssetSlot, MoveSlot DEF Move, SameCommand
<1>3. /\ Signature(c)[1] = source /\ Signature(c)[2] = proc[c].id /\ Signature(c) # None
      /\ source \in Nat /\ proc[c].id \in Nat
  BY StackAssumption DEF Signature, Typed, Slot
<1>4. \A d \in Cli \ {c} : Extracting(d)' <=> Extracting(d)
  BY <1>2 DEF Extracting
<1>5. Dated'
  BY <1>1, <1>2, <1>3, <1>4 DEF Cached, Dated
<1>6. ~shared' => ~Trusted'
  <2>1. SUFFICES ASSUME ~shared', Trusted'
                 PROVE  FALSE
    OBVIOUS
  <2>2. marker # None /\ marker[1] = source /\ marker[2] = proc[c].id
    <3>1. CASE installed
      BY <1>1, <1>2, <2>1, <3>1 DEF Trusted
    <3>2. CASE ~installed
      BY <1>1, <2>1, <3>2 DEF Trusted, Cached, Dated
    <3>3. QED
      BY <3>1, <3>2
  <2>3. marker = <<marker[1], marker[2]>>
    BY <2>2 DEF Typed
  <2>4. QED
    BY <1>1, <2>2, <2>3 DEF Signature
<1>7. Extracted'
  <2>1. SUFFICES ASSUME ~shared'
                 PROVE  Extracted'
    BY DEF Extracted
  <2>2. \A d \in Cli : Extracting(d)' => d = c
    BY <1>1, <1>4, <2>1
  <2>3. QED
    BY <1>2, <1>6, <2>1, <2>2 DEF Extracted
<1>8. QED
  BY <1>5, <1>7 DEF Cached

LEMMA CopyCached ==
    ASSUME Typed, Cached, NEW c \in Cli, Copy(c)
    PROVE  Cached'
<1>1. /\ Extracting(c) /\ proc[c].assets \in Piece
      /\ UNCHANGED <<marker, source, installed, commands, shared>>
      /\ tree' = [tree EXCEPT ![proc[c].assets] = source]
  BY DEF Copy, Extracting, files
<1>2. /\ \A d \in Cli \ {c} : proc'[d] = proc[d]
      /\ proc'[c].cmd = proc[c].cmd /\ proc'[c].id = proc[c].id /\ proc'[c].sig = proc[c].sig
      /\ proc'[c].assets = IF proc[c].assets = "compose" THEN "contexts" ELSE "mark"
  <2>1. Move(c)
    BY DEF Move
  <2>2. QED
    BY <2>1, AssetSlot, SetTyped, MoveTyped DEF SameCommand, Copy, Set, Typed
<1>3. \A d \in Cli : Extracting(d)' <=> Extracting(d)
  BY <1>1, <1>2 DEF Extracting, Piece
<1>4. Dated'
  BY <1>1, <1>2, <1>3 DEF Cached, Dated
<1>5. Trusted' => Trusted
  BY <1>1, <1>2 DEF Trusted
<1>6. /\ proc[c].assets = "compose" => tree'["compose"] = source
      /\ proc[c].assets = "contexts" => tree'["contexts"] = source /\ tree'["compose"] = tree["compose"]
  BY <1>1 DEF Typed, Piece
<1>7. Extracted'
  <2>1. SUFFICES ASSUME ~shared
                 PROVE  Extracted'
    BY <1>1 DEF Extracted
  <2>2. \A d \in Cli : Extracting(d) => d = c
    BY <1>1, <2>1 DEF Cached, Extracted
  <2>3. ~Trusted'
    BY <1>1, <1>5, <2>1 DEF Cached, Extracted
  <2>4. proc[c].sig[1] = source =>
            /\ proc'[c].assets \in {"contexts", "mark"} => tree'["compose"] = source
            /\ proc'[c].assets = "mark" => tree'["contexts"] = source
    BY <1>1, <1>2, <1>6, <2>1 DEF Cached, Extracted, Piece
  <2>5. QED
    BY <1>1, <1>2, <1>3, <2>2, <2>3, <2>4 DEF Extracted
<1>8. QED
  BY <1>4, <1>7 DEF Cached

LEMMA MarkCached ==
    ASSUME Typed, Cached, NEW c \in Cli, Mark(c)
    PROVE  Cached'
<1>1. /\ Extracting(c) /\ proc[c].assets = "mark" /\ marker' = proc[c].sig
      /\ UNCHANGED <<tree, source, installed, commands, shared>>
  BY DEF Mark, Extracting, files
<1>2. /\ \A d \in Cli \ {c} : proc'[d] = proc[d]
      /\ proc'[c].cmd = proc[c].cmd /\ proc'[c].id = proc[c].id /\ proc'[c].assets = "ready"
  BY AssetSlot DEF SameCommand, Mark, Set, Typed
<1>3. \A d \in Cli : Extracting(d)' <=> d # c /\ Extracting(d)
  BY <1>2 DEF Extracting, Piece
<1>4. Dated'
  BY <1>1, <1>2, <1>3 DEF Cached, Dated, Extracting
<1>5. Extracted'
  <2>1. SUFFICES ASSUME ~shared
                 PROVE  Extracted'
    BY <1>1 DEF Extracted
  <2>2. \A d \in Cli : ~Extracting(d)'
    BY <1>1, <1>3, <2>1 DEF Cached, Extracted
  <2>3. Trusted' => tree' = [p \in Piece |-> source']
    <3>1. SUFFICES ASSUME proc[c].sig[1] = source
                   PROVE  tree = [p \in Piece |-> source]
      BY <1>1 DEF Trusted
    <3>2. tree["compose"] = source /\ tree["contexts"] = source
      BY <1>1, <2>1, <3>1 DEF Cached, Extracted
    <3>3. QED
      BY <3>2 DEF Typed, Piece
  <2>4. QED
    BY <2>2, <2>3 DEF Extracted
<1>6. QED
  BY <1>4, <1>5 DEF Cached

LEMMA UpgradeCached ==
    ASSUME Typed, Cached, Upgrade
    PROVE  Cached'
<1>1. /\ source' > source /\ source \in Nat /\ source' \in Nat
      /\ UNCHANGED <<marker, tree, shared, installed, commands, proc>>
  BY DEF Upgrade, Typed, cache
<1>2. \A c \in Cli : Extracting(c)' <=> Extracting(c)
  BY <1>1 DEF Extracting
<1>3. \A c \in Cli : Extracting(c) => proc[c].sig[1] \in Nat /\ proc[c].sig[1] # source'
  BY <1>1 DEF Cached, Dated, Typed, Slot, Sigs
<1>4. marker # None => marker[1] \in Nat /\ marker[1] # source'
  BY <1>1 DEF Cached, Dated, Typed
<1>5. Dated'
  BY <1>1, <1>2, <1>3, <1>4 DEF Cached, Dated
<1>6. Extracted'
  BY <1>1, <1>2, <1>3, <1>4 DEF Cached, Extracted, Trusted
<1>7. QED
  BY <1>5, <1>6 DEF Cached

LEMMA NextCached ==
    ASSUME Typed, Staged, Cached, [Next]_vars
    PROVE  Cached'
<1>1. ASSUME NEW c \in Cli, Move(c), ~Entry(c), ~BeginExtract(c), ~Copy(c), ~Mark(c)
      PROVE  Cached'
  <2>1. UNCHANGED <<files, cache, commands>> /\ \A d \in Cli \ {c} : proc'[d] = proc[d]
    <3>1. UNCHANGED <<files, cache, commands>>
      BY <1>1 DEF Move, Kill, Render, Check, Checked, EnsureInfra, Start, RunAgent, Down, List,
             Decide, Up
    <3>2. QED
      BY <1>1, <3>1, MoveSlot
  <2>2. Ends(c) \/ (SameCommand(c) /\ proc'[c].assets = "ask")
    <3>1. CASE Kill(c) \/ RunAgent(c) \/ Down(c) \/ Up(c)
      BY <3>1, EndSlot DEF Kill, RunAgent, Down, Up
    <3>2. QED
      BY <1>1, <3>1, RenderSlot, CheckSlot, StartSlot, ListSlot, DecideSlot DEF Move
  <2>3. QED
    BY <2>1, <2>2, CalmCached DEF files, cache, Ends, SameCommand
<1>2. ASSUME NEW c \in Cli, Move(c)
      PROVE  Cached'
  BY <1>1, <1>2, EnterCached, BeginCached, CopyCached, MarkCached
<1>3. ASSUME NEW c \in Cli, Write(c)
      PROVE  Cached'
  <2>1. UNCHANGED <<files, cache, commands>>
    BY <1>3 DEF Write
  <2>2. QED
    BY <1>3, <2>1, WriteSlot, CalmCached DEF files, cache, SameCommand
<1>4. ASSUME EditOverride
      PROVE  Cached'
  <2>1. UNCHANGED <<marker, tree, shared, source, installed, commands>>
    BY <1>4 DEF EditOverride, cache
  <2>2. QED
    BY <1>4, <2>1, OverrideSlot, CalmCached DEF SameCommand
<1>5. ASSUME UNCHANGED <<proc, marker, tree, shared, source, installed, commands>>
      PROVE  Cached'
  BY <1>5, CalmCached
<1>6. ASSUME NEW s \in Infra, Load(s) \/ Restart(s)
      PROVE  Cached'
  BY <1>5, <1>6 DEF Load, Restart, files, cache
<1>7. ASSUME NEW f \in File, Edit(f)
      PROVE  Cached'
  BY <1>5, <1>7 DEF Edit, cache
<1>8. ASSUME UNCHANGED vars
      PROVE  Cached'
  BY <1>5, <1>8 DEF vars, files, cache
<1>9. QED
  BY <1>2, <1>3, <1>4, <1>6, <1>7, <1>8, NextCases, UpgradeCached
-----------------------------------------------------------------------------
(* Edits.                                                                  *)

\* A command that is to start containers from an .env that has been edited since.
Outrun(c) ==
    \/ proc[c].step = "write" /\ proc[c].content.env # mtime[".env"]
    \/ /\ proc[c].prefix = "resolved" /\ proc[c].step \in {"check", "infra", "start", "up"}
       /\ resolved.env # mtime[".env"]

\* Whatever a container lacks was edited after it was started, or is accounted for.
Watched(s) ==
    container[s] # None =>
        /\ container[s].started <= now
        /\ container[s].loaded # None /\ container[s].loaded < mtime[ServiceConfig(s)] =>
               mtime[ServiceConfig(s)] > container[s].started
        /\ container[s].env # mtime[".env"] =>
               mtime[".env"] > container[s].started \/ s \in hidden

Noticed ==
    /\ \A s \in Infra : Watched(s)
    /\ (\E c \in Cli : Outrun(c)) => hidden = Infra

LEMMA MtimeTyped ==
    ASSUME Typed
    PROVE  /\ \A f \in File : mtime[f] \in Nat /\ mtime[f] <= now
           /\ \A s \in Infra : ServiceConfig(s) \in File /\ ServiceConfig(s) # ".env"
           /\ ".env" \in File /\ now \in Nat
BY DEF Typed, ServiceConfig, File, Infra

\* A container is new only if it is up to date, or the edit it lacks is accounted for.
LEMMA CreateNoticed ==
    ASSUME Typed, Staged, Noticed, UNCHANGED <<now, mtime>>, NEW c \in Cli,
           NEW services \in SUBSET Infra, Create(services, ContentOf(c)),
           proc[c].step \in {"start", "up"}
    PROVE  /\ \A s \in Infra : Watched(s)'
           /\ (\E d \in Cli : Outrun(d)) => hidden' = Infra
           /\ \A s \in services : /\ container'[s].loaded = None
                                  /\ container'[s].env < mtime[".env"] => s \in hidden'
           /\ \A s \in Infra \ services : container'[s] = container[s]
           /\ hidden \ services \subseteq hidden'
<1>1. /\ \A s \in services : container'[s] = Fresh(ContentOf(c))
      /\ \A s \in Infra \ services : container'[s] = container[s]
      /\ hidden' = IF Settled THEN hidden \ services ELSE hidden
  BY DEF Create
<1>2. /\ Fresh(ContentOf(c)).env = ContentOf(c).env /\ Fresh(ContentOf(c)).started = now
      /\ Fresh(ContentOf(c)).loaded = None
  BY DEF Fresh
<1>3. Settled => \A d \in Cli : ~Outrun(d)
  <2>1. SUFFICES ASSUME Settled, NEW d \in Cli
                 PROVE  ~Outrun(d)
    OBVIOUS
  <2>2. /\ resolved # None => resolved.env = mtime[".env"]
        /\ proc[d].step = "write" => proc[d].content.env = mtime[".env"]
        /\ proc[d].prefix = "resolved" => resolved # None
    BY <2>1 DEF Settled, At, Staged
  <2>3. QED
    BY <2>2 DEF Outrun
<1>4. ContentOf(c).env # mtime[".env"] => Outrun(c)
  <2>1. Layered.env = mtime[".env"]
    BY DEF Layered
  <2>2. QED
    BY <2>1 DEF ContentOf, Outrun
<1>5. ContentOf(c).env # mtime[".env"] => hidden' = Infra
  BY <1>1, <1>3, <1>4 DEF Noticed
<1>6. ASSUME NEW s \in Infra
      PROVE  Watched(s)'
  <2>1. CASE s \in services
    BY <1>1, <1>2, <1>5, <2>1, MtimeTyped DEF Watched
  <2>2. CASE s \notin services
    BY <1>1, <2>2 DEF Noticed, Watched
  <2>3. QED
    BY <2>1, <2>2
<1>7. \A s \in services : container'[s].env < mtime[".env"] => s \in hidden'
  <2>1. ContentOf(c).env \in Nat /\ mtime[".env"] \in Nat
    BY ContentTyped, MtimeTyped DEF Rendering
  <2>2. QED
    BY <1>1, <1>2, <1>5, <2>1
<1>8. QED
  BY <1>1, <1>2, <1>3, <1>6, <1>7 DEF Noticed

LEMMA MoveNoticed ==
    ASSUME Typed, Staged, Noticed, NEW c \in Cli, Move(c)
    PROVE  Noticed'
<1>1. UNCHANGED <<now, mtime, resolved>> /\ \A d \in Cli \ {c} : proc'[d] = proc[d]
  <2>1. UNCHANGED <<files, resolved>>
    BY DEF Move, Entry, Enter, Kill, BeginExtract, Copy, Mark, Render, Check, Checked, EnsureInfra,
           Start, RunAgent, Down, List, Decide, Up, cache
  <2>2. QED
    BY <2>1, MoveSlot DEF files
<1>2. \A d \in Cli \ {c} : Outrun(d)' <=> Outrun(d)
  BY <1>1 DEF Outrun
<1>3. Outrun(c)' => Outrun(c)
  <2>1. Ends(c) => ~Outrun(c)'
    BY DEF Ends, Outrun
  <2>2. CASE Entry(c)
    BY <2>2, EnterSlot, NoneApart DEF Entry, Outrun
  <2>3. CASE Kill(c) \/ RunAgent(c) \/ Down(c) \/ Up(c)
    BY <2>1, <2>3, EndSlot DEF Kill, RunAgent, Down, Up
  <2>4. CASE BeginExtract(c) \/ Copy(c) \/ Mark(c)
    BY <1>1, <2>4, AssetSlot DEF Outrun
  <2>5. CASE Render(c)
    <3>1. Layered.env = mtime[".env"]
      BY DEF Layered
    <3>2. QED
      BY <1>1, <2>5, <3>1, RenderSlot DEF Outrun
  <2>6. CASE Check(c)
    BY <1>1, <2>1, <2>6, CheckSlot DEF Outrun
  <2>7. CASE EnsureInfra(c) \/ Start(c)
    BY <1>1, <2>1, <2>7, StartSlot DEF Outrun
  <2>8. CASE List(c)
    BY <1>1, <2>1, <2>8, ListSlot DEF Outrun
  <2>9. CASE Decide(c)
    BY <1>1, <2>1, <2>9, DecideSlot DEF Outrun
  <2>10. QED
    BY <2>2, <2>3, <2>4, <2>5, <2>6, <2>7, <2>8, <2>9 DEF Move
<1>4. CASE Start(c) \/ Up(c)
  <2>1. proc[c].step \in {"start", "up"}
    BY <1>4 DEF Start, Up, At
  <2>2. PICK services \in SUBSET Infra : Create(services, ContentOf(c))
    BY <1>4, CreateCases
  <2>3. /\ \A s \in Infra : Watched(s)'
        /\ (\E d \in Cli : Outrun(d)) => hidden' = Infra
    BY <1>1, <2>1, <2>2, CreateNoticed
  <2>4. QED
    BY <1>2, <1>3, <2>3 DEF Noticed
<1>5. CASE Down(c)
  <2>1. hidden' = hidden /\ \A s \in Infra : container'[s] = None
    BY <1>5 DEF Down
  <2>2. QED
    BY <1>2, <1>3, <2>1 DEF Noticed, Watched
<1>6. CASE UNCHANGED <<container, hidden>>
  BY <1>1, <1>2, <1>3, <1>6 DEF Noticed, Watched
<1>7. QED
  BY <1>4, <1>5, <1>6 DEF Move, Entry, Enter, Kill, BeginExtract, Copy, Mark, Render, Check,
     Checked, EnsureInfra, RunAgent, List, Decide

LEMMA NextNoticed ==
    ASSUME Typed, Staged, Noticed, [Next]_vars
    PROVE  Noticed'
<1>1. ASSUME NEW c \in Cli, Write(c)
      PROVE  Noticed'
  <2>1. /\ UNCHANGED <<now, mtime, container, hidden>> /\ resolved' = proc[c].content
        /\ proc[c].step = "write"
    BY <1>1 DEF Write, At, files
  <2>2. (\E d \in Cli : Outrun(d)') => \E d \in Cli : Outrun(d)
    <3>1. SUFFICES ASSUME NEW d \in Cli, Outrun(d)', ~Outrun(c)
                   PROVE  Outrun(d)
      OBVIOUS
    <3>2. resolved'.env = mtime'[".env"]
      BY <2>1, <3>1 DEF Outrun
    <3>3. proc'[d].step = "write"
      BY <3>1, <3>2 DEF Outrun
    <3>4. d # c
      BY <1>1, <3>3, WriteSlot
    <3>5. QED
      BY <1>1, <2>1, <3>1, <3>2, <3>4, WriteSlot DEF Outrun
  <2>3. QED
    BY <2>1, <2>2 DEF Noticed, Watched
<1>2. ASSUME NEW s \in Infra, Load(s) \/ Restart(s)
      PROVE  Noticed'
  <2>1. /\ UNCHANGED <<now, mtime, resolved, proc>>
        /\ \A r \in Infra \ {s} : container'[r] = container[r]
        /\ hidden \subseteq hidden' /\ hidden' \subseteq Infra
    BY <1>2 DEF Load, Restart, files, Typed
  <2>2. \A d \in Cli : Outrun(d)' <=> Outrun(d)
    BY <2>1 DEF Outrun
  <2>3. \A r \in Infra \ {s} : Watched(r)'
    BY <2>1 DEF Noticed, Watched
  <2>4. container[s] \in Box /\ container \in [Infra -> Box \cup {None}]
    BY <1>2 DEF Load, Restart, Typed
  <2>5. Watched(s)'
    <3>1. CASE Load(s)
      <4>1. container'[s] = [container[s] EXCEPT !.loaded = mtime[ServiceConfig(s)]]
        BY <2>4, <3>1 DEF Load
      <4>2. /\ container'[s].loaded = mtime[ServiceConfig(s)]
            /\ container'[s].env = container[s].env /\ container'[s].started = container[s].started
        BY <2>4, <4>1 DEF Box
      <4>3. container[s] # None /\ mtime[ServiceConfig(s)] \in Nat
        BY <3>1, MtimeTyped DEF Load
      <4>4. QED
        BY <2>1, <4>2, <4>3 DEF Noticed, Watched
    <3>2. CASE container' = [container EXCEPT ![s].started = now, ![s].loaded = None]
      <4>1. /\ container'[s].started = now /\ container'[s].loaded = None
            /\ container'[s].env = container[s].env
        BY <2>4, <3>2 DEF Box
      <4>2. container[s].env = mtime[".env"] \/ s \in hidden'
        <5>1. CASE Restart(s)
          <6>1. container'[s] # None
            BY <2>4, <3>2, StackAssumption DEF Typed, Box, Stamp
          <6>2. hidden' = IF container[s].env = mtime[".env"] THEN hidden ELSE hidden \cup {s}
            BY <2>4, <5>1, <6>1 DEF Restart
          <6>3. QED
            BY <6>2
        <5>2. CASE Load(s)
          BY <4>1, <5>2, <2>4, MtimeTyped, StackAssumption DEF Load, Box
        <5>3. QED
          BY <1>2, <5>1, <5>2
      <4>3. QED
        BY <2>1, <4>1, <4>2, MtimeTyped DEF Watched
    <3>3. CASE container' = [container EXCEPT ![s] = None]
      BY <2>4, <3>3 DEF Watched
    <3>4. QED
      BY <1>2, <3>1, <3>2, <3>3 DEF Restart
  <2>6. QED
    BY <2>1, <2>2, <2>3, <2>5 DEF Noticed
<1>3. ASSUME NEW f \in File, Edit(f)
      PROVE  Noticed'
  <2>1. /\ now' = now + 1 /\ mtime'[f] = now + 1 /\ \A g \in File \ {f} : mtime'[g] = mtime[g]
        /\ UNCHANGED <<resolved, container, proc>>
        /\ hidden' = IF f = ".env" /\ \E c \in Cli : InFlight(c) THEN Infra ELSE hidden
    BY <1>3 DEF Edit, Typed
  <2>2. ASSUME NEW s \in Infra
        PROVE  Watched(s)'
    <3>1. /\ container'[s] = container[s] /\ now \in Nat
          /\ mtime'[ServiceConfig(s)] \in {mtime[ServiceConfig(s)], now + 1}
          /\ mtime'[".env"] \in {mtime[".env"], now + 1}
          /\ mtime[ServiceConfig(s)] \in Nat /\ mtime[".env"] \in Nat
          /\ s \in hidden => s \in hidden'
      BY <2>1, MtimeTyped DEF Typed
    <3>2. container[s] # None => container[s].started \in Nat /\ container[s].loaded \in Stamp
      BY DEF Typed, Box
    <3>3. QED
      BY <2>1, <3>1, <3>2 DEF Noticed, Watched
  <2>3. (\E c \in Cli : Outrun(c)') => hidden' = Infra
    <3>1. CASE f = ".env"
      <4>1. \A c \in Cli : Outrun(c)' => InFlight(c)
        BY <2>1 DEF Outrun, InFlight, At
      <4>2. QED
        BY <2>1, <3>1, <4>1
    <3>2. CASE f # ".env"
      BY <2>1, <3>2, MtimeTyped DEF Noticed, Outrun
    <3>3. QED
      BY <3>1, <3>2
  <2>4. QED
    BY <2>2, <2>3 DEF Noticed
<1>4. ASSUME EditOverride
      PROVE  Noticed'
  <2>1. now' = now + 1 /\ now \in Nat /\ UNCHANGED <<mtime, resolved, container, hidden>>
    BY <1>4 DEF EditOverride, Typed
  <2>2. \A d \in Cli : Outrun(d)' <=> Outrun(d)
    BY <1>4, <2>1, OverrideSlot DEF Outrun
  <2>3. \A s \in Infra : container[s] # None => container[s].started \in Nat
    BY DEF Typed, Box
  <2>4. \A s \in Infra : Watched(s)'
    BY <2>1, <2>3 DEF Noticed, Watched
  <2>5. QED
    BY <2>1, <2>2, <2>4 DEF Noticed
<1>5. ASSUME Upgrade \/ UNCHANGED vars
      PROVE  Noticed'
  <2>1. /\ now' \in {now, now + 1} /\ now \in Nat
        /\ UNCHANGED <<mtime, resolved, container, hidden, proc>>
    BY <1>5 DEF Upgrade, vars, files, Typed
  <2>2. \A d \in Cli : Outrun(d)' <=> Outrun(d)
    BY <2>1 DEF Outrun
  <2>3. \A s \in Infra : container[s] # None => container[s].started \in Nat
    BY DEF Typed, Box
  <2>4. \A s \in Infra : Watched(s)'
    BY <2>1, <2>3 DEF Noticed, Watched
  <2>5. QED
    BY <2>1, <2>2, <2>4 DEF Noticed
<1>6. QED
  BY <1>1, <1>2, <1>3, <1>4, <1>5, NextCases, MoveNoticed
-----------------------------------------------------------------------------
(* Reload.                                                                 *)

\* s has not read f since an edit that the command c was entered after.
Lacks(s, f, c) ==
    Behind(s, f) /\ mtime[f] <= proc[c].began /\ ~(f = ".env" /\ s \in hidden)

\* The start that reload read of s is older than one of its files.
Seen(s, c) == Stale(s, proc[c].starts[s])

\* What reload has yet to recreate, it has seen or is going to see.
Due(c) ==
    \A s \in Infra : \A f \in {ServiceConfig(s), ".env"} : Lacks(s, f, c) =>
        /\ proc[c].step = "decide" =>
               \/ proc[c].force
               \/ s \in DOMAIN proc[c].starts /\ Seen(s, c)
        /\ proc[c].step \in {"render", "write", "up"} => s \in proc[c].targets

Reloaded == \A c \in Cli : proc[c].cmd = "reload" => Due(c)

LEMMA NoticedStale ==
    ASSUME Typed, Noticed, NEW s \in Infra, NEW f \in {ServiceConfig(s), ".env"}, Behind(s, f)
    PROVE  Stale(s, container[s].started) \/ (f = ".env" /\ s \in hidden)
<1>1. Watched(s) /\ container[s] # None
  BY DEF Noticed, Behind
<1>2. container[s] \in Box /\ mtime[f] \in Nat /\ ServiceConfig(s) # ".env"
  BY <1>1, MtimeTyped DEF Typed
<1>3. CASE f = ServiceConfig(s)
  BY <1>1, <1>2, <1>3 DEF Watched, Behind, Stale
<1>4. CASE f = ".env"
  BY <1>1, <1>2, <1>4 DEF Watched, Behind, Stale, Box
<1>5. QED
  BY <1>3, <1>4

\* No step adds to what a reload has to catch: newer edits are not its own.
LEMMA LacksShrinks ==
    ASSUME Typed, Staged, Noticed, [Next]_vars, NEW c \in Cli,
           proc'[c].began = proc[c].began,
           NEW s \in Infra, NEW f \in {ServiceConfig(s), ".env"}, Lacks(s, f, c)'
    PROVE  Lacks(s, f, c)
<1>1. f \in File /\ mtime[f] \in Nat /\ now \in Nat /\ proc[c].began <= now /\ proc[c].began \in Nat
      /\ ServiceConfig(s) # ".env"
  BY MtimeTyped DEF Staged, Typed, Slot
<1>2. ASSUME container'[s] = container[s], mtime'[f] = mtime[f], s \in hidden => s \in hidden'
      PROVE  Lacks(s, f, c)
  BY <1>2 DEF Lacks, Behind
<1>3. ASSUME NEW d \in Cli, Move(d)
      PROVE  Lacks(s, f, c)
  <2>1. UNCHANGED <<now, mtime>>
    <3>1. UNCHANGED files
      BY <1>3 DEF Move, Entry, Enter, Kill, BeginExtract, Copy, Mark, Render, Check, Checked,
             EnsureInfra, Start, RunAgent, Down, List, Decide, Up, cache
    <3>2. QED
      BY <3>1 DEF files
  <2>2. CASE Start(d) \/ Up(d)
    <3>1. proc[d].step \in {"start", "up"}
      BY <2>2 DEF Start, Up, At
    <3>2. PICK services \in SUBSET Infra : Create(services, ContentOf(d))
      BY <2>2, CreateCases
    <3>3. /\ \A r \in services : /\ container'[r].loaded = None
                                 /\ container'[r].env < mtime[".env"] => r \in hidden'
          /\ \A r \in Infra \ services : container'[r] = container[r]
          /\ hidden \ services \subseteq hidden'
      BY <2>1, <3>1, <3>2, CreateNoticed
    <3>4. CASE s \in services
      BY <1>1, <2>1, <3>3, <3>4 DEF Lacks, Behind
    <3>5. CASE s \notin services
      BY <1>2, <2>1, <3>3, <3>5
    <3>6. QED
      BY <3>4, <3>5
  <2>3. CASE Down(d)
    BY <2>3 DEF Down, Lacks, Behind
  <2>4. CASE UNCHANGED <<container, hidden>>
    BY <1>2, <2>1, <2>4
  <2>5. QED
    BY <1>3, <2>2, <2>3, <2>4 DEF Move, Entry, Enter, Kill, BeginExtract, Copy, Mark, Render,
       Check, Checked, EnsureInfra, RunAgent, List, Decide
<1>4. ASSUME NEW r \in Infra, Load(r) \/ Restart(r)
      PROVE  Lacks(s, f, c)
  <2>1. UNCHANGED mtime /\ hidden \subseteq hidden'
    BY <1>4 DEF Load, Restart, files
  <2>2. CASE r # s
    BY <1>2, <1>4, <2>1, <2>2 DEF Load, Restart, Typed
  <2>3. CASE r = s
    <3>1. container[s] \in Box /\ container[s] # None /\ container \in [Infra -> Box \cup {None}]
      BY <1>4, <2>3 DEF Load, Restart, Typed
    <3>2. \/ container'[s] = [container[s] EXCEPT !.loaded = mtime[ServiceConfig(s)]]
          \/ container'[s] = [container[s] EXCEPT !.started = now, !.loaded = None]
          \/ container'[s] = None
      BY <1>4, <2>3, <3>1 DEF Load, Restart
    <3>3. /\ container'[s] # None /\ container'[s].env = container[s].env
          /\ container'[s].loaded \in {mtime[ServiceConfig(s)], None}
      BY <3>1, <3>2 DEF Lacks, Behind, Box
    <3>4. f = ".env"
      BY <1>1, <2>1, <3>3 DEF Lacks, Behind
    <3>5. QED
      BY <2>1, <3>1, <3>3, <3>4, StackAssumption DEF Lacks, Behind, Box
  <2>4. QED
    BY <2>2, <2>3
<1>5. ASSUME NEW g \in File, Edit(g)
      PROVE  Lacks(s, f, c)
  <2>1. /\ mtime'[g] = now + 1 /\ \A h \in File \ {g} : mtime'[h] = mtime[h]
        /\ UNCHANGED container /\ (s \in hidden => s \in hidden')
    BY <1>5 DEF Edit, Typed
  <2>2. f # g
    BY <1>1, <2>1 DEF Lacks
  <2>3. QED
    BY <1>1, <1>2, <2>1, <2>2
<1>6. ASSUME UNCHANGED <<mtime, container, hidden>>
      PROVE  Lacks(s, f, c)
  BY <1>2, <1>6
<1>7. QED
  BY <1>3, <1>4, <1>5, <1>6, NextCases DEF Write, EditOverride, Upgrade, vars, files

LEMMA SeenStays ==
    ASSUME Typed, Staged, [Next]_vars, NEW c \in Cli, NEW s \in Infra, proc[c].step = "decide",
           s \in DOMAIN proc[c].starts, Seen(s, c), proc'[c].starts = proc[c].starts
    PROVE  Seen(s, c)'
<1>1. \A f \in File : mtime[f] \in Nat /\ mtime'[f] \in Nat /\ mtime'[f] >= mtime[f]
  <2>1. CASE UNCHANGED mtime
    BY <2>1, MtimeTyped
  <2>2. CASE \E g \in File : Edit(g)
    <3>1. PICK g \in File : mtime' = [mtime EXCEPT ![g] = now + 1]
      BY <2>2 DEF Edit
    <3>2. QED
      BY <3>1, MtimeTyped DEF Typed
  <2>3. \A d \in Cli : Move(d) \/ Write(d) => UNCHANGED mtime
    BY DEF Move, Entry, Enter, Kill, BeginExtract, Copy, Mark, Render, Check, Checked,
             EnsureInfra, Start, RunAgent, Down, List, Decide, Up, cache, files, Write
  <2>4. QED
    BY <2>1, <2>2, <2>3, NextCases DEF Load, Restart, EditOverride, Upgrade, vars, files
<1>2. proc[c].starts # None /\ proc[c].starts \in Starts
  BY DEF Typed, Staged, Slot
<1>3. proc[c].starts[s] \in Stamp
  BY <1>2 DEF Starts
<1>4. QED
  BY <1>1, <1>3, MtimeTyped DEF Seen, Stale, Stamp

Inv == Typed /\ Staged /\ Noticed /\ Reloaded

\* A reload that stays where it is, or goes on from rendering to recreating.
LEMMA CalmDue ==
    ASSUME Inv, [Next]_vars, NEW c \in Cli, proc[c].cmd = "reload",
           proc'[c].began = proc[c].began,
           \/ /\ proc'[c].step = proc[c].step /\ proc'[c].targets = proc[c].targets
              /\ proc'[c].starts = proc[c].starts /\ proc'[c].force = proc[c].force
           \/ /\ proc[c].step \in {"render", "write", "up"} /\ proc'[c].targets = proc[c].targets
              /\ proc'[c].step # "decide"
    PROVE  Due(c)'
<1>1. SUFFICES ASSUME NEW s \in Infra, NEW f \in {ServiceConfig(s), ".env"}, Lacks(s, f, c)'
               PROVE  /\ proc'[c].step = "decide" =>
                             proc'[c].force \/ (s \in DOMAIN proc'[c].starts /\ Seen(s, c)')
                      /\ proc'[c].step \in {"render", "write", "up"} => s \in proc'[c].targets
  BY DEF Due
<1>2. Lacks(s, f, c)
  BY <1>1, LacksShrinks DEF Inv
<1>3. /\ proc[c].step = "decide" => proc[c].force \/ (s \in DOMAIN proc[c].starts /\ Seen(s, c))
      /\ proc[c].step \in {"render", "write", "up"} => s \in proc[c].targets
  BY <1>2 DEF Inv, Reloaded, Due
<1>4. QED
  BY <1>3, SeenStays DEF Inv

LEMMA ListDue ==
    ASSUME Inv, [Next]_vars, NEW c \in Cli, List(c), proc'[c].cmd = "reload"
    PROVE  Due(c)'
<1>1. UNCHANGED <<mtime, container>>
  BY DEF List, files
<1>2. PICK seen \in {Running, {}} : \E unreadable \in SUBSET seen :
         /\ SameCommand(c) /\ proc'[c].step = "decide"
         /\ proc'[c].force = proc[c].force /\ (seen = {} => proc[c].force)
         /\ proc'[c].starts = [s \in seen |-> IF s \in unreadable THEN None
                                              ELSE container[s].started]
  BY ListSlot DEF Inv, Ends
<1>3. SUFFICES ASSUME NEW s \in Infra, NEW f \in {ServiceConfig(s), ".env"}, Lacks(s, f, c)',
                      ~proc[c].force
               PROVE  s \in DOMAIN proc'[c].starts /\ Seen(s, c)'
  BY <1>2 DEF Due
<1>4. Lacks(s, f, c)
  BY <1>2, <1>3, LacksShrinks DEF Inv, SameCommand
<1>5. s \in seen
  BY <1>2, <1>3, <1>4 DEF Lacks, Behind, Running
<1>6. s \in DOMAIN proc'[c].starts /\ proc'[c].starts[s] \in {None, container[s].started}
  BY <1>2, <1>5
<1>7. Stale(s, container[s].started)
  BY <1>4, NoticedStale DEF Inv, Lacks
<1>8. Stale(s, None)
  BY DEF Stale
<1>9. Stale(s, proc'[c].starts[s])
  BY <1>6, <1>7, <1>8
<1>10. Seen(s, c)'
  BY <1>1, <1>9 DEF Seen, Stale
<1>11. QED
  BY <1>6, <1>10

\* What is decided to be recreated is whatever reload has seen.
LEMMA DecideCatches ==
    ASSUME Inv, NEW c \in Cli, Decide(c),
           NEW s \in Infra, NEW f \in {ServiceConfig(s), ".env"}, Lacks(s, f, c)
    PROVE  s \in (IF proc[c].force THEN Infra
                  ELSE {r \in DOMAIN proc[c].starts : Stale(r, proc[c].starts[r])})
<1>1. proc[c].step = "decide" /\ proc[c].cmd = "reload"
  BY DEF Decide, At, Inv, Staged
<1>2. proc[c].force \/ (s \in DOMAIN proc[c].starts /\ Seen(s, c))
  BY <1>1 DEF Inv, Reloaded, Due
<1>3. QED
  BY <1>2 DEF Seen

LEMMA DecideDue ==
    ASSUME Inv, [Next]_vars, NEW c \in Cli, Decide(c), proc'[c].cmd = "reload"
    PROVE  Due(c)'
<1> DEFINE targets == IF proc[c].force THEN Infra
                      ELSE {r \in DOMAIN proc[c].starts : Stale(r, proc[c].starts[r])}
<1>1. /\ SameCommand(c) /\ proc'[c].step = "render" /\ proc'[c].targets = targets
  BY DecideSlot DEF Inv, Ends
<1> HIDE DEF targets
<1>2. SUFFICES ASSUME NEW s \in Infra, NEW f \in {ServiceConfig(s), ".env"}, Lacks(s, f, c)'
               PROVE  s \in targets
  BY <1>1 DEF Due
<1>3. Lacks(s, f, c)
  BY <1>1, <1>2, LacksShrinks DEF Inv, SameCommand
<1>4. QED
  BY <1>3, DecideCatches DEF targets

LEMMA MoveKeepsReloaded ==
    ASSUME Inv, [Next]_vars, NEW c \in Cli, Move(c)
    PROVE  Reloaded'
<1>1. ASSUME NEW d \in Cli \ {c}, proc'[d].cmd = "reload"
      PROVE  Due(d)'
  <2>1. proc'[d] = proc[d]
    BY MoveSlot DEF Inv
  <2>2. QED
    BY <1>1, <2>1, CalmDue
<1>2. ASSUME proc'[c].cmd = "reload"
      PROVE  Due(c)'
  <2>1. ~Ends(c) /\ Typed /\ Staged
    BY <1>2 DEF Ends, Inv
  <2>2. CASE Entry(c)
    <3>1. proc'[c].step = "list"
      BY <1>2, <2>1, <2>2, EnterSlot DEF Entry
    <3>2. QED
      BY <3>1 DEF Due
  <2>3. CASE Kill(c) \/ RunAgent(c) \/ Down(c) \/ Up(c)
    BY <2>1, <2>3, EndSlot DEF Kill, RunAgent, Down, Up
  <2>4. CASE BeginExtract(c) \/ Copy(c) \/ Mark(c)
    BY <1>2, <2>1, <2>4, AssetSlot, CalmDue DEF SameCommand
  <2>5. CASE Render(c)
    <3>1. /\ proc[c].cmd = "reload" /\ proc'[c].began = proc[c].began
          /\ proc[c].step = "render" /\ proc'[c].targets = proc[c].targets
          /\ proc'[c].step # "decide"
      BY <1>2, <2>1, <2>5, RenderSlot DEF SameCommand
    <3>2. QED
      BY <3>1, CalmDue
  <2>6. CASE Check(c) \/ EnsureInfra(c) \/ Start(c)
    <3>1. proc'[c].step \in {"infra", "start", "agent"}
      BY <2>1, <2>6, CheckSlot, StartSlot
    <3>2. QED
      BY <3>1 DEF Due
  <2>7. QED
    BY <1>2, <2>2, <2>3, <2>4, <2>5, <2>6, ListDue, DecideDue DEF Move
<1>3. QED
  BY <1>1, <1>2 DEF Reloaded

LEMMA NextReloaded ==
    ASSUME Inv, [Next]_vars
    PROVE  Reloaded'
<1>1. ASSUME NEW c \in Cli, Write(c), NEW d \in Cli, proc'[d].cmd = "reload"
      PROVE  Due(d)'
  <2>1. Typed /\ Staged
    BY DEF Inv
  <2>2. CASE d = c
    <3>1. /\ proc[c].cmd = "reload" /\ proc'[c].began = proc[c].began
          /\ proc[c].step = "write" /\ proc'[c].targets = proc[c].targets
          /\ proc'[c].step # "decide"
      BY <1>1, <2>1, <2>2, WriteSlot DEF SameCommand
    <3>2. QED
      BY <2>2, <3>1, CalmDue
  <2>3. CASE d # c
    <3>1. /\ proc[d].cmd = "reload" /\ proc'[d].began = proc[d].began
          /\ proc'[d].step = proc[d].step /\ proc'[d].targets = proc[d].targets
          /\ proc'[d].starts = proc[d].starts /\ proc'[d].force = proc[d].force
      BY <1>1, <2>1, <2>3, WriteSlot DEF SameCommand
    <3>2. QED
      BY <3>1, CalmDue
  <2>4. QED
    BY <2>2, <2>3
<1>2. ASSUME EditOverride, NEW d \in Cli, proc'[d].cmd = "reload"
      PROVE  Due(d)'
  <2>1. /\ proc[d].cmd = "reload" /\ proc'[d].began = proc[d].began
        /\ proc'[d].step = proc[d].step /\ proc'[d].targets = proc[d].targets
        /\ proc'[d].starts = proc[d].starts /\ proc'[d].force = proc[d].force
    BY <1>2, OverrideSlot DEF SameCommand, Inv
  <2>2. QED
    BY <2>1, CalmDue
<1>3. ASSUME UNCHANGED proc, NEW d \in Cli, proc'[d].cmd = "reload"
      PROVE  Due(d)'
  BY <1>3, CalmDue
<1>4. CASE \E c \in Cli : Move(c)
  BY <1>4, MoveKeepsReloaded
<1>5. CASE UNCHANGED proc
  BY <1>3, <1>5 DEF Reloaded
<1>6. CASE (\E c \in Cli : Write(c)) \/ EditOverride
  BY <1>1, <1>2, <1>6 DEF Reloaded
<1>7. QED
  BY <1>4, <1>5, <1>6, NextCases DEF Load, Restart, Edit, Upgrade, vars
-----------------------------------------------------------------------------

\* What a reload that says it is done has left behind.
DoneApplies(c) ==
    proc[c].cmd = "reload" /\ proc'[c].done =>
        \A s \in Infra : \A f \in {ServiceConfig(s), ".env"} :
            Behind(s, f)' /\ mtime[f] <= proc[c].began => f = ".env" /\ s \in hidden'

LEMMA UpApplies ==
    ASSUME Inv, [Next]_vars, NEW c \in Cli, Up(c), proc'[c].done,
           NEW s \in Infra, NEW f \in {ServiceConfig(s), ".env"},
           Behind(s, f)', mtime[f] <= proc[c].began
    PROVE  f = ".env" /\ s \in hidden'
<1>1. UNCHANGED mtime /\ UNCHANGED now /\ proc[c].step = "up" /\ proc[c].cmd = "reload"
  BY DEF Up, files, At, Inv, Staged
<1>2. PICK services \in SUBSET proc[c].targets :
         Create(services, ContentOf(c)) /\ Set(c, Ended(services = proc[c].targets))
  BY DEF Up
<1>3. services = proc[c].targets /\ services \in SUBSET Infra
  <2>1. proc'[c] = Ended(services = proc[c].targets)
    BY <1>2, SetSlot DEF Inv
  <2>2. services # proc[c].targets => proc'[c] = Ended(FALSE)
    BY <2>1
  <2>3. QED
    BY <2>2, EndedFields DEF Inv, Typed, Slot
<1>4. /\ \A r \in services : /\ container'[r].loaded = None
                             /\ container'[r].env < mtime[".env"] => r \in hidden'
      /\ \A r \in Infra \ services : container'[r] = container[r]
      /\ hidden \ services \subseteq hidden'
  BY <1>1, <1>2, <1>3, CreateNoticed DEF Inv
<1>5. CASE s \in services
  BY <1>1, <1>4, <1>5 DEF Behind
<1>6. CASE s \notin services
  <2>1. Behind(s, f)
    BY <1>1, <1>4, <1>6 DEF Behind
  <2>2. ~Lacks(s, f, c)
    BY <1>1, <1>3, <1>6 DEF Inv, Reloaded, Due
  <2>3. f = ".env" /\ s \in hidden
    BY <2>1, <2>2 DEF Lacks
  <2>4. QED
    BY <1>4, <1>6, <2>3
<1>7. QED
  BY <1>5, <1>6

LEMMA DecideApplies ==
    ASSUME Inv, [Next]_vars, NEW c \in Cli, Decide(c), proc'[c].done,
           NEW s \in Infra, NEW f \in {ServiceConfig(s), ".env"},
           Behind(s, f)', mtime[f] <= proc[c].began
    PROVE  f = ".env" /\ s \in hidden'
<1>1. UNCHANGED <<mtime, container, hidden>> /\ proc[c].step = "decide"
  BY DEF Decide, files, At
<1>2. proc[c].done # TRUE
  BY <1>1 DEF Inv, Staged, Typed, Slot
<1>3. (IF proc[c].force THEN Infra
       ELSE {r \in DOMAIN proc[c].starts : Stale(r, proc[c].starts[r])}) = {}
  BY <1>2, DecideSlot DEF Inv, SameCommand
<1>4. ~Lacks(s, f, c)
  BY <1>3, DecideCatches
<1>5. Behind(s, f)
  BY <1>1 DEF Behind
<1>6. QED
  BY <1>1, <1>4, <1>5 DEF Lacks

LEMMA ReloadStep ==
    ASSUME Inv, [Next]_vars, NEW c \in Cli
    PROVE  DoneApplies(c)
<1>1. SUFFICES ASSUME proc[c].cmd = "reload", proc'[c].done
               PROVE  Up(c) \/ Decide(c)
  BY UpApplies, DecideApplies DEF DoneApplies
<1>2. Typed /\ Staged /\ proc[c].done # TRUE
  BY <1>1 DEF Inv, Staged, Typed, Slot
<1>3. ASSUME NEW d \in Cli, Move(d)
      PROVE  Up(c) \/ Decide(c)
  <2>1. CASE d # c
    BY <1>1, <1>2, <1>3, <2>1, MoveSlot
  <2>2. CASE d = c
    <3>1. CASE Entry(c)
      BY <1>1, <1>2, <3>1, EnterSlot DEF Entry
    <3>2. CASE Kill(c) \/ Down(c)
      BY <1>1, <1>2, <3>2, SetSlot, EndedFields DEF Kill, Down
    <3>3. CASE RunAgent(c)
      BY <1>1, <1>2, <3>3 DEF RunAgent, At, Staged
    <3>4. CASE BeginExtract(c) \/ Copy(c) \/ Mark(c)
      BY <1>1, <1>2, <3>4, AssetSlot DEF SameCommand
    <3>5. CASE Render(c)
      BY <1>1, <1>2, <3>5, RenderSlot DEF SameCommand
    <3>6. CASE Check(c)
      BY <1>1, <1>2, <3>6, CheckSlot DEF SameCommand
    <3>7. CASE EnsureInfra(c) \/ Start(c)
      BY <1>1, <1>2, <3>7, StartSlot DEF Staged
    <3>8. CASE List(c)
      BY <1>1, <1>2, <3>8, ListSlot DEF SameCommand
    <3>9. QED
      BY <1>3, <2>2, <3>1, <3>2, <3>3, <3>4, <3>5, <3>6, <3>7, <3>8 DEF Move
  <2>3. QED
    BY <2>1, <2>2
<1>4. ASSUME NEW d \in Cli, Write(d)
      PROVE  FALSE
  BY <1>1, <1>2, <1>4, WriteSlot DEF SameCommand
<1>5. ASSUME EditOverride
      PROVE  FALSE
  BY <1>1, <1>2, <1>5, OverrideSlot DEF SameCommand
<1>6. ASSUME proc' = proc
      PROVE  FALSE
  BY <1>1, <1>2, <1>6
<1>7. QED
  BY <1>3, <1>4, <1>5, <1>6, NextCases DEF Load, Restart, Edit, Upgrade, vars
-----------------------------------------------------------------------------
(* The invariants hold.                                                    *)

AllInv == Inv /\ Vouched /\ Cached

LEMMA InitInv ==
    ASSUME Init
    PROVE  AllInv
<1>1. /\ Idle \in Slot /\ Idle.cmd = "none" /\ Idle.step = "none" /\ Idle.prefix = None
      /\ Idle.began = 0 /\ Idle.assets = "ask" /\ Idle.content = None /\ Idle.alone = FALSE
  BY IdleTyped DEF Idle
<1>2. \A c \in Cli : proc[c] = Idle
  BY DEF Init
<1> HIDE DEF Idle
<1>3. Typed
  <2>1. proc \in [Cli -> Slot]
    BY <1>1 DEF Init
  <2>2. mtime \in [File -> 0 .. now] /\ now \in Nat
    BY DEF Init
  <2>3. tree \in [Piece -> Stamp] /\ container \in [Infra -> Box \cup {None}]
    BY DEF Init, Stamp
  <2>4. /\ source = 1 /\ now = 1 /\ commands = 0 /\ hidden = {} /\ shared = FALSE
        /\ override \in {"good", "bad"} /\ installed \in BOOLEAN
    BY DEF Init
  <2>5. marker \in (Nat \X Nat) \cup {None} /\ resolved \in Rendering \cup {None}
    BY DEF Init
  <2>6. source \in 0 .. now /\ commands \in Nat
    BY <2>4
  <2>7. hidden \subseteq Infra
    BY <2>4
  <2>8. shared \in BOOLEAN
    BY <2>4
  <2>9. QED
    BY <2>1, <2>2, <2>3, <2>4, <2>5, <2>6, <2>7, <2>8 DEF Typed
<1>4. Staged
  BY <1>1, <1>2, NoneApart DEF Staged, Init
<1>5. Noticed
  BY <1>1, <1>2, NoneApart DEF Noticed, Watched, Outrun, Init
<1>6. Reloaded
  BY <1>1, <1>2 DEF Reloaded
<1>7. Vouched
  BY <1>1, <1>2 DEF Vouched
<1>8. Cached
  <2>1. \A c \in Cli : ~Extracting(c) /\ proc[c].cmd = "none"
    BY <1>1, <1>2 DEF Extracting
  <2>2. marker = None
    BY DEF Init
  <2>3. QED
    BY <2>1, <2>2 DEF Cached, Dated, Extracted, Trusted
<1>9. QED
  BY <1>3, <1>4, <1>5, <1>6, <1>7, <1>8 DEF AllInv, Inv

LEMMA NextInv ==
    ASSUME AllInv, [Next]_vars
    PROVE  AllInv'
BY NextTyped, NextStaged, NextNoticed, NextReloaded, NextVouched, NextCached DEF AllInv, Inv

LEMMA Invariance == Spec => []AllInv
<1>1. Init => AllInv
  BY InitInv
<1>2. AllInv /\ [Next]_vars => AllInv'
  BY NextInv
<1>3. QED
  BY <1>1, <1>2, PTL DEF Spec

\* Nobody ever trusts a cache that is not all there, for any number of terminals: while
\* nobody extracts beside another, one that carries the signature of an invocation is of
\* its version (asset_root).
THEOREM TrustHolds == Spec => []TrustedIsComplete
<1>1. AllInv => TrustedIsComplete
  <2>1. SUFFICES ASSUME AllInv, NEW c \in Cli, ~shared, proc[c].cmd # "none",
                        marker = Signature(c)
                 PROVE  tree = [p \in Piece |-> source]
    BY DEF TrustedIsComplete
  <2>2. marker[1] = source /\ marker[2] = proc[c].id /\ marker # None
    <3>1. source \in Nat /\ proc[c].id \in Nat
      BY <2>1 DEF AllInv, Inv, Typed, Slot
    <3>2. QED
      BY <2>1, <3>1, StackAssumption DEF Signature
  <2>3. Trusted
    BY <2>1, <2>2 DEF Trusted
  <2>4. QED
    BY <2>1, <2>3 DEF AllInv, Cached, Extracted
<1>2. QED
  BY <1>1, Invariance, PTL

\* Whatever a running service has not read is noticed by the next reload, or was edited
\* while some command was about to start containers, or before a restart of its container
\* (stale_services).
THEOREM EditsAreNoticed == Spec => []EditsNoticed
<1>1. AllInv => EditsNoticed
  BY NoticedStale DEF AllInv, Inv, EditsNoticed
<1>2. QED
  BY <1>1, Invariance, PTL

\* A reload that says it is done leaves no service without an edit made before it, however
\* many other commands ran beside it (cmd_reload).
THEOREM ReloadIsApplied == Spec => ReloadApplies
<1>1. AllInv /\ [Next]_vars =>
          [\A c \in Cli :
               proc[c].cmd = "reload" /\ proc'[c].done =>
                   \A s \in Infra : \A f \in {ServiceConfig(s), ".env"} :
                       Behind(s, f)' /\ mtime[f] <= proc[c].began =>
                           f = ".env" /\ s \in hidden']_vars
  BY ReloadStep DEF AllInv, DoneApplies
<1>2. QED
  BY <1>1, Invariance, PTL DEF Spec, ReloadApplies

\* An agent runs with what satisfied the invariants, for any number of commands and edits,
\* while what was checked is its command's own (assert_invariants).
THEOREM AgentIsChecked == Spec => AgentChecked
<1>1. AllInv /\ [Next]_vars =>
          [\A c \in Cli :
               proc[c].cmd \in {"run", "remote"} /\ proc'[c].done /\ proc[c].alone =>
                   ContentOf(c).override = "good"]_vars
  BY StartVouched DEF AllInv, Inv
<1>2. QED
  BY <1>1, Invariance, PTL DEF Spec, AgentChecked
-----------------------------------------------------------------------------
(* Types and bounds.                                                       *)

PrefixSteps == {"check", "start", "infra", "up", "agent", "down"}

\* Every version anything was made from is the time of an edit that took place, and a
\* command that is past the rendering knows which file it goes on with.
Clocked ==
    /\ 1 <= now /\ now <= MaxTime /\ commands <= MaxCommands
    /\ 1 <= source /\ \A f \in File : 1 <= mtime[f]
    /\ \A p \in Piece : tree[p] \in {None} \cup 1 .. source
    /\ resolved # None => resolved.env \in 1 .. now
    /\ \A s \in Running : /\ container[s].env \in 1 .. now /\ container[s].started \in 1 .. now
                          /\ container[s].loaded \in {None} \cup 1 .. now
    /\ \A c \in Cli : /\ proc[c].step = "write" => proc[c].content.env \in 1 .. now
                      /\ proc[c].step \in PrefixSteps => proc[c].prefix # None

LEMMA MoveClocked ==
    ASSUME Typed, Staged, Clocked, NEW c \in Cli, Move(c)
    PROVE  Clocked'
<1>1. UNCHANGED <<files, resolved>> /\ \A d \in Cli \ {c} : proc'[d] = proc[d]
  <2>1. UNCHANGED <<files, resolved>>
    BY DEF Move, Entry, Enter, Kill, BeginExtract, Copy, Mark, Render, Check, Checked, EnsureInfra,
           Start, RunAgent, Down, List, Decide, Up, cache
  <2>2. QED
    BY <2>1, MoveSlot
<1>2. commands' <= MaxCommands
  <2>1. commands' = commands \/ (commands < MaxCommands /\ commands' = commands + 1)
    BY DEF Move, Entry, Enter, Kill, BeginExtract, Copy, Mark, Render, Check, Checked, EnsureInfra,
           Start, RunAgent, Down, List, Decide, Up, cache
  <2>2. QED
    BY <2>1, StackAssumption DEF Clocked, Typed
<1>3. \A p \in Piece : tree'[p] \in {None} \cup 1 .. source
  <2>1. CASE BeginExtract(c)
    BY <2>1 DEF BeginExtract, Clocked
  <2>2. CASE Copy(c)
    <3>1. source \in 1 .. source
      BY DEF Clocked, Typed
    <3>2. QED
      BY <2>2, <3>1 DEF Copy, Clocked, Typed
  <2>3. CASE tree' = tree
    BY <2>3 DEF Clocked
  <2>4. QED
    BY <2>1, <2>2, <2>3 DEF Move, Entry, Enter, Kill, Mark, Render, Check, Checked, EnsureInfra,
           Start, RunAgent, Down, List, Decide, Up, cache
<1>4. Layered.env \in 1 .. now
  BY DEF Layered, Clocked, Typed, File
<1>5. \A s \in Infra : container'[s] # None =>
          /\ container'[s].env \in 1 .. now /\ container'[s].started \in 1 .. now
          /\ container'[s].loaded \in {None} \cup 1 .. now
  <2>1. CASE Start(c) \/ Up(c)
    <3>1. ContentOf(c).env \in 1 .. now
      BY <1>4 DEF ContentOf, Clocked, Staged
    <3>2. PICK services \in SUBSET Infra : Create(services, ContentOf(c))
      BY <2>1, CreateCases
    <3> DEFINE fresh == Fresh(ContentOf(c))
    <3>3. fresh.env \in 1 .. now /\ fresh.started \in 1 .. now /\ fresh.loaded = None
      BY <3>1 DEF Fresh, Clocked, Typed
    <3> HIDE DEF fresh
    <3>4. \A s \in Infra : container'[s] \in {fresh, container[s]}
      BY <3>2 DEF Create, fresh
    <3>5. QED
      BY <3>3, <3>4 DEF Clocked, Running
  <2>2. CASE container' = container
    BY <2>2 DEF Clocked, Running
  <2>3. CASE container' = [s \in Infra |-> None]
    BY <2>3
  <2>4. QED
    BY <2>1, <2>2, <2>3 DEF Move, Entry, Enter, Kill, BeginExtract, Copy, Mark, Render, Check,
           Checked, EnsureInfra, RunAgent, Down, List, Decide
<1>6. /\ proc'[c].step = "write" => proc'[c].content.env \in 1 .. now
      /\ proc'[c].step \in PrefixSteps => proc'[c].prefix # None
  <2>1. CASE Entry(c)
    BY <2>1, EnterSlot DEF Entry, PrefixSteps
  <2>2. CASE Kill(c) \/ RunAgent(c) \/ Down(c) \/ Up(c)
    <3>1. Ends(c)
      BY <2>2, EndSlot DEF Kill, RunAgent, Down, Up
    <3>2. QED
      BY <3>1 DEF Ends, PrefixSteps
  <2>3. CASE BeginExtract(c) \/ Copy(c) \/ Mark(c)
    BY <2>3, AssetSlot DEF Clocked
  <2>4. CASE Render(c)
    BY <1>4, <2>4, RenderSlot, NoneApart DEF PrefixSteps
  <2>5. CASE Check(c)
    BY <2>5, CheckSlot DEF Ends, PrefixSteps, Clocked
  <2>6. CASE EnsureInfra(c) \/ Start(c)
    BY <2>6, StartSlot DEF Ends, PrefixSteps, Clocked
  <2>7. CASE List(c)
    BY <2>7, ListSlot DEF Ends, PrefixSteps
  <2>8. CASE Decide(c)
    BY <2>8, DecideSlot DEF Ends, PrefixSteps
  <2>9. QED
    BY <2>1, <2>2, <2>3, <2>4, <2>5, <2>6, <2>7, <2>8 DEF Move
<1>7. QED
  BY <1>1, <1>2, <1>3, <1>5, <1>6 DEF Clocked, Running, files

LEMMA NextClocked ==
    ASSUME Typed, Staged, Clocked, [Next]_vars
    PROVE  Clocked'
<1>1. ASSUME NEW c \in Cli, Write(c)
      PROVE  Clocked'
  <2>1. UNCHANGED <<files, cache, container, commands>> /\ resolved' = proc[c].content
    BY <1>1 DEF Write
  <2>2. proc[c].step = "write" /\ proc'[c].prefix = "resolved" /\ proc'[c].step # "write"
    BY <1>1, WriteSlot
  <2>3. \A d \in Cli \ {c} : /\ proc'[d].step = proc[d].step /\ proc'[d].content = proc[d].content
                             /\ proc'[d].prefix = proc[d].prefix
    BY <1>1, WriteSlot
  <2>4. QED
    BY <2>1, <2>2, <2>3, NoneApart DEF Clocked, Running, files, cache
<1>2. ASSUME NEW s \in Infra, Load(s) \/ Restart(s)
      PROVE  Clocked'
  <2>1. /\ UNCHANGED <<files, cache, resolved, proc, commands>> /\ container[s] # None
        /\ \A r \in Infra \ {s} : container'[r] = container[r]
    BY <1>2 DEF Load, Restart, Typed
  <2>2. mtime[ServiceConfig(s)] \in 1 .. now /\ now \in 1 .. now
    BY DEF Clocked, Typed, ServiceConfig, File
  <2>3. container[s] \in Box /\ container[s].env \in 1 .. now /\ container[s].started \in 1 .. now
    BY <2>1 DEF Typed, Clocked, Running
  <2>4. \/ container'[s] = None
        \/ container'[s] = [container[s] EXCEPT !.loaded = mtime[ServiceConfig(s)]]
        \/ container'[s] = [container[s] EXCEPT !.started = now, !.loaded = None]
    BY <1>2 DEF Load, Restart, Typed
  <2>5. container'[s] # None =>
            /\ container'[s].env \in 1 .. now /\ container'[s].started \in 1 .. now
            /\ container'[s].loaded \in {None} \cup 1 .. now
    BY <2>2, <2>3, <2>4 DEF Box
  <2>6. QED
    BY <2>1, <2>5 DEF Clocked, Running, files, cache
<1>3. ASSUME \/ \E f \in File : Edit(f)
             \/ EditOverride \/ Upgrade
      PROVE  Clocked'
  <2>1. /\ now \in Nat /\ now' = now + 1 /\ now' <= MaxTime
        /\ 1 .. now \subseteq 1 .. now'
    BY <1>3, StackAssumption DEF Edit, EditOverride, Upgrade, Typed
  <2>2. UNCHANGED <<cache, resolved, container, commands>>
    BY <1>3 DEF Edit, EditOverride, Upgrade
  <2>3. \A d \in Cli : /\ proc'[d].step = proc[d].step /\ proc'[d].content = proc[d].content
                       /\ proc'[d].prefix = proc[d].prefix
    BY <1>3, OverrideSlot DEF Edit, Upgrade
  <2>4. 1 <= source' /\ 1 .. source \subseteq 1 .. source'
    BY <1>3, <2>1 DEF Edit, EditOverride, Upgrade, Typed, Clocked
  <2>5. \A f \in File : 1 <= mtime'[f]
    BY <1>3, <2>1 DEF Edit, EditOverride, Upgrade, Typed, Clocked
  <2>6. QED
    BY <2>1, <2>2, <2>3, <2>4, <2>5 DEF Clocked, Running, cache
<1>4. ASSUME UNCHANGED vars
      PROVE  Clocked'
  BY <1>4 DEF Clocked, Running, vars, files, cache
<1>5. QED
  BY <1>1, <1>2, <1>3, <1>4, NextCases, MoveClocked

\* What every command, file and container holds has its type in every reachable state,
\* for any number of terminals and any bounds: every version is the time of an edit, and
\* no command runs docker behind the rendering without a compose prefix (Stack.TypeOK).
THEOREM StackTypeCorrect == Spec => []TypeOK
<1>1. Init => Clocked
  <2>1. Idle.step = "none"
    BY DEF Idle
  <2>2. QED
    BY <2>1, StackAssumption DEF Init, Clocked, Running, PrefixSteps
<1>2. AllInv /\ Clocked /\ [Next]_vars => Clocked'
  BY NextClocked DEF AllInv, Inv
<1>3. AllInv /\ Clocked => TypeOK
  <2> SUFFICES ASSUME Typed, Staged, Clocked
               PROVE  TypeOK
    BY DEF AllInv, Inv
  <2>1. now \in Time /\ mtime \in [File -> 1 .. now] /\ source \in 1 .. now
    BY StackAssumption DEF Typed, Clocked, Time
  <2>2. tree \in [Piece -> {None} \cup 1 .. source]
    BY DEF Typed, Clocked
  <2>3. 1 .. now \subseteq Time
    <3>1. now \in Nat /\ MaxTime \in Nat /\ now <= MaxTime
      BY <2>1, StackAssumption DEF Time
    <3>2. QED
      BY <3>1 DEF Time
  <2>4. resolved \in {None} \cup Content
    BY <2>3 DEF Typed, Clocked, Rendering, Content
  <2>5. ASSUME NEW s \in Running
        PROVE  container[s] \in [env : Time, started : 1 .. now, loaded : {None} \cup Time]
    BY <2>3, <2>5 DEF Typed, Clocked, Running, Box
  <2>6. \A c \in Cli : proc[c].step \in Step
    BY DEF Typed, Slot
  <2>7. commands \in 0 .. MaxCommands
    BY StackAssumption DEF Typed, Clocked
  <2>8. QED
    BY <2>1, <2>2, <2>4, <2>5, <2>6, <2>7 DEF TypeOK, Typed, Staged, Clocked, PrefixSteps
<1>4. QED
  BY <1>1, <1>2, <1>3, Invariance, PTL DEF Spec
=============================================================================
