------------------------------ MODULE PktLine ------------------------------
(***************************************************************************)
(* The body of a push (guards/git/transport/pktline.py and GitGuard's      *)
(* parse and forward): chunks are buffered up to the flush that ends the   *)
(* command section, the section is parsed and judged, and the body goes on *)
(* to the forge, which reads the commands out of it once more.             *)
(*                                                                         *)
(* A body is a sequence of units.  A packet starts with Prefix units, the  *)
(* digits of its length, prefix included: 4 in the code.  Magic is the two *)
(* bytes any gzip body starts with; a line is a ref command if it has the  *)
(* three parts of one, which Parts stands for.                             *)
(***************************************************************************)
EXTENDS Naturals, Sequences, SequencesExt

CONSTANTS
    Bodies,     \* the bodies a client may send
    Prefix,     \* digits of a length
    Base,       \* their base
    Parts, Magic, Other,    \* units that are no digit
    None

Digit == 0 .. Base - 1
Unit == Digit \cup {Parts, Magic, Other}

ASSUME PktLineAssumption ==
    /\ Prefix \in Nat \ {0} /\ Base \in Nat \ {0}
    /\ \A b \in Bodies : b \in Seq(Unit)
    /\ {Parts, Magic, Other} \cap Digit = {} /\ None \notin Nat /\ None \notin Seq(Seq(Unit))

VARIABLES
    body,       \* what this client sends
    encoded,    \* it says Content-Encoding: gzip
    received,   \* units that have arrived
    boundary,   \* where the head ends; None while unknown
    phase,      \* "read", "parse", "judge", "head", "rest", "done", "denied" or "failed"
    cmds,       \* the lines parsed as ref commands
    sent        \* what has been forwarded

vars == <<body, encoded, received, boundary, phase, cmds, sent>>

IsNumber(buf, i) == \A k \in 1 .. Prefix : buf[i + k] \in Digit

Value(digits) ==
    LET value[k \in 0 .. Prefix] == IF k = 0 THEN 0 ELSE value[k - 1] * Base + digits[k]
    IN value[Prefix]

LengthAt(buf, i) == Value(SubSeq(buf, i + 1, i + Prefix))

\* The command on a line, if it is one.
Commands(line) == IF \E k \in DOMAIN line : line[k] = Parts THEN <<line>> ELSE <<>>
-----------------------------------------------------------------------------
\* Fault: the section's end is announced before its last line has arrived.
FindCommandEndEarly(buf) ==
    LET end[i \in 0 .. Len(buf)] ==
            IF i + Prefix > Len(buf) \/ ~IsNumber(buf, i) THEN None
            ELSE IF LengthAt(buf, i) = 0 THEN i + Prefix
            ELSE IF i + LengthAt(buf, i) > Len(buf) THEN i + LengthAt(buf, i)
            ELSE end[i + LengthAt(buf, i)]
    IN end[0]

\* From a packet on: just past the flush, or None, if more is needed or this is no
\* plain framing.
CommandEnd(buf) ==
    LET end[i \in 0 .. Len(buf)] ==
            IF i + Prefix > Len(buf) \/ ~IsNumber(buf, i) THEN None
            ELSE LET length == LengthAt(buf, i) IN
                 IF length = 0 THEN i + Prefix
                 ELSE IF length < Prefix \/ i + length > Len(buf) THEN None
                 ELSE end[i + length]
    IN end

FindCommandEnd(buf) == CommandEnd(buf)[0]

Line(buf, i, length) == SubSeq(buf, i + Prefix + 1, IF i + length < Len(buf) THEN i + length
                                                                         ELSE Len(buf))

\* Fault: lines behind the first are taken for its continuation.
ParseCommandsFirst(head) ==
    IF Len(head) < Prefix \/ ~IsNumber(head, 0) THEN <<>>
    ELSE Commands(Line(head, 0, LengthAt(head, 0)))

\* From a packet on: the command lines up to the flush or the end; None if a length is
\* no number.
Parsed(head) ==
    LET parsed[i \in 0 .. Len(head)] ==
            IF i + Prefix > Len(head) THEN <<>>
            ELSE IF ~IsNumber(head, i) THEN None
            ELSE LET length == LengthAt(head, i)
                     rest == IF i + length > Len(head) THEN <<>> ELSE parsed[i + length] IN
                 IF length = 0 THEN <<>>
                 ELSE IF rest = None THEN None
                 ELSE Commands(Line(head, i, length)) \o rest
    IN parsed

ParseCommands(head) == Parsed(head)[0]

Zipped(buf) == buf # <<>> /\ buf[1] = Magic

Decompress(head) == IF Zipped(head) THEN Tail(head) ELSE head

Head1 == SubSeq(body, 1, boundary)
-----------------------------------------------------------------------------
Init ==
    /\ body \in Bodies /\ encoded \in BOOLEAN
    /\ received = 0 /\ boundary = None /\ phase = "read"
    /\ cmds = <<>> /\ sent = <<>>

\* One more chunk of the request's stream; the loop ends when the flush is in.
Receive ==
    /\ phase = "read"
    /\ \E n \in received + 1 .. Len(body) :
          LET end == FindCommandEnd(SubSeq(body, 1, n)) IN
          /\ received' = n
          /\ boundary' = end
          /\ phase' = IF end = None THEN "read" ELSE "parse"
    /\ UNCHANGED <<body, encoded, cmds, sent>>

\* No flush found: the whole body is the head.
StreamEnds ==
    /\ phase = "read" /\ received = Len(body)
    /\ boundary' = received /\ phase' = "parse"
    /\ UNCHANGED <<body, encoded, received, cmds, sent>>

\* The client is gone, here or while its body is relayed.
Disconnect ==
    /\ phase \in {"read", "head", "rest"}
    /\ phase' = "failed"
    /\ UNCHANGED <<body, encoded, received, boundary, cmds, sent>>

\* parse_commands and capabilities; a length that is no number raises.
Parse ==
    LET parsed == ParseCommands(Decompress(Head1)) IN
    /\ phase = "parse"
    /\ IF parsed = None THEN phase' = "failed" /\ UNCHANGED cmds
       ELSE phase' = "judge" /\ cmds' = parsed
    /\ UNCHANGED <<body, encoded, received, boundary, sent>>

\* Gates, decide and record; an empty command list is denied.
Judge ==
    /\ phase = "judge"
    /\ \/ phase' = "denied"
       \/ cmds # <<>> /\ phase' = "head"
    /\ UNCHANGED <<body, encoded, received, boundary, cmds, sent>>

\* Fault: the bytes buffered behind the flush are forgotten.
SendHeadOnly ==
    /\ phase = "head"
    /\ sent' = sent \o Head1
    /\ phase' = "rest" /\ UNCHANGED <<body, encoded, received, boundary, cmds>>

\* The head, then the bytes buffered behind it.
SendHead ==
    /\ phase = "head"
    /\ sent' = sent \o Head1 \o SubSeq(body, boundary + 1, received)
    /\ phase' = "rest" /\ UNCHANGED <<body, encoded, received, boundary, cmds>>

\* The chunks that still come are relayed as they come.
Relay ==
    /\ phase = "rest"
    /\ \/ \E n \in received + 1 .. Len(body) :
             sent' = sent \o SubSeq(body, received + 1, n) /\ received' = n /\ UNCHANGED phase
       \/ received = Len(body) /\ phase' = "done" /\ UNCHANGED <<sent, received>>
    /\ UNCHANGED <<body, encoded, boundary, cmds>>

Next == Receive \/ StreamEnds \/ Disconnect \/ Parse \/ Judge \/ SendHead \/ Relay

Spec == Init /\ [][Next]_vars
-----------------------------------------------------------------------------
\* The forge's reader: receive-pack takes lines up to a flush (or, in newer
\* versions, a special packet) and gives up on framing it cannot read.
Read(text) ==
    LET read[i \in 0 .. Len(text)] ==
            IF i + Prefix > Len(text) \/ ~IsNumber(text, i) THEN None
            ELSE LET length == LengthAt(text, i) IN
                 IF length < Prefix THEN <<>>
                 ELSE IF i + length > Len(text) \/ read[i + length] = None THEN None
                 ELSE Commands(Line(text, i, length)) \o read[i + length]
    IN read

ForgeCommands(text) == IF Read(text)[0] = None THEN <<>> ELSE Read(text)[0]

Executed ==
    IF encoded THEN IF Zipped(sent) THEN ForgeCommands(Tail(sent)) ELSE <<>>
    ELSE ForgeCommands(sent)
-----------------------------------------------------------------------------
TypeOK ==
    /\ body \in Bodies /\ encoded \in BOOLEAN
    /\ received \in 0 .. Len(body) /\ boundary \in {None} \cup 0 .. received
    /\ phase \in {"read", "parse", "judge", "head", "rest", "done", "denied", "failed"}
    /\ phase = "read" => boundary = None
    /\ cmds \in Seq(Seq(Unit)) /\ sent \in Seq(Unit)

\* "forwarded byte-for-byte": whatever the chunks, what has been forwarded is a
\* prefix of the body, and all of it once the push is over: nothing at the seams
\* between head, buffered rest and stream is lost or sent twice (read_until_flush,
\* GitGuard.forward).
ForwardedOnce ==
    /\ IsPrefix(sent, body)
    /\ phase = "done" => sent = body

\* Every command the forge reads out of what it was sent was judged, in that order:
\* the Warden's parse and the forge's agree on where lines begin and the section
\* ends, compressed or not, for any framing the forge accepts at all.
ExecutedWasJudged == phase \in {"rest", "done"} => IsPrefix(Executed, cmds)

\* What is judged does not depend on how the body was cut into chunks: the boundary
\* found in the first chunks is the boundary of the whole body.
ChunksDoNotMatter ==
    boundary # None =>
        boundary = IF FindCommandEnd(body) = None THEN Len(body) ELSE FindCommandEnd(body)
=============================================================================
