------------------------------ MODULE AuditLog ------------------------------
(***************************************************************************)
(* core/audit.py: an unbounded queue that handlers append to without       *)
(* waiting, and one writer task that appends a line per event to the file. *)
(* stop puts a sentinel behind what is queued and waits for the writer.    *)
(*                                                                         *)
(* An event is the number of the log call that made it.  A line is the     *)
(* list of events that share it: a short write leaves no newline behind,   *)
(* so the next event lands on the same line.                               *)
(***************************************************************************)
EXTENDS Naturals, Sequences

Stop == 0           \* the sentinel None

VARIABLES
    queue,      \* asyncio.Queue of events and the sentinel
    writer,     \* the task: "none", "running" or "done"
    file,       \* the file's lines, oldest first, each a sequence of events
    torn,       \* the last line has no newline
    dropped     \* events whose write failed or fell short

auditVars == <<queue, writer, file, torn, dropped>>

AuditInit == queue = <<>> /\ writer = "none" /\ file = <<>> /\ torn = FALSE /\ dropped = {}

\* A new process has a new queue and no writer; the file stays.
AuditReset == queue' = <<>> /\ writer' = "none" /\ UNCHANGED <<file, torn, dropped>>

AuditStart == /\ writer' = IF writer = "none" THEN "running" ELSE writer
              /\ UNCHANGED <<queue, file, torn, dropped>>

Log(e) == queue' = Append(queue, e) /\ UNCHANGED <<writer, file, torn, dropped>>

\* Fault: the sentinel overtakes what is queued.
AskToStopFirst == queue' = <<Stop>> \o queue /\ UNCHANGED <<writer, file, torn, dropped>>

AskToStop == queue' = Append(queue, Stop) /\ UNCHANGED <<writer, file, torn, dropped>>

\* Fault: the file is opened with O_TRUNC.
AppendEventTruncating(e) == file' = <<<<e>>>>

\* O_APPEND: behind the last newline, or behind a short write's fragment.
AppendEvent(e) ==
    file' = IF torn THEN [file EXCEPT ![Len(file)] = Append(@, e)] ELSE Append(file, <<e>>)

\* _write: whole, short (os.write's result is not looked at), or failed.
Write(e) ==
    \/ AppendEvent(e) /\ torn' = FALSE /\ UNCHANGED dropped
    \/ AppendEvent(e) /\ torn' = TRUE /\ dropped' = dropped \cup {e}
    \/ dropped' = dropped \cup {e} /\ UNCHANGED <<file, torn>>

\* Fault: the sentinel is written like an event.
RunUnstopped ==
    /\ writer = "running" /\ queue # <<>>
    /\ queue' = Tail(queue)
    /\ Write(Head(queue)) /\ UNCHANGED writer

\* One turn of _run: the writer is never stopped by what it writes.
Run ==
    /\ writer = "running" /\ queue # <<>>
    /\ queue' = Tail(queue)
    /\ IF Head(queue) = Stop THEN writer' = "done" /\ UNCHANGED <<file, torn, dropped>>
       ELSE Write(Head(queue)) /\ UNCHANGED writer
=============================================================================
