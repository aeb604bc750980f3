------------------------------ MODULE AuditLog ------------------------------
(***************************************************************************)
(* The audit log of gateway/src/audit.js: a bounded ring in memory for the *)
(* admin API, and a file to which the lines are appended one after         *)
(* another, each when the one before has been written or has failed.       *)
(***************************************************************************)
EXTENDS Naturals, Sequences

CONSTANTS
  Size,      \* records the ring holds
  MaxFails   \* bound: appends that fail

VARIABLES
  ring,      \* the last records
  queue,     \* lines not yet appended
  file,      \* audit.jsonl
  failed     \* history: records whose append failed, or that a crash caught in the queue

auditVars == <<ring, queue, file, failed>>

Init ==
  /\ ring = <<>>
  /\ queue = <<>>
  /\ file = <<>>
  /\ failed = <<>>

PushedWithoutShift(record) == Append(ring, record)

Pushed(record) ==
  IF Len(ring) = Size THEN Append(Tail(ring), record) ELSE Append(ring, record)

\* record
Record(record) ==
  /\ ring' = Pushed(record)
  /\ queue' = Append(queue, record)
  /\ UNCHANGED <<file, failed>>

WriteLine ==
  /\ queue # <<>>
  /\ file' = Append(file, Head(queue))
  /\ queue' = Tail(queue)
  /\ UNCHANGED <<ring, failed>>

AbandonQueue ==
  /\ queue # <<>>
  /\ queue' = <<>>
  /\ failed' = Append(failed, Head(queue))
  /\ UNCHANGED <<ring, file>>

\* A failing append is swallowed; the next line is still written.
WriteFails ==
  /\ queue # <<>>
  /\ Len(failed) < MaxFails
  /\ queue' = Tail(queue)
  /\ failed' = Append(failed, Head(queue))
  /\ UNCHANGED <<ring, file>>

\* The process dies: the ring and the lines that wait are gone.
Crash ==
  /\ Len(failed) + Len(queue) <= MaxFails
  /\ ring' = <<>>
  /\ queue' = <<>>
  /\ failed' = failed \o queue
  /\ UNCHANGED file
=============================================================================
