--------------------------- MODULE AbstractStream ---------------------------
(***************************************************************************)
(* What a stream file promises its readers (spec 4.4): an append-only log *)
(* of events, each a payload and the index labels it carries, that is     *)
(* closed once and never changes afterwards.  A crash, a reopen and a read *)
(* leave the log as it is.                                                 *)
(***************************************************************************)
EXTENDS Sequences

CONSTANTS Labels, Payloads

VARIABLES
    log,     \* the events a reader iterating the file sees, oldest first
    closed   \* the file is closed

Event == [data : Payloads, labels : SUBSET Labels]

Init == log = <<>> /\ closed = FALSE

(* The steps, over the log and closed flag before (l, c) and after         *)
(* (l2, c2):                                                               *)
\* Write: one event is appended to an open log.
AppendEvent(l, c, l2, c2) == ~c /\ \E e \in Event : l2 = Append(l, e) /\ c2 = c

\* Close: the log is sealed.
Seal(l, c, l2, c2) == ~c /\ c2 /\ l2 = l

\* A step of the abstract stream, or a step that leaves it as it is.
Step(l, c, l2, c2) ==
    \/ AppendEvent(l, c, l2, c2)
    \/ Seal(l, c, l2, c2)
    \/ l2 = l /\ c2 = c

Next == Step(log, closed, log', closed')

Spec == Init /\ [][Next]_<<log, closed>>

=============================================================================
