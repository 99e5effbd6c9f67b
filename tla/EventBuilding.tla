--------------------------- MODULE EventBuilding ---------------------------
(***************************************************************************)
(* What building events means, whatever threads and buffers do it: the     *)
(* records of all the sources are grouped by trigger ID, and one event     *)
(* after the other is emitted, oldest trigger ID first, each with every    *)
(* record of its trigger ID.  This is what the RTD builder promises for    *)
(* sources sorted by trigger ID.                                           *)
(***************************************************************************)
EXTENDS Integers, Sequences

CONSTANTS
  Sources,   \* the input sources
  Streams    \* possible contents of the sources

VARIABLES
  stream,    \* the records of each source, in order
  events     \* the events emitted so far

evars == << stream, events >>

Records == UNION {{stream[i][k] : k \in DOMAIN stream[i]} : i \in Sources}

RecordsOf(t) == {r \in Records : r.trig = t}

Emitted == {events[n].trig : n \in DOMAIN events}

Pending == {r.trig : r \in Records} \ Emitted

Init ==
  /\ stream \in Streams
  /\ events = << >>

Emit ==
  /\ \E t \in Pending :
       /\ \A u \in Pending : t <= u
       /\ events' = Append(events, [trig |-> t, recs |-> RecordsOf(t)])
  /\ UNCHANGED stream

Safety == Init /\ [][Emit]_evars

Spec == Safety /\ WF_evars(Emit)
=============================================================================
