---------------------------- MODULE MCRtdBuilder ----------------------------
(***************************************************************************)
(* Instances of the RTD builder for TLC.                                   *)
(***************************************************************************)
EXTENDS RtdBuilderProps

CONSTANTS
  MaxTrig,    \* trigger IDs are 1 .. MaxTrig
  MaxLen      \* records per input

TrigSeqs == UNION {[1 .. n -> 1 .. MaxTrig] : n \in 0 .. MaxLen}

SortedTrigSeqs ==
  {ts \in TrigSeqs : \A j, k \in DOMAIN ts : j <= k => ts[j] <= ts[k]}

RecordsFor(i, ts, kinds) ==
  [k \in DOMAIN ts |-> [src |-> i, pos |-> k, trig |-> ts[k], kind |-> kinds[k]]]

\* Every input delivers complete hits sorted by trigger ID.
SortedHits ==
  {[i \in Inputs |-> RecordsFor(i, f[i], [k \in DOMAIN f[i] |-> "calo"])] :
     f \in [Inputs -> SortedTrigSeqs]}

\* Input i delivers records of the kinds in MixedKinds[i], sorted by trigger ID.
MixedKinds == << {"calo", "trig", "unknown"}, {"tracker", "trig", "incomplete"} >>

SortedFrom(i) ==
  UNION {{RecordsFor(i, ts, kinds) : kinds \in [DOMAIN ts -> MixedKinds[i]]} : ts \in SortedTrigSeqs}

MixedRecords == {<< a, b >> : a \in SortedFrom(1), b \in SortedFrom(2)}

\* Hits in any order.
AnyHits ==
  {[i \in Inputs |-> RecordsFor(i, f[i], [k \in DOMAIN f[i] |-> "calo"])] :
     f \in [Inputs -> TrigSeqs]}

NoLimit == [i \in Inputs |-> 0]

CapacityOne == [i \in Inputs |-> 1]

CapacityTwo == [i \in Inputs |-> 2]

\* An unbounded (commissioning) crate first, bounded ones after it.
MixedCapacity == [i \in Inputs |-> i - 1]
=============================================================================
