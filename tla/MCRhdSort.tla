----------------------------- MODULE MCRhdSort -----------------------------
(***************************************************************************)
(* Instances of the sorter for TLC: all the streams of MaxLen records (and *)
(* shorter ones) of triggers around the overflow of the trigger ID, in one *)
(* file or two, with empty files or one that cannot be opened.             *)
(***************************************************************************)
EXTENDS RhdSort

CONSTANTS MaxLen, Clocks

File(recs) == [readable |-> TRUE, recs |-> recs]

Unreadable == [readable |-> FALSE, recs |-> << >>]

Streams ==
  {[k \in 1 .. n |-> [num |-> k, clock |-> s[k]]] :
     s \in [1 .. MaxLen -> Clocks], n \in {MaxLen - 2, MaxLen}}

Part(s, first, last) == [k \in 1 .. last - first + 1 |-> s[first + k - 1]]

FileLists(s) ==
  {<< File(s) >>,
   << File(<< >>), File(Part(s, 1, 1)), File(<< >>), File(Part(s, 2, Len(s))) >>,
   << File(Part(s, 1, 1)), Unreadable, File(Part(s, 2, Len(s))) >>,
   << File(s), File(<< >>) >>}

Lists == UNION {FileLists(s) : s \in Streams} \cup {<< Unreadable >>}
=============================================================================
