----------------------------- MODULE MCCrd2Rhd -----------------------------
(***************************************************************************)
(* Instances of the crd2rhd program for TLC.                               *)
(***************************************************************************)
EXTENDS Crd2Rhd

CONSTANT MaxCrds    \* values of --max-crd-per-input-file

CrdFiles(len) == UNION {[1 .. n -> {"calo", "tracker"}] : n \in 0 .. len}

\* Two CRD files, with enough records for two overruns; or one with a record that is rejected.
TwoFiles ==
  {<< a, b >> : a \in CrdFiles(3), b \in CrdFiles(2)} \cup {<< << "calo", "other" >> >>}

AllOptions ==
  [force : BOOLEAN, dynamic : BOOLEAN, overrun : BOOLEAN, maxCrd : MaxCrds]
=============================================================================
