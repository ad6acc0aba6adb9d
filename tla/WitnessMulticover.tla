--------------------------- MODULE WitnessMulticover ---------------------------
(***************************************************************************)
(* What a suite reduction promises, whatever its ranking: scenarios are    *)
(* added one at a time and only while they add a missing witness, the      *)
(* result is delivered only when every slot has the witnesses it requires, *)
(* and the documents are refused only when they are unusable or when the   *)
(* whole input suite has too few witnesses.  It never gives up in between. *)
(* No claim is made that the result is the smallest possible suite.        *)
(***************************************************************************)
CONSTANTS
  Suite,  \* the scenarios of the input suite
  Slots,  \* what needs witnesses
  Pairs   \* the slots that need two different witnesses, the others one

VARIABLES
  usable,   \* the documents pass the structural checks
  covers,   \* the slots that each scenario is a witness of
  chosen,   \* the scenarios selected so far
  outcome   \* "open", "delivered" or "refused"

wvars == <<usable, covers, chosen, outcome>>

Witnessed(slot, suite) ==
  \E s \in suite :
    /\ slot \in covers[s]
    /\ slot \in Pairs => \E t \in suite \ {s} : slot \in covers[t]

Sufficient(suite) == \A slot \in Slots : Witnessed(slot, suite)

Useful(s) == \E slot \in covers[s] : ~Witnessed(slot, chosen)

WInit ==
  /\ usable \in BOOLEAN
  /\ covers \in [Suite -> SUBSET Slots]
  /\ chosen = {}
  /\ outcome = "open"

Refuse ==
  /\ outcome = "open"
  /\ chosen = {}
  /\ ~usable \/ ~Sufficient(Suite)
  /\ outcome' = "refused"
  /\ UNCHANGED <<usable, covers, chosen>>

Add ==
  /\ outcome = "open"
  /\ usable
  /\ \E s \in Suite \ chosen : Useful(s) /\ chosen' = chosen \cup {s}
  /\ UNCHANGED <<usable, covers, outcome>>

Deliver ==
  /\ outcome = "open"
  /\ usable
  /\ Sufficient(chosen)
  /\ outcome' = "delivered"
  /\ UNCHANGED <<usable, covers, chosen>>

WNext == Refuse \/ Add \/ Deliver

WSpec == WInit /\ [][WNext]_wvars
=============================================================================
