------------------------------ MODULE ScanList ------------------------------
(***************************************************************************)
(* What the list of scanned codes promises the rest of the app: a bounded  *)
(* set of distinct codes that grows by one code at a time, never beyond    *)
(* the limit shown to the user ("Scan/upload limit exceeded..."), and      *)
(* shrinks by the removal of one code or by being emptied.  Who scans,     *)
(* which screen is open and how the codes travel to the server is left to  *)
(* the modules that implement it: ScanCapture (the camera and the text     *)
(* field) and CodeSync (the two submitters).                               *)
(***************************************************************************)
EXTENDS Naturals, FiniteSets

CONSTANTS Codes,    \* the codes that can be scanned
          Limit     \* how many codes the phone holds (20 in the code)

VARIABLE list

Add    == \E c \in Codes \ list : /\ Cardinality(list) < Limit
                                  /\ list' = list \cup {c}

Remove == \E c \in list : list' = list \ {c}

Clear  == list' = {}

Init == list \in SUBSET Codes /\ Cardinality(list) <= Limit

Next == Add \/ Remove \/ Clear

Spec == Init /\ [][Next]_list
=============================================================================
