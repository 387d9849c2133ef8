---------------------------- MODULE MCScanCapture ----------------------------
(* Small instances of ScanCapture for TLC.  Row identities, which no       *)
(* property names, are interchangeable, but a run that checks liveness may *)
(* not use symmetry: states are compared by a view that tells rows apart   *)
(* by their code and by whether the table and the cached list have them.   *)
(* States with the same view have the same actions, to states with the     *)
(* same views.                                                             *)
EXTENDS ScanCapture, TLC

FairSpec == Spec /\ Fairness

Count(rows) == [c \in Texts |-> Cardinality({r \in rows : r.code = c})]

\* The barcode examined last is read by deferred insertions only, and set when
\* one is queued.
RowsByCode ==
  <<online, Count(store), Count(codeLIST), Count(store \cap codeLIST),
    IF deferred = <<>> THEN {} ELSE {CapturedCodess},
    capture, frames, deferred, timers, prompt, overlay, submission>>
=============================================================================
