--------------------------- MODULE CodeSync_proofs ---------------------------
(***************************************************************************)
(* Proofs about CodeSync, for any set of codes, any limit, any number of   *)
(* submissions under way and any number of crashes.  Type correctness is   *)
(* inductive by itself; the safety properties follow from IInv, and so     *)
(* does the refinement of ScanList.                                        *)
(***************************************************************************)
EXTENDS CodeSync, FiniteSetTheorems, TLAPS

-----------------------------------------------------------------------------
(* What the operators on calls return                                      *)

\* A new call record is a Call.
LEMMA CallTyped ==
  ASSUME NEW p \in Phases, NEW b \in Owners, NEW cs \in SUBSET Codes
  PROVE  [phase |-> p, by |-> b, codes |-> cs] \in Call
BY DEF Call

LEMMA NoCallTyped == NoCall \in Call
BY DEF NoCall, Call, Phases, Owners

\* Orphaned and Settled, on the calls a screen leaves behind, return calls.
LEMMA OrphanedTyped ==
  ASSUME NEW f \in [Calls -> Call]
  PROVE  Orphaned(f) \in [Calls -> Call]
<1>1. ASSUME NEW k \in Calls, NEW b \in {"held", "orphan"}
      PROVE  [f[k] EXCEPT !.by = b] \in Call
  BY DEF Call, Owners, Handlers
<1>. QED BY <1>1, NoCallTyped DEF Orphaned

LEMMA SettledTyped ==
  ASSUME NEW f \in [Calls -> Call]
  PROVE  Settled(f) \in [Calls -> Call]
<1>1. ASSUME NEW k \in Calls PROVE [f[k] EXCEPT !.by = "orphan"] \in Call
  BY DEF Call, Owners
<1>. QED BY <1>1 DEF Settled

LEMMA EndedTyped ==
  ASSUME calls \in [Calls -> Call], NEW k \in Calls
  PROVE  Ended(k) \in [Calls -> Call]
BY NoCallTyped DEF Ended

LEMMA FinishingTyped ==
  ASSUME calls \in [Calls -> Call], NEW k \in Calls, NEW p \in Phases
  PROVE  Finishing(k, p) \in [Calls -> Call]
<1>1. calls[k].by \in Owners BY DEF Call
<1>2. [phase |-> p, by |-> calls[k].by, codes |-> {}] \in Call
  BY <1>1, CallTyped
<1>. QED BY <1>2 DEF Finishing

LEMMA RequestingTyped ==
  ASSUME calls \in [Calls -> Call], NEW k \in Calls, NEW s \in Submitters,
         NEW arr \in SUBSET Codes
  PROVE  Requesting(k, s, arr) \in [Calls -> Call]
<1>1. [phase |-> "geocode", by |-> s, codes |-> arr] \in Call
  BY CallTyped DEF Phases, Owners, Handlers
<1>. QED BY <1>1 DEF Requesting

LEMMA ReleasedTyped ==
  ASSUME NEW f \in [Submitters -> SUBSET Codes]
  PROVE  Released(f) \in [Submitters -> SUBSET Codes]
BY DEF Released, Submitters

-----------------------------------------------------------------------------
(* Type correctness                                                        *)

LEMMA InitTyped == Init => TypeOK
<1> SUFFICES ASSUME Init PROVE TypeOK
  OBVIOUS
<1>1. online \in BOOLEAN /\ pushed \in BOOLEAN
  BY DEF Init
<1>2. calls \in [Calls -> Call] /\ crashes \in 0 .. MaxCrashes
  BY NoCallTyped, BoundsAssumption DEF Init
<1>. QED BY <1>1, <1>2 DEF Init, TypeOK, Screens

\* What a dismissal leaves is typed.
LEMMA UncoversTyped ==
  ASSUME TypeOK, NEW top \in Screens, NEW f \in [Calls -> Call],
         NEW lists \in [Submitters -> SUBSET Codes], Uncovers(top, f, lists)
  PROVE  /\ screen' \in Screens /\ pushed' \in BOOLEAN
         /\ calls' \in [Calls -> Call]
         /\ codeLIST' \in [Submitters -> SUBSET Codes]
         /\ newproductArray' \in [Submitters -> SUBSET Codes]
<1> DEFINE g == [k \in Calls |-> IF f[k].phase = "alert" /\ f[k] = calls[k]
                                   THEN NoCall ELSE f[k]]
<1>1. g \in [Calls -> Call]
  BY NoCallTyped
<1>2. /\ screen' = top
      /\ \/ /\ calls' = g /\ codeLIST' = lists
            /\ UNCHANGED <<pushed, newproductArray>>
         \/ /\ calls' = Orphaned(g) /\ codeLIST' = Released(lists)
            /\ newproductArray' = Released(newproductArray)
            /\ pushed' = FALSE
  BY DEF Uncovers
<1>. HIDE DEF g
<1>. QED BY <1>1, <1>2, OrphanedTyped, ReleasedTyped DEF TypeOK

LEMMA LeftByTyped ==
  ASSUME NEW s PROVE LeftBy(s) \in {"scan", "closed"}
BY DEF LeftBy

LEMMA InsertTyped ==
  ASSUME TypeOK, NEW c \in Codes, Insert(c)
  PROVE  TypeOK'
BY DEF Insert, TypeOK, ListedAfterFetch, Submitters

LEMMA CodesSubmissionTyped ==
  ASSUME TypeOK, NEW k \in Calls, CodesSubmission(k)
  PROVE  TypeOK'
<1>1. CASE ~online
  <2>1. [phase |-> "offline", by |-> "scan", codes |-> {}] \in Call
    BY CallTyped DEF Phases, Owners, Handlers, Submitters
  <2>. QED BY <1>1, <2>1 DEF CodesSubmission, TypeOK
<1>2. CASE online
  <2> DEFINE arr == newproductArray["scan"] \cup codeLIST["scan"]
  <2>1. arr \in SUBSET Codes BY DEF TypeOK, Submitters
  <2>2. calls' = Requesting(k, "scan", arr)
    BY <1>2 DEF CodesSubmission
  <2>3. calls' \in [Calls -> Call]
    BY <2>1, <2>2, RequestingTyped DEF TypeOK, Submitters
  <2>. QED BY <1>2, <2>1, <2>3 DEF CodesSubmission, TypeOK, Submitters
<1>. QED BY <1>1, <1>2 DEF TypeOK

LEMMA LeaveScanTyped ==
  ASSUME TypeOK, NEW f \in [Calls -> Call], LeaveScan(f)
  PROVE  TypeOK'
<1>1. "closed" \in Screens /\ codeLIST \in [Submitters -> SUBSET Codes]
  BY DEF Screens, TypeOK
<1>. QED BY <1>1, UncoversTyped DEF LeaveScan, TypeOK

LEMMA UserTyped ==
  ASSUME TypeOK, User
  PROVE  TypeOK'
<1>1. CASE OpenScan \/ ScanAgain
  BY <1>1 DEF OpenScan, ScanAgain, TypeOK, ListedAfterFetch, Screens, Submitters
<1>2. CASE OpenList
  BY <1>2 DEF OpenList, TypeOK, Screens
<1>3. CASE CloseList
  BY <1>3 DEF CloseList, TypeOK, ListedAfterFetch, Screens, Submitters
<1>4. CASE CloseScan \/ SyncLater
  BY <1>4, LeaveScanTyped DEF CloseScan, SyncLater, TypeOK
<1>5. CASE ClosePopup
  BY <1>5 DEF ClosePopup, TypeOK, Screens
<1>6. ASSUME NEW c \in Codes, ScanCode(c) PROVE TypeOK'
  BY <1>6, InsertTyped DEF ScanCode
<1>7. ASSUME NEW c \in Codes, TypeCode(c) PROVE TypeOK'
  <2>1. CASE Insert(c)
    BY <2>1, InsertTyped
  <2>2. CASE ~Insert(c)
    BY <1>7, <2>2 DEF TypeCode, TypeOK, ListedAfterFetch, Submitters
  <2>. QED BY <2>1, <2>2
<1>8. ASSUME NEW c \in Codes, RemoveCode(c) PROVE TypeOK'
  BY <1>8 DEF RemoveCode, TypeOK
<1>9. ASSUME NEW k \in Calls, SubmitList(k) PROVE TypeOK'
  <2>1. [phase |-> "delay", by |-> "scan", codes |-> {}] \in Call
    BY CallTyped DEF Phases, Owners, Handlers, Submitters
  <2>. QED BY <1>9, <2>1 DEF SubmitList, TypeOK
<1>10. ASSUME NEW k \in Calls, SyncNow(k) PROVE TypeOK'
  BY <1>10, CodesSubmissionTyped DEF SyncNow
<1>11. ASSUME NEW k \in Calls, CloseScanSubmitting(k) PROVE TypeOK'
  <2> DEFINE arr == newproductArray["scan"] \cup codeLIST["scan"]
  <2>1. arr \in SUBSET Codes BY DEF TypeOK, Submitters
  <2>2. Requesting(k, "scan", arr) \in [Calls -> Call]
    BY <2>1, RequestingTyped DEF TypeOK, Submitters
  <2>. QED BY <1>11, <2>2, LeaveScanTyped DEF CloseScanSubmitting
<1>12. ASSUME NEW k \in Calls, AlertOK(k) PROVE TypeOK'
  BY <1>12, EndedTyped DEF AlertOK, TypeOK
<1>. QED BY <1>1, <1>2, <1>3, <1>4, <1>5, <1>6, <1>7, <1>8, <1>9, <1>10,
            <1>11, <1>12 DEF User

LEMMA CallbackTyped ==
  ASSUME TypeOK, NEW k \in Calls, Callback(k)
  PROVE  TypeOK'
<1>1. CASE ListDelayOver(k)
  BY <1>1, CodesSubmissionTyped DEF ListDelayOver
<1>2. CASE DashRefresh(k)
  <2>1. [phase |-> "delay", by |-> "dash", codes |-> {}] \in Call
    BY CallTyped DEF Phases, Owners, Handlers, Submitters
  <2>. QED BY <1>2, <2>1 DEF DashRefresh, TypeOK, Submitters
<1>3. CASE DashDelayOver(k)
  <2> DEFINE arr == newproductArray["dash"] \cup codeLIST["dash"]
  <2>1. arr \in SUBSET Codes BY DEF TypeOK, Submitters
  <2>2. Requesting(k, "dash", arr) \in [Calls -> Call]
    BY <2>1, RequestingTyped DEF TypeOK, Submitters
  <2>. QED BY <1>3, <2>1, <2>2, EndedTyped DEF DashDelayOver, TypeOK
<1>4. CASE GeocodeDone(k)
  <2>1. [calls[k] EXCEPT !.phase = "sent"] \in Call
    BY DEF TypeOK, Call, Phases
  <2>2. Settled([calls EXCEPT ![k].phase = "sent"]) \in [Calls -> Call]
    BY <2>1, SettledTyped DEF TypeOK
  <2>. QED BY <1>4, <2>2, EndedTyped, FinishingTyped DEF GeocodeDone, TypeOK, Phases
<1>5. CASE ServerHandles(k)
  <2>1. /\ [calls[k] EXCEPT !.phase = "accepted"] \in Call
        /\ [calls[k] EXCEPT !.phase = "refused"] \in Call
        /\ calls[k].codes \in SUBSET Codes
    BY DEF TypeOK, Call, Phases
  <2>. QED BY <1>5, <2>1, EndedTyped DEF ServerHandles, TypeOK
<1>6. CASE ReplyLost(k)
  BY <1>6, EndedTyped DEF ReplyLost, TypeOK
<1>7. CASE Recorded(k)
  <2>1. calls[k].codes \in SUBSET Codes BY DEF TypeOK, Call
  <2>. QED BY <1>7, <2>1, EndedTyped, FinishingTyped DEF Recorded, TypeOK, Phases
<1>8. CASE Refused(k)
  <2> DEFINE top == LeftBy(calls[k].by)
             shown == (calls[k].by = "scan") = (top = "scan")
             f == IF shown THEN Finishing(k, "alert") ELSE Ended(k)
  <2>1. f \in [Calls -> Call]
    BY EndedTyped, FinishingTyped DEF TypeOK, Phases
  <2>2. top \in Screens /\ codeLIST \in [Submitters -> SUBSET Codes]
    BY LeftByTyped DEF Screens, TypeOK
  <2>3. Uncovers(top, f, codeLIST)
    BY <1>8 DEF Refused
  <2>. HIDE DEF top, f
  <2>. QED BY <1>8, <2>1, <2>2, <2>3, UncoversTyped DEF Refused, TypeOK
<1>9. CASE OfflineDismissed(k)
  <2> DEFINE lists == [codeLIST EXCEPT !["scan"] = store]
  <2>1. /\ Finishing(k, "announce") \in [Calls -> Call]
        /\ lists \in [Submitters -> SUBSET Codes]
        /\ LeftBy("scan") \in Screens
    BY FinishingTyped, LeftByTyped DEF TypeOK, Phases, Screens
  <2>2. listed' \in SUBSET Codes
    BY <1>9 DEF OfflineDismissed, ListedAfterFetch, TypeOK
  <2>3. CASE Uncovers(LeftBy("scan"), Finishing(k, "announce"), lists)
    <3>. HIDE DEF lists
    <3>. QED BY <1>9, <2>1, <2>2, <2>3, UncoversTyped DEF OfflineDismissed, TypeOK
  <2>4. CASE /\ calls' = Finishing(k, "announce")
             /\ UNCHANGED <<screen, pushed, codeLIST, newproductArray>>
    BY <1>9, <2>1, <2>2, <2>4 DEF OfflineDismissed, TypeOK
  <2>. QED BY <1>9, <2>3, <2>4 DEF OfflineDismissed
<1>10. CASE DismissDone(k)
  <2> DEFINE lists == IF calls[k].by = "dash" /\ ~online THEN codeLIST
                        ELSE [codeLIST EXCEPT ![calls[k].by] = {}]
             top == LeftBy(calls[k].by)
  <2>1. /\ Finishing(k, "announce") \in [Calls -> Call]
        /\ lists \in [Submitters -> SUBSET Codes]
        /\ top \in Screens
    BY FinishingTyped, LeftByTyped DEF TypeOK, Phases, Screens
  <2>2. CASE Uncovers(top, Finishing(k, "announce"), lists)
    <3>. HIDE DEF lists, top
    <3>. QED BY <1>10, <2>1, <2>2, UncoversTyped DEF DismissDone, TypeOK
  <2>3. CASE /\ calls' = Finishing(k, "announce")
             /\ UNCHANGED <<screen, pushed, codeLIST, newproductArray>>
    BY <1>10, <2>1, <2>3 DEF DismissDone, TypeOK
  <2>. QED BY <1>10, <2>2, <2>3 DEF DismissDone
<1>11. CASE Announce(k)
  <2> DEFINE left == LeftBy(calls[k].by)
             top == IF left = "closed" THEN "popup" ELSE left
  <2>1. Ended(k) \in [Calls -> Call] /\ Settled(Ended(k)) \in [Calls -> Call]
    BY EndedTyped, SettledTyped DEF TypeOK
  <2>2. top \in Screens /\ codeLIST \in [Submitters -> SUBSET Codes]
    BY LeftByTyped DEF Screens, TypeOK
  <2>3. CASE Uncovers(top, Ended(k), codeLIST)
    <3>. HIDE DEF top
    <3>. QED BY <1>11, <2>1, <2>2, <2>3, UncoversTyped DEF Announce, TypeOK
  <2>4. CASE /\ screen' = IF screen = "closed" /\ ~AlertUp THEN "popup" ELSE screen
             /\ calls' = Settled(Ended(k))
             /\ UNCHANGED <<pushed, codeLIST, newproductArray>>
    BY <1>11, <2>1, <2>4 DEF Announce, TypeOK, Screens
  <2>. QED BY <1>11, <2>3, <2>4 DEF Announce
<1>. QED BY <1>1, <1>2, <1>3, <1>4, <1>5, <1>6, <1>7, <1>8, <1>9, <1>10,
            <1>11 DEF Callback

LEMMA CrashTyped ==
  ASSUME TypeOK, Crash
  PROVE  TypeOK'
<1>1. ASSUME NEW k \in Calls PROVE [calls[k] EXCEPT !.by = "dead"] \in Call
  BY DEF TypeOK, Call, Owners
<1>2. calls' \in [Calls -> Call]
  BY <1>1, NoCallTyped DEF Crash, TypeOK
<1>3. UNION {calls[k].codes : k \in {j \in Calls : calls[j].phase = "accepted"}}
        \in SUBSET Codes
  BY DEF TypeOK, Call
<1>4. listed' \in SUBSET Codes
  BY <1>3 DEF Crash, TypeOK
<1>5. crashes' \in 0 .. MaxCrashes
  BY BoundsAssumption DEF Crash, TypeOK
<1>. QED BY <1>2, <1>4, <1>5 DEF Crash, TypeOK, Screens

LEMMA NextTyped == TypeOK /\ [Next]_vars => TypeOK'
<1> SUFFICES ASSUME TypeOK, [Next]_vars PROVE TypeOK'
  OBVIOUS
<1>1. CASE Reachability
  BY <1>1 DEF Reachability, TypeOK
<1>2. CASE UNCHANGED vars
  BY <1>2 DEF vars, TypeOK
<1>. QED BY <1>1, <1>2, UserTyped, CallbackTyped, CrashTyped DEF Next

\* Every state of the synchronisation is well typed, whatever the interleaving
\* of the two submitters' callbacks, the user and the crashes.
THEOREM TypeCorrect == Spec => []TypeOK
<1>. QED BY InitTyped, NextTyped, PTL DEF Spec

-----------------------------------------------------------------------------
(* The safety invariant                                                    *)

\* Record d is call record c later on, its screen gone or released meanwhile.
Keeps(d, c) ==
  /\ d.phase = c.phase /\ d.codes = c.codes
  /\ \/ d.by = c.by
     \/ c.by \in {"scan", "held"} /\ d.by = "held"
     \/ d.by = "orphan" /\ d.phase \notin Holding

\* What is left of call k when its screen goes away, and when it is released.
LEMMA OrphanedShape ==
  ASSUME NEW f \in [Calls -> Call], NEW k \in Calls
  PROVE  /\ Orphaned(f)[k].by # "scan"
         /\ Keeps(Orphaned(f)[k], f[k]) \/ Orphaned(f)[k].phase = "idle"
<1> DEFINE held == \E j \in Calls : f[j].by = "scan" /\ f[j].phase \in Holding
           b == IF held THEN "held" ELSE "orphan"
<1>1. Orphaned(f)[k] = IF f[k].by # "scan" THEN f[k]
        ELSE IF f[k].phase \in {"sent", "accepted"} \cup Holding
          THEN [f[k] EXCEPT !.by = b] ELSE NoCall
  BY DEF Orphaned
<1>2. f[k].by = "scan" /\ f[k].phase \in Holding => held
  OBVIOUS
<1>3. b = "held" \/ (b = "orphan" /\ ~held)
  OBVIOUS
<1>4. ASSUME NEW d \in {"held", "orphan"}
      PROVE  /\ [f[k] EXCEPT !.by = d].by = d
             /\ [f[k] EXCEPT !.by = d].phase = f[k].phase
             /\ [f[k] EXCEPT !.by = d].codes = f[k].codes
  BY DEF Call
<1>. HIDE DEF held, b
<1>5. CASE f[k].by # "scan"
  BY <1>1, <1>5 DEF Keeps
<1>6. CASE f[k].by = "scan" /\ f[k].phase \in {"sent", "accepted"} \cup Holding
  BY <1>1, <1>2, <1>3, <1>4, <1>6 DEF Keeps
<1>7. CASE f[k].by = "scan" /\ f[k].phase \notin {"sent", "accepted"} \cup Holding
  BY <1>1, <1>7 DEF NoCall
<1>. QED BY <1>5, <1>6, <1>7

LEMMA SettledShape ==
  ASSUME NEW f \in [Calls -> Call], NEW k \in Calls
  PROVE  /\ Keeps(Settled(f)[k], f[k])
         /\ Settled(f)[k].by = "scan" => f[k].by = "scan"
<1>1. CASE Settled(f) = f
  BY <1>1 DEF Keeps
<1>2. CASE /\ \A j \in Calls : ~(f[j].by = "held" /\ f[j].phase \in Holding)
           /\ Settled(f) = [j \in Calls |-> IF f[j].by = "held"
                                THEN [f[j] EXCEPT !.by = "orphan"] ELSE f[j]]
  <2>1. /\ [f[k] EXCEPT !.by = "orphan"].by = "orphan"
        /\ [f[k] EXCEPT !.by = "orphan"].phase = f[k].phase
        /\ [f[k] EXCEPT !.by = "orphan"].codes = f[k].codes
    BY DEF Call
  <2>2. CASE f[k].by = "held"
    BY <1>2, <2>1, <2>2 DEF Keeps
  <2>3. CASE f[k].by # "held"
    BY <1>2, <2>3 DEF Keeps
  <2>. QED BY <2>2, <2>3
<1>. QED BY <1>1, <1>2 DEF Settled

\* What is left of call k after a dismissal.
LEMMA UncoversShape ==
  ASSUME NEW top, NEW f \in [Calls -> Call], NEW lists, Uncovers(top, f, lists),
         NEW k \in Calls
  PROVE  /\ Keeps(calls'[k], f[k]) \/ calls'[k].phase = "idle"
         /\ calls'[k].by = "scan" => top = "scan"
<1> DEFINE g == [j \in Calls |-> IF f[j].phase = "alert" /\ f[j] = calls[j]
                                   THEN NoCall ELSE f[j]]
<1>1. g \in [Calls -> Call]
  BY NoCallTyped
<1>2. g[k] = f[k] \/ g[k].phase = "idle"
  BY DEF NoCall
<1>3. (top = "scan" /\ calls' = g) \/ calls' = Orphaned(g)
  BY DEF Uncovers
<1>. HIDE DEF g
<1>4. CASE top = "scan" /\ calls' = g
  BY <1>2, <1>4 DEF Keeps
<1>5. CASE calls' = Orphaned(g)
  BY <1>1, <1>2, <1>5, OrphanedShape DEF Keeps
<1>. QED BY <1>3, <1>4, <1>5

LEMMA InitSafe == Init => IInv
BY InitTyped DEF Init, IInv, NoUnsentLoss, NoUnlistedLoss, CacheCoversStore,
   ScanCallsOpen, RequestsCover, DelaysCover, AcceptedDelivered, DismissalsSafe,
   ScanOpen, NoCall

\* The parts of IInv that speak of one call.
CallSafe(k) ==
  /\ calls[k].by = "scan" /\ calls[k].phase # "idle" => ScanOpen
  /\ calls[k].by \in Handlers /\ calls[k].phase \in {"geocode", "sent", "accepted"}
       => owed \cap store \subseteq calls[k].codes
  /\ calls[k].by = "dash" /\ calls[k].phase = "delay"
       => owed \cap store \subseteq codeLIST["dash"]
  /\ calls[k].phase = "accepted"
       => /\ calls[k].by # "dead"
          /\ calls[k].by \in Handlers => owed \cap calls[k].codes \subseteq delivered
  /\ calls[k].phase = "dismiss"
       => /\ calls[k].by \in Handlers
          /\ owed \cap store \subseteq delivered \cap listed

LEMMA IInvSplit ==
  IInv <=> /\ TypeOK /\ NoUnsentLoss /\ NoUnlistedLoss /\ CacheCoversStore
           /\ \A k \in Calls : CallSafe(k)
BY DEF IInv, CallSafe, ScanCallsOpen, RequestsCover, DelaysCover,
       AcceptedDelivered, DismissalsSafe

LEMMA IInvNext ==
  ASSUME TypeOK', (NoUnsentLoss /\ NoUnlistedLoss /\ CacheCoversStore)',
         \A k \in Calls : CallSafe(k)'
  PROVE  IInv'
BY DEF IInv, CallSafe, ScanCallsOpen, RequestsCover, DelaysCover,
       AcceptedDelivered, DismissalsSafe

\* The step takes nothing from the calls it leaves alone: no code becomes
\* owed or reappears in the table, and no owed code loses what covers it.
Frame ==
  /\ owed' \subseteq owed
  /\ owed' \cap store' \subseteq store
  /\ owed' \cap delivered \subseteq delivered'
  /\ listed \subseteq listed'
  /\ owed' \cap store' \cap codeLIST["dash"] \subseteq codeLIST'["dash"]

LEMMA FrameKeeps ==
  ASSUME NEW k \in Calls, CallSafe(k), calls'[k] = calls[k], Frame,
         calls[k].by = "scan" /\ ScanOpen => ScanOpen'
  PROVE  CallSafe(k)'
BY DEF CallSafe, Frame

\* The phases in which a call neither sends nor deletes anything any more,
\* except at the user's word.
Quiet == {"idle", "offline", "announce", "refused", "alert"}

\* The step leaves call k harmless, or as safe as it was, or makes it a request
\* that covers the owed codes.
Carried(k) ==
  /\ calls'[k].by = "scan" /\ calls'[k].phase # "idle" => ScanOpen'
  /\ \/ calls'[k].phase \in Quiet
     \/ Keeps(calls'[k], calls[k])
     \/ /\ calls'[k].phase \in {"geocode", "sent"}
        /\ calls'[k].by \in Handlers => owed' \cap store' \subseteq calls'[k].codes

LEMMA CarriedSafe ==
  ASSUME NEW k \in Calls, CallSafe(k), Frame, Carried(k)
  PROVE  CallSafe(k)'
<1>1. CASE calls'[k].phase \in Quiet
  BY <1>1 DEF Carried, CallSafe, Quiet
<1>2. CASE calls'[k].phase \in {"geocode", "sent"}
           /\ (calls'[k].by \in Handlers => owed' \cap store' \subseteq calls'[k].codes)
  BY <1>2 DEF Carried, CallSafe
<1>3. CASE Keeps(calls'[k], calls[k])
  BY <1>3 DEF Carried, CallSafe, Keeps, Frame, Handlers, Submitters, Holding, Dismissals
<1>. QED BY <1>1, <1>2, <1>3 DEF Carried

\* A dismissal, if what it leaves of the submissions is harmless or safe.
LEMMA UncoversSafe ==
  ASSUME IInv, Frame, NEW top, NEW f \in [Calls -> Call], NEW lists,
         Uncovers(top, f, lists),
         \A j \in Calls : \/ f[j] = calls[j]
                          \/ f[j].phase \in Quiet
                          \/ /\ f[j].phase = "geocode"
                             /\ owed' \cap store' \subseteq f[j].codes,
         NEW k \in Calls
  PROVE  CallSafe(k)'
<1>1. /\ Keeps(calls'[k], f[k]) \/ calls'[k].phase = "idle"
      /\ calls'[k].by = "scan" => top = "scan"
  BY UncoversShape
<1>2. calls'[k].by = "scan" => ScanOpen'
  BY <1>1 DEF Uncovers, ScanOpen
<1>3. Carried(k)
  BY <1>1, <1>2 DEF Carried, Keeps, Quiet
<1>. QED BY <1>3, CarriedSafe, IInvSplit

LEMMA EndedShape ==
  ASSUME calls \in [Calls -> Call], NEW k \in Calls, NEW j \in Calls
  PROVE  Ended(k)[j] = IF j = k THEN NoCall ELSE calls[j]
BY DEF Ended

LEMMA FinishingShape ==
  ASSUME calls \in [Calls -> Call], NEW k \in Calls, NEW p \in Phases
  PROVE  /\ Finishing(k, p)[k].phase = p
         /\ Finishing(k, p)[k].by = calls[k].by
         /\ \A j \in Calls \ {k} : Finishing(k, p)[j] = calls[j]
<1>1. Finishing(k, p)[k] = [phase |-> p, by |-> calls[k].by, codes |-> {}]
  BY DEF Finishing
<1>2. \A j \in Calls \ {k} : Finishing(k, p)[j] = calls[j]
  BY DEF Finishing
<1>. QED BY <1>1, <1>2

\* A new row: what a call that may clear the table does not know is not owed.
LEMMA InsertSafe ==
  ASSUME IInv, NEW c \in Codes, Insert(c)
  PROVE  IInv'
<1>1. TypeOK' BY InsertTyped DEF IInv
<1>2. ASSUME NEW k \in Calls PROVE CallSafe(k)'
  <2>1. CallSafe(k) BY IInvSplit
  <2>2. CASE \E j \in Calls : MayClear(j)
    <3>1. Frame
      BY <2>2 DEF Insert, Frame, ListedAfterFetch, IInv, TypeOK, Submitters
    <3>. QED BY <2>1, <3>1, FrameKeeps DEF Insert, ScanOpen
  <2>3. CASE ~MayClear(k)
    BY <2>1, <2>3 DEF MayClear, CallSafe, Insert, ScanOpen, Handlers, Submitters
  <2>. QED BY <2>2, <2>3
<1>3. (NoUnsentLoss /\ NoUnlistedLoss)'
  BY DEF Insert, ListedAfterFetch, IInv, NoUnsentLoss, NoUnlistedLoss
<1>4. CacheCoversStore'
  BY DEF Insert, IInv, TypeOK, CacheCoversStore, Submitters
<1>. QED BY <1>1, <1>2, <1>3, <1>4, IInvNext

\* A request is the new call and those still geocoding, all with its codes.
LEMMA RequestingShape ==
  ASSUME NEW k \in Calls, NEW s, NEW arr, NEW j \in Calls
  PROVE  \/ Requesting(k, s, arr)[j] = calls[j]
         \/ /\ Requesting(k, s, arr)[j].phase = "geocode"
            /\ Requesting(k, s, arr)[j].by = s
            /\ Requesting(k, s, arr)[j].codes = arr
BY DEF Requesting

LEMMA CodesSubmissionSafe ==
  ASSUME IInv, NEW k \in Calls, ScanOpen, CodesSubmission(k)
  PROVE  IInv'
<1>1. CASE ~online
  <2>1. TypeOK' /\ Frame
    BY <1>1, CodesSubmissionTyped DEF CodesSubmission, Frame, IInv
  <2>2. calls' = [calls EXCEPT ![k] = [phase |-> "offline", by |-> "scan", codes |-> {}]]
    BY <1>1 DEF CodesSubmission
  <2>3. calls'[k].phase = "offline" /\ \A j \in Calls \ {k} : calls'[j] = calls[j]
    BY <2>2 DEF IInv, TypeOK
  <2>4. \A j \in Calls : CallSafe(j)
    BY IInvSplit
  <2>5. \A j \in Calls : Carried(j)
    BY <1>1, <2>3 DEF CodesSubmission, Carried, Keeps, Quiet, ScanOpen
  <2>6. \A j \in Calls : CallSafe(j)'
    BY <2>1, <2>4, <2>5, CarriedSafe
  <2>7. (NoUnsentLoss /\ NoUnlistedLoss /\ CacheCoversStore)'
    BY <1>1 DEF CodesSubmission, IInv, NoUnsentLoss, NoUnlistedLoss, CacheCoversStore, ScanOpen
  <2>. QED BY <2>1, <2>6, <2>7, IInvNext
<1>2. CASE online
  <2> DEFINE arr == newproductArray["scan"] \cup codeLIST["scan"]
  <2>1. arr \in SUBSET Codes /\ owed \cap store \subseteq arr
    BY DEF IInv, TypeOK, CacheCoversStore, Submitters
  <2>2. TypeOK'
    BY CodesSubmissionTyped DEF IInv
  <2>3. calls' = Requesting(k, "scan", arr)
    BY <1>2 DEF CodesSubmission
  <2>4. Frame
    BY <1>2 DEF CodesSubmission, Frame, IInv, TypeOK, Submitters
  <2>5. ASSUME NEW j \in Calls PROVE CallSafe(j)'
    <3>1. \/ calls'[j] = calls[j]
          \/ /\ calls'[j].phase = "geocode" /\ calls'[j].by = "scan"
             /\ owed \cap store \subseteq calls'[j].codes
      <4>. HIDE DEF arr
      <4>. QED BY <2>1, <2>3, RequestingShape
    <3>2. ScanOpen'
      BY <1>2 DEF CodesSubmission, ScanOpen
    <3>3. CallSafe(j)
      BY IInvSplit
    <3>4. CASE calls'[j] = calls[j]
      BY <2>4, <3>2, <3>3, <3>4, FrameKeeps
    <3>5. CASE /\ calls'[j].phase = "geocode" /\ calls'[j].by = "scan"
               /\ owed \cap store \subseteq calls'[j].codes
      BY <1>2, <3>2, <3>5 DEF CodesSubmission, CallSafe
    <3>. QED BY <3>1, <3>4, <3>5
  <2>6. (NoUnsentLoss /\ NoUnlistedLoss)'
    BY <1>2 DEF CodesSubmission, IInv, NoUnsentLoss, NoUnlistedLoss
  <2>7. CacheCoversStore'
    BY <1>2 DEF CodesSubmission, IInv, TypeOK, CacheCoversStore, Submitters
  <2>. QED BY <2>2, <2>5, <2>6, <2>7, IInvNext
<1>. QED BY <1>1, <1>2 DEF IInv, TypeOK

\* The steps of the user that submit nothing.
LEMMA UserQuietSafe ==
  ASSUME IInv, TypeOK',
         \/ OpenScan \/ ScanAgain \/ OpenList \/ CloseList \/ ClosePopup
         \/ Reachability \/ UNCHANGED vars
         \/ \E c \in Codes : RemoveCode(c) \/ (TypeCode(c) /\ ~Insert(c))
  PROVE  IInv'
<1>1. calls' = calls
  BY DEF OpenScan, ScanAgain, OpenList, CloseList, ClosePopup, Reachability,
         RemoveCode, TypeCode, vars
<1>2. Frame
  BY DEF OpenScan, ScanAgain, OpenList, CloseList, ClosePopup, Reachability,
         RemoveCode, TypeCode, vars, Frame, ListedAfterFetch, IInv, TypeOK, Submitters
<1>3. ScanOpen => ScanOpen'
  BY DEF OpenScan, ScanAgain, OpenList, CloseList, ClosePopup, Reachability,
         RemoveCode, TypeCode, vars, ScanOpen
<1>4. \A k \in Calls : CallSafe(k)'
  BY <1>1, <1>2, <1>3, IInvSplit, FrameKeeps
<1>5. (NoUnsentLoss /\ NoUnlistedLoss)'
  BY DEF OpenScan, ScanAgain, OpenList, CloseList, ClosePopup, Reachability,
         RemoveCode, TypeCode, vars, ListedAfterFetch, IInv, NoUnsentLoss, NoUnlistedLoss
<1>6. CacheCoversStore'
  BY DEF OpenScan, ScanAgain, OpenList, CloseList, ClosePopup, Reachability,
         RemoveCode, TypeCode, vars, IInv, TypeOK, CacheCoversStore, ScanOpen, Submitters
<1>. QED BY TypeOK', <1>4, <1>5, <1>6, IInvNext

\* The steps of the user that close the scan screen.
LEMMA LeaveScanSafe ==
  ASSUME IInv, TypeOK', NEW f \in [Calls -> Call], LeaveScan(f),
         \A j \in Calls : \/ f[j] = calls[j]
                          \/ f[j].phase = "geocode" /\ owed \cap store \subseteq f[j].codes
  PROVE  IInv'
<1>1. Frame
  BY DEF LeaveScan, Uncovers, Frame, Released, IInv, TypeOK, Submitters
<1>2. Uncovers("closed", f, codeLIST)
  BY DEF LeaveScan
<1>3. \A j \in Calls : \/ f[j] = calls[j]
                       \/ f[j].phase \in Quiet
                       \/ f[j].phase = "geocode" /\ owed' \cap store' \subseteq f[j].codes
  <2>1. owed' = owed /\ store' = store BY DEF LeaveScan
  <2>. QED BY <2>1
<1>4. \A j \in Calls : CallSafe(j)'
  BY <1>1, <1>2, <1>3, UncoversSafe
<1>5. (NoUnsentLoss /\ NoUnlistedLoss /\ CacheCoversStore)'
  BY DEF LeaveScan, Uncovers, IInv, NoUnsentLoss, NoUnlistedLoss, CacheCoversStore, ScanOpen
<1>. QED BY TypeOK', <1>4, <1>5, IInvNext

LEMMA CloseScanSafe ==
  ASSUME IInv, TypeOK',
         CloseScan \/ SyncLater \/ \E k \in Calls : CloseScanSubmitting(k)
  PROVE  IInv'
<1>1. CASE CloseScan \/ SyncLater
  BY <1>1, LeaveScanSafe DEF CloseScan, SyncLater, IInv, TypeOK
<1>2. ASSUME NEW k \in Calls, CloseScanSubmitting(k) PROVE IInv'
  <2> DEFINE arr == newproductArray["scan"] \cup codeLIST["scan"]
             f == Requesting(k, "scan", arr)
  <2>1. ScanOpen /\ LeaveScan(f)
    BY <1>2 DEF CloseScanSubmitting, LeaveScan, ScanOpen
  <2>2. arr \in SUBSET Codes /\ owed \cap store \subseteq arr
    BY <2>1 DEF IInv, TypeOK, CacheCoversStore, Submitters
  <2>3. f \in [Calls -> Call]
    BY <2>2, RequestingTyped DEF IInv, TypeOK, Submitters
  <2>4. \A j \in Calls : \/ f[j] = calls[j]
                         \/ f[j].phase = "geocode" /\ owed \cap store \subseteq f[j].codes
    <3>1. \A j \in Calls :
            \/ f[j] = calls[j]
            \/ f[j].phase = "geocode" /\ f[j].by = "scan" /\ f[j].codes = arr
      <4>. HIDE DEF arr
      <4>. QED BY <2>2, RequestingShape DEF f
    <3>. HIDE DEF arr, f
    <3>. QED BY <2>2, <3>1
  <2>. HIDE DEF f
  <2>. QED BY TypeOK', <2>1, <2>3, <2>4, LeaveScanSafe
<1>. QED BY <1>1, <1>2

\* A step that changes call k only.
LEMMA OneCallSafe ==
  ASSUME IInv, TypeOK', Frame, NEW k \in Calls, CallSafe(k)',
         \A j \in Calls \ {k} : calls'[j] = calls[j],
         ScanOpen => ScanOpen', NoUnsentLoss', NoUnlistedLoss', CacheCoversStore'
  PROVE  IInv'
<1>1. \A j \in Calls \ {k} : CallSafe(j)'
  BY IInvSplit, FrameKeeps
<1>. QED BY <1>1, IInvNext

LEMMA SubmitListSafe ==
  ASSUME IInv, TypeOK', NEW k \in Calls, SubmitList(k)
  PROVE  IInv'
<1>1. Frame
  BY DEF SubmitList, Frame
<1>2. CallSafe(k)'
  <2>1. calls'[k] = [phase |-> "delay", by |-> "scan", codes |-> {}]
    BY DEF SubmitList, IInv, TypeOK
  <2>. QED BY <2>1 DEF SubmitList, CallSafe, ScanOpen
<1>3. (NoUnsentLoss /\ NoUnlistedLoss /\ CacheCoversStore)'
  BY DEF SubmitList, IInv, NoUnsentLoss, NoUnlistedLoss, CacheCoversStore, ScanOpen
<1>4. \A j \in Calls \ {k} : calls'[j] = calls[j]
  BY DEF SubmitList, IInv, TypeOK
<1>. QED BY TypeOK', <1>1, <1>2, <1>3, <1>4, OneCallSafe DEF SubmitList, ScanOpen

LEMMA AlertOKSafe ==
  ASSUME IInv, TypeOK', NEW k \in Calls, AlertOK(k)
  PROVE  IInv'
<1>1. Frame
  BY DEF AlertOK, Frame
<1>2. CallSafe(k)'
  <2>1. calls'[k] = NoCall
    BY EndedShape DEF AlertOK, IInv, TypeOK
  <2>. QED BY <2>1 DEF NoCall, CallSafe
<1>3. (NoUnsentLoss /\ NoUnlistedLoss /\ CacheCoversStore)'
  BY DEF AlertOK, IInv, NoUnsentLoss, NoUnlistedLoss, CacheCoversStore
<1>4. \A j \in Calls \ {k} : calls'[j] = calls[j]
  BY EndedShape DEF AlertOK, IInv, TypeOK
<1>. QED BY TypeOK', <1>1, <1>2, <1>3, <1>4, OneCallSafe DEF AlertOK, ScanOpen

LEMMA DashRefreshSafe ==
  ASSUME IInv, TypeOK', NEW k \in Calls, DashRefresh(k)
  PROVE  IInv'
<1>1. Frame
  BY DEF DashRefresh, Frame, IInv, TypeOK, Submitters
<1>2. CallSafe(k)'
  <2>1. CASE calls' = calls
    BY <1>1, <2>1, IInvSplit, FrameKeeps DEF DashRefresh, ScanOpen
  <2>2. CASE calls' = [calls EXCEPT ![k] = [phase |-> "delay", by |-> "dash", codes |-> {}]]
    <3>1. calls'[k] = [phase |-> "delay", by |-> "dash", codes |-> {}]
      BY <2>2 DEF IInv, TypeOK
    <3>2. codeLIST'["dash"] = store'
      BY DEF DashRefresh, IInv, TypeOK, Submitters
    <3>. QED BY <3>1, <3>2 DEF CallSafe
  <2>. QED BY <2>1, <2>2 DEF DashRefresh
<1>3. (NoUnsentLoss /\ NoUnlistedLoss)'
  BY DEF DashRefresh, IInv, NoUnsentLoss, NoUnlistedLoss
<1>4. CacheCoversStore'
  BY DEF DashRefresh, IInv, TypeOK, CacheCoversStore, ScanOpen, Submitters
<1>5. \A j \in Calls \ {k} : calls'[j] = calls[j]
  BY DEF DashRefresh, IInv, TypeOK
<1>. QED BY TypeOK', <1>1, <1>2, <1>3, <1>4, <1>5, OneCallSafe DEF DashRefresh, ScanOpen

LEMMA DashDelayOverSafe ==
  ASSUME IInv, TypeOK', NEW k \in Calls, DashDelayOver(k)
  PROVE  IInv'
<1> DEFINE arr == newproductArray["dash"] \cup codeLIST["dash"]
<1>1. Frame
  BY DEF DashDelayOver, Frame
<1>2. arr \in SUBSET Codes /\ owed \cap store \subseteq arr
  <2>1. owed \cap store \subseteq codeLIST["dash"]
    BY DEF DashDelayOver, IInv, DelaysCover
  <2>. QED BY <2>1 DEF IInv, TypeOK, Submitters
<1>3. ASSUME NEW j \in Calls PROVE CallSafe(j)'
  <2>1. CASE calls'[j] = calls[j]
    BY <1>1, <2>1, IInvSplit, FrameKeeps DEF DashDelayOver, ScanOpen
  <2>2. CASE calls'[j].phase = "idle"
    BY <2>2 DEF CallSafe
  <2>3. CASE /\ calls'[j].phase = "geocode" /\ calls'[j].by = "dash"
             /\ owed \cap store \subseteq calls'[j].codes
    BY <2>3 DEF DashDelayOver, CallSafe
  <2>4. CASE calls' = Ended(k)
    BY <2>1, <2>2, <2>4, EndedShape DEF IInv, TypeOK, NoCall
  <2>5. CASE calls' = Requesting(k, "dash", arr)
    <3>1. \/ calls'[j] = calls[j]
          \/ /\ calls'[j].phase = "geocode" /\ calls'[j].by = "dash"
             /\ owed \cap store \subseteq calls'[j].codes
      <4>. HIDE DEF arr
      <4>. QED BY <1>2, <2>5, RequestingShape
    <3>. QED BY <2>1, <2>3, <3>1
  <2>. QED BY <2>4, <2>5 DEF DashDelayOver
<1>4. (NoUnsentLoss /\ NoUnlistedLoss /\ CacheCoversStore)'
  BY DEF DashDelayOver, IInv, NoUnsentLoss, NoUnlistedLoss, CacheCoversStore, ScanOpen
<1>. QED BY TypeOK', <1>3, <1>4, IInvNext

\* The callbacks that end a call without a reply, or move it on.
LEMMA GeocodeDoneSafe ==
  ASSUME IInv, TypeOK', NEW k \in Calls, GeocodeDone(k)
  PROVE  IInv'
<1>1. Frame
  BY DEF GeocodeDone, Frame
<1>2. (NoUnsentLoss /\ NoUnlistedLoss /\ CacheCoversStore)'
  BY DEF GeocodeDone, IInv, NoUnsentLoss, NoUnlistedLoss, CacheCoversStore, ScanOpen
<1>3. /\ screen' = screen /\ owed' = owed /\ store' = store
      /\ calls[k].phase = "geocode" /\ calls \in [Calls -> Call]
  BY DEF GeocodeDone, IInv, TypeOK
<1>4. \A j \in Calls : CallSafe(j)
  BY IInvSplit
<1>5. CASE calls' \in {Ended(k), Finishing(k, "offline")}
  <2>1. /\ calls'[k].phase \in {"idle", "offline"}
        /\ calls'[k].by \in {"dead", calls[k].by}
        /\ \A j \in Calls \ {k} : calls'[j] = calls[j]
    BY <1>3, <1>5, EndedShape, FinishingShape DEF NoCall, Phases
  <2>2. \A j \in Calls : Carried(j)
    BY <1>3, <1>4, <2>1 DEF Carried, Keeps, Quiet, CallSafe, ScanOpen
  <2>3. \A j \in Calls : CallSafe(j)'
    BY <1>1, <1>4, <2>2, CarriedSafe
  <2>. QED BY TypeOK', <1>2, <2>3, IInvNext
<1>6. CASE calls' = Settled([calls EXCEPT ![k].phase = "sent"])
  <2> DEFINE f == [calls EXCEPT ![k].phase = "sent"]
  <2>1. f \in [Calls -> Call]
    BY <1>3 DEF Call, Phases
  <2>2. /\ f[k].phase = "sent" /\ f[k].by = calls[k].by
        /\ f[k].codes = calls[k].codes
        /\ \A j \in Calls \ {k} : f[j] = calls[j]
    BY <1>3 DEF Call
  <2>. HIDE DEF f
  <2>3. \A j \in Calls : /\ Keeps(calls'[j], f[j])
                         /\ calls'[j].by = "scan" => f[j].by = "scan"
    BY <1>6, <2>1, SettledShape DEF f
  <2>4. ASSUME NEW j \in Calls \ {k} PROVE Carried(j)
    BY <1>3, <1>4, <2>2, <2>3 DEF Carried, Keeps, CallSafe, ScanOpen
  <2>5. Carried(k)
    <3>1. calls'[k].phase = "sent" /\ calls'[k].codes = calls[k].codes
      BY <2>2, <2>3 DEF Keeps
    <3>2. calls'[k].by = "scan" => ScanOpen'
      BY <1>3, <1>4, <2>2, <2>3 DEF CallSafe, ScanOpen
    <3>3. calls'[k].by \in Handlers => calls[k].by \in Handlers
      BY <2>2, <2>3 DEF Keeps, Handlers, Submitters
    <3>4. calls'[k].by \in Handlers => owed \cap store \subseteq calls[k].codes
      BY <1>3, <1>4, <3>3 DEF CallSafe
    <3>. QED BY <1>3, <3>1, <3>2, <3>4 DEF Carried
  <2>6. \A j \in Calls : CallSafe(j)'
    BY <1>1, <1>4, <2>4, <2>5, CarriedSafe
  <2>. QED BY TypeOK', <1>2, <2>6, IInvNext
<1>. QED BY <1>5, <1>6 DEF GeocodeDone

LEMMA ServerHandlesSafe ==
  ASSUME IInv, TypeOK', NEW k \in Calls, ServerHandles(k)
  PROVE  IInv'
<1>1. Frame
  BY DEF ServerHandles, Frame
<1>2. (NoUnsentLoss /\ NoUnlistedLoss /\ CacheCoversStore)'
  BY DEF ServerHandles, IInv, NoUnsentLoss, NoUnlistedLoss, CacheCoversStore, ScanOpen
<1>3. \A j \in Calls \ {k} : calls'[j] = calls[j]
  BY EndedShape DEF ServerHandles, IInv, TypeOK
<1>4. CallSafe(k) /\ calls[k].phase = "sent"
  BY IInvSplit DEF ServerHandles
<1>5. CallSafe(k)'
  <2>1. CASE calls' = Ended(k)
    BY <2>1, EndedShape DEF IInv, TypeOK, NoCall, CallSafe
  <2>2. CASE /\ calls' = [calls EXCEPT ![k].phase = "accepted"]
             /\ calls[k].by # "dead" /\ delivered' = delivered \cup calls[k].codes
    <3>1. /\ calls'[k].phase = "accepted" /\ calls'[k].by = calls[k].by
          /\ calls'[k].codes = calls[k].codes
      BY <2>2 DEF IInv, TypeOK, Call
    <3>. QED BY <1>4, <2>2, <3>1 DEF ServerHandles, CallSafe, ScanOpen
  <2>3. CASE calls' = [calls EXCEPT ![k].phase = "refused"]
    <3>1. calls'[k].phase = "refused" /\ calls'[k].by = calls[k].by
      BY <2>3 DEF IInv, TypeOK, Call
    <3>. QED BY <1>4, <3>1 DEF ServerHandles, CallSafe, ScanOpen
  <2>. QED BY <2>1, <2>2, <2>3 DEF ServerHandles
<1>. QED BY TypeOK', <1>1, <1>2, <1>3, <1>5, OneCallSafe DEF ServerHandles, ScanOpen

LEMMA ReplyLostSafe ==
  ASSUME IInv, TypeOK', NEW k \in Calls, ReplyLost(k)
  PROVE  IInv'
<1>1. Frame
  BY DEF ReplyLost, Frame
<1>2. (NoUnsentLoss /\ NoUnlistedLoss /\ CacheCoversStore)'
  BY DEF ReplyLost, IInv, NoUnsentLoss, NoUnlistedLoss, CacheCoversStore, ScanOpen
<1>3. CallSafe(k)' /\ \A j \in Calls \ {k} : calls'[j] = calls[j]
  BY EndedShape DEF ReplyLost, IInv, TypeOK, NoCall, CallSafe
<1>. QED BY TypeOK', <1>1, <1>2, <1>3, OneCallSafe DEF ReplyLost, ScanOpen

\* The reply is recorded: from here on the table may go.
LEMMA RecordedSafe ==
  ASSUME IInv, TypeOK', NEW k \in Calls, Recorded(k)
  PROVE  IInv'
<1>1. Frame
  BY DEF Recorded, Frame
<1>2. (NoUnsentLoss /\ NoUnlistedLoss /\ CacheCoversStore)'
  BY DEF Recorded, IInv, NoUnsentLoss, NoUnlistedLoss, CacheCoversStore, ScanOpen
<1>3. \A j \in Calls \ {k} : calls'[j] = calls[j]
  BY EndedShape, FinishingShape DEF Recorded, IInv, TypeOK, Phases
<1>4. CallSafe(k)'
  <2>1. CASE calls[k].by = "orphan"
    BY <2>1, EndedShape DEF Recorded, IInv, TypeOK, NoCall, CallSafe
  <2>2. CASE calls[k].by # "orphan"
    <3>1. calls'[k].phase = "dismiss" /\ calls'[k].by = calls[k].by
      BY <2>2, FinishingShape DEF Recorded, IInv, TypeOK, Phases
    <3>2. calls[k].by \in Handlers
      BY <2>2 DEF Recorded, IInv, TypeOK, Call, Owners, AcceptedDelivered
    <3>3. owed \cap store \subseteq calls[k].codes
      BY <3>2 DEF Recorded, IInv, RequestsCover
    <3>4. owed \cap calls[k].codes \subseteq delivered
      BY <3>2 DEF Recorded, IInv, AcceptedDelivered
    <3>5. calls[k].by = "scan" => ScanOpen
      BY DEF Recorded, IInv, ScanCallsOpen
    <3>. QED BY <3>1, <3>2, <3>3, <3>4, <3>5 DEF Recorded, CallSafe, ScanOpen
  <2>. QED BY <2>1, <2>2
<1>. QED BY TypeOK', <1>1, <1>2, <1>3, <1>4, OneCallSafe DEF Recorded, ScanOpen

\* The dismissals: each leaves call k waiting for the user or for the next one,
\* or over.
LEMMA FinishingQuiet ==
  ASSUME calls \in [Calls -> Call], NEW k \in Calls,
         NEW f, f \in {Ended(k)} \cup {Finishing(k, p) : p \in {"announce", "alert"}}
  PROVE  /\ f \in [Calls -> Call]
         /\ \A j \in Calls : f[j] = calls[j] \/ f[j].phase \in Quiet
<1>1. CASE f = Ended(k)
  BY <1>1, EndedTyped, EndedShape DEF Quiet, NoCall
<1>2. ASSUME NEW p \in {"announce", "alert"}, f = Finishing(k, p)
      PROVE  /\ f \in [Calls -> Call]
             /\ \A j \in Calls : f[j] = calls[j] \/ f[j].phase \in Quiet
  <2>1. p \in Phases /\ p \in Quiet BY DEF Phases, Quiet
  <2>2. f[k].phase = p /\ \A j \in Calls \ {k} : f[j] = calls[j]
    BY <1>2, <2>1, FinishingShape
  <2>. QED BY <1>2, <2>1, <2>2, FinishingTyped
<1>. QED BY <1>1, <1>2

\* The step of a held screen, which covers nothing.
LEMMA HeldSafe ==
  ASSUME IInv, Frame, NEW k \in Calls, ScanOpen => ScanOpen',
         calls' \in {Finishing(k, "announce"), Settled(Ended(k))},
         calls[k].by = "held"
  PROVE  \A j \in Calls : CallSafe(j)'
<1>1. /\ calls \in [Calls -> Call] /\ Ended(k) \in [Calls -> Call]
      /\ \A j \in Calls : CallSafe(j)
  BY IInvSplit, EndedTyped DEF TypeOK
<1>2. CASE calls' = Finishing(k, "announce")
  <2>1. /\ calls'[k].phase = "announce" /\ calls'[k].by = "held"
        /\ \A j \in Calls \ {k} : calls'[j] = calls[j]
    BY <1>1, <1>2, FinishingShape DEF Phases
  <2>2. \A j \in Calls : Carried(j)
    BY <1>1, <2>1 DEF Carried, Keeps, Quiet, CallSafe
  <2>. QED BY <1>1, <2>2, CarriedSafe
<1>3. CASE calls' = Settled(Ended(k))
  <2>1. \A j \in Calls : /\ Keeps(calls'[j], Ended(k)[j])
                         /\ calls'[j].by = "scan" => Ended(k)[j].by = "scan"
    BY <1>1, <1>3, SettledShape
  <2>2. \A j \in Calls : Ended(k)[j] = calls[j] \/ Ended(k)[j].phase = "idle"
    BY <1>1, EndedShape DEF NoCall
  <2>3. \A j \in Calls : Carried(j)
    BY <1>1, <2>1, <2>2 DEF Carried, Keeps, Quiet, CallSafe
  <2>. QED BY <1>1, <2>3, CarriedSafe
<1>. QED BY <1>2, <1>3

LEMMA RefusedSafe ==
  ASSUME IInv, TypeOK', NEW k \in Calls, Refused(k)
  PROVE  IInv'
<1> DEFINE top == LeftBy(calls[k].by)
           shown == (calls[k].by = "scan") = (top = "scan")
           f == IF shown THEN Finishing(k, "alert") ELSE Ended(k)
<1>1. Uncovers(top, f, codeLIST)
  BY DEF Refused
<1>2. /\ f \in [Calls -> Call]
      /\ \A j \in Calls : f[j] = calls[j] \/ f[j].phase \in Quiet
  BY FinishingQuiet DEF IInv, TypeOK
<1>3. top = "scan" => ScanOpen
  BY DEF LeftBy
<1>. HIDE DEF top, f
<1>4. Frame
  BY <1>1 DEF Refused, Uncovers, Frame, Released, IInv, TypeOK, Submitters
<1>5. \A j \in Calls : CallSafe(j)'
  BY <1>1, <1>2, <1>4, UncoversSafe
<1>6. (NoUnsentLoss /\ NoUnlistedLoss /\ CacheCoversStore)'
  <2>1. top \in {"scan", "closed"} BY LeftByTyped DEF top
  <2>. QED BY <1>1, <1>3, <2>1 DEF Refused, Uncovers, IInv, NoUnsentLoss, NoUnlistedLoss,
                CacheCoversStore, ScanOpen
<1>. QED BY TypeOK', <1>5, <1>6, IInvNext

LEMMA OfflineDismissedSafe ==
  ASSUME IInv, TypeOK', NEW k \in Calls, OfflineDismissed(k)
  PROVE  IInv'
<1> DEFINE f == Finishing(k, "announce")
           lists == [codeLIST EXCEPT !["scan"] = store]
<1>1. /\ f \in [Calls -> Call]
      /\ \A j \in Calls : f[j] = calls[j] \/ f[j].phase \in Quiet
  BY FinishingQuiet DEF IInv, TypeOK
<1>2. listed \subseteq listed'
  BY DEF OfflineDismissed, ListedAfterFetch
<1>3. (NoUnsentLoss /\ NoUnlistedLoss)'
  BY <1>2 DEF OfflineDismissed, IInv, NoUnsentLoss, NoUnlistedLoss
<1>4. /\ lists["scan"] = store /\ lists["dash"] = codeLIST["dash"]
      /\ lists \in [Submitters -> SUBSET Codes]
  BY DEF IInv, TypeOK, Submitters
<1>5. \/ Uncovers(LeftBy("scan"), f, lists)
      \/ /\ calls[k].by = "held" /\ calls' = f
         /\ UNCHANGED <<screen, codeLIST>>
  BY DEF OfflineDismissed
<1>. HIDE DEF f, lists
<1>6. CASE Uncovers(LeftBy("scan"), f, lists)
  <2>1. codeLIST'["dash"] = codeLIST["dash"]
        /\ (ScanOpen' => codeLIST'["scan"] = store)
    BY <1>4, <1>6, LeftByTyped DEF Uncovers, Released, ScanOpen, Submitters
  <2>2. Frame /\ CacheCoversStore'
    BY <1>2, <2>1 DEF OfflineDismissed, Frame, CacheCoversStore
  <2>3. \A j \in Calls : CallSafe(j)'
    BY <1>1, <1>6, <2>2, UncoversSafe
  <2>. QED BY TypeOK', <1>3, <2>2, <2>3, IInvNext
<1>7. CASE calls[k].by = "held" /\ calls' = f /\ UNCHANGED <<screen, codeLIST>>
  <2>1. Frame /\ CacheCoversStore' /\ (ScanOpen => ScanOpen')
    BY <1>2, <1>7 DEF OfflineDismissed, Frame, IInv, CacheCoversStore, ScanOpen
  <2>2. \A j \in Calls : CallSafe(j)'
    BY <1>7, <2>1, HeldSafe DEF f
  <2>. QED BY TypeOK', <1>3, <2>1, <2>2, IInvNext
<1>. QED BY <1>5, <1>6, <1>7

LEMMA DismissDoneSafe ==
  ASSUME IInv, TypeOK', NEW k \in Calls, DismissDone(k)
  PROVE  IInv'
<1> DEFINE f == Finishing(k, "announce")
           lists == IF calls[k].by = "dash" /\ ~online THEN codeLIST
                      ELSE [codeLIST EXCEPT ![calls[k].by] = {}]
<1>1. /\ f \in [Calls -> Call]
      /\ \A j \in Calls : f[j] = calls[j] \/ f[j].phase \in Quiet
  BY FinishingQuiet DEF IInv, TypeOK
<1>2. owed \cap store \subseteq delivered \cap listed
  BY DEF DismissDone, IInv, DismissalsSafe
<1>3. Frame /\ (NoUnsentLoss /\ NoUnlistedLoss /\ CacheCoversStore)'
  BY <1>2 DEF DismissDone, Frame, IInv, NoUnsentLoss, NoUnlistedLoss, CacheCoversStore
<1>4. \/ Uncovers(LeftBy(calls[k].by), f, lists)
      \/ calls[k].by = "held" /\ calls' = f /\ UNCHANGED screen
  BY DEF DismissDone
<1>. HIDE DEF f, lists
<1>5. CASE Uncovers(LeftBy(calls[k].by), f, lists)
  <2>1. \A j \in Calls : CallSafe(j)'
    BY <1>1, <1>3, <1>5, UncoversSafe
  <2>. QED BY TypeOK', <1>3, <2>1, IInvNext
<1>6. CASE calls[k].by = "held" /\ calls' = f /\ UNCHANGED screen
  <2>1. \A j \in Calls : CallSafe(j)'
    BY <1>3, <1>6, HeldSafe DEF f, ScanOpen
  <2>. QED BY TypeOK', <1>3, <2>1, IInvNext
<1>. QED BY <1>4, <1>5, <1>6

LEMMA AnnounceSafe ==
  ASSUME IInv, TypeOK', NEW k \in Calls, Announce(k)
  PROVE  IInv'
<1> DEFINE left == LeftBy(calls[k].by)
           top == IF left = "closed" THEN "popup" ELSE left
           f == Ended(k)
<1>1. /\ f \in [Calls -> Call]
      /\ \A j \in Calls : f[j] = calls[j] \/ f[j].phase \in Quiet
  BY FinishingQuiet DEF IInv, TypeOK
<1>2. top \in {"scan", "popup"} /\ (top = "scan" => ScanOpen)
  BY DEF LeftBy
<1>3. (NoUnsentLoss /\ NoUnlistedLoss)'
  BY DEF Announce, IInv, NoUnsentLoss, NoUnlistedLoss
<1>4. \/ Uncovers(top, f, codeLIST)
      \/ /\ calls[k].by = "held" /\ calls' = Settled(f) /\ UNCHANGED codeLIST
         /\ screen' = screen \/ (screen = "closed" /\ screen' = "popup")
  <2>1. CASE /\ calls[k].by = "held" /\ calls' = Settled(f) /\ UNCHANGED codeLIST
             /\ screen' = IF screen = "closed" /\ ~AlertUp THEN "popup" ELSE screen
    BY <2>1
  <2>2. CASE Uncovers(top, f, codeLIST)
    BY <2>2
  <2>. QED BY <2>1, <2>2 DEF Announce
<1>. HIDE DEF top, f
<1>5. CASE Uncovers(top, f, codeLIST)
  <2>1. Frame /\ CacheCoversStore'
    BY <1>2, <1>5 DEF Announce, Uncovers, Frame, Released, IInv, TypeOK, Submitters,
                      CacheCoversStore, ScanOpen
  <2>2. \A j \in Calls : CallSafe(j)'
    BY <1>1, <1>5, <2>1, UncoversSafe
  <2>. QED BY TypeOK', <1>3, <2>1, <2>2, IInvNext
<1>6. CASE /\ calls[k].by = "held" /\ calls' = Settled(f) /\ UNCHANGED codeLIST
           /\ screen' = screen \/ (screen = "closed" /\ screen' = "popup")
  <2>1. Frame /\ CacheCoversStore' /\ (ScanOpen => ScanOpen')
    BY <1>6 DEF Announce, Frame, IInv, CacheCoversStore, ScanOpen
  <2>2. \A j \in Calls : CallSafe(j)'
    BY <1>6, <2>1, HeldSafe DEF f
  <2>. QED BY TypeOK', <1>3, <2>1, <2>2, IInvNext
<1>. QED BY <1>4, <1>5, <1>6

LEMMA CrashSafe ==
  ASSUME IInv, TypeOK', Crash
  PROVE  IInv'
<1>1. ASSUME NEW k \in Calls PROVE CallSafe(k)'
  <2>1. CASE calls[k].phase = "sent"
    <3>1. calls'[k].by = "dead" /\ calls'[k].phase = "sent"
      BY <2>1 DEF Crash, IInv, TypeOK, Call
    <3>. QED BY <3>1 DEF CallSafe, Handlers, Submitters
  <2>2. CASE calls[k].phase # "sent"
    BY <2>2 DEF Crash, NoCall, CallSafe
  <2>. QED BY <2>1, <2>2
<1>2. (NoUnsentLoss /\ NoUnlistedLoss /\ CacheCoversStore)'
  BY DEF Crash, IInv, NoUnsentLoss, NoUnlistedLoss, CacheCoversStore, ScanOpen
<1>. QED BY TypeOK', <1>1, <1>2, IInvNext

-----------------------------------------------------------------------------
(* The theorems                                                            *)

LEMMA NextSafe == IInv /\ [Next]_vars => IInv'
<1> SUFFICES ASSUME IInv, [Next]_vars PROVE IInv'
  OBVIOUS
<1>1. TypeOK'
  BY NextTyped DEF IInv
<1>2. CASE Reachability \/ UNCHANGED vars
  BY <1>1, <1>2, UserQuietSafe
<1>3. CASE User
  <2>1. CASE OpenScan \/ ScanAgain \/ OpenList \/ CloseList \/ ClosePopup
    BY <1>1, <2>1, UserQuietSafe
  <2>2. CASE CloseScan \/ SyncLater
    BY <1>1, <2>2, CloseScanSafe
  <2>3. ASSUME NEW c \in Codes, ScanCode(c) PROVE IInv'
    BY <2>3, InsertSafe DEF ScanCode
  <2>4. ASSUME NEW c \in Codes, TypeCode(c) PROVE IInv'
    BY <1>1, <2>4, InsertSafe, UserQuietSafe
  <2>5. ASSUME NEW c \in Codes, RemoveCode(c) PROVE IInv'
    BY <1>1, <2>5, UserQuietSafe
  <2>6. ASSUME NEW k \in Calls, SubmitList(k) PROVE IInv'
    BY <1>1, <2>6, SubmitListSafe
  <2>7. ASSUME NEW k \in Calls, SyncNow(k) PROVE IInv'
    BY <2>7, CodesSubmissionSafe DEF SyncNow, ScanOpen
  <2>8. ASSUME NEW k \in Calls, CloseScanSubmitting(k) PROVE IInv'
    BY <1>1, <2>8, CloseScanSafe
  <2>9. ASSUME NEW k \in Calls, AlertOK(k) PROVE IInv'
    BY <1>1, <2>9, AlertOKSafe
  <2>. QED BY <1>3, <2>1, <2>2, <2>3, <2>4, <2>5, <2>6, <2>7, <2>8, <2>9 DEF User
<1>4. CASE Crash
  BY <1>1, <1>4, CrashSafe
<1>5. ASSUME NEW k \in Calls, Callback(k) PROVE IInv'
  <2>1. CASE ListDelayOver(k)
    <3>1. ScanOpen
      BY <2>1 DEF ListDelayOver, IInv, ScanCallsOpen
    <3>. QED BY <2>1, <3>1, CodesSubmissionSafe DEF ListDelayOver
  <2>2. CASE DashRefresh(k)
    BY <1>1, <2>2, DashRefreshSafe
  <2>3. CASE DashDelayOver(k)
    BY <1>1, <2>3, DashDelayOverSafe
  <2>4. CASE GeocodeDone(k)
    BY <1>1, <2>4, GeocodeDoneSafe
  <2>5. CASE ServerHandles(k)
    BY <1>1, <2>5, ServerHandlesSafe
  <2>6. CASE ReplyLost(k)
    BY <1>1, <2>6, ReplyLostSafe
  <2>7. CASE Recorded(k)
    BY <1>1, <2>7, RecordedSafe
  <2>8. CASE Refused(k)
    BY <1>1, <2>8, RefusedSafe
  <2>9. CASE OfflineDismissed(k)
    BY <1>1, <2>9, OfflineDismissedSafe
  <2>10. CASE DismissDone(k)
    BY <1>1, <2>10, DismissDoneSafe
  <2>11. CASE Announce(k)
    BY <1>1, <2>11, AnnounceSafe
  <2>. QED BY <1>5, <2>1, <2>2, <2>3, <2>4, <2>5, <2>6, <2>7, <2>8, <2>9, <2>10,
              <2>11 DEF Callback
<1>. QED BY <1>2, <1>3, <1>4, <1>5 DEF Next

\* The inductive invariant holds in every state.
THEOREM Invariance == Spec => []IInv
<1>. QED BY InitSafe, NextSafe, PTL DEF Spec

\* Whatever is lost, retried, dismissed or killed, a code that was not given
\* up, by "Scan Again" while an earlier screen is held or otherwise, is in
\* ScanCodeSTORE or the server has it (codesSubmission, clearTable).
THEOREM UnsentNeverLost == Spec => []NoUnsentLoss
<1>1. IInv => NoUnsentLoss BY DEF IInv
<1>. QED BY <1>1, Invariance, PTL

\* An owed code can still be seen: in the list of scanned codes or in the
\* status report (the bookkeeping of submitCodesApi before clearTable).
THEOREM UnlistedNeverLost == Spec => []NoUnlistedLoss
<1>1. IInv => NoUnlistedLoss BY DEF IInv
<1>. QED BY <1>1, Invariance, PTL

\* The cached list on which the scan screen bases its duplicate and limit
\* tests misses no row of the table (fetchDetails).
THEOREM CacheNeverMisses == Spec => []CacheCoversStore
<1>1. IInv => CacheCoversStore BY DEF IInv
<1>. QED BY <1>1, Invariance, PTL

-----------------------------------------------------------------------------
(* The table implements the bounded list of ScanList, with two submitters  *)
(* that delete it behind the back of the scan screen, and with limit and   *)
(* duplicate tests made on a cached copy.                                  *)

\* Cardinalities mean something: the table and the cached list are finite.
Finite == IsFiniteSet(store) /\ IsFiniteSet(codeLIST["scan"])

LEMMA InitFinite == Init => Finite
BY FS_EmptySet DEF Init, Finite, Submitters

LEMMA InsertFinite ==
  ASSUME TypeOK, Finite, NEW c \in Codes, Insert(c)
  PROVE  Finite'
<1>1. IsFiniteSet(store')
  BY FS_AddElement DEF Insert, Finite
<1>. QED BY <1>1 DEF Insert, Finite, TypeOK, Submitters

LEMMA NextFinite == TypeOK /\ Finite /\ [Next]_vars => Finite'
<1> SUFFICES ASSUME TypeOK, Finite, [Next]_vars PROVE Finite'
  OBVIOUS
<1>1. ASSUME NEW c \in Codes, Insert(c) PROVE Finite'
  BY <1>1, InsertFinite
<1>2. CASE store' \subseteq store /\ codeLIST'["scan"] \in {codeLIST["scan"], store, {}}
  BY <1>2, FS_Subset, FS_EmptySet DEF Finite
<1>3. \/ \E c \in Codes : Insert(c)
      \/ store' \subseteq store /\ codeLIST'["scan"] \in {codeLIST["scan"], store, {}}
  <2>1. CASE Reachability \/ UNCHANGED vars \/ Crash
    BY <2>1 DEF Reachability, vars, Crash, Submitters
  <2>2. CASE User
    BY <2>2 DEF User, OpenScan, ScanAgain, OpenList, CloseList, CloseScan, SyncLater,
       LeaveScan, Uncovers, ClosePopup, ScanCode, TypeCode, RemoveCode, SubmitList,
       SyncNow, CloseScanSubmitting, AlertOK, CodesSubmission, Released, TypeOK,
       Submitters
  <2>3. ASSUME NEW k \in Calls, Callback(k)
        PROVE  store' \subseteq store /\ codeLIST'["scan"] \in {codeLIST["scan"], store, {}}
    BY <2>3 DEF Callback, ListDelayOver, DashRefresh, DashDelayOver, GeocodeDone,
       ServerHandles, ReplyLost, Recorded, Refused, OfflineDismissed, DismissDone,
       Announce, Uncovers, CodesSubmission, Released, TypeOK, Submitters
  <2>. QED BY <2>1, <2>2, <2>3 DEF Next
<1>. QED BY <1>1, <1>2, <1>3

LEMMA AlwaysFinite == Spec => []Finite
BY InitFinite, NextFinite, TypeCorrect, PTL DEF Spec

\* The instance brings its own copy of Cardinality, of the same definition.
LEMMA SameCardinality ==
  ASSUME NEW S PROVE List!Cardinality(S) = Cardinality(S)
BY DEF List!Cardinality, Cardinality

\* A row is inserted only below the limit of the table itself, although the
\* limit is tested on the cached list, because that list covers the table.
LEMMA InsertAdds ==
  ASSUME IInv, Finite, NEW c \in Codes,
         \/ ScanCode(c)
         \/ Insert(c) /\ c \notin store /\ Cardinality(store) < Limit
  PROVE  List!Add
<1>1. CASE ScanCode(c)
  <2>1. store \subseteq codeLIST["scan"]
    BY <1>1 DEF ScanCode, IInv, CacheCoversStore, ScanOpen
  <2>2. /\ Cardinality(store) <= Cardinality(codeLIST["scan"])
        /\ Cardinality(store) \in Nat /\ Cardinality(codeLIST["scan"]) \in Nat
    BY <2>1, FS_Subset, FS_CardinalityType DEF Finite
  <2>. QED BY <1>1, <2>1, <2>2, SameCardinality, LimitAssumption DEF ScanCode, Insert, List!Add
<1>2. CASE Insert(c) /\ c \notin store /\ Cardinality(store) < Limit
  BY <1>2, SameCardinality DEF Insert, List!Add
<1>. QED BY <1>1, <1>2

LEMMA StepImplements ==
  IInv /\ Finite /\ [Next]_vars => [List!Next]_store
<1> SUFFICES ASSUME IInv, Finite, [Next]_vars PROVE List!Next \/ store' = store
  OBVIOUS
<1>1. CASE Reachability \/ UNCHANGED vars \/ Crash
  BY <1>1 DEF Reachability, vars, Crash
<1>2. CASE User
  <2>1. ASSUME NEW c \in Codes, ScanCode(c) PROVE List!Next
    BY <2>1, InsertAdds DEF List!Next
  <2>2. ASSUME NEW c \in Codes, TypeCode(c) PROVE List!Next \/ store' = store
    BY <2>2, InsertAdds DEF List!Next, TypeCode
  <2>3. ASSUME NEW c \in Codes, RemoveCode(c) PROVE List!Next
    BY <2>3 DEF RemoveCode, List!Next, List!Remove
  <2>4. ASSUME NEW k \in Calls, AlertOK(k) PROVE List!Next
    BY <2>4 DEF AlertOK, List!Next, List!Clear
  <2>5. CASE \/ OpenScan \/ OpenList \/ CloseList \/ CloseScan \/ SyncLater \/ ClosePopup
             \/ \E k \in Calls : SubmitList(k) \/ SyncNow(k) \/ CloseScanSubmitting(k)
    BY <2>5 DEF OpenScan, OpenList, CloseList, CloseScan, SyncLater, LeaveScan,
       ClosePopup, SubmitList, SyncNow, CloseScanSubmitting, CodesSubmission
  <2>6. CASE ScanAgain
    BY <2>6 DEF ScanAgain, List!Next, List!Clear
  <2>. QED BY <1>2, <2>1, <2>2, <2>3, <2>4, <2>5, <2>6 DEF User
<1>3. ASSUME NEW k \in Calls, Callback(k) PROVE List!Next \/ store' = store
  BY <1>3 DEF Callback, ListDelayOver, DashRefresh, DashDelayOver, GeocodeDone,
     ServerHandles, ReplyLost, Recorded, Refused, OfflineDismissed, DismissDone,
     Announce, CodesSubmission, List!Next, List!Clear
<1>. QED BY <1>1, <1>2, <1>3 DEF Next

\* CodeSync implements ScanList: whatever the two submitters do, the table
\* grows by one new code below the limit, or shrinks by one code, or is
\* emptied (captureOutput, submitBTNSetup, removeScannedCode, clearTable).
THEOREM ImplementsList == Spec => BoundedList
<1>1. Init => List!Init
  BY FS_EmptySet, SameCardinality, LimitAssumption DEF Init, List!Init
<1>2. IInv /\ Finite /\ [Next]_vars => [List!Next]_store
  BY StepImplements
<1>. QED BY <1>1, <1>2, Invariance, AlwaysFinite, PTL DEF Spec, BoundedList, List!Spec

-----------------------------------------------------------------------------
(* How owed codes leave the table                                          *)

\* Only these steps take codes from the table.
LEMMA WhoDeletes ==
  ASSUME IInv, Next, NEW c \in store, c \notin store'
  PROVE  \/ RemoveCode(c)
         \/ ScanAgain /\ Held
         \/ \E k \in Calls : AlertOK(k) \/ DismissDone(k)
<1>1. CASE User
  <2>1. ASSUME NEW d \in Codes, RemoveCode(d) PROVE d = c
    BY <2>1 DEF RemoveCode
  <2>2. ASSUME ScanAgain PROVE Held
    BY <2>2 DEF ScanAgain
  <2>3. ASSUME \/ OpenScan \/ OpenList \/ CloseList \/ CloseScan \/ SyncLater \/ ClosePopup
               \/ \E d \in Codes : ScanCode(d) \/ TypeCode(d)
               \/ \E k \in Calls : SubmitList(k) \/ SyncNow(k) \/ CloseScanSubmitting(k)
        PROVE  FALSE
    BY <2>3 DEF OpenScan, OpenList, CloseList, CloseScan, SyncLater, LeaveScan, ClosePopup,
       ScanCode, TypeCode, Insert, SubmitList, SyncNow, CloseScanSubmitting, CodesSubmission
  <2>. QED BY <1>1, <2>1, <2>2, <2>3 DEF User
<1>2. CASE Reachability \/ Crash
  BY <1>2 DEF Reachability, Crash
<1>3. ASSUME NEW k \in Calls, Callback(k) PROVE DismissDone(k)
  BY <1>3 DEF Callback, ListDelayOver, CodesSubmission, DashRefresh, DashDelayOver,
     GeocodeDone, ServerHandles, ReplyLost, Recorded, Refused, OfflineDismissed, Announce
<1>. QED BY <1>1, <1>2, <1>3 DEF Next

\* An owed code leaves the table with the server's answer recorded, or at the
\* user's word, or by "Scan Again" while an earlier scan screen is held,
\* whatever was lost, late or killed before (clearTable, removeScannedCode).
THEOREM DeletionsAreNamed == Spec => DeletionsNamed
<1> DEFINE Named(c) == \/ c \in delivered \cap listed'
                       \/ screen = "list" /\ store' = store \ {c} /\ calls' = calls
                       \/ \E k \in Calls : calls[k].phase = "alert" /\ calls' = Ended(k)
                       \/ screen = "popup" /\ screen' = "scan" /\ Held
<1>1. ASSUME IInv, Next, NEW c \in owed \cap store, c \notin store'
      PROVE  Named(c)
  <2>1. ASSUME RemoveCode(c) PROVE Named(c)
    BY <2>1 DEF RemoveCode
  <2>2. ASSUME ScanAgain, Held PROVE Named(c)
    BY <2>2 DEF ScanAgain
  <2>3. ASSUME NEW k \in Calls, AlertOK(k) PROVE Named(c)
    BY <2>3 DEF AlertOK
  <2>4. ASSUME NEW k \in Calls, DismissDone(k) PROVE Named(c)
    <3>1. owed \cap store \subseteq delivered \cap listed
      BY <1>1, <2>4 DEF DismissDone, IInv, DismissalsSafe
    <3>. QED BY <1>1, <2>4, <3>1 DEF DismissDone
  <2>. QED BY <1>1, <2>1, <2>2, <2>3, <2>4, WhoDeletes
<1>2. IInv /\ [Next]_vars =>
        [\A c \in owed \cap store : c \notin store' => Named(c)]_vars
  BY <1>1
<1>. QED BY <1>2, Invariance, PTL DEF Spec, DeletionsNamed
=============================================================================
