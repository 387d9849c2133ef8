-------------------------- MODULE ScanCapture_proofs --------------------------
(***************************************************************************)
(* The limit of ScanCapture, its types, what makes a duplicate row and what *)
(* stalls the camera, and that the table is the bounded list of ScanList:  *)
(* for any limit and any number of codes, rows, waiting frames and         *)
(* deferred insertions.                                                    *)
(***************************************************************************)
EXTENDS ScanCapture, TLAPS, FiniteSetTheorems

\* The limit is tested on the cached list, so the cached list must cover the
\* table and be bounded itself.  Where the deferred insertion tests for the
\* limit by equality, it is this bound that makes the test sufficient.
CacheBounded ==
  /\ store \subseteq codeLIST
  /\ IsFiniteSet(codeLIST)
  /\ Cardinality(codeLIST) <= Limit

LEMMA CacheBoundsStore == CacheBounded => LimitRespected
<1> SUFFICES ASSUME CacheBounded PROVE LimitRespected
  OBVIOUS
<1>1. /\ IsFiniteSet(store) /\ Cardinality(store) <= Cardinality(codeLIST)
  BY FS_Subset DEF CacheBounded
<1>2. Cardinality(store) \in Nat /\ Cardinality(codeLIST) \in Nat
  BY <1>1, FS_CardinalityType DEF CacheBounded
<1>. QED BY <1>1, <1>2, LimitAssumption DEF CacheBounded, LimitRespected

\* The list fetched is the table, or the table with a row more while the
\* list before it was below the limit.
LEMMA FetchBounded ==
  ASSUME CacheBounded, NEW rows, rows \subseteq store
  PROVE  IsFiniteSet(rows) /\ Cardinality(rows) <= Limit
<1>1. rows \subseteq codeLIST
  BY DEF CacheBounded
<1>2. IsFiniteSet(rows) /\ Cardinality(rows) <= Cardinality(codeLIST)
  BY <1>1, FS_Subset DEF CacheBounded
<1>3. Cardinality(rows) \in Nat /\ Cardinality(codeLIST) \in Nat
  BY <1>2, FS_CardinalityType DEF CacheBounded
<1>. QED BY <1>2, <1>3, LimitAssumption DEF CacheBounded

LEMMA AddBounded ==
  ASSUME CacheBounded, NEW row, Cardinality(store) < Limit
  PROVE  IsFiniteSet(store \cup {row}) /\ Cardinality(store \cup {row}) <= Limit
<1>1. IsFiniteSet(store) /\ Cardinality(store) \in Nat
  BY FetchBounded, FS_CardinalityType
<1>2. /\ IsFiniteSet(store \cup {row})
      /\ Cardinality(store \cup {row}) <= Cardinality(store) + 1
  BY <1>1, FS_AddElement
<1>3. Cardinality(store \cup {row}) \in Nat
  BY <1>2, FS_CardinalityType
<1>. QED BY <1>1, <1>2, <1>3, LimitAssumption

LEMMA BelowLimit ==
  ASSUME CacheBounded, ~Full \/ Cardinality(codeLIST) # Limit
  PROVE  Cardinality(store) < Limit
<1>1. /\ IsFiniteSet(store) /\ Cardinality(store) <= Cardinality(codeLIST)
  BY FS_Subset DEF CacheBounded
<1>2. Cardinality(store) \in Nat /\ Cardinality(codeLIST) \in Nat
  BY <1>1, FS_CardinalityType DEF CacheBounded
<1>. QED BY <1>1, <1>2, LimitAssumption DEF CacheBounded, Full

LEMMA CaptureBounded ==
  ASSUME CacheBounded, Cardinality(store) < Limit, NEW c, CaptureRow(c)
  PROVE  CacheBounded'
<1>1. PICK i \in RowIds : /\ store' = store \cup {[id |-> i, code |-> c]}
                          /\ codeLIST' = store'
  BY DEF CaptureRow
<1>. QED BY <1>1, AddBounded DEF CacheBounded

\* A step after which the cached list is what it was, or the table.
LEMMA ShrinkBounded ==
  ASSUME CacheBounded, store' \subseteq store, codeLIST' \in {codeLIST, store}
  PROVE  CacheBounded'
BY FetchBounded DEF CacheBounded

\* After a submission or its refusal nothing is listed.
LEMMA EmptyBounded ==
  ASSUME store' = {}, codeLIST' = {} PROVE CacheBounded'
BY FS_EmptySet, LimitAssumption DEF CacheBounded

LEMMA InitBounded == Init => CacheBounded
BY FS_EmptySet, LimitAssumption DEF Init, CacheBounded

LEMMA NextBounded == CacheBounded /\ [Next]_vars => CacheBounded'
<1> SUFFICES ASSUME CacheBounded, [Next]_vars PROVE CacheBounded'
  OBVIOUS
<1>1. CASE Reachability \/ ClearedByDashboard \/ UNCHANGED vars
  BY <1>1, ShrinkBounded DEF Reachability, ClearedByDashboard, vars
<1>2. CASE Camera
  <2>1. CASE \/ Frame \/ FrameIgnored \/ FrameWrongLength
             \/ \E bs \in Found : FrameOffline(bs)
             \/ \E c \in Codes, wrong \in BOOLEAN :
                  FrameDuplicate(c, wrong) \/ FrameOverLimit(c, wrong)
             \/ RestartFires \/ ValidationFires
    BY <2>1, ShrinkBounded DEF Frame, FrameIgnored, FrameWrongLength, FrameOffline,
       FrameDuplicate, FrameOverLimit, RestartFires, ValidationFires, timers
  <2>2. ASSUME NEW c \in Codes, NEW wrong \in BOOLEAN, FrameOnline(c, wrong)
        PROVE  CacheBounded'
    BY <2>2, BelowLimit, CaptureBounded DEF FrameOnline
  <2>3. CASE DeferredInsert
    <3>1. CASE Cardinality(codeLIST) # Limit /\ CaptureRow(CapturedCodess)
      BY <3>1, BelowLimit, CaptureBounded
    <3>2. CASE UNCHANGED <<store, codeLIST>>
      BY <3>2, ShrinkBounded
    <3>. QED BY <2>3, <3>1, <3>2 DEF DeferredInsert
  <2>. QED BY <1>2, <2>1, <2>2, <2>3 DEF Camera
<1>4. CASE Submission
  BY <1>4, ShrinkBounded, EmptyBounded DEF Submission, SubmitList, SyncNow,
     GeocodedOffline, Reply, ReplyLost, Dismissed, FailedOK, CodesSubmission,
     LeaveOffline
<1>3. CASE User
  <2>1. CASE DuplicateOK \/ LengthOK \/ TypedOK \/ Toggle \/ OpenList \/ CloseList
             \/ TypeWrongLength \/ \E r \in store : RemoveRow(r)
    BY <2>1, ShrinkBounded DEF DuplicateOK, LengthOK, TypedOK, Toggle, OpenList,
       CloseList, TypeWrongLength, RemoveRow, RestartScanning
  <2>2. ASSUME NEW c \in Codes, TypeCode(c) PROVE CacheBounded'
    <3>1. CASE store' = store /\ codeLIST' = store
      BY <3>1, ShrinkBounded
    <3>2. CASE /\ Cardinality(store) < Limit /\ codeLIST' = store'
               /\ \E i \in RowIds : store' = store \cup {[id |-> i, code |-> c]}
      <4>1. PICK i \in RowIds : store' = store \cup {[id |-> i, code |-> c]}
        BY <3>2
      <4>. QED BY <3>2, <4>1, AddBounded DEF CacheBounded
    <3>. QED BY <2>2, <3>1, <3>2 DEF TypeCode, RestartScanning
  <2>. QED BY <1>3, <2>1, <2>2 DEF User
<1>. QED BY <1>1, <1>2, <1>3, <1>4 DEF Next

\* However many frames and deferred insertions are waiting when the list
\* fills up, the table never holds more rows than the limit (captureOutput,
\* submitBTNSetup).
THEOREM LimitHolds == Spec => []LimitRespected
<1>1. Spec => []CacheBounded
  BY InitBounded, NextBounded, PTL DEF Spec
<1>. QED BY <1>1, CacheBoundsStore, PTL

LEMMA AlwaysBounded == Spec => []CacheBounded
BY InitBounded, NextBounded, PTL DEF Spec

-----------------------------------------------------------------------------
(* Types                                                                   *)

LEMMA TimersStay == \A n \in 0 .. MaxTimers : Later(n) \in 0 .. MaxTimers
BY BoundsAssumption DEF Later

LEMMA RestartTypes ==
  ASSUME TypeOK, NEW st \in SUBSET Row, NEW on \in BOOLEAN, RestartScanning(st, on)
  PROVE  /\ codeLIST' \in SUBSET Row /\ shown' \in BOOLEAN /\ session' \in BOOLEAN
         /\ restarts' \in 0 .. MaxTimers
BY TimersStay DEF RestartScanning, TypeOK

LEMMA CaptureTypes ==
  ASSUME TypeOK, NEW c \in Texts, CaptureRow(c)
  PROVE  /\ store' \in SUBSET Row /\ codeLIST' \in SUBSET Row
         /\ scaned' \in {0, 1} /\ isScanned' \in BOOLEAN /\ scannedStatus' \in BOOLEAN
         /\ shown' \in BOOLEAN /\ session' \in BOOLEAN /\ restarts' \in 0 .. MaxTimers
<1>1. PICK i \in RowIds : store' = store \cup {[id |-> i, code |-> c]}
  BY DEF CaptureRow
<1>2. [id |-> i, code |-> c] \in Row BY DEF Row
<1>3. store' \in SUBSET Row BY <1>1, <1>2 DEF TypeOK
<1> QED BY <1>3, TimersStay DEF CaptureRow, TypeOK

LEMMA PresentTypes ==
  \A p \in Prompts : TypeOK /\ Present(p) => prompt' \in Prompts
BY DEF Present, TypeOK

LEMMA AlertTypes ==
  \A wrong \in BOOLEAN : TypeOK /\ LengthAlert(wrong) => prompt' \in Prompts
BY PresentTypes DEF LengthAlert, Prompts, TypeOK

\* What the detector finds is one text or two, one of them readable.
LEMMA FoundTypes ==
  ASSUME NEW bs \in Found
  PROVE  /\ Len(bs) \in 1 .. 2 /\ DOMAIN bs = 1 .. Len(bs)
         /\ \A i \in DOMAIN bs : bs[i] \in Texts
<1>1. CASE \E c \in Codes : bs = <<c>> BY <1>1 DEF Texts
<1>2. CASE bs \in Texts \X Texts
  <2>1. PICK c \in Texts, d \in Texts : bs = <<c, d>> BY <1>2
  <2> QED BY <2>1
<1> QED BY <1>1, <1>2 DEF Found

LEMMA OfflineTypes ==
  ASSUME TypeOK, NEW bs \in Found, FrameOffline(bs)
  PROVE  /\ deferred' \in Seq(BOOLEAN) /\ CapturedCodess' \in Texts
         /\ prompt' \in Prompts
         /\ deferred' # <<>>
<1> USE FoundTypes, AlertTypes
<1>0. deferred \in Seq(BOOLEAN) BY DEF TypeOK
<1>1. CapturedCodess' \in Texts BY DEF FrameOffline
<1>2. CASE /\ deferred' = deferred \o [i \in DOMAIN bs |-> Listed(bs[i])]
           /\ LengthAlert(FALSE)
  <2> DEFINE more == [i \in 1 .. Len(bs) |-> Listed(bs[i])]
  <2>1. \A i \in 1 .. Len(bs) : Listed(bs[i]) \in BOOLEAN BY DEF Listed
  <2>2. more \in [1 .. Len(bs) -> BOOLEAN] BY <2>1
  <2>3. more \in Seq(BOOLEAN) /\ Len(more) = Len(bs) BY <2>2
  <2>4. deferred' = deferred \o more BY <1>2
  <2> HIDE DEF more
  <2>5. deferred' \in Seq(BOOLEAN) /\ Len(deferred') = Len(deferred) + Len(bs)
    BY <1>0, <2>3, <2>4
  <2>6. deferred' # <<>>
    <3>1. Len(deferred) \in Nat /\ Len(bs) > 0 BY <1>0
    <3>2. Len(deferred') # 0 BY <2>5, <3>1
    <3>3. Len(<<>>) = 0 OBVIOUS
    <3> QED BY <3>2, <3>3
  <2>7. prompt' \in Prompts BY <1>2
  <2> QED BY <1>1, <2>5, <2>6, <2>7
<1>3. CASE \E i, j \in DOMAIN bs :
             deferred' = Append(deferred, Listed(bs[i])) /\ LengthAlert(TRUE)
  <2>1. PICK i \in DOMAIN bs :
          deferred' = Append(deferred, Listed(bs[i])) /\ LengthAlert(TRUE)
    BY <1>3
  <2>2. Listed(bs[i]) \in BOOLEAN BY DEF Listed
  <2> HIDE DEF Listed
  <2>3. deferred' \in Seq(BOOLEAN) /\ deferred' # <<>> BY <1>0, <2>1, <2>2
  <2> QED BY <1>1, <2>1, <2>3
<1> QED BY <1>2, <1>3 DEF FrameOffline

LEMMA InitTypes == Init => TypeOK
<1>1. 0 \in 0 .. MaxFrames /\ 0 \in 0 .. MaxTimers BY BoundsAssumption
<1>2. <<>> \in Seq(BOOLEAN) OBVIOUS
<1> QED BY <1>1, <1>2 DEF Init, TypeOK, Texts, Prompts, Stages

LEMMA CameraTypes == TypeOK /\ Camera => TypeOK'
<1> SUFFICES ASSUME TypeOK, Camera PROVE TypeOK'
  OBVIOUS
<1> USE DEF timers, capture
<1>0. /\ frames > 0 => frames - 1 \in 0 .. MaxFrames
      /\ restarts > 0 => restarts - 1 \in 0 .. MaxTimers
      /\ validations > 0 => validations - 1 \in 0 .. MaxTimers
      /\ Later(validations) \in 0 .. MaxTimers
  BY BoundsAssumption, TimersStay DEF TypeOK
<1>1. CASE Frame
  <2>1. frames + Len(deferred) < MaxFrames /\ Len(deferred) \in Nat /\ frames \in Nat
    BY <1>1 DEF Frame, TypeOK
  <2>2. frames + 1 \in 0 .. MaxFrames BY <2>1, BoundsAssumption
  <2> QED BY <1>1, <2>2 DEF Frame, TypeOK
<1>2. CASE FrameIgnored
  BY <1>0, <1>2 DEF FrameIgnored, TypeOK
<1>3. CASE FrameWrongLength
  BY <1>0, <1>3, AlertTypes DEF FrameWrongLength, Looking, TypeOK, Texts
<1>4. ASSUME NEW bs \in Found, FrameOffline(bs) PROVE TypeOK'
  BY <1>0, <1>4, OfflineTypes DEF FrameOffline, Looking, TypeOK
<1>5. ASSUME NEW c \in Codes, NEW wrong \in BOOLEAN, FrameOnline(c, wrong) PROVE TypeOK'
  <2>1. c \in Texts BY DEF Texts
  <2> QED BY <1>0, <1>5, <2>1, CaptureTypes, AlertTypes DEF FrameOnline, Looking, TypeOK
<1>6. ASSUME NEW c \in Codes, NEW wrong \in BOOLEAN, FrameDuplicate(c, wrong) PROVE TypeOK'
  BY <1>0, <1>6, AlertTypes DEF FrameDuplicate, Looking, TypeOK, Texts
<1>7. ASSUME NEW c \in Codes, NEW wrong \in BOOLEAN, FrameOverLimit(c, wrong) PROVE TypeOK'
  BY <1>0, <1>7, AlertTypes DEF FrameOverLimit, Looking, TypeOK, Texts
<1>8. CASE DeferredInsert
  <2>0. \A q \in Seq(BOOLEAN) : q # <<>> => Tail(q) \in Seq(BOOLEAN)
    OBVIOUS
  <2>1. deferred' \in Seq(BOOLEAN) BY <1>8, <2>0 DEF DeferredInsert, TypeOK
  <2>2. CASE CaptureRow(CapturedCodess) /\ UNCHANGED overlay
    BY <1>8, <2>1, <2>2, CaptureTypes DEF DeferredInsert, TypeOK
  <2>3. CASE UNCHANGED <<store, codeLIST, capture, restarts>> /\ overlay' \in {TRUE, overlay}
    BY <1>8, <2>1, <2>3 DEF DeferredInsert, TypeOK
  <2> QED BY <1>8, <2>2, <2>3 DEF DeferredInsert
<1>9. CASE RestartFires
  BY <1>0, <1>9 DEF RestartFires, TypeOK
<1>10. CASE ValidationFires
  BY <1>0, <1>10, PresentTypes DEF ValidationFires, TypeOK, Prompts
<1> QED BY <1>1, <1>2, <1>3, <1>4, <1>5, <1>6, <1>7, <1>8, <1>9, <1>10 DEF Camera

LEMMA UserTypes == TypeOK /\ User => TypeOK'
<1> SUFFICES ASSUME TypeOK, User PROVE TypeOK'
  OBVIOUS
<1> USE DEF timers, capture, Prompts, TextPrompts
<1>0. store \in SUBSET Row /\ isScanned \in BOOLEAN BY DEF TypeOK
<1>1. CASE DuplicateOK
  BY <1>0, <1>1, RestartTypes DEF DuplicateOK, TypeOK
<1>2. CASE LengthOK \/ TypedOK \/ OpenList
  BY <1>2 DEF LengthOK, TypedOK, OpenList, TypeOK
<1>3. CASE Toggle \/ TypeWrongLength
  BY <1>3 DEF Toggle, TypeWrongLength, TypeOK
<1>4. CASE CloseList
  BY <1>0, <1>4, RestartTypes DEF CloseList, TypeOK
<1>5. ASSUME NEW c \in Codes, TypeCode(c) PROVE TypeOK'
  <2>1. CASE /\ \E i \in RowIds : store' = store \cup {[id |-> i, code |-> c]}
             /\ RestartScanning(store', isScanned)
             /\ UNCHANGED <<prompt, overlay>>
    <3>1. PICK i \in RowIds : store' = store \cup {[id |-> i, code |-> c]} BY <2>1
    <3>2. [id |-> i, code |-> c] \in Row BY DEF Row, Texts
    <3>3. store' \in SUBSET Row BY <1>0, <3>1, <3>2
    <3> QED BY <1>0, <1>5, <2>1, <3>3, RestartTypes DEF TypeCode, TypeOK
  <2>2. CASE /\ codeLIST' = store /\ prompt' = "typedDuplicate"
             /\ UNCHANGED <<store, shown, session, restarts, overlay>>
    BY <1>5, <2>2 DEF TypeCode, TypeOK
  <2>3. CASE /\ codeLIST' = store /\ overlay' = TRUE
             /\ session' = (session /\ ~online)
             /\ UNCHANGED <<store, shown, restarts, prompt>>
    BY <1>5, <2>3 DEF TypeCode, TypeOK
  <2> QED BY <1>5, <2>1, <2>2, <2>3 DEF TypeCode
<1>6. ASSUME NEW r \in store, RemoveRow(r) PROVE TypeOK'
  BY <1>6 DEF RemoveRow, TypeOK
<1> QED BY <1>1, <1>2, <1>3, <1>4, <1>5, <1>6 DEF User

LEMMA SubmissionTypes == TypeOK /\ Submission => TypeOK'
<1> SUFFICES ASSUME TypeOK, Submission PROVE TypeOK'
  OBVIOUS
<1> USE DEF timers, capture, Prompts, Stages, TextPrompts, TypeOK
<1>1. CASE SubmitList \/ SyncNow \/ GeocodedOffline
  BY <1>1 DEF SubmitList, SyncNow, GeocodedOffline, CodesSubmission, LeaveOffline
<1>2. CASE Reply \/ ReplyLost
  BY <1>2 DEF Reply, ReplyLost, Dismiss
<1>3. CASE Dismissed \/ FailedOK
  BY <1>3 DEF Dismissed, FailedOK
<1> QED BY <1>1, <1>2, <1>3 DEF Submission

LEMMA NextTypes == TypeOK /\ [Next]_vars => TypeOK'
<1>1. TypeOK /\ (Reachability \/ ClearedByDashboard \/ UNCHANGED vars) => TypeOK'
  BY DEF Reachability, ClearedByDashboard, vars, TypeOK, capture, timers
<1> QED BY <1>1, CameraTypes, UserTypes, SubmissionTypes DEF Next

\* Every variable keeps its type, the numbers of pending frames and timers
\* included.
THEOREM TypeCorrect == Spec => []TypeOK
BY InitTypes, NextTypes, PTL DEF Spec

-----------------------------------------------------------------------------
(* What a step does to the rows                                            *)

\* A step leaves the rows alone, or some of them, or adds one below the limit:
\* one with a new code, or a deferred insertion of the text captured last.
LEMMA RowSteps ==
  ASSUME CacheBounded, Next
  PROVE  \/ store' \in {store, {}}
         \/ \E r \in store : store' = store \ {r}
         \/ /\ Cardinality(store) < Limit
            /\ \E i \in RowIds :
                 \/ /\ deferred # <<>> /\ deferred' = Tail(deferred)
                    /\ store' = store \cup {[id |-> i, code |-> CapturedCodess]}
                 \/ \E c \in Codes : /\ \A r \in store : r.code # c
                                     /\ store' = store \cup {[id |-> i, code |-> c]}
<1>1. CASE Reachability \/ ClearedByDashboard \/ Submission
  BY <1>1 DEF Reachability, ClearedByDashboard, Submission, SubmitList, SyncNow,
     GeocodedOffline, Reply, ReplyLost, Dismissed, FailedOK
<1>2. CASE Camera
  <2>1. CASE \/ Frame \/ FrameIgnored \/ FrameWrongLength
             \/ \E bs \in Found : FrameOffline(bs)
             \/ \E c \in Codes, wrong \in BOOLEAN :
                  FrameDuplicate(c, wrong) \/ FrameOverLimit(c, wrong)
             \/ RestartFires \/ ValidationFires
    BY <2>1 DEF Frame, FrameIgnored, FrameWrongLength, FrameOffline,
       FrameDuplicate, FrameOverLimit, RestartFires, ValidationFires
  <2>2. ASSUME NEW c \in Codes, NEW wrong \in BOOLEAN, FrameOnline(c, wrong)
        PROVE  /\ Cardinality(store) < Limit
               /\ \E i \in RowIds : /\ \A r \in store : r.code # c
                                    /\ store' = store \cup {[id |-> i, code |-> c]}
    <3>1. Cardinality(store) < Limit BY <2>2, BelowLimit DEF FrameOnline
    <3>2. \A r \in store : r.code # c BY <2>2 DEF FrameOnline, Listed, CacheBounded
    <3> QED BY <2>2, <3>1, <3>2 DEF FrameOnline, CaptureRow
  <2>3. CASE DeferredInsert
    <3>1. CASE Cardinality(codeLIST) # Limit /\ CaptureRow(CapturedCodess)
      BY <2>3, <3>1, BelowLimit DEF DeferredInsert, CaptureRow
    <3>2. CASE UNCHANGED store BY <3>2
    <3> QED BY <2>3, <3>1, <3>2 DEF DeferredInsert
  <2> QED BY <1>2, <2>1, <2>2, <2>3 DEF Camera
<1>3. CASE User
  <2>1. CASE DuplicateOK \/ LengthOK \/ TypedOK \/ Toggle \/ OpenList \/ CloseList
             \/ TypeWrongLength
    BY <2>1 DEF DuplicateOK, LengthOK, TypedOK, Toggle, OpenList, CloseList, TypeWrongLength
  <2>2. ASSUME NEW r \in store, RemoveRow(r) PROVE store' = store \ {r}
    BY <2>2 DEF RemoveRow
  <2>3. ASSUME NEW c \in Codes, TypeCode(c), store' # store
        PROVE  /\ Cardinality(store) < Limit
               /\ \E i \in RowIds : /\ \A r \in store : r.code # c
                                    /\ store' = store \cup {[id |-> i, code |-> c]}
    BY <2>3 DEF TypeCode
  <2> QED BY <1>3, <2>1, <2>2, <2>3 DEF User
<1> QED BY <1>1, <1>2, <1>3 DEF Next

\* A second row for a code, or one of a wrong length, comes from a deferred
\* insertion only, whatever was removed or cleared between the test for
\* duplicates and the insertion (captureOutput, submitBTNSetup).
THEOREM DirtIsDeferred == Spec => DirtyOnlyDeferred
<1> DEFINE Dirtied == \/ HasDuplicate(store') /\ ~HasDuplicate(store)
                      \/ ~OnlyValidStored' /\ OnlyValidStored
<1>1. ASSUME TypeOK, CacheBounded, Next, Dirtied
      PROVE  Len(deferred') < Len(deferred)
  <2>1. CASE store' \in {store, {}} \/ \E r \in store : store' = store \ {r}
    BY <1>1, <2>1 DEF HasDuplicate, OnlyValidStored
  <2>2. CASE deferred # <<>> /\ deferred' = Tail(deferred)
    BY <1>1, <2>2 DEF TypeOK
  <2>3. ASSUME NEW c \in Codes, NEW i \in RowIds, \A r \in store : r.code # c,
               store' = store \cup {[id |-> i, code |-> c]}
        PROVE  FALSE
    BY <1>1, <2>3 DEF HasDuplicate, OnlyValidStored, Valid
  <2> QED BY <1>1, <2>1, <2>2, <2>3, RowSteps
<1>2. TypeOK /\ CacheBounded /\ [Next]_vars =>
        [Dirtied => Len(deferred') < Len(deferred)]_vars
  BY <1>1
<1> QED BY <1>2, TypeCorrect, AlwaysBounded, PTL DEF Spec, DirtyOnlyDeferred

\* What holds from the opening of the screen for as long as it is online:
\* nothing was deferred, and so no row was inserted after a stale test.
Undeferred == deferred = <<>> /\ OnlyValidStored /\ ~HasDuplicate(store)

LEMMA OnlineDefersNothing ==
  ASSUME deferred = <<>>, online, [Next]_vars
  PROVE  deferred' = <<>>
<1>1. CASE Camera
  BY <1>1 DEF Camera, Frame, FrameIgnored, FrameWrongLength, FrameOffline, FrameOnline,
     FrameDuplicate, FrameOverLimit, DeferredInsert, RestartFires, ValidationFires
<1>2. CASE User
  BY <1>2 DEF User, DuplicateOK, LengthOK, TypedOK, Toggle, OpenList, CloseList,
     TypeWrongLength, TypeCode, RemoveRow
<1>3. CASE Reachability \/ ClearedByDashboard \/ Submission \/ UNCHANGED vars
  BY <1>3 DEF Reachability, ClearedByDashboard, Submission, SubmitList, SyncNow,
     GeocodedOffline, Reply, ReplyLost, Dismissed, FailedOK, vars
<1> QED BY <1>1, <1>2, <1>3 DEF Next

LEMMA UndeferredStep ==
  CacheBounded /\ online /\ Undeferred /\ [Next]_vars => Undeferred'
<1> SUFFICES ASSUME CacheBounded, online, Undeferred, [Next]_vars PROVE Undeferred'
  OBVIOUS
<1>1. deferred' = <<>> BY OnlineDefersNothing DEF Undeferred
<1>2. CASE store' \in {store, {}} \/ \E r \in store : store' = store \ {r}
  BY <1>1, <1>2 DEF Undeferred, HasDuplicate, OnlyValidStored
<1>3. ASSUME NEW c \in Codes, NEW i \in RowIds, \A r \in store : r.code # c,
             store' = store \cup {[id |-> i, code |-> c]}
      PROVE  Undeferred'
  BY <1>1, <1>3 DEF Undeferred, HasDuplicate, OnlyValidStored, Valid
<1>4. CASE UNCHANGED vars BY <1>2, <1>4 DEF vars
<1> QED BY <1>2, <1>3, <1>4, RowSteps DEF Undeferred

\* On a phone that is online throughout, the rows stay distinct and readable,
\* however many frames wait for the detector and whatever the dashboard and
\* the list of codes delete (captureOutput, submitBTNSetup).
THEOREM OnlineStaysClean == Spec => CleanWhileOnline
<1>1. Init => Undeferred
  BY DEF Init, Undeferred, OnlyValidStored, HasDuplicate
<1>2. Undeferred => OnlyValidStored /\ ~HasDuplicate(store)
  BY DEF Undeferred
<1> QED BY <1>1, <1>2, UndeferredStep, AlwaysBounded, PTL DEF Spec, CleanWhileOnline

-----------------------------------------------------------------------------
(* The bounded list                                                        *)

TextsOf(rows) == {r.code : r \in rows}

LEMMA FewerTexts ==
  ASSUME NEW rows, IsFiniteSet(rows)
  PROVE  IsFiniteSet(TextsOf(rows)) /\ Cardinality(TextsOf(rows)) <= Cardinality(rows)
<1> DEFINE f == [r \in rows |-> r.code]
<1>1. f \in [rows -> TextsOf(rows)] BY DEF TextsOf
<1>2. f \in Surjection(rows, TextsOf(rows)) BY <1>1 DEF TextsOf, Surjection
<1> QED BY <1>2, FS_Surjection

\* The instance brings its own copy of Cardinality, of the same definition.
LEMMA SameCardinality ==
  ASSUME NEW S PROVE List!Cardinality(S) = Cardinality(S)
BY DEF List!Cardinality, Cardinality

LEMMA AddsText ==
  ASSUME CacheBounded, Cardinality(store) < Limit, NEW c \in Texts, NEW i,
         store' = store \cup {[id |-> i, code |-> c]}
  PROVE  [List!Next]_(TextsOf(store))
<1> DEFINE row == [id |-> i, code |-> c]
<1>0. row.code = c /\ store' = store \cup {row} OBVIOUS
<1> HIDE DEF row
<1>1. TextsOf(store)' = TextsOf(store) \cup {c} BY <1>0 DEF TextsOf
<1>2. CASE c \in TextsOf(store) BY <1>1, <1>2
<1>3. CASE c \notin TextsOf(store)
  <2>1. IsFiniteSet(store) /\ Cardinality(store) \in Nat
    BY FetchBounded, FS_CardinalityType
  <2>2. /\ Cardinality(TextsOf(store)) <= Cardinality(store)
        /\ Cardinality(TextsOf(store)) \in Nat
    BY <2>1, FewerTexts, FS_CardinalityType
  <2>3. Cardinality(TextsOf(store)) < Limit BY <2>1, <2>2, LimitAssumption
  <2>4. List!Add BY <1>1, <1>3, <2>3, SameCardinality DEF List!Add, TextsOf
  <2> QED BY <2>4 DEF List!Next
<1> QED BY <1>2, <1>3

LEMMA RemovesText ==
  ASSUME NEW r \in store, store' = store \ {r}
  PROVE  [List!Next]_(TextsOf(store))
<1>1. TextsOf(store)' \in {TextsOf(store), TextsOf(store) \ {r.code}} BY DEF TextsOf
<1>2. r.code \in TextsOf(store) BY DEF TextsOf
<1>3. CASE TextsOf(store)' = TextsOf(store) \ {r.code}
  BY <1>2, <1>3 DEF List!Next, List!Remove, TextsOf
<1> QED BY <1>1, <1>3

\* ScanCapture implements ScanList: however insertions, removals and the
\* dashboard's clearTable interleave, the texts of the rows grow by one below
\* the limit, or shrink by one, or are gone (captureOutput, submitBTNSetup,
\* removeScannedCode, clearTable).
THEOREM ImplementsList == Spec => BoundedList
<1>1. ASSUME Init PROVE List!Init
  <2>1. {r.code : r \in store} = {} BY <1>1 DEF Init
  <2>2. List!Cardinality({}) = 0 BY FS_EmptySet, SameCardinality
  <2> QED BY <2>1, <2>2, LimitAssumption DEF List!Init
<1>2. ASSUME TypeOK, CacheBounded, [Next]_vars PROVE [List!Next]_(TextsOf(store))
  <2>1. CASE store' = store BY <2>1 DEF TextsOf
  <2>2. CASE store' = {}
    BY <2>2 DEF List!Next, List!Clear, TextsOf
  <2>3. CASE \E r \in store : store' = store \ {r} BY <2>3, RemovesText
  <2>4. CASE /\ Cardinality(store) < Limit
             /\ \E i \in RowIds, c \in Texts : store' = store \cup {[id |-> i, code |-> c]}
    BY <1>2, <2>4, AddsText
  <2>5. Codes \subseteq Texts /\ CapturedCodess \in Texts BY <1>2 DEF Texts, TypeOK
  <2> QED BY <1>2, <2>1, <2>2, <2>3, <2>4, <2>5, RowSteps DEF vars
<1>3. TypeOK /\ CacheBounded /\ [Next]_vars => [List!Next]_{r.code : r \in store}
  BY <1>2 DEF TextsOf
<1> QED BY <1>1, <1>3, TypeCorrect, AlwaysBounded, PTL DEF Spec, BoundedList, List!Spec

-----------------------------------------------------------------------------
(* What stalls the camera                                                  *)

\* While the camera is on display and frames are not looked at, the timer
\* that changes this is running.
HeldBack == shown /\ ~scannedStatus => restarts > 0

LEMMA Counted == \A n \in 0 .. MaxTimers : Later(n) > 0
BY BoundsAssumption DEF Later

LEMMA HeldBackStep == TypeOK /\ HeldBack /\ [Next]_vars => HeldBack'
<1> SUFFICES ASSUME TypeOK, HeldBack, [Next]_vars PROVE HeldBack'
  OBVIOUS
<1> USE DEF capture, timers
<1>1. restarts \in 0 .. MaxTimers /\ Later(restarts) > 0 BY Counted DEF TypeOK
<1>2. CASE UNCHANGED <<shown, scannedStatus, restarts>> BY <1>2 DEF HeldBack
<1>3. CASE shown' => restarts' = Later(restarts) BY <1>1, <1>3 DEF HeldBack
<1>4. CASE shown' => scannedStatus' BY <1>4 DEF HeldBack
<1>5. CASE Camera
  BY <1>2, <1>3, <1>4, <1>5 DEF Camera, Frame, FrameIgnored, FrameWrongLength,
     FrameOffline, FrameOnline, FrameDuplicate, FrameOverLimit, DeferredInsert,
     RestartFires, ValidationFires, CaptureRow, RestartScanning
<1>6. CASE User
  BY <1>2, <1>3, <1>4, <1>6 DEF User, DuplicateOK, LengthOK, TypedOK, Toggle,
     OpenList, CloseList, TypeWrongLength, TypeCode, RemoveRow, RestartScanning
<1>7. CASE Reachability \/ ClearedByDashboard \/ Submission \/ UNCHANGED vars
  BY <1>2, <1>7 DEF Reachability, ClearedByDashboard, Submission, SubmitList,
     SyncNow, GeocodedOffline, Reply, ReplyLost, Dismissed, FailedOK, vars
<1> QED BY <1>5, <1>6, <1>7 DEF Next

\* The camera goes dead with the deferred insertion of a duplicate, which has
\* no else branch, behind a prompt of the text mode, and after a refused
\* submission: in no other way, whatever alerts are kept from being presented
\* and whenever the submission stops it (captureOutput, Validation,
\* codesSubmission, submitCodesApi).
THEOREM StallsAreKnown == Spec => StallOnlyDeferred
<1>1. Init => HeldBack BY DEF Init, HeldBack
<1>2. Spec => []HeldBack BY <1>1, HeldBackStep, TypeCorrect, PTL DEF Spec
<1>3. ASSUME TypeOK, HeldBack, Next, Stalled', ~Stalled
      PROVE  KnownStall
  <2> USE <1>3 DEF capture, timers
  <2>0. Later(restarts) > 0 /\ Later(validations) > 0 BY Counted DEF TypeOK
  <2>1. \/ deferred' # <<>> \/ session' \/ ~shown' \/ prompt' # "none" \/ overlay'
        \/ restarts' = Later(restarts) \/ validations' = Later(validations)
        \/ session' = FALSE /\ UNCHANGED <<shown, scannedStatus, restarts>> /\ ~scannedStatus
        \/ UNCHANGED <<shown, session, deferred, restarts, validations, prompt, overlay>>
        \/ KnownStall
    <3>1. CASE Camera
      <4>1. CASE DeferredInsert
        <5>1. \A q \in Seq(BOOLEAN) : q # <<>> => Len(Tail(q)) < Len(q) OBVIOUS
        <5> QED BY <4>1, <5>1 DEF DeferredInsert, TypeOK, KnownStall
      <4>2. ASSUME NEW bs \in Found, FrameOffline(bs) PROVE deferred' # <<>>
        BY <4>2, OfflineTypes
      <4>3. CASE FrameIgnored BY <4>3 DEF FrameIgnored
      <4>4. CASE \/ Frame \/ FrameWrongLength \/ RestartFires \/ ValidationFires
                 \/ \E c \in Codes, wrong \in BOOLEAN :
                      \/ FrameOnline(c, wrong) \/ FrameDuplicate(c, wrong)
                      \/ FrameOverLimit(c, wrong)
        BY <4>4 DEF Frame, FrameWrongLength, FrameOnline, FrameDuplicate,
           FrameOverLimit, RestartFires, ValidationFires, CaptureRow,
           RestartScanning, LengthAlert, Present
      <4> QED BY <3>1, <4>1, <4>2, <4>3, <4>4 DEF Camera
    <3>2. CASE User
      BY <3>2 DEF User, DuplicateOK, LengthOK, TypedOK, Toggle, OpenList, CloseList,
         TypeWrongLength, TypeCode, RemoveRow, RestartScanning, TextPrompts, KnownStall
    <3>3. CASE Reachability \/ ClearedByDashboard
      BY <3>3 DEF Reachability, ClearedByDashboard
    <3>4. CASE Submission
      <4>1. CASE SubmitList \/ SyncNow
        BY <4>1 DEF SubmitList, SyncNow, CodesSubmission, LeaveOffline, ListOpen
      <4>2. CASE GeocodedOffline \/ Reply \/ ReplyLost \/ Dismissed
        BY <4>2 DEF GeocodedOffline, LeaveOffline, Reply, Dismiss, ReplyLost, Dismissed
      <4>3. CASE FailedOK
        BY <4>3 DEF FailedOK, KnownStall
      <4> QED BY <3>4, <4>1, <4>2, <4>3 DEF Submission
    <3> QED BY <3>1, <3>2, <3>3, <3>4 DEF Next
  <2>2. CASE \/ deferred' # <<>> \/ session' \/ ~shown' \/ prompt' # "none" \/ overlay'
             \/ restarts' = Later(restarts) \/ validations' = Later(validations)
    BY <2>0, <2>2 DEF Stalled
  <2>3. CASE session' = FALSE /\ UNCHANGED <<shown, scannedStatus, restarts>> /\ ~scannedStatus
    BY <2>3 DEF Stalled, HeldBack
  <2>4. CASE UNCHANGED <<shown, session, deferred, restarts, validations, prompt, overlay>>
    BY <2>4 DEF Stalled
  <2> QED BY <2>1, <2>2, <2>3, <2>4
<1>4. TypeOK /\ HeldBack /\ [Next]_vars =>
        [Stalled' /\ ~Stalled => KnownStall]_vars
  BY <1>3
<1> QED BY <1>2, <1>4, TypeCorrect, PTL DEF Spec, StallOnlyDeferred
=============================================================================
