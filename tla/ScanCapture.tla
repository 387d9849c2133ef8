----------------------------- MODULE ScanCapture -----------------------------
(***************************************************************************)
(* The scan screen (ScanOrUpload_VC) as it fills the table ScanCodeSTORE:  *)
(* camera frames, typed codes, the list of scanned codes over it.          *)
(*                                                                         *)
(* Frames are examined asynchronously: several may wait for the barcode    *)
(* detector when the first of them stops the capture session.  Online a    *)
(* detected code is inserted at once; offline the insertion is deferred to *)
(* a block of the main queue, which finds the code in a field, shared by   *)
(* all frames, and knows about duplicates what was true when it was queued.*)
(* Three flags decide what becomes of a frame: session (frames arrive),    *)
(* scannedStatus (they are looked at) and scaned (0: the next one is       *)
(* ignored and the flag set to 1 again).  The screen's own submission of   *)
(* the table stops the camera as well, and takes down whatever is presented*)
(* over the screen when its answer comes.                                  *)
(*                                                                         *)
(* Abstractions.  A row is a managed object: an identity and a code.  All  *)
(* texts of a wrong length are one value.  A frame shows one barcode or two*)
(* The UploadedCodes side of fetchDetails is in CodeSync, and so are what  *)
(* a submission sends and whom else it reaches: here are its effects on the*)
(* camera and the table, of one submission at a time.                      *)
(***************************************************************************)
EXTENDS Naturals, FiniteSets, Sequences

CONSTANTS
  Codes,      \* codes of 10 or 12 characters
  WrongLength,\* a text of another length
  RowIds,     \* bound: identities of rows
  Limit,      \* rows the table takes (20 in the code)
  MaxFrames,  \* bound: frames and insertions waiting when one more arrives
  MaxTimers,  \* bound: timers of one kind counted as pending
  Outages     \* bound: whether the connection ever changes

ASSUME CodesAssumption == WrongLength \notin Codes
ASSUME LimitAssumption == Limit \in Nat \ {0}
ASSUME BoundsAssumption == /\ MaxFrames \in Nat /\ MaxTimers \in Nat \ {0}
                           /\ Outages \in BOOLEAN

VARIABLES
  online,          \* what the reachability test answers
  store,           \* rows of ScanCodeSTORE
  codeLIST,        \* the rows as last fetched by the screen
  CapturedCodess,  \* text of the barcode examined last
  isScanned,       \* the camera mode is on
  shown,           \* the mode the button's title tells: TRUE for the camera,
                   \* FALSE for the text field
  session,         \* the capture session is running
  scannedStatus, scaned,
  frames,          \* frames waiting for the detector
  deferred,        \* main queue: one entry per deferred insertion, TRUE if
                   \* its code was a duplicate when it was queued
  restarts,        \* pending 1 s timers of restartScanning
  validations,     \* pending 0.3 s timers of Validation
  prompt,          \* what is presented over the screen
  overlay,         \* "Scan/upload limit exceeded" is shown
  submission       \* how far the screen's submission is

capture == <<isScanned, shown, session, scannedStatus, scaned>>
timers  == <<restarts, validations>>
vars == <<online, store, codeLIST, CapturedCodess, capture, frames, deferred,
          timers, prompt, overlay, submission>>

Texts == Codes \cup {WrongLength}

Row == [id : RowIds, code : Texts]

\* Alerts about a frame; alerts about the text field and the list of codes.
TextPrompts == {"typedDuplicate", "typedLength", "listOverText"}

\* "failed" is the alert of a refused submission; "leaving" stands for
\* whatever is being dismissed, "gone" for a screen dismissed itself.
Prompts == {"none", "duplicate", "length", "listOverCamera", "failed",
            "leaving", "gone"} \cup TextPrompts

\* The geocoder and the request; the dismissal before the success and before
\* the alert of a refusal.
Stages == {"none", "request", "accepted", "refused"}

TypeOK ==
  /\ online \in BOOLEAN
  /\ store \in SUBSET Row
  /\ codeLIST \in SUBSET Row
  /\ CapturedCodess \in Texts
  /\ isScanned \in BOOLEAN /\ shown \in BOOLEAN /\ session \in BOOLEAN
  /\ scannedStatus \in BOOLEAN /\ scaned \in {0, 1}
  /\ frames \in 0 .. MaxFrames
  /\ deferred \in Seq(BOOLEAN)
  /\ restarts \in 0 .. MaxTimers /\ validations \in 0 .. MaxTimers
  /\ prompt \in Prompts
  /\ overlay \in BOOLEAN
  /\ submission \in Stages

\* viewDidLoad and viewWillAppear, opened to scan or to type.
Init ==
  /\ online \in BOOLEAN /\ (~online => Outages)
  /\ store = {} /\ codeLIST = {}
  /\ CapturedCodess = WrongLength
  /\ isScanned \in BOOLEAN
  /\ shown = isScanned /\ session = isScanned /\ scannedStatus = isScanned
  /\ scaned = 1
  /\ frames = 0 /\ deferred = <<>>
  /\ restarts = 0 /\ validations = 0
  /\ prompt = "none" /\ overlay = FALSE /\ submission = "none"

-----------------------------------------------------------------------------
(* Helpers                                                                 *)

Listed(c) == \E r \in codeLIST : r.code = c

Full == Cardinality(codeLIST) >= Limit

Later(n) == IF n < MaxTimers THEN n + 1 ELSE n

\* Only one view controller can be presented at a time: while one is up the
\* next is not shown, and what its button would have done does not happen.
Present(p) == prompt' = IF prompt = "none" THEN p ELSE prompt

\* restartScanning, called with the rows st in the table and the flag on.
RestartScanning(st, on) ==
  /\ codeLIST' = st
  /\ IF on
       THEN restarts' = Later(restarts) /\ UNCHANGED <<shown, session>>
       ELSE restarts' = restarts /\ shown' = FALSE /\ session' = FALSE

ListOpen == prompt \in {"listOverCamera", "listOverText"}

\* A row for code c: saved, the list fetched, the camera stopped until the
\* restart timer fires.
CaptureRow(c) ==
  \E i \in RowIds :
    /\ \A r \in store \cup codeLIST : r.id # i
    /\ store' = store \cup {[id |-> i, code |-> c]}
    /\ scaned' = 0 /\ isScanned' = TRUE /\ scannedStatus' = FALSE
    /\ session' = FALSE
    /\ codeLIST' = store' /\ restarts' = Later(restarts) /\ UNCHANGED shown

-----------------------------------------------------------------------------
(* The camera                                                              *)

Reachability ==
  /\ Outages
  /\ online' = ~online
  /\ UNCHANGED <<submission, store, codeLIST, CapturedCodess, capture, frames,
                 deferred, timers, prompt, overlay>>

\* captureOutput hands a frame to the detector.
Frame ==
  /\ session /\ prompt # "gone" /\ frames + Len(deferred) < MaxFrames
  /\ frames' = frames + 1
  /\ UNCHANGED <<online, submission, store, codeLIST, CapturedCodess, capture,
                 deferred, timers, prompt, overlay>>

\* Mutant of FrameIgnored: the flag scaned is counted up.
FrameIgnoredCounting ==
  /\ frames > 0 /\ frames' = frames - 1
  /\ \/ ~scannedStatus /\ session' = FALSE /\ UNCHANGED scaned
     \/ scannedStatus /\ scaned' = scaned + 1 /\ UNCHANGED session
  /\ UNCHANGED <<online, submission, store, codeLIST, CapturedCodess,
                 isScanned, shown, scannedStatus, deferred, timers, prompt,
                 overlay>>

\* The detector calls back for a frame that is not looked at: scanning is
\* held back, there is no barcode in it, or it is the one to be ignored.
FrameIgnored ==
  /\ frames > 0 /\ frames' = frames - 1
  /\ \/ ~scannedStatus /\ session' = FALSE /\ UNCHANGED scaned
     \/ scannedStatus /\ UNCHANGED <<session, scaned>>
     \/ scannedStatus /\ scaned = 0 /\ scaned' = 1 /\ UNCHANGED session
  /\ UNCHANGED <<online, submission, store, codeLIST, CapturedCodess,
                 isScanned, shown, scannedStatus, deferred, timers, prompt,
                 overlay>>

Looking == frames > 0 /\ scannedStatus /\ scaned = 1

\* Barcodes of a wrong length, if any, come with an alert.
LengthAlert(wrong) == IF wrong THEN Present("length") ELSE prompt' = prompt

Valid(c) == c \in Codes

\* Offline: every readable barcode of the frame, bs, defers an insertion.
FrameOffline(bs) ==
  /\ Looking /\ ~online /\ ~Full
  /\ frames' = frames - 1 /\ session' = FALSE
  /\ CapturedCodess' = bs[Len(bs)]
  /\ \/ /\ \A i \in DOMAIN bs : Valid(bs[i])
        /\ deferred' = deferred \o [i \in DOMAIN bs |-> Listed(bs[i])]
        /\ LengthAlert(FALSE)
     \/ \E i, j \in DOMAIN bs :
          /\ Valid(bs[i]) /\ ~Valid(bs[j])
          /\ deferred' = Append(deferred, Listed(bs[i]))
          /\ LengthAlert(TRUE)
  /\ UNCHANGED <<online, submission, store, codeLIST, isScanned, shown,
                 scannedStatus, scaned, timers, overlay>>

\* Mutant of FrameOnline: the code is inserted without the duplicate test.
FrameOnlineUnchecked(c, wrong) ==
  /\ Looking /\ online /\ ~Full
  /\ frames' = frames - 1
  /\ CapturedCodess' = c
  /\ CaptureRow(c)
  /\ LengthAlert(wrong)
  /\ UNCHANGED <<online, submission, deferred, validations, overlay>>

\* Online the first readable barcode ends the loop; a barcode of a wrong
\* length may come before it (wrong).  A new code is inserted.
FrameOnline(c, wrong) ==
  /\ Looking /\ online /\ ~Full /\ ~Listed(c)
  /\ frames' = frames - 1
  /\ CapturedCodess' = c
  /\ CaptureRow(c)
  /\ LengthAlert(wrong)
  /\ UNCHANGED <<online, submission, deferred, validations, overlay>>

\* A code of the cached list: Validation.
FrameDuplicate(c, wrong) ==
  /\ Looking /\ Listed(c) /\ (online \/ Full)
  /\ frames' = frames - 1 /\ session' = FALSE
  /\ CapturedCodess' = c
  /\ scaned' = 0
  /\ validations' = Later(validations)
  /\ LengthAlert(wrong)
  /\ UNCHANGED <<online, submission, store, codeLIST, isScanned, shown,
                 scannedStatus, deferred, restarts, overlay>>

\* A new code, but the list is full.
FrameOverLimit(c, wrong) ==
  /\ Looking /\ Full /\ ~Listed(c)
  /\ frames' = frames - 1 /\ session' = FALSE
  /\ CapturedCodess' = c
  /\ overlay' = TRUE
  /\ LengthAlert(wrong)
  /\ UNCHANGED <<online, submission, store, codeLIST, isScanned, shown,
                 scannedStatus, scaned, deferred, timers>>

\* Nothing but barcodes of a wrong length.
FrameWrongLength ==
  /\ Looking
  /\ frames' = frames - 1 /\ session' = FALSE
  /\ CapturedCodess' = WrongLength
  /\ LengthAlert(TRUE)
  /\ UNCHANGED <<online, submission, store, codeLIST, isScanned, shown,
                 scannedStatus, scaned, deferred, timers, overlay>>

\* Mutant of DeferredInsert: the limit is not tested again.
DeferredInsertUnlimited ==
  /\ deferred # <<>>
  /\ deferred' = Tail(deferred)
  /\ \/ ~Head(deferred) /\ CaptureRow(CapturedCodess)
     \/ Head(deferred) /\ UNCHANGED <<store, codeLIST, capture, restarts>>
  /\ UNCHANGED <<online, submission, CapturedCodess, frames, validations,
                 prompt, overlay>>

\* A deferred insertion.  The limit is tested again, the duplicate is not;
\* the code inserted is the one captured last.
DeferredInsert ==
  /\ deferred # <<>>
  /\ deferred' = Tail(deferred)
  /\ \/ /\ Cardinality(codeLIST) = Limit
        /\ overlay' = TRUE
        /\ UNCHANGED <<store, codeLIST, capture, restarts>>
     \/ /\ Cardinality(codeLIST) # Limit /\ ~Head(deferred)
        /\ CaptureRow(CapturedCodess)
        /\ UNCHANGED overlay
     \/ /\ Cardinality(codeLIST) # Limit /\ Head(deferred)
        /\ UNCHANGED <<store, codeLIST, capture, restarts, overlay>>
  /\ UNCHANGED <<online, submission, CapturedCodess, frames, validations,
                 prompt>>

-----------------------------------------------------------------------------
(* Timers and prompts                                                      *)

RestartFires ==
  /\ restarts > 0 /\ restarts' = restarts - 1
  /\ scannedStatus' = TRUE /\ session' = TRUE /\ shown' = TRUE
  /\ UNCHANGED <<online, submission, store, codeLIST, CapturedCodess,
                 isScanned, scaned, frames, deferred, validations, prompt,
                 overlay>>

ValidationFires ==
  /\ validations > 0 /\ validations' = validations - 1
  /\ session' = FALSE
  /\ Present("duplicate")
  /\ UNCHANGED <<online, submission, store, codeLIST, CapturedCodess,
                 isScanned, shown, scannedStatus, scaned, frames, deferred,
                 restarts, overlay>>

\* Mutant of DuplicateOK: the notification is not posted.
DuplicateOKNoRestart ==
  /\ prompt = "duplicate" /\ prompt' = "none"
  /\ UNCHANGED <<online, submission, store, codeLIST, CapturedCodess, capture,
                 frames, deferred, timers, overlay>>

\* OK on "Code scanned successfully": restartScan is posted.
DuplicateOK ==
  /\ prompt = "duplicate" /\ prompt' = "none"
  /\ RestartScanning(store, isScanned)
  /\ UNCHANGED <<online, submission, store, CapturedCodess, isScanned,
                 scannedStatus, scaned, frames, deferred, validations,
                 overlay>>

LengthOK ==
  /\ prompt = "length" /\ prompt' = "none"
  /\ isScanned' = TRUE /\ session' = TRUE
  /\ UNCHANGED <<online, submission, store, codeLIST, CapturedCodess, shown,
                 scannedStatus, scaned, frames, deferred, timers, overlay>>

-----------------------------------------------------------------------------
(* The text field, the list of codes, the dashboard                        *)

\* Mutant of TypeCode: the limit is off by one.
TypeCodeOffByOne(c) ==
  /\ ~shown /\ prompt = "none"
  /\ \A r \in store : r.code # c
  /\ Cardinality(store) <= Limit
  /\ \E i \in RowIds :
       /\ \A r \in store : r.id # i
       /\ store' = store \cup {[id |-> i, code |-> c]}
  /\ RestartScanning(store', isScanned)
  /\ UNCHANGED <<online, submission, CapturedCodess, isScanned, scannedStatus,
                 scaned, frames, deferred, validations, prompt, overlay>>

\* submitBTNSetup with code c in the text field, the list freshly fetched:
\* inserted, or refused as a duplicate, or because the list is full.
TypeCode(c) ==
  /\ ~shown /\ prompt = "none"
  /\ \/ /\ \A r \in store : r.code # c
        /\ Cardinality(store) < Limit
        /\ \E i \in RowIds :
             /\ \A r \in store : r.id # i
             /\ store' = store \cup {[id |-> i, code |-> c]}
        /\ RestartScanning(store', isScanned)
        /\ UNCHANGED <<prompt, overlay>>
     \/ /\ \E r \in store : r.code = c
        /\ codeLIST' = store
        /\ prompt' = "typedDuplicate"
        /\ UNCHANGED <<store, shown, session, restarts, overlay>>
     \/ /\ \A r \in store : r.code # c
        /\ Cardinality(store) >= Limit
        /\ codeLIST' = store
        /\ overlay' = TRUE
        /\ session' = (session /\ ~online)
        /\ UNCHANGED <<store, shown, restarts, prompt>>
  /\ UNCHANGED <<online, submission, CapturedCodess, isScanned, scannedStatus,
                 scaned, frames, deferred, validations>>

TypeWrongLength ==
  /\ ~shown /\ prompt = "none"
  /\ codeLIST' = store
  /\ prompt' = "typedLength"
  /\ UNCHANGED <<online, submission, store, CapturedCodess, capture, frames,
                 deferred, timers, overlay>>

\* OK on an alert about the text field; the one about the length stops the
\* session once more.
TypedOK ==
  /\ prompt \in {"typedDuplicate", "typedLength"} /\ prompt' = "none"
  /\ session' = (session /\ prompt = "typedDuplicate")
  /\ UNCHANGED <<online, submission, store, codeLIST, CapturedCodess,
                 isScanned, shown, scannedStatus, scaned, frames, deferred,
                 timers, overlay>>

\* scanQRCode toggles between the text field and the camera.
Toggle ==
  /\ prompt = "none"
  /\ shown' = ~shown
  /\ isScanned' = ~shown /\ session' = ~shown
  /\ codeLIST' = store
  /\ IF shown THEN UNCHANGED <<scannedStatus, scaned>>
       ELSE scannedStatus' = TRUE /\ scaned' = 1
  /\ UNCHANGED <<online, submission, store, CapturedCodess, frames, deferred,
                 timers, prompt, overlay>>

\* scannedCodesButton.
OpenList ==
  /\ prompt = "none"
  /\ prompt' = IF shown THEN "listOverCamera" ELSE "listOverText"
  /\ session' = (session /\ ~shown)
  /\ UNCHANGED <<online, submission, store, codeLIST, CapturedCodess,
                 isScanned, shown, scannedStatus, scaned, frames, deferred,
                 timers, overlay>>

\* removeScannedCode of the list screen, which has a copy of its own.
RemoveRow(r) ==
  /\ ListOpen
  /\ store' = store \ {r}
  /\ UNCHANGED <<online, submission, codeLIST, CapturedCodess, capture, frames,
                 deferred, timers, prompt, overlay>>

\* Closing the list posts restartScan, except by the close button of a list
\* opened over the text field.
CloseList ==
  /\ ListOpen /\ prompt' = "none"
  /\ \/ RestartScanning(store, isScanned)
     \/ prompt = "listOverText" /\ UNCHANGED <<codeLIST, shown, session,
                                               restarts>>
  /\ UNCHANGED <<online, submission, store, CapturedCodess, isScanned,
                 scannedStatus, scaned, frames, deferred, validations,
                 overlay>>

\* The clearTable of the dashboard's own submission, or of an earlier scan
\* screen that something still holds, empties the table behind the screen's
\* back.
ClearedByDashboard ==
  /\ store' = {}
  /\ UNCHANGED <<online, submission, codeLIST, CapturedCodess, capture, frames,
                 deferred, timers, prompt, overlay>>

-----------------------------------------------------------------------------
(* The screen's own submission                                             *)

\* dismiss(animated:): of what is presented over the screen, whose buttons are
\* never pressed then, or of the screen itself when nothing is.
Dismiss == prompt' = IF prompt = "none" THEN "gone" ELSE "leaving"

\* Without a connection both are dismissed, one after the other, with a fetch
\* of the list in between (CodeSync tells the steps of this apart).
LeaveOffline ==
  /\ ~online
  /\ submission' = "none" /\ prompt' = "gone"
  /\ codeLIST' = store

\* codesSubmission.
CodesSubmission ==
  \/ /\ online /\ submission' = "request"
     /\ codeLIST' = store
     /\ session' = (session /\ ~shown)
     /\ UNCHANGED prompt
  \/ LeaveOffline /\ UNCHANGED session

\* Submit on the list of codes, which stays where it is: 0.3 s later, and less
\* than its closing takes, its notification arrives.
SubmitList ==
  /\ ListOpen /\ store # {} /\ submission = "none"
  /\ CodesSubmission
  /\ UNCHANGED <<online, store, CapturedCodess, isScanned, shown,
                 scannedStatus, scaned, frames, deferred, timers, overlay>>

\* syncNowActBTN of the overlay.
SyncNow ==
  /\ overlay /\ prompt = "none" /\ submission = "none"
  /\ CodesSubmission
  /\ UNCHANGED <<online, store, CapturedCodess, isScanned, shown,
                 scannedStatus, scaned, frames, deferred, timers, overlay>>

\* The geocoder answers without a connection (codesSubmissionsApi).
GeocodedOffline ==
  /\ submission = "request"
  /\ LeaveOffline
  /\ UNCHANGED <<online, store, CapturedCodess, capture, frames, deferred,
                 timers, overlay>>

\* An answer, with or without records: the camera is stopped.
Reply ==
  /\ submission = "request" /\ submission' \in {"accepted", "refused"}
  /\ isScanned' = FALSE /\ session' = FALSE
  /\ Dismiss
  /\ UNCHANGED <<online, store, codeLIST, CapturedCodess, shown, scannedStatus,
                 scaned, frames, deferred, timers, overlay>>

ReplyLost ==
  /\ submission = "request" /\ submission' = "none"
  /\ UNCHANGED <<online, store, codeLIST, CapturedCodess, capture, frames,
                 deferred, timers, prompt, overlay>>

\* The dismissal is over.  After a success the table is cleared and the screen
\* dismissed; a refusal is told, if the screen is still there.
Dismissed ==
  /\ submission \in {"accepted", "refused"} /\ submission' = "none"
  /\ \/ /\ submission = "accepted"
        /\ store' = {} /\ codeLIST' = {}
        /\ prompt' = "gone"
     \/ /\ submission = "refused"
        /\ prompt' = IF prompt = "leaving" THEN "failed" ELSE "gone"
        /\ UNCHANGED <<store, codeLIST>>
  /\ UNCHANGED <<online, CapturedCodess, capture, frames, deferred, timers,
                 overlay>>

\* OK on "QR Code Submission Failed" (of an app in one of its four languages):
\* the rows are thrown away.
FailedOK ==
  /\ prompt = "failed" /\ prompt' = "none"
  /\ store' = {} /\ codeLIST' = {}
  /\ UNCHANGED <<online, submission, CapturedCodess, capture, frames, deferred,
                 timers, overlay>>

-----------------------------------------------------------------------------
(* What the detector can find in one frame: one barcode or two.            *)
Found == {<<c>> : c \in Codes} \cup (Texts \X Texts \ {<<WrongLength, WrongLength>>})

Camera == \/ Frame \/ FrameIgnored \/ FrameWrongLength
          \/ \E bs \in Found : FrameOffline(bs)
          \/ \E c \in Codes, wrong \in BOOLEAN :
               \/ FrameOnline(c, wrong) \/ FrameDuplicate(c, wrong)
               \/ FrameOverLimit(c, wrong)
          \/ DeferredInsert \/ RestartFires \/ ValidationFires

User == \/ DuplicateOK \/ LengthOK \/ TypedOK \/ Toggle \/ OpenList \/ CloseList
        \/ TypeWrongLength \/ \E c \in Codes : TypeCode(c)
        \/ \E r \in store : RemoveRow(r)

Submission == \/ SubmitList \/ SyncNow \/ GeocodedOffline \/ Reply
              \/ ReplyLost \/ Dismissed \/ FailedOK

Next == Reachability \/ Camera \/ User \/ Submission \/ ClearedByDashboard

Spec == Init /\ [][Next]_vars

\* The main queue, its timers and animations, the geocoder and the request
\* make progress, and the user confirms alerts.
Fairness == /\ WF_vars(DeferredInsert)
            /\ WF_vars(RestartFires)
            /\ WF_vars(ValidationFires)
            /\ WF_vars(DuplicateOK \/ LengthOK)
            /\ WF_vars(\/ GeocodedOffline \/ Reply \/ ReplyLost \/ Dismissed)

-----------------------------------------------------------------------------
(* Properties                                                              *)

\* However many frames and deferred insertions are waiting when the list
\* fills up, the table never holds more rows than the limit
\* (captureOutput's two tests of codeLIST.count, submitBTNSetup's one).
LimitRespected == Cardinality(store) <= Limit

HasDuplicate(rows) == \E r, s \in rows : r # s /\ r.code = s.code

\* The scan screen's alert says "QR Code length should be 12 or 10": no other
\* text becomes a row of the table.
OnlyValidStored == \A r \in store : Valid(r.code)

\* A second row for a code, and a row of a wrong length, can only come from a
\* deferred insertion, whose duplicate test is out of date and whose text is
\* that of the barcode examined last: the insertions of an online frame and of
\* the text field keep the rows distinct and readable, after removals and the
\* dashboard's clearTable too.
DirtyOnlyDeferred ==
  [][(\/ HasDuplicate(store') /\ ~HasDuplicate(store)
      \/ ~OnlyValidStored' /\ OnlyValidStored)
        => Len(deferred') < Len(deferred)]_vars

\* The camera is on display and will never look at another frame.
Stalled == /\ shown /\ ~session /\ deferred = <<>>
           /\ restarts = 0 /\ validations = 0
           /\ prompt = "none" /\ ~overlay

\* The camera goes dead in three ways only: by the branch that has no else,
\* the deferred insertion of a duplicate (captureOutput); when a prompt of the
\* text mode is closed that was up while the restart timer brought the camera
\* back and kept the camera's own alert from being presented; and when the
\* alert of a refused submission is closed, whose OK clears the table and no
\* more (codesSubmission, submitCodesApi).
KnownStall == \/ Len(deferred') < Len(deferred)
              \/ prompt \in TextPrompts \cup {"failed"} /\ prompt' = "none"

StallOnlyDeferred == [][Stalled' /\ ~Stalled => KnownStall]_vars

\* Seen as a set of texts the table is the bounded list of ScanList.
List == INSTANCE ScanList WITH list <- {r.code : r \in store}, Codes <- Texts
BoundedList == List!Spec

\* Of a phone that stays online a stopped camera starts again or asks the
\* user, unless it came back behind a prompt of the text mode or the server
\* refused the codes (restartScanning, Validation, the alerts).
CameraResumes ==
  []online /\ [](shown => prompt \notin TextPrompts \cup {"failed"}) =>
    ((shown /\ ~session) ~> (session \/ ~shown \/ prompt # "none" \/ overlay))

\* While a phone is online, every row has a text of the right length and no
\* two rows have the same, however many frames, prompts and removals are
\* pending (captureOutput).
CleanWhileOnline ==
  []online => [](OnlyValidStored /\ ~HasDuplicate(store))
=============================================================================
