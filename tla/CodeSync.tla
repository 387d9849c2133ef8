------------------------------ MODULE CodeSync ------------------------------
(***************************************************************************)
(* Synchronisation of the scanned codes with the server.                   *)
(*                                                                         *)
(* Two submitters share one CoreData table of scanned codes, ScanCodeSTORE:*)
(*   - "scan": the scan screen (ScanOrUpload_VC with its view model), which*)
(*     also fills the table and keeps it in a cached array, codeLIST;      *)
(*   - "dash": the dashboard (EBC_DashboardVC, and the same code again in  *)
(*     EBC_Dashboard_2_VC), which uploads the table on its own whenever it *)
(*     has been refreshed.                                                 *)
(* A submission is a chain of callbacks: a 0.3 s delay, a reverse geocoding*)
(* request, the HTTP request, the bookkeeping of the reply, the completion *)
(* of a dismissal, in which the WHOLE table is deleted, and the completion *)
(* of a second dismissal, which puts the popup up.  Only the two tables    *)
(* survive a crash.                                                        *)
(*                                                                         *)
(* Abstractions.  Rows of equal code in a table are one element of a set   *)
(* (ScanCapture keeps them apart).  The dictionary parameterJSON is set    *)
(* right after newproductArray grows and at no other time, so it is        *)
(* represented by newproductArray.  A code is a model value; latitude,     *)
(* longitude and address travel with it unread.  Scan screens that are     *)
(* gone and still held by a closure are taken as one, which lives as long  *)
(* as any of them.  Bound: it does not answer CodeSubmission.  Held by the *)
(* geocoder it could only repeat the codes of its first request and add    *)
(* some inserted since, which are not owed; a dismissal holds it for the   *)
(* time of an animation.  UIKit calls the completion of a dismissal also   *)
(* when there is nothing to dismiss.  The popup under a scan screen that   *)
(* was opened from it goes when that screen goes.                          *)
(***************************************************************************)
EXTENDS Naturals, FiniteSets

CONSTANTS
  Codes,        \* QR codes that can be scanned or typed
  Limit,        \* rows the scan screen accepts (20 in the code)
  Calls,        \* bound: submissions under way at the same time
  Outages,      \* bound: whether the connection ever changes
  MaxCrashes    \* bound: how often the process is killed

ASSUME LimitAssumption == Limit \in Nat \ {0}
ASSUME BoundsAssumption == Outages \in BOOLEAN /\ MaxCrashes \in Nat

VARIABLES
  online,           \* what the reachability test answers
  store,            \* codes in ScanCodeSTORE
  listed,           \* codes with a row in UploadedCodes, the status report
  screen,           \* what is shown over the dashboard
  pushed,           \* whether the side menu pushed the scan screen shown
  codeLIST,         \* cached list of each submitter
  newproductArray,  \* codes each submitter has ever put in a request
  calls,            \* the submissions under way
  crashes,          \* times the process was killed
  delivered,        \* history: codes the server took since their last scan
  owed              \* history: scanned codes the phone must not lose

vars == <<online, store, listed, screen, pushed, codeLIST, newproductArray,
          calls, crashes, delivered, owed>>

Submitters == {"scan", "dash"}

(***************************************************************************)
(* Who waits for a call.  "held": the scan screen is gone but still alive, *)
(* held by the closure of a geocoding request or of a dismissal, and so it *)
(* handles the replies that come in the meantime; "orphan": it is gone and *)
(* only its view model lives on in the request's closure (its VC is a weak *)
(* reference); "dead": the process that made the request is gone.          *)
(***************************************************************************)
Handlers == Submitters \cup {"held"}

Owners == Handlers \cup {"orphan", "dead"}

\* The dashboard itself; the scan screen; the list of codes over it; the
\* popup "QR code is Submitted Successfully" over the dashboard.
Screens == {"closed", "scan", "list", "popup"}

ScanOpen == screen \in {"scan", "list"}

\* "offline" and "dismiss": the first dismissal, after a submission without a
\* connection and after a success; "announce": the second one.
Phases == {"idle", "delay", "geocode", "sent", "accepted", "refused",
           "offline", "dismiss", "announce", "alert"}

Dismissals == {"offline", "dismiss", "announce"}

\* What holds a scan screen that is gone.
Holding == {"geocode"} \cup Dismissals

Call == [phase : Phases, by : Owners, codes : SUBSET Codes]

NoCall == [phase |-> "idle", by |-> "dead", codes |-> {}]

TypeOK ==
  /\ online \in BOOLEAN
  /\ store \in SUBSET Codes
  /\ listed \in SUBSET Codes
  /\ screen \in Screens
  /\ pushed \in BOOLEAN
  /\ codeLIST \in [Submitters -> SUBSET Codes]
  /\ newproductArray \in [Submitters -> SUBSET Codes]
  /\ calls \in [Calls -> Call]
  /\ crashes \in 0 .. MaxCrashes
  /\ delivered \in SUBSET Codes
  /\ owed \in SUBSET Codes

Init ==
  /\ online \in BOOLEAN /\ (~online => Outages)
  /\ store = {} /\ listed = {}
  /\ screen = "closed" /\ pushed = FALSE
  /\ codeLIST = [s \in Submitters |-> {}]
  /\ newproductArray = [s \in Submitters |-> {}]
  /\ calls = [k \in Calls |-> NoCall]
  /\ crashes = 0
  /\ delivered = {} /\ owed = {}

-----------------------------------------------------------------------------
(* Helpers                                                                 *)

\* Call k may end in clearTable, and what it sends has been read from the
\* table already.
MayClear(k) ==
  \/ calls[k].by = "dash" /\ calls[k].phase = "delay"
  \/ /\ calls[k].by \in Handlers
     /\ calls[k].phase \in {"geocode", "sent", "accepted", "refused", "dismiss", "alert"}

\* The alert "QR Code Submission Failed" is modal.
AlertUp == \E k \in Calls : calls[k].phase = "alert"

\* UIKit ignores touches during a dismissal; the camera goes on.
Touchable == ~AlertUp /\ \A k \in Calls : calls[k].phase \notin Dismissals

\* A scan screen that is gone is still alive, and observes notifications.
Held == \E k \in Calls : calls[k].by = "held"

\* ScanOrUpload_VC.fetchDetails on a table st: offline, every code of the
\* table without a row in UploadedCodes gets one, with status pending.
ListedAfterFetch(st) == IF online THEN listed ELSE listed \cup st

\* codesSubmission of submitter s in call k: the codes arr are the request.
\* parameterJSON is one field per submitter, read when a geocoding request
\* completes: the earlier requests still geocoding send arr as well.
Requesting(k, s, arr) ==
  [j \in Calls |->
     IF j = k \/ (calls[j].by = s /\ calls[j].phase = "geocode")
       THEN [phase |-> "geocode", by |-> s, codes |-> arr]
       ELSE calls[j]]

\* The scan screen goes away.  Its delays and alerts end; what holds it keeps
\* it alive, and then it waits for its replies, else its view model does.
Orphaned(f) ==
  LET held == \E k \in Calls : f[k].by = "scan" /\ f[k].phase \in Holding IN
  [k \in Calls |->
     IF f[k].by # "scan" THEN f[k]
     ELSE IF f[k].phase \in {"sent", "accepted"} \cup Holding
       THEN [f[k] EXCEPT !.by = IF held THEN "held" ELSE "orphan"]
       ELSE NoCall]

\* A held screen is released once nothing holds it.
Settled(f) ==
  IF \E k \in Calls : f[k].by = "held" /\ f[k].phase \in Holding THEN f
  ELSE [k \in Calls |-> IF f[k].by = "held" THEN [f[k] EXCEPT !.by = "orphan"]
                                            ELSE f[k]]

Ended(k) == [calls EXCEPT ![k] = NoCall]

\* Call k waits for a dismissal or for the user; it has no codes to send.
Finishing(k, phase) ==
  [calls EXCEPT ![k] = [phase |-> phase, by |-> calls[k].by, codes |-> {}]]

\* The fields of a scan screen that is released, or not yet created.
Released(f) == [f EXCEPT !["scan"] = {}]

\* What a dismissal by a submitter that is alive leaves on the dashboard: it
\* dismisses what covers the submitter, and a scan screen that nothing covers
\* itself, unless that was pushed.
LeftBy(s) ==
  IF ScanOpen /\ (pushed \/ (s = "scan" /\ (screen = "list" \/ AlertUp)))
    THEN "scan" ELSE "closed"

\* A dismissal leaves top, f being the submissions under way and lists the
\* cached lists: alerts go with it, and it may be the scan screen that went.
Uncovers(top, f, lists) ==
  LET g == [k \in Calls |-> IF f[k].phase = "alert" /\ f[k] = calls[k]
                              THEN NoCall ELSE f[k]] IN
  /\ screen' = top
  /\ \/ /\ top = "scan"
        /\ calls' = g /\ codeLIST' = lists
        /\ UNCHANGED <<pushed, newproductArray>>
     \/ /\ top # "scan"
        /\ calls' = Orphaned(g) /\ codeLIST' = Released(lists)
        /\ newproductArray' = Released(newproductArray)
        /\ pushed' = FALSE

-----------------------------------------------------------------------------
(* Network and user on the scan screens                                    *)

Reachability ==
  /\ Outages
  /\ online' = ~online
  /\ UNCHANGED <<store, listed, screen, pushed, codeLIST, newproductArray,
                 calls, crashes, delivered, owed>>

\* A new scan screen, presented by the dashboard or pushed by the side menu:
\* viewDidLoad and viewWillAppear fetch the table.
OpenScan ==
  /\ screen = "closed" /\ Touchable
  /\ screen' = "scan" /\ pushed' \in BOOLEAN
  /\ codeLIST' = [codeLIST EXCEPT !["scan"] = store]
  /\ listed' = ListedAfterFetch(store)
  /\ UNCHANGED <<online, store, newproductArray, calls, crashes,
                 delivered, owed>>

\* Mutant of ScanAgain: the notification is posted once the new screen is there
\* to answer it.
ScanAgainLate ==
  /\ screen = "popup" /\ Touchable
  /\ screen' = "scan" /\ UNCHANGED pushed
  /\ listed' = ListedAfterFetch(store)
  /\ store' = {} /\ owed' = owed
  /\ codeLIST' = [codeLIST EXCEPT !["scan"] = store']
  /\ UNCHANGED <<online, newproductArray, calls, crashes, delivered>>

\* "Scan Again" in the popup: uploadAgain is posted before the new screen can
\* observe it, but an earlier one that is still held answers with
\* codesUploadAgain, which deletes the table: its codes are given up.
ScanAgain ==
  /\ screen = "popup" /\ Touchable
  /\ screen' = "scan" /\ UNCHANGED pushed
  /\ listed' = ListedAfterFetch(store)
  /\ \/ Held /\ store' = {} /\ owed' = owed \ store
     \/ ~Held /\ UNCHANGED <<store, owed>>
  /\ codeLIST' = [codeLIST EXCEPT !["scan"] = store']
  /\ UNCHANGED <<online, newproductArray, calls, crashes, delivered>>

\* Mutant of Insert: the cached list is not fetched again.
InsertNoFetch(c) ==
  /\ store' = store \cup {c}
  /\ delivered' = delivered \ {c}
  /\ owed' = IF \E k \in Calls : MayClear(k) THEN owed \ {c} ELSE owed \cup {c}
  /\ UNCHANGED <<online, listed, screen, pushed, codeLIST, newproductArray,
                 calls, crashes>>

\* Row c is inserted and the list fetched again.  The phone owes the server
\* this code, unless a call that cannot know it may still delete the table.
Insert(c) ==
  /\ store' = store \cup {c}
  /\ codeLIST' = [codeLIST EXCEPT !["scan"] = store']
  /\ listed' = ListedAfterFetch(store')
  /\ delivered' = delivered \ {c}
  /\ owed' = IF \E k \in Calls : MayClear(k) THEN owed \ {c} ELSE owed \cup {c}
  /\ UNCHANGED <<online, screen, pushed, newproductArray, calls, crashes>>

\* Mutant of ScanCode: the limit is off by one.
ScanCodeOffByOne(c) ==
  /\ screen = "scan" /\ ~AlertUp
  /\ c \notin codeLIST["scan"]
  /\ Cardinality(codeLIST["scan"]) <= Limit
  /\ Insert(c)

\* captureOutput: duplicate and limit are tested against the cached list.
ScanCode(c) ==
  /\ screen = "scan" /\ ~AlertUp
  /\ c \notin codeLIST["scan"]
  /\ Cardinality(codeLIST["scan"]) < Limit
  /\ Insert(c)

\* submitBTNSetup: the list is fetched before the tests, so a rejected code
\* still refreshes it.
TypeCode(c) ==
  /\ screen = "scan" /\ Touchable
  /\ \/ /\ c \notin store /\ Cardinality(store) < Limit
        /\ Insert(c)
     \/ /\ c \in store \/ Cardinality(store) >= Limit
        /\ codeLIST' = [codeLIST EXCEPT !["scan"] = store]
        /\ listed' = ListedAfterFetch(store)
        /\ UNCHANGED <<online, store, screen, pushed, newproductArray, calls,
                       crashes, delivered, owed>>

\* scannedCodesButton presents the list of codes over the scan screen.
OpenList ==
  /\ screen = "scan" /\ Touchable
  /\ screen' = "list"
  /\ UNCHANGED <<online, pushed, store, listed, codeLIST, newproductArray,
                 calls, crashes, delivered, owed>>

\* ScannedCodes_VC.removeScannedCode: the list screen fetches its own copy,
\* the scan screen keeps the stale one.
RemoveCode(c) ==
  /\ screen = "list" /\ Touchable /\ c \in store
  /\ store' = store \ {c}
  /\ owed' = owed \ {c}
  /\ UNCHANGED <<online, listed, screen, pushed, codeLIST, newproductArray,
                 calls, crashes, delivered>>

\* Back to the scan screen; restartScan makes it fetch, except that the
\* close button of a list opened in upload mode does not post it.
CloseList ==
  /\ screen = "list" /\ Touchable
  /\ screen' = "scan"
  /\ \/ /\ codeLIST' = [codeLIST EXCEPT !["scan"] = store]
        /\ listed' = ListedAfterFetch(store)
     \/ UNCHANGED <<codeLIST, listed>>
  /\ UNCHANGED <<online, pushed, store, newproductArray, calls, crashes,
                 delivered, owed>>

\* ScannedCodes_VC.submitBTN: CodeSubmission is posted 0.3 s later.
SubmitList(k) ==
  /\ screen = "list" /\ Touchable /\ store # {}
  /\ calls[k].phase = "idle"
  /\ calls' = [calls EXCEPT ![k] = [phase |-> "delay", by |-> "scan", codes |-> {}]]
  /\ UNCHANGED <<online, store, listed, screen, pushed, codeLIST,
                 newproductArray, crashes, delivered, owed>>

-----------------------------------------------------------------------------
(* Submission by the scan screen                                           *)

\* ScanOrUpload_VC.codesSubmission, the handler of CodeSubmission: offline the
\* screen starts to dismiss itself.  newproductArray is never emptied.
CodesSubmission(k) ==
  \/ /\ ~online
     /\ calls' = [calls EXCEPT ![k] = [phase |-> "offline", by |-> "scan", codes |-> {}]]
     /\ UNCHANGED <<online, store, listed, screen, pushed, codeLIST,
                    newproductArray, crashes, delivered, owed>>
  \/ /\ online
     /\ LET arr == newproductArray["scan"] \cup codeLIST["scan"] IN
          /\ newproductArray' = [newproductArray EXCEPT !["scan"] = arr]
          /\ calls' = Requesting(k, "scan", arr)
     /\ codeLIST' = [codeLIST EXCEPT !["scan"] = store]
     /\ UNCHANGED <<online, store, listed, screen, pushed, crashes, delivered,
                    owed>>

\* syncNowActBTN on the overlay shown when the limit is reached.
SyncNow(k) ==
  /\ screen = "scan" /\ Touchable
  /\ Cardinality(codeLIST["scan"]) >= Limit
  /\ calls[k].phase = "idle"
  /\ CodesSubmission(k)

ListDelayOver(k) ==
  /\ calls[k].phase = "delay" /\ calls[k].by = "scan"
  /\ CodesSubmission(k)

\* The user leaves the scan screen, f being the submissions under way.
LeaveScan(f) ==
  /\ screen = "scan" /\ Touchable
  /\ Uncovers("closed", f, codeLIST)
  /\ UNCHANGED <<online, store, listed, crashes, delivered, owed>>

\* closeScreen and backButton: online and with codes in the cached list the
\* screen submits them on its way out.  The geocoding closure then keeps the
\* screen alive, the request only its view model.
CloseScanSubmitting(k) ==
  /\ online /\ codeLIST["scan"] # {}
  /\ calls[k].phase = "idle"
  /\ LeaveScan(Requesting(k, "scan", newproductArray["scan"] \cup codeLIST["scan"]))

CloseScan ==
  /\ ~online \/ codeLIST["scan"] = {}
  /\ LeaveScan(calls)

\* syncLaterActBTN on the overlay shown when the limit is reached: it never
\* submits.  A pushed screen has nothing to dismiss.
SyncLater ==
  /\ ~pushed /\ Cardinality(codeLIST["scan"]) >= Limit
  /\ LeaveScan(calls)

-----------------------------------------------------------------------------
(* Submission by the dashboard                                             *)

\* Mutant of DashRefresh: codes that were in the cached list already are taken
\* to be on their way and not submitted again.
DashRefreshOnce(k) ==
  /\ online
  /\ codeLIST' = [codeLIST EXCEPT !["dash"] = store]
  /\ \/ store \subseteq codeLIST["dash"] /\ UNCHANGED calls
     \/ /\ ~(store \subseteq codeLIST["dash"]) /\ calls[k].phase = "idle"
        /\ calls' = [calls EXCEPT ![k] = [phase |-> "delay", by |-> "dash", codes |-> {}]]
  /\ UNCHANGED <<online, store, listed, screen, pushed, newproductArray,
                 crashes, delivered, owed>>

\* dashBoardApi completes: fetchDetails copies the table and, if it is not
\* empty, schedules codesSubmission.
DashRefresh(k) ==
  /\ online
  /\ codeLIST' = [codeLIST EXCEPT !["dash"] = store]
  /\ \/ store = {} /\ UNCHANGED calls
     \/ /\ store # {} /\ calls[k].phase = "idle"
        /\ calls' = [calls EXCEPT ![k] = [phase |-> "delay", by |-> "dash", codes |-> {}]]
  /\ UNCHANGED <<online, store, listed, screen, pushed, newproductArray,
                 crashes, delivered, owed>>

\* EBC_DashboardVC.codesSubmission, 0.3 s later; offline it does nothing.
DashDelayOver(k) ==
  /\ calls[k].phase = "delay" /\ calls[k].by = "dash"
  /\ \/ ~online /\ calls' = Ended(k) /\ UNCHANGED newproductArray
     \/ /\ online
        /\ LET arr == newproductArray["dash"] \cup codeLIST["dash"] IN
             /\ newproductArray' = [newproductArray EXCEPT !["dash"] = arr]
             /\ calls' = Requesting(k, "dash", arr)
  /\ UNCHANGED <<online, store, listed, screen, pushed, codeLIST, crashes,
                 delivered, owed>>

-----------------------------------------------------------------------------
(* The callbacks of a call                                                 *)

\* The geocoder calls back, with an address or an error alike:
\* codesSubmissionsApi sends the request.  Offline the scan screen gives up
\* as in codesSubmission, also when it is gone; the dashboard's request fails
\* at once in WebClient and its completion is not called.
GeocodeDone(k) ==
  /\ calls[k].phase = "geocode"
  /\ \/ /\ online
        /\ calls' = Settled([calls EXCEPT ![k].phase = "sent"])
     \/ /\ ~online /\ calls[k].by = "dash"
        /\ calls' = Ended(k)
     \/ /\ ~online /\ calls[k].by # "dash"
        /\ calls' = Finishing(k, "offline")
  /\ UNCHANGED <<online, store, listed, screen, pushed, codeLIST,
                 newproductArray, crashes, delivered, owed>>

\* The server takes all codes of a request and reports a status for each,
\* or answers with an empty list.  Nobody waits for a dead process's call, and
\* an orphan's handler does nothing with an empty list.
ServerHandles(k) ==
  /\ calls[k].phase = "sent"
  /\ \/ /\ delivered' = delivered \cup calls[k].codes
        /\ calls' = IF calls[k].by = "dead" THEN Ended(k)
                      ELSE [calls EXCEPT ![k].phase = "accepted"]
     \/ /\ delivered' = delivered
        /\ calls' = IF calls[k].by \in Submitters
                      THEN [calls EXCEPT ![k].phase = "refused"] ELSE Ended(k)
  /\ UNCHANGED <<online, store, listed, screen, pushed, codeLIST,
                 newproductArray, crashes, owed>>

\* Mutant of ReplyLost: the failed call of a submitter ends like a successful one.
ReplyLostAsSuccess(k) ==
  /\ calls[k].phase \in {"sent", "accepted", "refused"}
  /\ calls' = IF calls[k].by \in Submitters THEN Finishing(k, "dismiss") ELSE Ended(k)
  /\ UNCHANGED <<online, store, listed, screen, pushed, codeLIST,
                 newproductArray, crashes, delivered, owed>>

\* Transport failure, HTTP error or undecodable reply: no handler changes
\* anything but the spinner.
ReplyLost(k) ==
  /\ calls[k].phase \in {"sent", "accepted", "refused"}
  /\ calls' = Ended(k)
  /\ UNCHANGED <<online, store, listed, screen, pushed, codeLIST,
                 newproductArray, crashes, delivered, owed>>

\* Mutant of Recorded: only some codes of the reply get their row.
RecordedPartly(k) ==
  /\ calls[k].phase = "accepted"
  /\ \E part \in SUBSET calls[k].codes : listed' = listed \cup part
  /\ calls' = IF calls[k].by = "orphan" THEN Ended(k) ELSE Finishing(k, "dismiss")
  /\ UNCHANGED <<online, store, screen, pushed, codeLIST, newproductArray,
                 crashes, delivered, owed>>

\* submitCodesApi's completion: the codes of the reply get a row in
\* UploadedCodes.  With its screen gone the view model stops there.
Recorded(k) ==
  /\ calls[k].phase = "accepted"
  /\ listed' = listed \cup calls[k].codes
  /\ calls' = IF calls[k].by = "orphan" THEN Ended(k) ELSE Finishing(k, "dismiss")
  /\ UNCHANGED <<online, store, screen, pushed, codeLIST, newproductArray,
                 crashes, delivered, owed>>

\* An empty list.  The screen is dismissed before the alert is presented: a
\* scan screen that dismissed itself has no window left to present it in, nor
\* has a dashboard under a pushed scan screen.
Refused(k) ==
  /\ calls[k].phase = "refused"
  /\ LET s == calls[k].by
         top == LeftBy(s)
         shown == (s = "scan") = (top = "scan") IN
       Uncovers(top, IF shown THEN Finishing(k, "alert") ELSE Ended(k), codeLIST)
  /\ UNCHANGED <<online, store, listed, crashes, delivered, owed>>

\* Mutant of OfflineDismissed: the table is emptied although nothing was sent.
OfflineDismissedClearing(k) ==
  /\ calls[k].phase = "offline"
  /\ listed' = ListedAfterFetch(store)
  /\ store' = {}
  /\ Uncovers(LeftBy("scan"), Finishing(k, "announce"), [codeLIST EXCEPT !["scan"] = {}])
  /\ UNCHANGED <<online, crashes, delivered, owed>>

\* The completion of the first dismissal of a submission without a connection:
\* fetchDetails, which tests the connection anew.
OfflineDismissed(k) ==
  /\ calls[k].phase = "offline"
  /\ listed' = ListedAfterFetch(store)
  /\ \/ /\ calls[k].by = "scan"
        /\ Uncovers(LeftBy("scan"), Finishing(k, "announce"),
                    [codeLIST EXCEPT !["scan"] = store])
     \/ /\ calls[k].by = "held"
        /\ calls' = Finishing(k, "announce")
        /\ UNCHANGED <<screen, pushed, codeLIST, newproductArray>>
  /\ UNCHANGED <<online, store, crashes, delivered, owed>>

\* The completion of the first dismissal of a success: clearTable, and
\* fetchDetails, which the dashboard skips offline.
DismissDone(k) ==
  /\ calls[k].phase = "dismiss"
  /\ store' = {}
  /\ \/ /\ calls[k].by \in Submitters
        /\ Uncovers(LeftBy(calls[k].by), Finishing(k, "announce"),
                    IF calls[k].by = "dash" /\ ~online THEN codeLIST
                      ELSE [codeLIST EXCEPT ![calls[k].by] = {}])
     \/ /\ calls[k].by = "held"
        /\ calls' = Finishing(k, "announce")
        /\ UNCHANGED <<screen, pushed, codeLIST, newproductArray>>
  /\ UNCHANGED <<online, listed, crashes, delivered, owed>>

\* The completion of the second dismissal: optionView is posted, and the
\* dashboard presents the popup unless something is in its way.
Announce(k) ==
  /\ calls[k].phase = "announce"
  /\ \/ /\ calls[k].by \in Submitters
        /\ LET top == LeftBy(calls[k].by) IN
             Uncovers(IF top = "closed" THEN "popup" ELSE top, Ended(k), codeLIST)
     \/ /\ calls[k].by = "held"
        /\ screen' = IF screen = "closed" /\ ~AlertUp THEN "popup" ELSE screen
        /\ calls' = Settled(Ended(k))
        /\ UNCHANGED <<pushed, codeLIST, newproductArray>>
  /\ UNCHANGED <<online, store, listed, crashes, delivered, owed>>

\* OK on "QR Code Submission Failed": the refused codes are given up.
AlertOK(k) ==
  /\ calls[k].phase = "alert"
  /\ store' = {}
  /\ owed' = owed \ store
  /\ codeLIST' = [codeLIST EXCEPT ![calls[k].by] = {}]
  /\ calls' = Ended(k)
  /\ UNCHANGED <<online, listed, screen, pushed, newproductArray, crashes,
                 delivered>>

ClosePopup ==
  /\ screen = "popup" /\ Touchable
  /\ screen' = "closed"
  /\ UNCHANGED <<online, pushed, store, listed, codeLIST, newproductArray,
                 calls, crashes, delivered, owed>>

\* The process is killed.  The rows of a reply are saved one by one, so any
\* part of them may have been written; the server still handles what was sent.
Crash ==
  /\ crashes < MaxCrashes
  /\ crashes' = crashes + 1
  /\ \E part \in SUBSET UNION {calls[k].codes : k \in {j \in Calls :
                                       calls[j].phase = "accepted"}} :
        listed' = listed \cup part
  /\ screen' = "closed" /\ pushed' = FALSE
  /\ codeLIST' = [s \in Submitters |-> {}]
  /\ newproductArray' = [s \in Submitters |-> {}]
  /\ calls' = [k \in Calls |-> IF calls[k].phase = "sent"
                 THEN [calls[k] EXCEPT !.by = "dead"] ELSE NoCall]
  /\ UNCHANGED <<online, store, delivered, owed>>

-----------------------------------------------------------------------------
User == \/ OpenScan \/ ScanAgain \/ OpenList \/ CloseList \/ CloseScan
        \/ SyncLater \/ ClosePopup
        \/ \E c \in Codes : ScanCode(c) \/ TypeCode(c) \/ RemoveCode(c)
        \/ \E k \in Calls : \/ SubmitList(k) \/ SyncNow(k)
                            \/ CloseScanSubmitting(k) \/ AlertOK(k)

Callback(k) == \/ ListDelayOver(k) \/ DashRefresh(k) \/ DashDelayOver(k)
               \/ GeocodeDone(k) \/ ServerHandles(k) \/ ReplyLost(k)
               \/ Recorded(k) \/ Refused(k) \/ OfflineDismissed(k)
               \/ DismissDone(k) \/ Announce(k)

Next == \/ Reachability \/ User \/ Crash
        \/ \E k \in Calls : Callback(k)

Spec == Init /\ [][Next]_vars

-----------------------------------------------------------------------------
(* Fairness.  Timers, the geocoder and UIKit call back; a request ends, at *)
(* the latest with URLSession's timeout; the user confirms alerts and keeps*)
(* coming back to the dashboard; a server that the dashboard asks again and*)
(* again handles a request some time, and some time its answer arrives.    *)
Fairness ==
  /\ \A k \in Calls :
       /\ WF_vars(ListDelayOver(k) \/ DashDelayOver(k) \/ GeocodeDone(k))
       /\ WF_vars(ServerHandles(k) \/ ReplyLost(k) \/ Recorded(k) \/ Refused(k))
       /\ WF_vars(OfflineDismissed(k) \/ DismissDone(k) \/ Announce(k) \/ AlertOK(k))
       /\ SF_vars(calls[k].by = "dash" /\ ServerHandles(k))
       /\ SF_vars(calls[k].by = "dash" /\ (Recorded(k) \/ Refused(k)))
  /\ SF_vars(store # {} /\ \E k \in Calls : DashRefresh(k))

FairSpec == Spec /\ Fairness

-----------------------------------------------------------------------------
(* Properties                                                              *)

\* A scanned code that was not given up by the user (removed, confirmed to
\* have failed, or deleted by "Scan Again": see DeletionsNamed), and that was
\* not scanned while a submission was already under way, reaches the server
\* before its row is deleted, whichever submitter deletes it: whatever is
\* lost, retried, dismissed or killed, it is still in ScanCodeSTORE or the
\* server has it (codesSubmission, clearTable).
NoUnsentLoss == owed \subseteq store \cup delivered

\* And the user can still see it: such a code is in the list of scanned
\* codes or in the status report (the bookkeeping before clearTable).
NoUnlistedLoss == owed \subseteq store \cup listed

\* What makes the two inductive.  A call that may end in clearTable has
\* sent, or will send, every owed code of the table, because codes inserted
\* after it read the table are not owed.
ScanCallsOpen ==
  \A k \in Calls : calls[k].by = "scan" /\ calls[k].phase # "idle" => ScanOpen

RequestsCover ==
  \A k \in Calls :
    calls[k].by \in Handlers /\ calls[k].phase \in {"geocode", "sent", "accepted"}
      => owed \cap store \subseteq calls[k].codes

DelaysCover ==
  \A k \in Calls : calls[k].by = "dash" /\ calls[k].phase = "delay"
                   => owed \cap store \subseteq codeLIST["dash"]

AcceptedDelivered ==
  \A k \in Calls : calls[k].phase = "accepted"
    => /\ calls[k].by # "dead"
       /\ calls[k].by \in Handlers => owed \cap calls[k].codes \subseteq delivered

DismissalsSafe ==
  \A k \in Calls : calls[k].phase = "dismiss"
    => /\ calls[k].by \in Handlers
       /\ owed \cap store \subseteq delivered \cap listed

\* The scan screen may show codes that are gone from the table, but it never
\* misses one that is there, so that its tests for duplicates and for the
\* limit err on the safe side (fetchDetails after every insertion).
CacheCoversStore == ScanOpen => store \subseteq codeLIST["scan"]

\* The inductive invariant of the safety proofs.
IInv == /\ TypeOK /\ NoUnsentLoss /\ NoUnlistedLoss /\ CacheCoversStore
        /\ ScanCallsOpen /\ RequestsCover /\ DelaysCover
        /\ AcceptedDelivered /\ DismissalsSafe

\* Seen from outside the table is the bounded list of ScanList.
List == INSTANCE ScanList WITH list <- store
BoundedList == List!Spec

\* Once the phone stays online, no scanned code stays in the table for ever:
\* the dashboard uploads what the scan screen left behind, after lost replies
\* and crashes too, and empties the table again and again (fetchDetails of the
\* dashboard).  Under a scan screen that the side menu pushed it could be
\* refused for ever: the alert that gives the codes up is not shown there.
EventuallySynced == <>[](online /\ ~pushed) => []<>(store = {})

\* The popup says "QR code is Submitted Successfully": when it comes up, the
\* codes that were in the list have been submitted.
SubmittedMeansSent ==
  [][screen' = "popup" /\ screen # "popup" => store \subseteq delivered]_vars

\* The dashboard announces "QR Codes Synced Successfully" when a submission
\* has emptied the table: every code it removed has been synced.
SyncedMeansSent ==
  [][(\E k \in Calls : calls[k].phase = "dismiss" /\ calls'[k].phase # "dismiss")
        /\ store' = {} => store \subseteq delivered]_vars

\* What is left of the two promises: a code that the phone owes leaves its list
\* in sight of the server's answer, or because the user removes it or confirms
\* that the submission failed, or by "Scan Again" while an earlier scan screen
\* is still held, in whatever order replies, dismissals and taps come
\* (removeScannedCode, the three callers of clearTable).
DeletionsNamed ==
  [][\A c \in owed \cap store : c \notin store' =>
       \/ c \in delivered \cap listed'
       \/ screen = "list" /\ store' = store \ {c} /\ calls' = calls
       \/ \E k \in Calls : calls[k].phase = "alert" /\ calls' = Ended(k)
       \/ screen = "popup" /\ screen' = "scan" /\ Held]_vars
=============================================================================
