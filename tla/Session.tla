------------------------------- MODULE Session -------------------------------
(***************************************************************************)
(* Who a scanned code is credited to, and whose codes the status report    *)
(* shows, when users log out and others log in: the stored identity        *)
(* (UserDefaults), the tables, and the submitters that read and write both.*)
(*                                                                         *)
(* Logging out replaces the root of the window and stops nothing: a        *)
(* dashboard lives on until the last closure that captured it has run, and *)
(* its requests, timers and completions go on reading and writing the same *)
(* tables and user defaults.  The tables are emptied by some ways of       *)
(* logging out, and again by the language buttons of the Welcome screen,   *)
(* through which every login goes.                                         *)
(*                                                                         *)
(* Abstractions.  Submissions are those of CodeSync, with the server's     *)
(* answer and its handling in one step; the connection may change between  *)
(* any two tests of it, so each test may go either way; a code is scanned  *)
(* by one user only.  A request that names no user ("") is NoUser's.  The  *)
(* login itself (OTP or password, EBC_LoginVM) is its success.             *)
(***************************************************************************)
EXTENDS Naturals

CONSTANTS
  Users,    \* who may log in on this phone
  NoUser,   \* the absence of an identity in the user defaults
  PerUser,  \* bound: codes each user has to scan
  Dashes,   \* bound: dashboards alive at a time
  Chains    \* bound: refreshes and submissions under way at a time

ASSUME UsersAssumption == NoUser \notin Users
ASSUME DashesAssumption == Dashes \cap {"none", "scan", "orphan"} = {}
ASSUME BoundsAssumption == PerUser \in Nat

\* A code, and who scans it.
Codes == [by : Users, n : 1 .. PerUser]

\* Those of the codes cs that u scanned.
By(u, cs) == {c \in cs : c.by = u}

Names == Users \cup {NoUser}
Owners == Dashes \cup {"scan"}

VARIABLES
  IsloggedIn, UserID, LoyaltyId,  \* the user defaults
  screen,           \* "off", "welcome", "login", "dashboard", "scan" (over
                    \* it), "leaving" (logged out, the root not yet replaced)
  here,             \* the dashboard that belongs to the window
  userId,           \* whose each dashboard is
  loyaltyId,        \* of the scan screen: LoyaltyId when it was created
  codeLIST, newproductArray,      \* of each dashboard and the scan screen
  chains,           \* what is under way
  store, report,    \* ScanCodeSTORE, UploadedCodes
  strayChains,      \* history: something was under way when the tables were
                    \* last emptied for a login
  strayIdentity     \* history: a refresh was under way when the identity was
                    \* last removed, or that was interrupted

defaults == <<IsloggedIn, UserID, LoyaltyId>>
lists == <<codeLIST, newproductArray>>
window == <<screen, here, userId, loyaltyId>>
history == <<strayChains, strayIdentity>>
vars == <<defaults, window, lists, chains, store, report, history>>

Idle == [phase |-> "idle", owner |-> "none", as |-> NoUser, codes |-> {}]

\* A submission of an owner, for the user "as".  An orphan is a request of a
\* scan screen that is gone: only its view model hears the answer.
Chain == [phase : {"idle", "refresh", "delay", "geocode", "sent", "dismiss",
                   "alert"},
          owner : Owners \cup {"orphan", "none"}, as : Names,
          codes : SUBSET Codes]

InSession == screen \in {"dashboard", "scan", "leaving"}

TypeOK ==
  /\ IsloggedIn \in BOOLEAN /\ UserID \in Names /\ LoyaltyId \in Names
  /\ screen \in {"off", "welcome", "login", "dashboard", "scan", "leaving"}
  /\ here \in Dashes \cup {"none"} /\ (InSession <=> here \in Dashes)
  /\ userId \in [Dashes -> Names] /\ loyaltyId \in Names
  /\ codeLIST \in [Owners -> SUBSET Codes]
  /\ newproductArray \in [Owners -> SUBSET Codes]
  /\ chains \in [Chains -> Chain]
  /\ store \in SUBSET Codes /\ report \in SUBSET Codes
  /\ strayChains \in BOOLEAN /\ strayIdentity \in BOOLEAN

Init ==
  /\ IsloggedIn = FALSE /\ UserID = NoUser /\ LoyaltyId = NoUser
  /\ screen = "off" /\ here = "none"
  /\ userId = [d \in Dashes |-> NoUser] /\ loyaltyId = NoUser
  /\ codeLIST = [o \in Owners |-> {}] /\ newproductArray = [o \in Owners |-> {}]
  /\ chains = [k \in Chains |-> Idle]
  /\ store = {} /\ report = {}
  /\ strayChains = FALSE /\ strayIdentity = FALSE

-----------------------------------------------------------------------------
(* Helpers                                                                 *)

Is(k, phase) == chains[k].phase = phase

\* The alert "QR Code Submission Failed" is modal.
AlertUp == \E k \in Chains : Is(k, "alert")

Quiet == \A k \in Chains : Is(k, "idle")

Ended(k) == [chains EXCEPT ![k] = Idle]

Moved(k, phase) == [chains EXCEPT ![k].phase = phase]

\* codesSubmission of o in chain k, for the user u: parameterJSON is one
\* field of the screen, read when the geocoder calls back.
Requesting(k, o, u, cs) ==
  [j \in Chains |->
     IF j = k \/ (chains[j].owner = o /\ Is(j, "geocode"))
       THEN [phase |-> "geocode", owner |-> o, as |-> u, codes |-> cs]
       ELSE chains[j]]

\* The scan screen goes away, f being what is under way: its requests are
\* left to the view model.
Orphaned(f) ==
  [k \in Chains |-> IF f[k].owner # "scan" THEN f[k]
                    ELSE IF f[k].phase \in {"geocode", "sent"}
                      THEN [f[k] EXCEPT !.owner = "orphan"] ELSE Idle]

Released(f) == [f EXCEPT !["scan"] = {}]

\* ScanOrUpload_VC.fetchDetails on a table st: offline its codes are listed
\* as pending.
Listing(st) == report' \in {report, report \cup st}

LeaveScan(f) ==
  /\ screen' = "dashboard" /\ loyaltyId' = NoUser
  /\ chains' = Orphaned(f)
  /\ codeLIST' = Released(codeLIST)
  /\ newproductArray' = Released(newproductArray)
  /\ UNCHANGED <<here, userId>>

-----------------------------------------------------------------------------
(* Logging in and out                                                      *)

\* setHomeAsRootViewController: a new dashboard for the stored UserID.
NewDashboard(u) ==
  \E d \in Dashes :
    /\ \A k \in Chains : chains[k].owner # d
    /\ screen' = "dashboard" /\ here' = d
    /\ userId' = [userId EXCEPT ![d] = u]
    /\ codeLIST' = [codeLIST EXCEPT ![d] = {}]
    /\ newproductArray' = [newproductArray EXCEPT ![d] = {}]
    /\ UNCHANGED loyaltyId

\* EBC_LaunchScreenVC.update.
Launch ==
  /\ screen = "off"
  /\ \/ IsloggedIn /\ NewDashboard(UserID)
     \/ /\ ~IsloggedIn /\ screen' = "welcome"
        /\ UNCHANGED <<here, userId, loyaltyId, lists>>
  /\ UNCHANGED <<defaults, chains, store, report, history>>

\* Mutant of ChooseLanguage: the scanned codes are left.
ChooseLanguageKeepsCodes ==
  /\ screen = "welcome" /\ screen' = "login"
  /\ report' = {}
  /\ strayChains' = ~Quiet
  /\ UNCHANGED <<defaults, here, userId, loyaltyId, lists, chains, store,
                 strayIdentity>>

\* Mutant of ChooseLanguage: the status report is left.
ChooseLanguageKeepsReport ==
  /\ screen = "welcome" /\ screen' = "login"
  /\ store' = {}
  /\ strayChains' = ~Quiet
  /\ UNCHANGED <<defaults, here, userId, loyaltyId, lists, chains, report,
                 strayIdentity>>

\* The language buttons of the Welcome screen empty the tables.
ChooseLanguage ==
  /\ screen = "welcome" /\ screen' = "login"
  /\ store' = {} /\ report' = {}
  /\ strayChains' = ~Quiet
  /\ UNCHANGED <<defaults, here, userId, loyaltyId, lists, chains,
                 strayIdentity>>

BackToWelcome ==
  /\ screen = "login" /\ screen' = "welcome"
  /\ UNCHANGED <<defaults, here, userId, loyaltyId, lists, chains, store,
                 report, history>>

\* submitLogin succeeds.
Login(u) ==
  /\ screen = "login"
  /\ UserID' = u /\ IsloggedIn' = TRUE
  /\ NewDashboard(u)
  /\ UNCHANGED <<LoyaltyId, chains, store, report, history>>

\* Logging out.  The dashboard of the other kind of customer leaves the
\* tables alone.
Logout ==
  /\ screen = "dashboard" /\ ~AlertUp
  /\ IsloggedIn' = FALSE /\ screen' = "leaving"
  /\ \/ store' = {} /\ report' = {}
     \/ UNCHANGED <<store, report>>
  /\ UNCHANGED <<UserID, LoyaltyId, here, userId, loyaltyId, lists, chains,
                 history>>

\* The identity is removed and the Welcome screen becomes the root.
Forget ==
  /\ IsloggedIn' = FALSE /\ UserID' = NoUser /\ LoyaltyId' = NoUser
  /\ screen' = "welcome" /\ here' = "none"
  /\ chains' = [k \in Chains |-> IF Is(k, "alert") THEN Idle ELSE chains[k]]
  /\ strayIdentity' = (~Quiet /\ (strayIdentity
                                    \/ \E k \in Chains : Is(k, "refresh")))
  /\ UNCHANGED <<userId, loyaltyId, lists, strayChains>>

\* The block that logging out queued.
LogoutDone == screen = "leaving" /\ Forget /\ UNCHANGED <<store, report>>

\* Mutant of DeletedAccount: the side menu has no window any more, whose root
\* could be replaced.
DeletedAccountStays ==
  /\ screen = "dashboard" /\ ~AlertUp
  /\ IsloggedIn' = FALSE /\ UserID' = NoUser /\ LoyaltyId' = NoUser
  /\ screen' = "welcome" /\ store' = {}
  /\ UNCHANGED <<here, userId, loyaltyId, lists, chains, report, history>>

\* deletedAccount: the account is gone, the status report is left.
DeletedAccount ==
  /\ screen = "dashboard" /\ ~AlertUp
  /\ Forget /\ store' = {} /\ UNCHANGED report

\* The process is killed: while the rows of an answer are saved, or between
\* the two blocks of logging out.
Crash ==
  /\ screen # "off" /\ screen' = "off" /\ here' = "none"
  /\ chains' = [k \in Chains |-> Idle]
  /\ \E part \in SUBSET UNION {chains[k].codes : k \in {j \in Chains : Is(j, "sent")}} :
        report' = report \cup part
  /\ codeLIST' = [o \in Owners |-> {}]
  /\ newproductArray' = [o \in Owners |-> {}]
  /\ strayIdentity' = (strayIdentity \/ screen = "leaving")
  /\ userId' = [d \in Dashes |-> NoUser] /\ loyaltyId' = NoUser
  /\ UNCHANGED <<defaults, store, strayChains>>

-----------------------------------------------------------------------------
(* The dashboard                                                           *)

\* viewWillAppear: maintenance, token and dashboard requests.
Refresh(k) ==
  /\ screen = "dashboard" /\ Is(k, "idle")
  /\ chains' = [chains EXCEPT ![k] = [Idle EXCEPT !.phase = "refresh",
                                                  !.owner = here]]
  /\ UNCHANGED <<defaults, window, lists, store, report, history>>

\* dashBoardApi completes: the answer is stored, then fetchDetails.
RefreshDone(k) ==
  /\ Is(k, "refresh")
  /\ LET d == chains[k].owner IN
       /\ LoyaltyId' = userId[d]
       /\ \/ /\ codeLIST' = [codeLIST EXCEPT ![d] = store]
             /\ chains' = IF store = {} THEN Ended(k) ELSE Moved(k, "delay")
          \/ chains' = Ended(k) /\ UNCHANGED codeLIST
  /\ UNCHANGED <<IsloggedIn, UserID, window, newproductArray, store, report,
                 history>>

\* codesSubmission, 0.3 s later; offline it does nothing.
DelayOver(k) ==
  /\ Is(k, "delay")
  /\ LET d == chains[k].owner
         cs == newproductArray[d] \cup codeLIST[d]
     IN \/ /\ newproductArray' = [newproductArray EXCEPT ![d] = cs]
           /\ chains' = Requesting(k, d, userId[d], cs)
        \/ chains' = Ended(k) /\ UNCHANGED newproductArray
  /\ UNCHANGED <<defaults, window, codeLIST, store, report, history>>

-----------------------------------------------------------------------------
(* The scan screen                                                         *)

OpenScan ==
  /\ screen = "dashboard" /\ ~AlertUp
  /\ screen' = "scan" /\ loyaltyId' = LoyaltyId
  /\ codeLIST' = [codeLIST EXCEPT !["scan"] = store]
  /\ Listing(store)
  /\ UNCHANGED <<defaults, here, userId, newproductArray, chains, store,
                 history>>

\* The user scans or types one of his codes.
ScanCode(c) ==
  /\ screen = "scan" /\ ~AlertUp
  /\ c.by = UserID /\ c \notin codeLIST["scan"]
  /\ store' = store \cup {c}
  /\ codeLIST' = [codeLIST EXCEPT !["scan"] = store']
  /\ Listing(store')
  /\ UNCHANGED <<defaults, window, newproductArray, chains, history>>

\* On the list of codes; the scan screen may not hear of it.
RemoveCode(c) ==
  /\ screen = "scan" /\ ~AlertUp /\ c \in store
  /\ store' = store \ {c}
  /\ \/ codeLIST' = [codeLIST EXCEPT !["scan"] = store']
     \/ UNCHANGED codeLIST
  /\ UNCHANGED <<defaults, window, newproductArray, chains, report, history>>

Collected == newproductArray["scan"] \cup codeLIST["scan"]

\* codesSubmission: the screen stays, is being closed, or, offline, closes
\* itself after it has listed the codes.
SubmitScan(k) ==
  /\ screen = "scan" /\ ~AlertUp /\ Is(k, "idle")
  /\ \/ /\ chains' = Requesting(k, "scan", loyaltyId, Collected)
        /\ newproductArray' = [newproductArray EXCEPT !["scan"] = Collected]
        /\ codeLIST' = [codeLIST EXCEPT !["scan"] = store]
        /\ UNCHANGED <<window, report>>
     \/ /\ LeaveScan(Requesting(k, "scan", loyaltyId, Collected))
        /\ UNCHANGED report
     \/ LeaveScan(chains) /\ report' = report \cup store
  /\ UNCHANGED <<defaults, store, history>>

CloseScan ==
  /\ screen = "scan" /\ ~AlertUp
  /\ LeaveScan(chains)
  /\ UNCHANGED <<defaults, store, report, history>>

-----------------------------------------------------------------------------
(* The callbacks of a submission                                           *)

\* codesSubmissionsApi, with or without a connection.
GeocodeDone(k) ==
  /\ Is(k, "geocode")
  /\ \/ /\ chains' = Moved(k, "sent")
        /\ UNCHANGED <<window, lists, report>>
     \/ /\ chains[k].owner = "scan"
        /\ LeaveScan(Ended(k)) /\ report' = report \cup store
     \/ /\ chains[k].owner = "orphan"
        /\ chains' = Ended(k) /\ report' = report \cup store
        /\ UNCHANGED <<window, lists>>
     \/ /\ chains[k].owner \in Dashes
        /\ chains' = Ended(k)
        /\ UNCHANGED <<window, lists, report>>
  /\ UNCHANGED <<defaults, store, history>>

\* No answer: the spinner stops.
Lost(k) ==
  /\ Is(k, "refresh") \/ Is(k, "sent")
  /\ chains' = Ended(k)
  /\ UNCHANGED <<defaults, window, lists, store, report, history>>

\* The answer has a row for each code.
Recorded(k) ==
  /\ Is(k, "sent")
  /\ report' = report \cup chains[k].codes
  /\ chains' = IF chains[k].owner = "orphan" THEN Ended(k)
               ELSE [chains EXCEPT ![k] = [@ EXCEPT !.phase = "dismiss",
                                                    !.codes = {}]]
  /\ UNCHANGED <<defaults, window, lists, store, history>>

\* The answer is empty.  The alert needs a screen: that of a dashboard which
\* has left the window, or of a scan screen that dismisses itself, is lost.
Refused(k) ==
  /\ Is(k, "sent")
  /\ LET o == chains[k].owner
         asked == [chains EXCEPT ![k] = [@ EXCEPT !.phase = "alert",
                                                  !.codes = {}]]
     IN \/ o = "scan" /\ chains' = asked /\ UNCHANGED <<window, lists>>
        \/ o = "scan" /\ LeaveScan(Ended(k))
        \/ o = here /\ screen = "scan" /\ LeaveScan(asked)
        \/ /\ o = here /\ screen # "scan"
           /\ chains' = asked /\ UNCHANGED <<window, lists>>
        \/ /\ o \notin {"scan", here}
           /\ chains' = Ended(k) /\ UNCHANGED <<window, lists>>
  /\ UNCHANGED <<defaults, store, report, history>>

AlertOK(k) ==
  /\ Is(k, "alert")
  /\ store' = {}
  /\ codeLIST' = [codeLIST EXCEPT ![chains[k].owner] = {}]
  /\ chains' = Ended(k)
  /\ UNCHANGED <<defaults, window, newproductArray, report, history>>

\* Mutant of DismissDone: the table is fetched before it is emptied.
DismissDoneFetchingFirst(k) ==
  /\ Is(k, "dismiss")
  /\ store' = {}
  /\ \/ chains[k].owner \in {"scan", here} /\ screen = "scan" /\ LeaveScan(Ended(k))
     \/ /\ chains[k].owner \in Dashes
        /\ chains[k].owner # here \/ screen # "scan"
        /\ codeLIST' = [codeLIST EXCEPT ![chains[k].owner] = store]
        /\ chains' = IF store = {} THEN Ended(k) ELSE Moved(k, "delay")
        /\ UNCHANGED <<window, newproductArray>>
  /\ UNCHANGED <<defaults, report, history>>

\* The completion of the dismissal: clearTable, whosever codes the table
\* holds by now, then fetchDetails, which finds none (offline a dashboard
\* keeps its copy).  What covered the screen is dismissed with it.
DismissDone(k) ==
  /\ Is(k, "dismiss")
  /\ store' = {}
  /\ LET o == chains[k].owner
         fetched == {codeLIST} \cup {[codeLIST EXCEPT ![d] = {}] : d \in {o} \cap Dashes}
     IN \E f \in fetched :
          \/ /\ o \in {"scan", here} /\ screen = "scan"
             /\ screen' = "dashboard" /\ loyaltyId' = NoUser
             /\ chains' = Orphaned(Ended(k))
             /\ codeLIST' = Released(f)
             /\ newproductArray' = Released(newproductArray)
             /\ UNCHANGED <<here, userId>>
          \/ /\ o \in Dashes /\ (o # here \/ screen # "scan")
             /\ codeLIST' = f /\ chains' = Ended(k)
             /\ UNCHANGED <<window, newproductArray>>
  /\ UNCHANGED <<defaults, report, history>>

-----------------------------------------------------------------------------
Account == \/ Launch \/ ChooseLanguage \/ BackToWelcome
           \/ \E u \in Users : Login(u)
           \/ Logout \/ LogoutDone \/ DeletedAccount

Scanning == \/ OpenScan \/ CloseScan
            \/ \E c \in Codes : ScanCode(c) \/ RemoveCode(c)

Submission(k) == \/ Refresh(k) \/ RefreshDone(k) \/ DelayOver(k)
                 \/ SubmitScan(k) \/ GeocodeDone(k) \/ Lost(k)
                 \/ Recorded(k) \/ Refused(k) \/ AlertOK(k) \/ DismissDone(k)

Next == Account \/ Crash \/ Scanning \/ \E k \in Chains : Submission(k)

Spec == Init /\ [][Next]_vars

-----------------------------------------------------------------------------
(* Properties                                                              *)

\* The codes on the phone are those of the user who is logged in, whichever
\* way the last one left, by a crash in the middle of logging out too, and
\* whatever is still under way for that one: nothing that another user has
\* scanned is ever uploaded from the table (clearTable of EBC_WelcomeVC).
OwnCodes == IsloggedIn => store = By(UserID, store)

\* The status report shows the user no other user's codes, unless something
\* of the last session was still under way when the tables were emptied for
\* this one (clearTable1).
OwnReport == IsloggedIn /\ ~strayChains => report = By(UserID, report)

\* A code is submitted for the user who scanned it, or for nobody, if the
\* scan screen was opened before the dashboard had an answer - unless a
\* refresh of the dashboard was under way when an earlier user's identity was
\* removed: submissions of the last session that outlive it do not mix
\* (loyaltyIDData, LoyaltyId).
OwnCredit ==
  ~strayIdentity =>
    \A k \in Chains :
      chains[k].as # NoUser => chains[k].codes = By(chains[k].as, chains[k].codes)
=============================================================================
