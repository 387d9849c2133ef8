---------------------------- MODULE Session_proofs ----------------------------
(***************************************************************************)
(* Session keeps its types, and the codes on the phone, the status report  *)
(* and the submissions are those of one user each: for any users, codes,   *)
(* dashboards and submissions under way.                                   *)
(***************************************************************************)
EXTENDS Session, TLAPS

Own(u, cs) == \A c \in cs : c.by = u

-----------------------------------------------------------------------------
(* The invariant                                                           *)

\* An idle chain carries nothing; a scan screen's chains and lists go with it;
\* nothing is left of a process that is gone.
Shape ==
  /\ \A k \in Chains : Is(k, "idle") => chains[k] = Idle
  /\ \A k \in Chains : Is(k, "refresh") \/ Is(k, "delay") => chains[k].owner \in Dashes
  /\ \A k \in Chains : chains[k].owner = "scan" => screen = "scan"
  /\ screen # "scan" => codeLIST["scan"] = {} /\ newproductArray["scan"] = {}
  /\ screen = "off" =>
       /\ \A k \in Chains : chains[k] = Idle
       /\ \A o \in Owners : codeLIST[o] = {} /\ newproductArray[o] = {}

\* The dashboard of the window and the table are those of the user who is, or
\* was until he logged out, logged in; so are the lists of the scan screen.
OneUser ==
  /\ screen \in {"welcome", "login"} => ~IsloggedIn
  /\ screen \in {"dashboard", "scan"} => IsloggedIn
  /\ screen = "login" => store = {}
  /\ InSession => userId[here] = UserID
  /\ InSession \/ IsloggedIn => Own(UserID, store)
  /\ screen = "scan" =>
       Own(UserID, codeLIST["scan"]) /\ Own(UserID, newproductArray["scan"])

\* A login with nothing under way leads to a session in which everything that
\* is under way, and the report, is of its user.
ReportInv ==
  ~strayChains =>
    /\ screen = "login" => report = {} /\ \A k \in Chains : chains[k] = Idle
    /\ IsloggedIn =>
         /\ Own(UserID, report)
         /\ \A k \in Chains : /\ chains[k].owner \in {here, "scan", "orphan", "none"}
                              /\ Own(UserID, chains[k].codes)
         /\ here \in Dashes =>
              Own(UserID, codeLIST[here]) /\ Own(UserID, newproductArray[here])

Live(d) == d = here \/ \E k \in Chains : chains[k].owner = d

\* If no refresh outlived its session, the stored identity is that of the
\* user, and every dashboard that can still submit has its own user's codes.
CreditInv ==
  ~strayIdentity =>
    /\ \A k \in Chains : Is(k, "refresh") => InSession /\ chains[k].owner = here
    /\ LoyaltyId \in {NoUser, UserID}
    /\ ~InSession /\ ~IsloggedIn => UserID = NoUser
    /\ screen = "scan" => loyaltyId \in {NoUser, UserID}
    /\ \A d \in Dashes : Live(d) =>
         Own(userId[d], codeLIST[d]) /\ Own(userId[d], newproductArray[d])
    /\ \A k \in Chains :
         chains[k].as # NoUser => Own(chains[k].as, chains[k].codes)

IInv == TypeOK /\ Shape /\ OneUser /\ ReportInv /\ CreditInv

LEMMA OwnIsBy ==
  ASSUME NEW u, NEW cs
  PROVE  Own(u, cs) <=> cs = By(u, cs)
BY DEF Own, By

LEMMA Names_ ==
  /\ "scan" \notin Dashes /\ "none" \notin Dashes /\ "orphan" \notin Dashes
  /\ NoUser \notin Users /\ Idle \in Chain /\ Idle.owner = "none"
  /\ Idle.codes = {} /\ Idle.as = NoUser /\ Idle.phase = "idle"
BY DashesAssumption, UsersAssumption DEF Idle, Chain, Names

-----------------------------------------------------------------------------
(* Types                                                                   *)

LEMMA ChainTypes ==
  ASSUME TypeOK
  PROVE  /\ \A k \in Chains : Ended(k) \in [Chains -> Chain]
         /\ \A k \in Chains :
              \A p \in {"delay", "sent", "dismiss", "alert"} :
                Moved(k, p) \in [Chains -> Chain]
         /\ \A k \in Chains : \A o \in Owners : \A u \in Names :
              \A cs \in SUBSET Codes : Requesting(k, o, u, cs) \in [Chains -> Chain]
         /\ \A f \in [Chains -> Chain] : Orphaned(f) \in [Chains -> Chain]
<1>1. \A k \in Chains : Ended(k) \in [Chains -> Chain]
  BY Names_ DEF TypeOK, Ended
<1>2. ASSUME NEW k \in Chains, NEW p \in {"delay", "sent", "dismiss", "alert"}
      PROVE  Moved(k, p) \in [Chains -> Chain]
  BY DEF TypeOK, Moved, Chain
<1>3. ASSUME NEW k \in Chains, NEW o \in Owners, NEW u \in Names,
             NEW cs \in SUBSET Codes
      PROVE  Requesting(k, o, u, cs) \in [Chains -> Chain]
  <2>1. [phase |-> "geocode", owner |-> o, as |-> u, codes |-> cs] \in Chain
    BY DEF Chain
  <2> QED BY <2>1 DEF TypeOK, Requesting
<1>4. ASSUME NEW f \in [Chains -> Chain]
      PROVE  Orphaned(f) \in [Chains -> Chain]
  <2>1. \A k \in Chains : [f[k] EXCEPT !.owner = "orphan"] \in Chain
    BY DEF Chain
  <2> QED BY <2>1, Names_ DEF Orphaned
<1> QED BY <1>1, <1>2, <1>3, <1>4

LEMMA ListTypes ==
  ASSUME NEW f \in [Owners -> SUBSET Codes]
  PROVE  /\ Released(f) \in [Owners -> SUBSET Codes]
         /\ Released(f)["scan"] = {}
         /\ \A d \in Dashes : Released(f)[d] = f[d]
         /\ \A o : \A cs \in SUBSET Codes :
              [f EXCEPT ![o] = cs] \in [Owners -> SUBSET Codes]
BY Names_ DEF Released, Owners

\* The types of what a handler of the scan screen may disturb, and of the rest.
WindowOK ==
  /\ screen \in {"off", "welcome", "login", "dashboard", "scan", "leaving"}
  /\ here \in Dashes \cup {"none"} /\ (InSession <=> here \in Dashes)
  /\ userId \in [Dashes -> Names] /\ loyaltyId \in Names
  /\ codeLIST \in [Owners -> SUBSET Codes]
  /\ newproductArray \in [Owners -> SUBSET Codes]
  /\ chains \in [Chains -> Chain]

TablesOK ==
  /\ IsloggedIn \in BOOLEAN /\ UserID \in Names /\ LoyaltyId \in Names
  /\ store \in SUBSET Codes /\ report \in SUBSET Codes
  /\ strayChains \in BOOLEAN /\ strayIdentity \in BOOLEAN

LEMMA Parts ==
  (TypeOK <=> WindowOK /\ TablesOK) /\ (TypeOK' <=> WindowOK' /\ TablesOK')
BY DEF TypeOK, WindowOK, TablesOK

LEMMA LeaveScanTypes ==
  ASSUME TypeOK, screen = "scan", NEW f \in [Chains -> Chain], LeaveScan(f)
  PROVE  WindowOK'
<1>1. chains' \in [Chains -> Chain] BY ChainTypes DEF LeaveScan
<1>2. /\ codeLIST' \in [Owners -> SUBSET Codes]
      /\ newproductArray' \in [Owners -> SUBSET Codes]
  BY ListTypes DEF LeaveScan, TypeOK
<1> QED BY <1>1, <1>2 DEF LeaveScan, TypeOK, WindowOK, InSession, Names

LEMMA NewDashboardTypes ==
  ASSUME TypeOK, NEW u \in Names, NewDashboard(u), chains' = chains
  PROVE  WindowOK'
<1> USE DEF TypeOK, WindowOK, InSession
<1>1. PICK d \in Dashes :
        /\ screen' = "dashboard" /\ here' = d
        /\ userId' = [userId EXCEPT ![d] = u]
        /\ codeLIST' = [codeLIST EXCEPT ![d] = {}]
        /\ newproductArray' = [newproductArray EXCEPT ![d] = {}]
        /\ loyaltyId' = loyaltyId
  BY DEF NewDashboard
<1>2. /\ codeLIST' \in [Owners -> SUBSET Codes]
      /\ newproductArray' \in [Owners -> SUBSET Codes]
  BY <1>1, ListTypes
<1>3. userId' \in [Dashes -> Names] BY <1>1
<1> QED BY <1>1, <1>2, <1>3

LEMMA ForgetTypes ==
  ASSUME TypeOK, Forget
  PROVE  WindowOK' /\ IsloggedIn' \in BOOLEAN /\ UserID' \in Names
         /\ LoyaltyId' \in Names /\ strayChains' \in BOOLEAN
         /\ strayIdentity' \in BOOLEAN
<1>1. chains' \in [Chains -> Chain] BY Names_ DEF Forget, TypeOK
<1>2. strayIdentity' \in BOOLEAN BY DEF Forget
<1>3. WindowOK'
  BY <1>1, Names_ DEF Forget, TypeOK, WindowOK, InSession, lists
<1> QED BY <1>2, <1>3 DEF Forget, TypeOK, Names

LEMMA TypeInit == Init => TypeOK
BY Names_, DashesAssumption DEF Init, TypeOK, InSession, Names, Owners

LEMMA TypeStep ==
  ASSUME TypeOK, Shape, Next
  PROVE  TypeOK'
<1> USE Parts
<1>0. chains \in [Chains -> Chain] /\ UserID \in Names /\ store \subseteq Codes
  BY DEF TypeOK
<1>1. CASE Launch
  <2>1. CASE NewDashboard(UserID)
    BY <1>0, <1>1, <2>1, NewDashboardTypes DEF Launch, TablesOK, defaults, history
  <2>2. CASE screen' = "welcome" /\ UNCHANGED <<here, userId, loyaltyId, lists>>
    BY <1>1, <2>2 DEF Launch, TypeOK, InSession, defaults, lists, history
  <2> QED BY <1>1, <2>1, <2>2 DEF Launch
<1>2. CASE ChooseLanguage
  BY <1>2 DEF ChooseLanguage, TypeOK, InSession, defaults, lists, Quiet
<1>3. CASE BackToWelcome
  BY <1>3 DEF BackToWelcome, TypeOK, InSession, defaults, lists, history
<1>4. ASSUME NEW u \in Users, Login(u) PROVE TypeOK'
  BY <1>0, <1>4, NewDashboardTypes DEF Login, TablesOK, history, Names
<1>5. CASE Logout
  BY <1>5 DEF Logout, TypeOK, InSession, lists, history
<1>6. CASE LogoutDone
  BY <1>6, ForgetTypes DEF LogoutDone, TablesOK
<1>7. CASE DeletedAccount
  BY <1>7, ForgetTypes DEF DeletedAccount, TablesOK
<1>8. CASE Crash
  <2>1. PICK part \in SUBSET UNION {chains[k].codes : k \in {j \in Chains : Is(j, "sent")}} :
          report' = report \cup part
    BY <1>8 DEF Crash
  <2>2. \A k \in Chains : chains[k].codes \subseteq Codes BY <1>0 DEF Chain
  <2>3. report' \subseteq Codes BY <2>1, <2>2 DEF TypeOK
  <2>4. chains' \in [Chains -> Chain] BY <1>8, Names_ DEF Crash
  <2> QED BY <1>8, <2>3, <2>4, DashesAssumption DEF Crash, TypeOK, InSession, defaults, Names
<1>9. CASE OpenScan
  <2>1. codeLIST' \in [Owners -> SUBSET Codes]
    BY <1>9, <1>0, ListTypes DEF OpenScan, TypeOK
  <2> QED BY <1>9, <2>1 DEF OpenScan, Listing, TypeOK, InSession, defaults, history
<1>10. CASE CloseScan
  BY <1>0, <1>10, LeaveScanTypes DEF CloseScan, TablesOK, defaults, history
<1>11. ASSUME NEW c \in Codes, ScanCode(c) PROVE TypeOK'
  <2>1. store' \subseteq Codes BY <1>0, <1>11 DEF ScanCode
  <2>2. codeLIST' \in [Owners -> SUBSET Codes]
    BY <1>11, <2>1, ListTypes DEF ScanCode, TypeOK
  <2> QED BY <1>11, <2>1, <2>2
          DEF ScanCode, Listing, TypeOK, InSession, defaults, history, window
<1>12. ASSUME NEW c \in Codes, RemoveCode(c) PROVE TypeOK'
  <2>1. store' \subseteq Codes BY <1>0, <1>12 DEF RemoveCode
  <2>2. codeLIST' \in [Owners -> SUBSET Codes]
    BY <1>12, <2>1, ListTypes DEF RemoveCode, TypeOK
  <2> QED BY <1>12, <2>1, <2>2
          DEF RemoveCode, TypeOK, InSession, defaults, history, window
<1>13. ASSUME NEW k \in Chains, Submission(k) PROVE TypeOK'
  <2>1. CASE Refresh(k)
    <3>1. [Idle EXCEPT !.phase = "refresh", !.owner = here] \in Chain
      BY <2>1, Names_ DEF Refresh, TypeOK, InSession, Chain, Owners
    <3>2. chains' \in [Chains -> Chain] BY <2>1, <3>1, <1>0 DEF Refresh
    <3> QED BY <2>1, <3>2 DEF Refresh, TypeOK, InSession, defaults, window, lists, history
  <2>2. CASE RefreshDone(k)
    <3>1. chains[k].owner \in Dashes BY <2>2 DEF RefreshDone, Shape
    <3>2. LoyaltyId' \in Names BY <2>2, <3>1 DEF RefreshDone, TypeOK
    <3>3. chains' \in [Chains -> Chain] BY <2>2, ChainTypes DEF RefreshDone
    <3>4. codeLIST' \in [Owners -> SUBSET Codes]
      BY <1>0, <2>2, ListTypes DEF RefreshDone, TypeOK
    <3> QED BY <2>2, <3>2, <3>3, <3>4 DEF RefreshDone, TypeOK, InSession, window, history
  <2>3. CASE DelayOver(k)
    <3> DEFINE d == chains[k].owner
               cs == newproductArray[d] \cup codeLIST[d]
    <3>1. d \in Dashes BY <2>3 DEF DelayOver, Shape
    <3>2. cs \subseteq Codes /\ userId[d] \in Names /\ d \in Owners
      BY <3>1 DEF TypeOK, Owners
    <3>3. newproductArray' \in [Owners -> SUBSET Codes]
      BY <2>3, <3>2, ListTypes DEF DelayOver, TypeOK
    <3>4. chains' = Requesting(k, d, userId[d], cs) \/ chains' = Ended(k)
      BY <2>3 DEF DelayOver
    <3>5. chains' \in [Chains -> Chain] BY <3>2, <3>4, ChainTypes
    <3> QED BY <2>3, <3>3, <3>5 DEF DelayOver, TypeOK, InSession, defaults, window, history
  <2>4. CASE SubmitScan(k)
    <3>1. Collected \subseteq Codes /\ loyaltyId \in Names /\ "scan" \in Owners
      BY DEF Collected, TypeOK, Owners
    <3>2. Requesting(k, "scan", loyaltyId, Collected) \in [Chains -> Chain]
      BY <3>1, ChainTypes
    <3>3. CASE LeaveScan(Requesting(k, "scan", loyaltyId, Collected)) /\ UNCHANGED report
      BY <2>4, <3>2, <3>3, LeaveScanTypes DEF SubmitScan, TablesOK, defaults, history
    <3>4. CASE LeaveScan(chains) /\ report' = report \cup store
      BY <2>4, <1>0, <3>4, LeaveScanTypes DEF SubmitScan, TablesOK, defaults, history
    <3>5. CASE /\ chains' = Requesting(k, "scan", loyaltyId, Collected)
               /\ newproductArray' = [newproductArray EXCEPT !["scan"] = Collected]
               /\ codeLIST' = [codeLIST EXCEPT !["scan"] = store]
               /\ UNCHANGED <<window, report>>
      <4>1. /\ newproductArray' \in [Owners -> SUBSET Codes]
            /\ codeLIST' \in [Owners -> SUBSET Codes]
        BY <1>0, <3>1, <3>5, ListTypes DEF TypeOK
      <4> QED BY <2>4, <3>2, <3>5, <4>1
              DEF SubmitScan, TypeOK, InSession, defaults, history, window
    <3> QED BY <2>4, <3>3, <3>4, <3>5 DEF SubmitScan
  <2>5. CASE GeocodeDone(k)
    <3>1. Ended(k) \in [Chains -> Chain] /\ Moved(k, "sent") \in [Chains -> Chain]
      BY ChainTypes
    <3>2. CASE chains[k].owner = "scan" /\ LeaveScan(Ended(k)) /\ report' = report \cup store
      BY <2>5, <3>1, <3>2, LeaveScanTypes
         DEF GeocodeDone, Shape, TablesOK, defaults, history
    <3>3. CASE /\ chains' \in {Ended(k), Moved(k, "sent")}
               /\ report' \in {report, report \cup store}
               /\ UNCHANGED <<window, lists>>
      BY <2>5, <3>1, <3>3
         DEF GeocodeDone, TypeOK, InSession, defaults, history, window, lists
    <3> QED BY <2>5, <3>2, <3>3 DEF GeocodeDone, lists, window
  <2>6. CASE Lost(k)
    BY <2>6, ChainTypes DEF Lost, TypeOK, InSession, defaults, history, window, lists
  <2>7. CASE Recorded(k)
    <3>1. chains[k].codes \subseteq Codes BY <1>0 DEF Chain
    <3>2. [chains[k] EXCEPT !.phase = "dismiss", !.codes = {}] \in Chain
      BY <1>0 DEF Chain
    <3>3. chains' \in [Chains -> Chain]
      BY <1>0, <2>7, <3>2, ChainTypes DEF Recorded
    <3> QED BY <2>7, <3>1, <3>3
            DEF Recorded, TypeOK, InSession, defaults, history, window, lists
  <2>8. CASE Refused(k)
    <3> DEFINE asked == [chains EXCEPT ![k] = [@ EXCEPT !.phase = "alert", !.codes = {}]]
    <3>1. [chains[k] EXCEPT !.phase = "alert", !.codes = {}] \in Chain
      BY <1>0 DEF Chain
    <3>2. asked \in [Chains -> Chain] /\ Ended(k) \in [Chains -> Chain]
      BY <1>0, <3>1, ChainTypes
    <3> HIDE DEF asked
    <3>3. CASE screen = "scan" /\ (LeaveScan(Ended(k)) \/ LeaveScan(asked))
      BY <2>8, <3>2, <3>3, LeaveScanTypes DEF Refused, TablesOK, defaults, history
    <3>4. CASE chains' \in {asked, Ended(k)} /\ UNCHANGED <<window, lists>>
      BY <2>8, <3>2, <3>4
         DEF Refused, TypeOK, InSession, defaults, history, window, lists
    <3> QED BY <2>8, <3>3, <3>4 DEF Refused, Shape, asked
  <2>9. CASE AlertOK(k)
    <3>1. codeLIST' \in [Owners -> SUBSET Codes]
      BY <2>9, ListTypes DEF AlertOK, TypeOK
    <3> QED BY <2>9, <3>1, ChainTypes
            DEF AlertOK, TypeOK, InSession, defaults, history, window
  <2>10. CASE DismissDone(k)
    <3> DEFINE o == chains[k].owner
               fetched == {codeLIST} \cup {[codeLIST EXCEPT ![d] = {}] : d \in {o} \cap Dashes}
    <3>1. \A f \in fetched : f \in [Owners -> SUBSET Codes]
      BY ListTypes DEF TypeOK
    <3>2. PICK f \in fetched :
            \/ /\ o \in {"scan", here} /\ screen = "scan"
               /\ screen' = "dashboard" /\ loyaltyId' = NoUser
               /\ chains' = Orphaned(Ended(k))
               /\ codeLIST' = Released(f)
               /\ newproductArray' = Released(newproductArray)
               /\ UNCHANGED <<here, userId>>
            \/ /\ o \in Dashes /\ (o # here \/ screen # "scan")
               /\ codeLIST' = f /\ chains' = Ended(k)
               /\ UNCHANGED <<window, newproductArray>>
      BY <2>10 DEF DismissDone
    <3>3. Ended(k) \in [Chains -> Chain] /\ Orphaned(Ended(k)) \in [Chains -> Chain]
      BY ChainTypes
    <3>4. /\ f \in [Owners -> SUBSET Codes] /\ Released(f) \in [Owners -> SUBSET Codes]
          /\ Released(newproductArray) \in [Owners -> SUBSET Codes]
      BY <3>1, ListTypes DEF TypeOK
    <3> HIDE DEF fetched
    <3>5. WindowOK'
      BY <3>2, <3>3, <3>4 DEF TypeOK, WindowOK, InSession, window, Names
    <3> QED BY <2>10, <3>5 DEF DismissDone, TypeOK, TablesOK, defaults, history
  <2> QED BY <1>13, <2>1, <2>2, <2>3, <2>4, <2>5, <2>6, <2>7, <2>8, <2>9, <2>10
          DEF Submission
<1> QED BY <1>1, <1>2, <1>3, <1>4, <1>5, <1>6, <1>7, <1>8, <1>9, <1>10, <1>11,
           <1>12, <1>13 DEF Next, Account, Scanning

-----------------------------------------------------------------------------
(* Shape                                                                   *)

\* The part of Shape about the chains, of chains g under a screen sc.
Fits(g, sc) ==
  \A j \in Chains :
    /\ g[j].phase = "idle" => g[j] = Idle
    /\ g[j].phase \in {"refresh", "delay"} => g[j].owner \in Dashes
    /\ g[j].owner = "scan" => sc = "scan"

LEMMA FitsFacts ==
  ASSUME TypeOK, NEW sc, Fits(chains, sc), NEW k \in Chains
  PROVE  /\ Fits(Ended(k), sc)
         /\ \A p \in {"sent", "dismiss", "alert"} : Fits(Moved(k, p), sc)
         /\ chains[k].owner \in Dashes => Fits(Moved(k, "delay"), sc)
         /\ \A o, u, cs : (o = "scan" => sc = "scan") => Fits(Requesting(k, o, u, cs), sc)
<1> USE Names_ DEF Fits, TypeOK
<1>1. Fits(Ended(k), sc) BY DEF Ended
<1>2. \A p \in {"sent", "dismiss", "alert"} : Fits(Moved(k, p), sc)
  BY DEF Moved, Chain
<1>3. chains[k].owner \in Dashes => Fits(Moved(k, "delay"), sc)
  BY DEF Moved, Chain
<1>4. ASSUME NEW o, NEW u, NEW cs, o = "scan" => sc = "scan"
      PROVE  Fits(Requesting(k, o, u, cs), sc)
  BY <1>4 DEF Requesting
<1> QED BY <1>1, <1>2, <1>3, <1>4

LEMMA OrphanedFits ==
  ASSUME NEW f \in [Chains -> Chain], NEW sc, NEW sc2, Fits(f, sc)
  PROVE  Fits(Orphaned(f), sc2)
BY Names_ DEF Fits, Orphaned, Chain

LEMMA ShapeParts ==
  /\ Shape => Fits(chains, screen)
  /\ /\ Fits(chains', screen')
     /\ screen' # "scan" => codeLIST'["scan"] = {} /\ newproductArray'["scan"] = {}
     /\ screen' = "off" =>
          /\ \A k \in Chains : chains'[k] = Idle
          /\ \A o \in Owners : codeLIST'[o] = {} /\ newproductArray'[o] = {}
     => Shape'
BY DEF Shape, Fits, Is

LEMMA ShapeInit == Init => Shape
BY Names_ DEF Init, Shape, Is, Owners

LEMMA LeaveScanShape ==
  ASSUME TypeOK, Shape, NEW f \in [Chains -> Chain], Fits(f, screen), LeaveScan(f)
  PROVE  Shape'
<1>1. Fits(chains', screen') BY OrphanedFits DEF LeaveScan
<1>2. codeLIST'["scan"] = {} /\ newproductArray'["scan"] = {}
  BY ListTypes DEF LeaveScan, TypeOK
<1> QED BY <1>1, <1>2, ShapeParts DEF LeaveScan

LEMMA NewDashboardShape ==
  ASSUME TypeOK, Shape, NEW u, NewDashboard(u), chains' = chains, screen # "scan"
  PROVE  Shape'
<1>1. /\ codeLIST'["scan"] = codeLIST["scan"]
      /\ newproductArray'["scan"] = newproductArray["scan"]
  BY Names_ DEF NewDashboard, TypeOK, Owners
<1>2. screen' = "dashboard" BY DEF NewDashboard
<1> QED BY <1>1, <1>2, ShapeParts DEF Shape, Fits, Is

LEMMA ForgetShape ==
  ASSUME TypeOK, Shape, screen # "scan", Forget
  PROVE  Shape'
<1>1. Fits(chains', screen') BY Names_, ShapeParts DEF Forget, Fits
<1> QED BY <1>1, ShapeParts DEF Forget, Shape, lists

LEMMA ShapeStep ==
  ASSUME TypeOK, Shape, Next
  PROVE  Shape'
<1> USE ShapeParts
<1>0. chains \in [Chains -> Chain] /\ "scan" \in Owners BY DEF TypeOK, Owners
<1>1. CASE Launch
  <2>1. CASE NewDashboard(UserID)
    BY <1>1, <2>1, NewDashboardShape DEF Launch
  <2>2. CASE screen' = "welcome" /\ UNCHANGED <<here, userId, loyaltyId, lists>>
    BY <1>0, <1>1, <2>2 DEF Launch, Shape, Fits, Is, lists
  <2> QED BY <1>1, <2>1, <2>2 DEF Launch
<1>2. CASE ChooseLanguage
  BY <1>2 DEF ChooseLanguage, Shape, Fits, Is, lists
<1>3. CASE BackToWelcome
  BY <1>3 DEF BackToWelcome, Shape, Fits, Is, lists
<1>4. ASSUME NEW u \in Users, Login(u) PROVE Shape'
  BY <1>4, NewDashboardShape DEF Login
<1>5. CASE Logout
  BY <1>5 DEF Logout, Shape, Fits, Is, lists
<1>6. CASE LogoutDone
  BY <1>6, ForgetShape DEF LogoutDone
<1>7. CASE DeletedAccount
  BY <1>7, ForgetShape DEF DeletedAccount
<1>8. CASE Crash
  BY <1>0, <1>8, Names_ DEF Crash, Fits
<1>9. CASE OpenScan
  BY <1>9 DEF OpenScan, Shape, Fits, Is
<1>10. CASE CloseScan
  BY <1>0, <1>10, LeaveScanShape DEF CloseScan
<1>11. ASSUME NEW c \in Codes, ScanCode(c) PROVE Shape'
  BY <1>11 DEF ScanCode, Shape, Fits, Is, window
<1>12. ASSUME NEW c \in Codes, RemoveCode(c) PROVE Shape'
  BY <1>12 DEF RemoveCode, Shape, Fits, Is, window
<1>13. ASSUME NEW k \in Chains, Submission(k) PROVE Shape'
  <2>0. /\ Fits(chains, screen) /\ chains[k].phase # "idle" => screen # "off"
        /\ Ended(k) \in [Chains -> Chain] /\ Fits(Ended(k), screen)
    BY Names_, ChainTypes, FitsFacts DEF Shape
  <2>1. CASE Refresh(k)
    <3>1. here \in Dashes BY <2>1 DEF Refresh, TypeOK, InSession
    <3>2. Fits(chains', screen')
      BY <1>0, <2>0, <2>1, <3>1, Names_ DEF Refresh, Fits, Idle, window
    <3> QED BY <2>1, <3>2 DEF Refresh, Shape, window, lists
  <2>2. CASE RefreshDone(k)
    <3>1. chains[k].owner \in Dashes BY <2>2 DEF RefreshDone, Shape
    <3>2. Fits(chains', screen')
      BY <2>0, <2>2, <3>1, FitsFacts DEF RefreshDone, window
    <3>3. codeLIST'["scan"] = codeLIST["scan"]
      BY <1>0, <2>2, <3>1, Names_ DEF RefreshDone, TypeOK
    <3> QED BY <2>0, <2>2, <3>2, <3>3 DEF RefreshDone, Shape, window, Is
  <2>3. CASE DelayOver(k)
    <3>1. chains[k].owner \in Dashes BY <2>3 DEF DelayOver, Shape
    <3>2. Fits(chains', screen')
      BY <2>0, <2>3, <3>1, Names_, FitsFacts DEF DelayOver, window
    <3>3. newproductArray'["scan"] = newproductArray["scan"]
      BY <1>0, <2>3, <3>1, Names_ DEF DelayOver, TypeOK
    <3> QED BY <2>0, <2>3, <3>2, <3>3 DEF DelayOver, Shape, window, Is
  <2>4. CASE SubmitScan(k)
    <3>1. Requesting(k, "scan", loyaltyId, Collected) \in [Chains -> Chain]
      BY ChainTypes DEF Collected, TypeOK, Owners
    <3>2. Fits(Requesting(k, "scan", loyaltyId, Collected), screen)
      BY <2>0, <2>4, FitsFacts DEF SubmitScan
    <3>3. CASE LeaveScan(Requesting(k, "scan", loyaltyId, Collected)) \/ LeaveScan(chains)
      BY <1>0, <2>0, <3>1, <3>2, <3>3, LeaveScanShape
    <3>4. CASE chains' = Requesting(k, "scan", loyaltyId, Collected) /\ UNCHANGED window
      BY <2>4, <3>2, <3>4 DEF SubmitScan, window
    <3> QED BY <2>4, <3>3, <3>4 DEF SubmitScan
  <2>5. CASE GeocodeDone(k)
    <3>1. CASE LeaveScan(Ended(k))
      BY <2>0, <3>1, LeaveScanShape
    <3>2. CASE chains' \in {Ended(k), Moved(k, "sent")} /\ UNCHANGED <<window, lists>>
      <4>1. Fits(chains', screen') BY <2>0, <3>2, FitsFacts DEF window
      <4> QED BY <2>0, <2>5, <3>2, <4>1 DEF GeocodeDone, Shape, window, lists, Is
    <3> QED BY <2>5, <3>1, <3>2 DEF GeocodeDone, lists, window
  <2>6. CASE Lost(k)
    BY <2>0, <2>6 DEF Lost, Shape, window, lists, Is
  <2>7. CASE Recorded(k)
    <3>1. Fits(chains', screen')
      BY <1>0, <2>0, <2>7, Names_ DEF Recorded, Fits, Chain, Ended, window
    <3> QED BY <2>0, <2>7, <3>1 DEF Recorded, Shape, window, lists, Is
  <2>8. CASE Refused(k)
    <3> DEFINE asked == [chains EXCEPT ![k] = [@ EXCEPT !.phase = "alert", !.codes = {}]]
    <3>1. asked \in [Chains -> Chain]
      <4>1. [chains[k] EXCEPT !.phase = "alert", !.codes = {}] \in Chain
        BY <1>0 DEF Chain
      <4> QED BY <1>0, <4>1
    <3>2. Fits(asked, screen) BY <1>0, <2>0, Names_ DEF Fits, Chain
    <3>3. CASE LeaveScan(Ended(k)) \/ LeaveScan(asked)
      BY <2>0, <3>1, <3>2, <3>3, LeaveScanShape
    <3>4. CASE chains' \in {asked, Ended(k)} /\ UNCHANGED <<window, lists>>
      BY <2>0, <2>8, <3>2, <3>4 DEF Refused, Shape, window, lists, Is
    <3> HIDE DEF asked
    <3> QED BY <2>8, <3>3, <3>4 DEF Refused, asked
  <2>9. CASE AlertOK(k)
    <3>1. codeLIST'["scan"] \in {{}, codeLIST["scan"]}
      BY <1>0, <2>9 DEF AlertOK, TypeOK
    <3> QED BY <2>0, <2>9, <3>1 DEF AlertOK, Shape, window, Is
  <2>10. CASE DismissDone(k)
    <3> DEFINE o == chains[k].owner
               fetched == {codeLIST} \cup {[codeLIST EXCEPT ![d] = {}] : d \in {o} \cap Dashes}
    <3>1. \A f \in fetched : f \in [Owners -> SUBSET Codes] /\ f["scan"] = codeLIST["scan"]
      BY <1>0, Names_, ListTypes DEF TypeOK
    <3>2. PICK f \in fetched :
            \/ /\ o \in {"scan", here} /\ screen = "scan"
               /\ screen' = "dashboard" /\ loyaltyId' = NoUser
               /\ chains' = Orphaned(Ended(k))
               /\ codeLIST' = Released(f)
               /\ newproductArray' = Released(newproductArray)
               /\ UNCHANGED <<here, userId>>
            \/ /\ o \in Dashes /\ (o # here \/ screen # "scan")
               /\ codeLIST' = f /\ chains' = Ended(k)
               /\ UNCHANGED <<window, newproductArray>>
      BY <2>10 DEF DismissDone
    <3>3. f \in [Owners -> SUBSET Codes] /\ f["scan"] = codeLIST["scan"]
      BY <3>1
    <3> HIDE DEF fetched
    <3>4. Fits(Orphaned(Ended(k)), "dashboard") BY <2>0, OrphanedFits
    <3>5. CASE screen' = "dashboard" /\ chains' = Orphaned(Ended(k))
               /\ codeLIST' = Released(f) /\ newproductArray' = Released(newproductArray)
      BY <3>3, <3>4, <3>5, ListTypes DEF TypeOK
    <3>6. CASE codeLIST' = f /\ chains' = Ended(k) /\ UNCHANGED <<window, newproductArray>>
      BY <2>0, <2>10, <3>3, <3>6 DEF DismissDone, Shape, window, Is
    <3> QED BY <3>2, <3>5, <3>6
  <2> QED BY <1>13, <2>1, <2>2, <2>3, <2>4, <2>5, <2>6, <2>7, <2>8, <2>9, <2>10
          DEF Submission
<1> QED BY <1>1, <1>2, <1>3, <1>4, <1>5, <1>6, <1>7, <1>8, <1>9, <1>10, <1>11,
           <1>12, <1>13 DEF Next, Account, Scanning

-----------------------------------------------------------------------------
(* One user at a time                                                      *)

LEMMA OneUserInit == Init => OneUser
BY DEF Init, OneUser, Own, InSession

LEMMA LeaveScanOneUser ==
  ASSUME TypeOK, OneUser, screen = "scan", NEW f, LeaveScan(f),
         UNCHANGED <<IsloggedIn, UserID, store>>
  PROVE  OneUser'
BY DEF LeaveScan, OneUser, Own, InSession

LEMMA OneUserStep ==
  ASSUME TypeOK, Shape, OneUser, Next
  PROVE  OneUser'
<1> USE DEF OneUser, InSession
<1>1. CASE Launch
  <2>1. CASE NewDashboard(UserID)
    BY <1>1, <2>1 DEF Launch, NewDashboard, TypeOK, Own, defaults
  <2>2. CASE ~IsloggedIn /\ screen' = "welcome"
    BY <1>1, <2>2 DEF Launch, defaults
  <2> QED BY <1>1, <2>1, <2>2 DEF Launch
<1>2. CASE ChooseLanguage
  BY <1>2 DEF ChooseLanguage, defaults
<1>3. CASE BackToWelcome
  BY <1>3 DEF BackToWelcome, defaults
<1>4. ASSUME NEW u \in Users, Login(u) PROVE OneUser'
  BY <1>4 DEF Login, NewDashboard, TypeOK, Own
<1>5. CASE Logout
  BY <1>5 DEF Logout, Own
<1>6. CASE LogoutDone
  BY <1>6 DEF LogoutDone, Forget
<1>7. CASE DeletedAccount
  BY <1>7 DEF DeletedAccount, Forget
<1>8. CASE Crash
  BY <1>8 DEF Crash, Own, defaults
<1>9. CASE OpenScan
  <2>1. codeLIST'["scan"] = store BY <1>9 DEF OpenScan, TypeOK, Owners
  <2> QED BY <1>9, <2>1 DEF OpenScan, Shape, Own, defaults
<1>10. CASE CloseScan
  BY <1>10, LeaveScanOneUser DEF CloseScan, defaults
<1>11. ASSUME NEW c \in Codes, ScanCode(c) PROVE OneUser'
  <2>1. codeLIST'["scan"] = store' BY <1>11 DEF ScanCode, TypeOK, Owners
  <2> QED BY <1>11, <2>1 DEF ScanCode, Own, defaults, window
<1>12. ASSUME NEW c \in Codes, RemoveCode(c) PROVE OneUser'
  <2>1. codeLIST'["scan"] \in {store', codeLIST["scan"]}
    BY <1>12 DEF RemoveCode, TypeOK, Owners
  <2> QED BY <1>12, <2>1 DEF RemoveCode, Own, defaults, window
<1>13. ASSUME NEW k \in Chains, Submission(k) PROVE OneUser'
  <2>1. CASE Refresh(k)
    BY <2>1 DEF Refresh, Own, defaults, window, lists
  <2>2. CASE RefreshDone(k)
    <3>1. codeLIST'["scan"] = codeLIST["scan"]
      BY <2>2, Names_ DEF RefreshDone, Shape, TypeOK, Owners
    <3> QED BY <2>2, <3>1 DEF RefreshDone, Own, window
  <2>3. CASE DelayOver(k)
    <3>1. newproductArray'["scan"] = newproductArray["scan"]
      BY <2>3, Names_ DEF DelayOver, Shape, TypeOK, Owners
    <3> QED BY <2>3, <3>1 DEF DelayOver, Own, defaults, window
  <2>4. CASE SubmitScan(k)
    <3>1. CASE \E f : LeaveScan(f)
      BY <2>4, <3>1, LeaveScanOneUser DEF SubmitScan, defaults
    <3>2. CASE /\ newproductArray' = [newproductArray EXCEPT !["scan"] = Collected]
               /\ codeLIST' = [codeLIST EXCEPT !["scan"] = store]
               /\ UNCHANGED window
      <4>1. newproductArray'["scan"] = Collected /\ codeLIST'["scan"] = store
        BY <3>2 DEF TypeOK, Owners
      <4> QED BY <2>4, <3>2, <4>1 DEF SubmitScan, Collected, Own, defaults, window
    <3> QED BY <2>4, <3>1, <3>2 DEF SubmitScan
  <2>5. CASE GeocodeDone(k)
    <3>1. CASE chains[k].owner = "scan" /\ LeaveScan(Ended(k))
      BY <2>5, <3>1, LeaveScanOneUser DEF GeocodeDone, Shape, defaults
    <3>2. CASE UNCHANGED <<window, lists>>
      BY <2>5, <3>2 DEF GeocodeDone, Own, defaults, window, lists
    <3> QED BY <2>5, <3>1, <3>2 DEF GeocodeDone, lists, window
  <2>6. CASE Lost(k)
    BY <2>6 DEF Lost, Own, defaults, window, lists
  <2>7. CASE Recorded(k)
    BY <2>7 DEF Recorded, Own, defaults, window, lists
  <2>8. CASE Refused(k)
    <3>1. CASE screen = "scan" /\ \E f : LeaveScan(f)
      BY <2>8, <3>1, LeaveScanOneUser DEF Refused, defaults
    <3>2. CASE UNCHANGED <<window, lists>>
      BY <2>8, <3>2 DEF Refused, Own, defaults, window, lists
    <3> QED BY <2>8, <3>1, <3>2 DEF Refused, Shape
  <2>9. CASE AlertOK(k)
    <3>1. codeLIST'["scan"] \in {{}, codeLIST["scan"]}
      BY <2>9 DEF AlertOK, TypeOK, Owners
    <3> QED BY <2>9, <3>1 DEF AlertOK, Own, defaults, window
  <2>10. CASE DismissDone(k)
    <3>1. CASE screen' = "dashboard" /\ screen = "scan" /\ UNCHANGED <<here, userId>>
      BY <2>10, <3>1 DEF DismissDone, Own, defaults
    <3>2. CASE UNCHANGED <<window, newproductArray>>
               /\ codeLIST'["scan"] = codeLIST["scan"]
      BY <2>10, <3>2 DEF DismissDone, Own, defaults, window
    <3>3. \A d \in Dashes : [codeLIST EXCEPT ![d] = {}]["scan"] = codeLIST["scan"]
      BY Names_ DEF TypeOK, Owners
    <3> QED BY <2>10, <3>1, <3>2, <3>3 DEF DismissDone
  <2> QED BY <1>13, <2>1, <2>2, <2>3, <2>4, <2>5, <2>6, <2>7, <2>8, <2>9, <2>10
          DEF Submission
<1> QED BY <1>1, <1>2, <1>3, <1>4, <1>5, <1>6, <1>7, <1>8, <1>9, <1>10, <1>11,
           <1>12, <1>13 DEF Next, Account, Scanning

-----------------------------------------------------------------------------
(* The status report                                                       *)

\* Every chain of g is of a screen of the window h, or of a scan screen, and
\* carries codes of u.
Mine(g, h, u) ==
  \A j \in Chains : /\ g[j].owner \in {h, "scan", "orphan", "none"}
                    /\ Own(u, g[j].codes)

LEMMA MineFacts ==
  ASSUME TypeOK, NEW h, NEW u, Mine(chains, h, u), NEW k \in Chains
  PROVE  /\ Mine(Ended(k), h, u)
         /\ \A p : Mine(Moved(k, p), h, u)
         /\ \A o, v, cs : o \in {h, "scan"} /\ Own(u, cs) =>
                            Mine(Requesting(k, o, v, cs), h, u)
         /\ \A p : Mine([chains EXCEPT ![k] = [@ EXCEPT !.phase = p, !.codes = {}]], h, u)
<1> USE Names_ DEF Mine, Own, TypeOK
<1>1. Mine(Ended(k), h, u) BY DEF Ended
<1>2. \A p : Mine(Moved(k, p), h, u) BY DEF Moved, Chain
<1>3. ASSUME NEW o, NEW v, NEW cs, o \in {h, "scan"}, Own(u, cs)
      PROVE  Mine(Requesting(k, o, v, cs), h, u)
  BY <1>3 DEF Requesting
<1>4. \A p : Mine([chains EXCEPT ![k] = [@ EXCEPT !.phase = p, !.codes = {}]], h, u)
  BY DEF Chain
<1> QED BY <1>1, <1>2, <1>3, <1>4

LEMMA OrphanedMine ==
  ASSUME NEW f \in [Chains -> Chain], NEW h, NEW u, Mine(f, h, u)
  PROVE  Mine(Orphaned(f), h, u)
BY Names_ DEF Mine, Own, Orphaned, Chain

\* What ReportInv says of a session.
Reported ==
  /\ Own(UserID, report) /\ Mine(chains, here, UserID)
  /\ here \in Dashes => Own(UserID, codeLIST[here]) /\ Own(UserID, newproductArray[here])

LEMMA ReportParts ==
  /\ ReportInv /\ ~strayChains /\ IsloggedIn => Reported
  /\ ~strayChains' /\ screen' # "login" /\ (IsloggedIn' => Reported') => ReportInv'
  /\ strayChains' \/ (screen' # "login" /\ ~IsloggedIn') => ReportInv'
BY DEF ReportInv, Reported, Mine

LEMMA ReportInit == Init => ReportInv
BY DEF Init, ReportInv

LEMMA LeaveScanReported ==
  ASSUME TypeOK, screen = "scan", Reported, NEW f \in [Chains -> Chain],
         Mine(f, here, UserID), LeaveScan(f), Own(UserID, report'),
         UNCHANGED <<IsloggedIn, UserID>>
  PROVE  Reported'
<1>1. Mine(chains', here', UserID') BY OrphanedMine DEF LeaveScan
<1>2. here \in Dashes => /\ codeLIST'[here] = codeLIST[here]
                        /\ newproductArray'[here] = newproductArray[here]
  BY ListTypes DEF LeaveScan, TypeOK
<1> QED BY <1>1, <1>2 DEF Reported, LeaveScan, Own

LEMMA NewDashboardReported ==
  ASSUME TypeOK, NEW u, NewDashboard(u), UserID' = u, Own(u, report'),
         \A k \in Chains : chains'[k] = Idle
  PROVE  Reported'
<1>1. /\ here' \in Dashes /\ codeLIST'[here'] = {} /\ newproductArray'[here'] = {}
  BY DEF NewDashboard, TypeOK, Owners
<1>2. Mine(chains', here', UserID') BY Names_ DEF Mine, Own
<1> QED BY <1>1, <1>2 DEF Reported, Own

LEMMA ReportStep ==
  ASSUME TypeOK, Shape, OneUser, ReportInv, Next
  PROVE  ReportInv'
<1> USE ReportParts
<1>0. chains \in [Chains -> Chain] /\ "scan" \in Owners /\ "scan" \notin Dashes
  BY Names_ DEF TypeOK, Owners
<1>1. CASE Launch
  <2>1. CASE IsloggedIn /\ NewDashboard(UserID)
    BY <1>1, <2>1, NewDashboardReported
       DEF Launch, NewDashboard, Shape, Reported, defaults, history
  <2>2. CASE ~IsloggedIn /\ screen' = "welcome"
    BY <1>1, <2>2 DEF Launch, defaults
  <2> QED BY <1>1, <2>1, <2>2 DEF Launch
<1>2. CASE ChooseLanguage
  <2>1. ~strayChains' => \A k \in Chains : chains'[k] = Idle
    BY <1>2 DEF ChooseLanguage, Quiet, Shape
  <2> QED BY <1>2, <2>1 DEF ChooseLanguage, OneUser, ReportInv, defaults
<1>3. CASE BackToWelcome
  BY <1>3 DEF BackToWelcome, OneUser, defaults
<1>4. ASSUME NEW u \in Users, Login(u) PROVE ReportInv'
  <2>1. CASE ~strayChains'
    <3>1. Reported'
      BY <1>4, <2>1, NewDashboardReported DEF Login, ReportInv, Own, history
    <3> QED BY <1>4, <2>1, <3>1 DEF Login, NewDashboard
  <2> QED BY <2>1
<1>5. CASE Logout
  BY <1>5 DEF Logout
<1>6. CASE LogoutDone
  BY <1>6 DEF LogoutDone, Forget
<1>7. CASE DeletedAccount
  BY <1>7 DEF DeletedAccount, Forget
<1>8. CASE Crash
  <2>1. CASE ~strayChains /\ IsloggedIn
    <3>1. PICK part \in SUBSET UNION {chains[k].codes : k \in {j \in Chains : Is(j, "sent")}} :
            report' = report \cup part
      BY <1>8 DEF Crash
    <3>2. Own(UserID, report') BY <2>1, <3>1 DEF Reported, Mine, Own
    <3>3. Mine(chains', here', UserID')
      BY <1>8, Names_ DEF Crash, Mine, Own
    <3> QED BY <1>8, <3>2, <3>3, Names_ DEF Crash, Reported, Own, defaults
  <2> QED BY <1>8, <2>1 DEF Crash, defaults
<1>9. ASSUME ~strayChains, IsloggedIn, OpenScan PROVE Reported'
  <2>1. here \in Dashes => codeLIST'[here] = codeLIST[here]
    BY <1>0, <1>9 DEF OpenScan, TypeOK
  <2> QED BY <1>9, <2>1 DEF OpenScan, Listing, OneUser, Reported, Own, defaults, history
<1>10. ASSUME ~strayChains, IsloggedIn, CloseScan PROVE Reported'
  BY <1>0, <1>10, LeaveScanReported DEF CloseScan, Reported, defaults
<1>11. ASSUME NEW c \in Codes, ~strayChains, IsloggedIn, ScanCode(c) PROVE Reported'
  <2>1. here \in Dashes => codeLIST'[here] = codeLIST[here]
    BY <1>0, <1>11 DEF ScanCode, TypeOK
  <2> QED BY <1>11, <2>1
          DEF ScanCode, Listing, OneUser, Reported, Own, defaults, history, window
<1>12. ASSUME NEW c \in Codes, ~strayChains, IsloggedIn, RemoveCode(c) PROVE Reported'
  <2>1. codeLIST' \in {codeLIST, [codeLIST EXCEPT !["scan"] = store']}
    BY <1>12 DEF RemoveCode
  <2>2. here \in Dashes => codeLIST'[here] = codeLIST[here]
    BY <1>0, <2>1 DEF TypeOK, Owners
  <2> QED BY <1>12, <2>2 DEF RemoveCode, Reported, Own, defaults, history, window
<1>13. ASSUME NEW k \in Chains, ~strayChains, IsloggedIn, Submission(k) PROVE Reported'
  <2>0. /\ Reported /\ Own(UserID, store) /\ Own(UserID, report \cup store)
        /\ Mine(chains, here, UserID) /\ Mine(Ended(k), here, UserID)
        /\ Ended(k) \in [Chains -> Chain]
    BY <1>13, MineFacts, ChainTypes DEF OneUser, Reported, Own
  <2>1. CASE Refresh(k)
    <3>1. \A j \in Chains : \/ chains'[j] = chains[j]
                            \/ chains'[j].owner = here /\ chains'[j].codes = {}
      BY <1>0, <2>1 DEF Refresh, Idle
    <3>2. Mine(chains', here, UserID) BY <2>0, <3>1 DEF Mine, Own
    <3> QED BY <2>0, <2>1, <3>2 DEF Refresh, Reported, defaults, window, lists
  <2>2. CASE RefreshDone(k)
    <3>0. Mine(Moved(k, "delay"), here, UserID) BY <2>0, MineFacts
    <3>1. Mine(chains', here, UserID) BY <2>0, <2>2, <3>0 DEF RefreshDone
    <3>2. here \in Dashes => codeLIST'[here] \in {store, codeLIST[here]}
      BY <2>2 DEF RefreshDone, TypeOK, Owners
    <3> QED BY <2>0, <2>2, <3>1, <3>2 DEF RefreshDone, Reported, window
  <2>3. CASE DelayOver(k)
    <3> DEFINE d == chains[k].owner
               cs == newproductArray[d] \cup codeLIST[d]
    <3>1. d = here /\ here \in Dashes
      BY <2>0, <2>3, Names_ DEF DelayOver, Shape, Mine
    <3>2. Own(UserID, cs) BY <2>0, <3>1 DEF Reported, Own
    <3>3. chains' = Requesting(k, d, userId[d], cs) \/ chains' = Ended(k)
      BY <2>3 DEF DelayOver
    <3>4. newproductArray'[here] \in {cs, newproductArray[here]}
      BY <2>3, <3>1 DEF DelayOver, TypeOK, Owners
    <3> HIDE DEF cs
    <3>5. Mine(chains', here, UserID)
      <4>1. Mine(Requesting(k, d, userId[d], cs), here, UserID)
        BY <2>0, <3>1, <3>2, MineFacts
      <4> QED BY <2>0, <3>3, <4>1
    <3> QED BY <2>0, <2>3, <3>2, <3>4, <3>5 DEF DelayOver, Reported, defaults, window
  <2>4. CASE SubmitScan(k)
    <3>0. screen = "scan" /\ Own(UserID, Collected) /\ UNCHANGED <<IsloggedIn, UserID, store>>
      BY <2>4 DEF SubmitScan, Collected, OneUser, Own, defaults
    <3> DEFINE g == Requesting(k, "scan", loyaltyId, Collected)
    <3>1. Mine(g, here, UserID) BY <2>0, <3>0, MineFacts
    <3>2. g \in [Chains -> Chain] BY ChainTypes DEF Collected, TypeOK, Owners
    <3> HIDE DEF g
    <3>3. CASE LeaveScan(g) /\ UNCHANGED report
      BY <2>0, <3>0, <3>1, <3>2, <3>3, LeaveScanReported DEF Reported
    <3>4. CASE LeaveScan(chains) /\ report' = report \cup store
      BY <1>0, <2>0, <3>0, <3>4, LeaveScanReported
    <3>5. CASE /\ chains' = g
               /\ newproductArray' = [newproductArray EXCEPT !["scan"] = Collected]
               /\ codeLIST' = [codeLIST EXCEPT !["scan"] = store]
               /\ UNCHANGED <<window, report>>
      <4>1. here \in Dashes => /\ codeLIST'[here] = codeLIST[here]
                              /\ newproductArray'[here] = newproductArray[here]
        BY <1>0, <3>5 DEF TypeOK
      <4> QED BY <2>0, <3>0, <3>1, <3>5, <4>1 DEF Reported, window
    <3> QED BY <2>4, <3>3, <3>4, <3>5 DEF SubmitScan, g
  <2>5. CASE GeocodeDone(k)
    <3>1. CASE chains[k].owner = "scan" /\ LeaveScan(Ended(k)) /\ report' = report \cup store
      BY <2>0, <2>5, <3>1, LeaveScanReported DEF GeocodeDone, Shape, defaults
    <3>2. CASE /\ chains' \in {Ended(k), Moved(k, "sent")}
               /\ report' \in {report, report \cup store}
               /\ UNCHANGED <<window, lists>>
      <4>1. Mine(chains', here, UserID) BY <2>0, <3>2, MineFacts
      <4> QED BY <2>0, <2>5, <3>2, <4>1 DEF GeocodeDone, Reported, window, lists, defaults
    <3> QED BY <2>5, <3>1, <3>2 DEF GeocodeDone, lists, window
  <2>6. CASE Lost(k)
    BY <2>0, <2>6 DEF Lost, Reported, defaults, window, lists
  <2>7. CASE Recorded(k)
    <3>1. Own(UserID, report') BY <2>0, <2>7 DEF Recorded, Reported, Mine, Own
    <3>2. Mine(chains', here, UserID) BY <2>0, <2>7, MineFacts DEF Recorded
    <3> QED BY <2>0, <2>7, <3>1, <3>2 DEF Recorded, Reported, defaults, window, lists
  <2>8. CASE Refused(k)
    <3> DEFINE asked == [chains EXCEPT ![k] = [@ EXCEPT !.phase = "alert", !.codes = {}]]
    <3>1. asked \in [Chains -> Chain]
      <4>1. [chains[k] EXCEPT !.phase = "alert", !.codes = {}] \in Chain
        BY <1>0 DEF Chain
      <4> QED BY <1>0, <4>1
    <3>2. Mine(asked, here, UserID) BY <2>0, MineFacts
    <3> HIDE DEF asked
    <3>3. CASE screen = "scan" /\ (LeaveScan(Ended(k)) \/ LeaveScan(asked))
      BY <2>0, <2>8, <3>1, <3>2, <3>3, LeaveScanReported
         DEF Refused, Reported, defaults
    <3>4. CASE chains' \in {asked, Ended(k)} /\ UNCHANGED <<window, lists>>
      BY <2>0, <2>8, <3>2, <3>4 DEF Refused, Reported, defaults, window, lists
    <3> QED BY <2>8, <3>3, <3>4 DEF Refused, Shape, asked
  <2>9. CASE AlertOK(k)
    <3>1. here \in Dashes => codeLIST'[here] \in {{}, codeLIST[here]}
      BY <2>9 DEF AlertOK, TypeOK, Owners
    <3> QED BY <2>0, <2>9, <3>1 DEF AlertOK, Reported, Own, defaults, window
  <2>10. CASE DismissDone(k)
    <3> DEFINE o == chains[k].owner
               fetched == {codeLIST} \cup {[codeLIST EXCEPT ![d] = {}] : d \in {o} \cap Dashes}
    <3>1. \A f \in fetched : /\ f \in [Owners -> SUBSET Codes]
                            /\ here \in Dashes => f[here] \in {{}, codeLIST[here]}
      BY ListTypes DEF TypeOK, Owners
    <3>2. PICK f \in fetched :
            \/ /\ o \in {"scan", here} /\ screen = "scan"
               /\ screen' = "dashboard" /\ loyaltyId' = NoUser
               /\ chains' = Orphaned(Ended(k))
               /\ codeLIST' = Released(f)
               /\ newproductArray' = Released(newproductArray)
               /\ UNCHANGED <<here, userId>>
            \/ /\ o \in Dashes /\ (o # here \/ screen # "scan")
               /\ codeLIST' = f /\ chains' = Ended(k)
               /\ UNCHANGED <<window, newproductArray>>
      BY <2>10 DEF DismissDone
    <3>3. here' = here /\ Mine(chains', here, UserID)
      BY <2>0, <3>2, OrphanedMine DEF window
    <3>4. here \in Dashes => /\ codeLIST'[here] \in {{}, codeLIST[here]}
                            /\ newproductArray'[here] = newproductArray[here]
      BY <3>1, <3>2, ListTypes DEF TypeOK
    <3> HIDE DEF fetched
    <3> QED BY <2>0, <2>10, <3>3, <3>4 DEF DismissDone, Reported, Own, defaults
  <2> QED BY <1>13, <2>1, <2>2, <2>3, <2>4, <2>5, <2>6, <2>7, <2>8, <2>9, <2>10
          DEF Submission
<1>14. CASE Scanning \/ \E k \in Chains : Submission(k)
  <2>1. strayChains' = strayChains /\ IsloggedIn' = IsloggedIn
    BY <1>14 DEF Scanning, OpenScan, CloseScan, ScanCode, RemoveCode, Submission,
         Refresh, RefreshDone, DelayOver, SubmitScan, GeocodeDone, Lost, Recorded,
         Refused, AlertOK, DismissDone, defaults, history
  <2>2. ~strayChains' /\ IsloggedIn' => Reported'
    BY <1>9, <1>10, <1>11, <1>12, <1>13, <1>14, <2>1 DEF Scanning
  <2>3. screen' = "login" => screen = "login"
    BY <1>14 DEF Scanning, OpenScan, CloseScan, ScanCode, RemoveCode, Submission,
         Refresh, RefreshDone, DelayOver, SubmitScan, GeocodeDone, Lost, Recorded,
         Refused, AlertOK, DismissDone, LeaveScan, window
  <2>4. ~(~strayChains /\ screen = "login")
    <3> SUFFICES ASSUME ~strayChains, screen = "login" PROVE FALSE
      OBVIOUS
    <3>1. \A k \in Chains : ~Submission(k) \/ Refresh(k) \/ SubmitScan(k)
      BY Names_ DEF ReportInv, Submission, RefreshDone, DelayOver, GeocodeDone, Lost,
           Recorded, Refused, AlertOK, DismissDone, Is
    <3> QED BY <1>14, <3>1 DEF Scanning, OpenScan, CloseScan, ScanCode, RemoveCode,
              Refresh, SubmitScan
  <2> QED BY <2>1, <2>2, <2>3, <2>4
<1> QED BY <1>1, <1>2, <1>3, <1>4, <1>5, <1>6, <1>7, <1>8, <1>14 DEF Next, Account

-----------------------------------------------------------------------------
(* Credit                                                                  *)

\* The dashboards that can still submit.
Alive == {d \in Dashes : Live(d)}

\* Of the chains g only those of the window's dashboard h refresh, all are of
\* dashboards in L or of scan screens, and none mixes users.
Sound(g, h, L) ==
  \A j \in Chains :
    /\ g[j].phase = "refresh" => g[j].owner = h /\ h \in Dashes
    /\ g[j].owner \in Dashes => g[j].owner \in L
    /\ g[j].as # NoUser => Own(g[j].as, g[j].codes)

ListsOwn(L) ==
  \A d \in L : Own(userId[d], codeLIST[d]) /\ Own(userId[d], newproductArray[d])

NewListsOwn(L) ==
  \A d \in L : Own(userId'[d], codeLIST'[d]) /\ Own(userId'[d], newproductArray'[d])

\* What CreditInv says of the user defaults and the scan screen.
Identity ==
  /\ LoyaltyId \in {NoUser, UserID}
  /\ ~InSession /\ ~IsloggedIn => UserID = NoUser
  /\ screen = "scan" => loyaltyId \in {NoUser, UserID}

LEMMA CreditParts ==
  /\ TypeOK /\ CreditInv /\ ~strayIdentity =>
       /\ Sound(chains, here, Alive) /\ ListsOwn(Alive) /\ Identity
       /\ here \in Dashes => here \in Alive
  /\ \A L \in SUBSET Dashes :
       /\ TypeOK' /\ Sound(chains', here', L) /\ NewListsOwn(L) /\ Identity'
       /\ here' \in Dashes => here' \in L
       => CreditInv'
  /\ strayIdentity' => CreditInv'
<1>1. TypeOK /\ CreditInv /\ ~strayIdentity =>
        /\ Sound(chains, here, Alive) /\ ListsOwn(Alive) /\ Identity
        /\ here \in Dashes => here \in Alive
  BY DEF CreditInv, TypeOK, Sound, Alive, Live, ListsOwn, Identity, Is
<1>2. ASSUME NEW L \in SUBSET Dashes, TypeOK', Sound(chains', here', L), NewListsOwn(L),
             Identity', here' \in Dashes => here' \in L
      PROVE  CreditInv'
  BY <1>2 DEF CreditInv, TypeOK, Sound, Live, NewListsOwn, Identity, Is
<1>3. strayIdentity' => CreditInv' BY DEF CreditInv
<1> QED BY <1>1, <1>2, <1>3

LEMMA SoundFacts ==
  ASSUME TypeOK, NEW h, NEW L, Sound(chains, h, L), NEW k \in Chains
  PROVE  /\ Sound(Ended(k), h, L)
         /\ \A p \in {"delay", "sent", "dismiss", "alert"} : Sound(Moved(k, p), h, L)
         /\ \A o, v, cs : /\ o \in Dashes => o \in L
                          /\ v # NoUser => Own(v, cs)
                          => Sound(Requesting(k, o, v, cs), h, L)
         /\ \A p \in {"dismiss", "alert"} :
              Sound([chains EXCEPT ![k] = [@ EXCEPT !.phase = p, !.codes = {}]], h, L)
<1> USE Names_ DEF Sound, Own, TypeOK
<1>1. Sound(Ended(k), h, L) BY DEF Ended
<1>2. \A p \in {"delay", "sent", "dismiss", "alert"} : Sound(Moved(k, p), h, L)
  BY DEF Moved, Chain
<1>3. ASSUME NEW o, NEW v, NEW cs, o \in Dashes => o \in L,
             v # NoUser => Own(v, cs)
      PROVE  Sound(Requesting(k, o, v, cs), h, L)
  BY <1>3 DEF Requesting
<1>4. \A p \in {"dismiss", "alert"} :
        Sound([chains EXCEPT ![k] = [@ EXCEPT !.phase = p, !.codes = {}]], h, L)
  BY DEF Chain
<1> QED BY <1>1, <1>2, <1>3, <1>4

LEMMA OrphanedSound ==
  ASSUME NEW f \in [Chains -> Chain], NEW h, NEW L, Sound(f, h, L)
  PROVE  Sound(Orphaned(f), h, L)
BY Names_ DEF Sound, Own, Orphaned, Chain

LEMMA CreditInit == Init => CreditInv
BY Names_, DashesAssumption DEF Init, CreditInv, Live, Own, InSession, Is

\* What holds before a step of a session whose identity is not in doubt.
Credit ==
  /\ ~strayIdentity /\ Identity
  /\ Sound(chains, here, Alive) /\ ListsOwn(Alive)
  /\ here \in Dashes => here \in Alive

LEMMA LeaveScanCredit ==
  ASSUME TypeOK, TypeOK', screen = "scan", Credit, NEW f \in [Chains -> Chain],
         Sound(f, here, Alive), LeaveScan(f),
         UNCHANGED <<IsloggedIn, UserID, LoyaltyId>>
  PROVE  CreditInv'
<1>1. Sound(chains', here', Alive) BY OrphanedSound DEF LeaveScan
<1>2. NewListsOwn(Alive)
  <2>1. \A d \in Dashes : /\ codeLIST'[d] = codeLIST[d]
                          /\ newproductArray'[d] = newproductArray[d]
    BY ListTypes DEF LeaveScan, TypeOK
  <2> QED BY <2>1 DEF Credit, ListsOwn, NewListsOwn, LeaveScan, Alive
<1>3. Identity' BY DEF Credit, Identity, LeaveScan, InSession
<1> QED BY <1>1, <1>2, <1>3, CreditParts DEF Credit, Alive, LeaveScan

\* Any other step that leaves the window alone, makes no dashboard live and
\* no list worse.
LEMMA SteadyCredit ==
  ASSUME TypeOK', Credit, Sound(chains', here, Alive), Identity', here' = here,
         userId' = userId,
         \A d \in Alive : /\ Own(userId[d], codeLIST'[d])
                         /\ Own(userId[d], newproductArray'[d])
  PROVE  CreditInv'
<1>1. NewListsOwn(Alive) BY DEF NewListsOwn
<1> QED BY <1>1, CreditParts DEF Credit, Alive

LEMMA ForgetCredit ==
  ASSUME TypeOK, TypeOK', Shape, CreditInv, Forget
  PROVE  CreditInv'
<1>1. CASE strayIdentity' BY <1>1, CreditParts
<1>2. CASE ~strayIdentity'
  <2>1. \/ \A k \in Chains : chains'[k] = Idle
        \/ ~strayIdentity /\ \A k \in Chains : ~Is(k, "refresh")
    BY <1>2 DEF Forget, Quiet, Shape, Is
  <2>2. here' \notin Dashes BY Names_ DEF Forget
  <2>3. Identity' BY DEF Forget, Identity, InSession
  <2>4. CASE \A k \in Chains : chains'[k] = Idle
    <3>1. Sound(chains', here', {}) BY <2>4, Names_ DEF Sound
    <3> QED BY <2>2, <2>3, <3>1, CreditParts DEF NewListsOwn
  <2>5. CASE ~strayIdentity /\ \A k \in Chains : ~Is(k, "refresh")
    <3>1. Sound(chains, here, Alive) /\ ListsOwn(Alive) BY <2>5, CreditParts
    <3>2. \A k \in Chains : chains'[k] \in {Idle, chains[k]} BY DEF Forget
    <3>3. Sound(chains', here', Alive)
      BY <2>5, <3>1, <3>2, Names_ DEF Sound, Is
    <3>4. NewListsOwn(Alive) BY <3>1 DEF Forget, ListsOwn, NewListsOwn, lists
    <3> QED BY <2>2, <2>3, <3>3, <3>4, CreditParts DEF Alive
  <2> QED BY <2>1, <2>4, <2>5
<1> QED BY <1>1, <1>2

\* A new dashboard has no codes; the chains of old ones go on.
LEMMA NewDashboardCredit ==
  ASSUME TypeOK, TypeOK', Credit, NEW u, NewDashboard(u), here \notin Dashes,
         chains' = chains, Identity'
  PROVE  CreditInv'
<1>1. PICK d \in Dashes :
        /\ \A k \in Chains : chains[k].owner # d
        /\ screen' = "dashboard" /\ here' = d
        /\ userId' = [userId EXCEPT ![d] = u]
        /\ codeLIST' = [codeLIST EXCEPT ![d] = {}]
        /\ newproductArray' = [newproductArray EXCEPT ![d] = {}]
  BY DEF NewDashboard
<1> DEFINE L == Alive \cup {d}
<1>2. L \in SUBSET Dashes /\ here' \in L BY <1>1 DEF Alive
<1>3. Sound(chains', here', L) BY DEF Credit, Sound
<1>4. ASSUME NEW e \in L
      PROVE  Own(userId'[e], codeLIST'[e]) /\ Own(userId'[e], newproductArray'[e])
  <2>1. e \in Dashes /\ e \in Owners BY <1>2 DEF Owners
  <2>2. CASE e = d BY <1>1, <2>1, <2>2 DEF TypeOK, Own
  <2>3. CASE e # d
    <3>1. /\ userId'[e] = userId[e] /\ codeLIST'[e] = codeLIST[e]
          /\ newproductArray'[e] = newproductArray[e]
      BY <1>1, <2>1, <2>3 DEF TypeOK
    <3> QED BY <2>3, <3>1 DEF Credit, ListsOwn
  <2> QED BY <2>2, <2>3
<1> HIDE DEF L
<1>5. NewListsOwn(L) BY <1>4 DEF NewListsOwn
<1> QED BY <1>2, <1>3, <1>5, CreditParts

\* One proof per action; only Forget and Crash change strayIdentity.
LEMMA CreditStep ==
  ASSUME TypeOK, TypeOK', Shape, OneUser, CreditInv, Next
  PROVE  CreditInv'
<1>0. chains \in [Chains -> Chain] BY DEF TypeOK
<1>1. ASSUME Credit, Launch PROVE CreditInv'
  <2>1. CASE NewDashboard(UserID)
    <3>1. here \notin Dashes BY <1>1 DEF Launch, TypeOK, InSession
    <3>2. Identity'
      BY <1>1, <2>1 DEF Launch, NewDashboard, Credit, Identity, InSession, defaults
    <3> QED BY <1>1, <2>1, <3>1, <3>2, NewDashboardCredit DEF Launch
  <2>2. CASE ~IsloggedIn /\ screen' = "welcome" /\ UNCHANGED <<here, userId, loyaltyId, lists>>
    <3>1. Identity'
      BY <1>1, <2>2 DEF Launch, Credit, Identity, InSession, defaults
    <3> QED BY <1>1, <2>2, <3>1, SteadyCredit DEF Launch, Credit, ListsOwn, lists
  <2> QED BY <1>1, <2>1, <2>2 DEF Launch
<1>2. ASSUME Credit, ChooseLanguage \/ BackToWelcome PROVE CreditInv'
  <2>1. Identity'
    BY <1>2 DEF ChooseLanguage, BackToWelcome, Credit, Identity, InSession, defaults
  <2> QED BY <1>2, <2>1, SteadyCredit
          DEF ChooseLanguage, BackToWelcome, Credit, ListsOwn, lists
<1>3. ASSUME Credit, NEW u \in Users, Login(u) PROVE CreditInv'
  <2>1. here \notin Dashes BY <1>3 DEF Login, TypeOK, InSession
  <2>2. UserID = NoUser /\ LoyaltyId = NoUser
    BY <1>3 DEF Login, OneUser, Credit, Identity, InSession
  <2>3. Identity' BY <1>3, <2>2 DEF Login, NewDashboard, Identity, InSession
  <2> QED BY <1>3, <2>1, <2>3, NewDashboardCredit DEF Login
<1>4. ASSUME Credit, Logout PROVE CreditInv'
  <2>1. Identity' BY <1>4 DEF Logout, Credit, Identity, InSession
  <2> QED BY <1>4, <2>1, SteadyCredit DEF Logout, Credit, ListsOwn, lists
<1>5. CASE LogoutDone \/ DeletedAccount
  BY <1>5, ForgetCredit DEF LogoutDone, DeletedAccount
<1>6. CASE Crash
  <2>1. CASE strayIdentity' BY <2>1, CreditParts
  <2>2. CASE ~strayIdentity'
    <3>1. ~strayIdentity /\ screen # "leaving" BY <1>6, <2>2 DEF Crash
    <3>2. Identity
      BY <3>1, CreditParts
    <3>3. Identity'
      BY <1>6, <3>1, <3>2 DEF Crash, Identity, OneUser, InSession, defaults
    <3>4. Sound(chains', here', {}) BY <1>6, Names_ DEF Crash, Sound
    <3>5. here' \notin Dashes BY <1>6, Names_ DEF Crash
    <3> QED BY <3>3, <3>4, <3>5, CreditParts DEF NewListsOwn
  <2> QED BY <2>1, <2>2
<1>7. ASSUME Credit, OpenScan PROVE CreditInv'
  <2>1. Identity' BY <1>7 DEF OpenScan, Credit, Identity, InSession, defaults
  <2>2. \A d \in Dashes : codeLIST'[d] = codeLIST[d]
    BY <1>7, Names_ DEF OpenScan, TypeOK, Owners
  <2> QED BY <1>7, <2>1, <2>2, SteadyCredit DEF OpenScan, Credit, ListsOwn, Alive
<1>8. ASSUME Credit, CloseScan PROVE CreditInv'
  BY <1>0, <1>8, LeaveScanCredit DEF CloseScan, Credit, defaults
<1>9. ASSUME Credit, NEW c \in Codes, ScanCode(c) \/ RemoveCode(c) PROVE CreditInv'
  <2>1. Identity'
    BY <1>9 DEF ScanCode, RemoveCode, Credit, Identity, InSession, defaults, window
  <2>2. \A d \in Dashes : codeLIST'[d] = codeLIST[d]
    BY <1>9, Names_ DEF ScanCode, RemoveCode, TypeOK, Owners
  <2> QED BY <1>9, <2>1, <2>2, SteadyCredit
          DEF ScanCode, RemoveCode, Credit, ListsOwn, Alive, window
<1>10. ASSUME Credit, NEW k \in Chains, Submission(k) PROVE CreditInv'
  <2>0. /\ Sound(chains, here, Alive) /\ ListsOwn(Alive) /\ Identity
        /\ Sound(Ended(k), here, Alive) /\ Ended(k) \in [Chains -> Chain]
        /\ Alive \subseteq Dashes /\ Alive \subseteq Owners
    BY <1>10, SoundFacts, ChainTypes DEF Credit, Alive, Owners
  <2>1. CASE Refresh(k)
    <3>1. here \in Dashes /\ here \in Alive
      BY <1>10, <2>1 DEF Refresh, TypeOK, InSession, Credit
    <3>2. \A j \in Chains : \/ chains'[j] = chains[j]
                            \/ chains'[j].owner = here /\ chains'[j].as = NoUser
      BY <1>0, <2>1, Names_ DEF Refresh, Idle
    <3>3. \A j \in Chains : chains'[j] = chains[j] \/ chains'[j].owner = here
      BY <3>2
    <3>4. Sound(chains', here, Alive) BY <2>0, <3>1, <3>2 DEF Sound
    <3>5. Identity' BY <2>0, <2>1 DEF Refresh, Identity, InSession, defaults, window
    <3> QED BY <1>10, <2>0, <2>1, <3>4, <3>5, SteadyCredit
            DEF Refresh, ListsOwn, lists, window
  <2>2. CASE RefreshDone(k)
    <3>1. chains[k].owner = here /\ here \in Dashes /\ here \in Alive
      BY <1>10, <2>0, <2>2 DEF RefreshDone, Sound, Is, Credit
    <3>2. InSession /\ userId[here] = UserID /\ Own(UserID, store)
      BY <3>1 DEF OneUser, TypeOK
    <3>3. Identity' BY <2>0, <2>2, <3>1, <3>2 DEF RefreshDone, Identity, InSession, window
    <3>4. Sound(chains', here, Alive)
      <4>1. Sound(Moved(k, "delay"), here, Alive) BY <2>0, SoundFacts
      <4> QED BY <2>0, <2>2, <4>1 DEF RefreshDone
    <3>5. codeLIST' \in {codeLIST, [codeLIST EXCEPT ![here] = store]}
      BY <2>2, <3>1 DEF RefreshDone
    <3>6. \A d \in Alive : Own(userId[d], codeLIST'[d])
      BY <2>0, <3>2, <3>5 DEF TypeOK, ListsOwn
    <3> QED BY <1>10, <2>0, <2>2, <3>3, <3>4, <3>6, SteadyCredit
            DEF RefreshDone, ListsOwn, window
  <2>3. CASE DelayOver(k)
    <3> DEFINE d == chains[k].owner
               cs == newproductArray[d] \cup codeLIST[d]
    <3>1. d \in Alive
      BY <2>0, <2>3 DEF DelayOver, Shape, Sound
    <3>2. Own(userId[d], cs) BY <2>0, <3>1 DEF ListsOwn, Own
    <3>3. chains' \in {Requesting(k, d, userId[d], cs), Ended(k)}
      BY <2>3 DEF DelayOver
    <3>4. newproductArray' \in {newproductArray, [newproductArray EXCEPT ![d] = cs]}
      BY <2>3 DEF DelayOver
    <3> HIDE DEF d, cs
    <3>5. Sound(Requesting(k, d, userId[d], cs), here, Alive)
      BY <2>0, <3>1, <3>2, SoundFacts
    <3>6. Sound(chains', here, Alive) BY <2>0, <3>3, <3>5
    <3>7. \A e \in Alive : Own(userId[e], newproductArray'[e])
      BY <2>0, <3>2, <3>4 DEF TypeOK, ListsOwn
    <3>8. Identity' BY <2>0, <2>3 DEF DelayOver, Identity, InSession, defaults, window
    <3> QED BY <1>10, <2>0, <2>3, <3>6, <3>7, <3>8, SteadyCredit
            DEF DelayOver, ListsOwn, window
  <2>4. CASE SubmitScan(k)
    <3> DEFINE g == Requesting(k, "scan", loyaltyId, Collected)
    <3>0. /\ screen = "scan" /\ UNCHANGED <<IsloggedIn, UserID, LoyaltyId, store>>
          /\ loyaltyId # NoUser => Own(loyaltyId, Collected)
      BY <2>0, <2>4 DEF SubmitScan, Collected, OneUser, Own, Identity, defaults
    <3>1. Sound(g, here, Alive) BY <2>0, <3>0, Names_, SoundFacts
    <3>2. g \in [Chains -> Chain] BY ChainTypes DEF Collected, TypeOK, Owners
    <3> HIDE DEF g
    <3>3. CASE LeaveScan(g) \/ LeaveScan(chains)
      BY <1>0, <1>10, <2>0, <3>0, <3>1, <3>2, <3>3, LeaveScanCredit
    <3>4. CASE /\ chains' = g
               /\ newproductArray' = [newproductArray EXCEPT !["scan"] = Collected]
               /\ codeLIST' = [codeLIST EXCEPT !["scan"] = store]
               /\ UNCHANGED <<window, report>>
      <4>1. \A d \in Alive : /\ codeLIST'[d] = codeLIST[d]
                             /\ newproductArray'[d] = newproductArray[d]
        BY <2>0, <3>4, Names_ DEF TypeOK
      <4>2. Identity' BY <2>0, <3>0, <3>4 DEF Identity, InSession, window
      <4> QED BY <1>10, <2>0, <3>1, <3>4, <4>1, <4>2, SteadyCredit DEF ListsOwn, window
    <3> QED BY <2>4, <3>3, <3>4 DEF SubmitScan, g
  <2>5. CASE GeocodeDone(k)
    <3>1. CASE chains[k].owner = "scan" /\ LeaveScan(Ended(k))
      BY <1>10, <2>0, <2>5, <3>1, LeaveScanCredit DEF GeocodeDone, Shape, defaults
    <3>2. CASE chains' \in {Ended(k), Moved(k, "sent")} /\ UNCHANGED <<window, lists>>
      <4>1. Sound(Moved(k, "sent"), here, Alive) BY <2>0, SoundFacts
      <4>2. Sound(chains', here, Alive) BY <2>0, <3>2, <4>1
      <4>3. Identity'
        BY <2>0, <2>5, <3>2 DEF GeocodeDone, Identity, InSession, defaults, window
      <4> QED BY <1>10, <2>0, <3>2, <4>2, <4>3, SteadyCredit DEF ListsOwn, lists, window
    <3> QED BY <2>5, <3>1, <3>2 DEF GeocodeDone, lists, window
  <2>6. CASE Lost(k) \/ Recorded(k)
    <3>1. Sound([chains EXCEPT ![k] = [@ EXCEPT !.phase = "dismiss", !.codes = {}]], here, Alive)
      BY <2>0, SoundFacts
    <3>2. Sound(chains', here, Alive) BY <2>0, <2>6, <3>1 DEF Lost, Recorded
    <3>3. Identity'
      BY <2>0, <2>6 DEF Lost, Recorded, Identity, InSession, defaults, window
    <3> QED BY <1>10, <2>0, <2>6, <3>2, <3>3, SteadyCredit
            DEF Lost, Recorded, ListsOwn, lists, window
  <2>7. CASE Refused(k)
    <3> DEFINE asked == [chains EXCEPT ![k] = [@ EXCEPT !.phase = "alert", !.codes = {}]]
    <3>1. asked \in [Chains -> Chain]
      <4>1. [chains[k] EXCEPT !.phase = "alert", !.codes = {}] \in Chain
        BY <1>0 DEF Chain
      <4> QED BY <1>0, <4>1
    <3>2. Sound(asked, here, Alive) BY <2>0, SoundFacts
    <3> HIDE DEF asked
    <3>3. CASE screen = "scan" /\ (LeaveScan(Ended(k)) \/ LeaveScan(asked))
      BY <1>10, <2>0, <2>7, <3>1, <3>2, <3>3, LeaveScanCredit DEF Refused, defaults
    <3>4. CASE chains' \in {asked, Ended(k)} /\ UNCHANGED <<window, lists>>
      <4>1. Sound(chains', here, Alive) BY <2>0, <3>2, <3>4
      <4>2. Identity'
        BY <2>0, <2>7, <3>4 DEF Refused, Identity, InSession, defaults, window
      <4> QED BY <1>10, <2>0, <3>4, <4>1, <4>2, SteadyCredit DEF ListsOwn, lists, window
    <3> QED BY <2>7, <3>3, <3>4 DEF Refused, Shape, asked
  <2>8. CASE AlertOK(k)
    <3>1. \A d \in Alive : codeLIST'[d] \in {{}, codeLIST[d]}
      BY <2>0, <2>8 DEF AlertOK, TypeOK
    <3>2. Identity' BY <2>0, <2>8 DEF AlertOK, Identity, InSession, defaults, window
    <3>3. \A d \in Alive : Own(userId[d], codeLIST'[d])
      BY <2>0, <3>1 DEF ListsOwn, Own
    <3> QED BY <1>10, <2>0, <2>8, <3>2, <3>3, SteadyCredit
            DEF AlertOK, ListsOwn, window
  <2>9. CASE DismissDone(k)
    <3> DEFINE o == chains[k].owner
               fetched == {codeLIST} \cup {[codeLIST EXCEPT ![d] = {}] : d \in {o} \cap Dashes}
    <3>1. \A f \in fetched : /\ f \in [Owners -> SUBSET Codes]
                             /\ \A d \in Dashes : f[d] \in {{}, codeLIST[d]}
      BY ListTypes DEF TypeOK, Owners
    <3>2. PICK f \in fetched :
            \/ /\ o \in {"scan", here} /\ screen = "scan"
               /\ screen' = "dashboard" /\ loyaltyId' = NoUser
               /\ chains' = Orphaned(Ended(k))
               /\ codeLIST' = Released(f)
               /\ newproductArray' = Released(newproductArray)
               /\ UNCHANGED <<here, userId>>
            \/ /\ o \in Dashes /\ (o # here \/ screen # "scan")
               /\ codeLIST' = f /\ chains' = Ended(k)
               /\ UNCHANGED <<window, newproductArray>>
      BY <2>9 DEF DismissDone
    <3>3. here' = here /\ userId' = userId /\ Sound(chains', here, Alive)
      BY <2>0, <3>2, OrphanedSound DEF window
    <3>4. \A d \in Dashes : /\ codeLIST'[d] \in {{}, codeLIST[d]}
                            /\ newproductArray'[d] = newproductArray[d]
      <4> HIDE DEF o, fetched
      <4>1. \A d \in Dashes : codeLIST'[d] = f[d]
        BY <3>1, <3>2, ListTypes
      <4>2. newproductArray \in [Owners -> SUBSET Codes] BY DEF TypeOK
      <4>3. \A d \in Dashes : newproductArray'[d] = newproductArray[d]
        BY <3>2, <4>2, ListTypes
      <4> QED BY <3>1, <4>1, <4>3
    <3>5. Identity'
      BY <2>0, <2>9, <3>2 DEF DismissDone, Identity, InSession, defaults, window
    <3> HIDE DEF fetched, o
    <3>6. \A d \in Alive : /\ Own(userId[d], codeLIST'[d])
                           /\ Own(userId[d], newproductArray'[d])
      BY <2>0, <3>4 DEF ListsOwn, Own
    <3> QED BY <1>10, <3>3, <3>5, <3>6, SteadyCredit
  <2> QED BY <1>10, <2>1, <2>2, <2>3, <2>4, <2>5, <2>6, <2>7, <2>8, <2>9 DEF Submission
<1>11. CASE ~(LogoutDone \/ DeletedAccount \/ Crash)
  <2>1. strayIdentity' = strayIdentity
    BY <1>11 DEF Next, Account, Launch, ChooseLanguage, BackToWelcome, Login, Logout,
         Scanning, OpenScan, CloseScan, ScanCode, RemoveCode, Submission, Refresh,
         RefreshDone, DelayOver, SubmitScan, GeocodeDone, Lost, Recorded, Refused,
         AlertOK, DismissDone, history
  <2>2. CASE strayIdentity BY <2>1, <2>2, CreditParts
  <2>3. CASE ~strayIdentity
    <3>1. Credit BY <2>3, CreditParts DEF Credit
    <3> QED BY <1>1, <1>2, <1>3, <1>4, <1>7, <1>8, <1>9, <1>10, <1>11, <3>1
            DEF Next, Account, Scanning
  <2> QED BY <2>2, <2>3
<1> QED BY <1>5, <1>6, <1>11

-----------------------------------------------------------------------------
(* The theorems                                                            *)

LEMMA InvariantInit == Init => IInv
BY TypeInit, ShapeInit, OneUserInit, ReportInit, CreditInit DEF IInv

LEMMA InvariantStep == IInv /\ [Next]_vars => IInv'
<1>1. ASSUME IInv, Next PROVE IInv'
  <2>1. TypeOK' BY <1>1, TypeStep DEF IInv
  <2> QED BY <1>1, <2>1, ShapeStep, OneUserStep, ReportStep, CreditStep DEF IInv
<1>2. ASSUME IInv, UNCHANGED vars PROVE IInv'
  <2> USE <1>2 DEF IInv, vars, defaults, window, lists, history
  <2>1. TypeOK' BY DEF TypeOK, InSession
  <2>2. Shape' BY DEF Shape, Is
  <2>3. OneUser' BY DEF OneUser, InSession, Own
  <2>4. ReportInv' BY DEF ReportInv, Own
  <2>5. CreditInv' BY DEF CreditInv, InSession, Live, Is, Own
  <2> QED BY <2>1, <2>2, <2>3, <2>4, <2>5
<1> QED BY <1>1, <1>2

LEMMA Invariance == Spec => []IInv
<1>1. Init => IInv BY InvariantInit
<1>2. IInv /\ [Next]_vars => IInv' BY InvariantStep
<1> QED BY <1>1, <1>2, PTL DEF Spec

\* Every variable keeps its type; a dashboard belongs to the window exactly
\* when somebody is logged in or still being logged out.
THEOREM TypeCorrect == Spec => []TypeOK
<1>1. IInv => TypeOK BY DEF IInv
<1> QED BY <1>1, Invariance, PTL

\* The codes on the phone are those of the user who is logged in, however the
\* one before left and whatever of his session is still running.
THEOREM CodesStay == Spec => []OwnCodes
<1>1. IInv => OwnCodes
  BY OwnIsBy DEF IInv, OneUser, OwnCodes
<1> QED BY <1>1, Invariance, PTL

\* Nobody is shown another user's codes as his own, if nothing was under way
\* when the tables were emptied for him.
THEOREM ReportStays == Spec => []OwnReport
<1>1. IInv => OwnReport
  BY OwnIsBy DEF IInv, ReportInv, OwnReport
<1> QED BY <1>1, Invariance, PTL

\* A code is submitted for the user who scanned it or for nobody, if no
\* refresh outlives the session it was made in.
THEOREM CreditStays == Spec => []OwnCredit
<1>1. IInv => OwnCredit
  BY OwnIsBy DEF IInv, CreditInv, OwnCredit
<1> QED BY <1>1, Invariance, PTL
===============================================================================
