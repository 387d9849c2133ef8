------------------------------ MODULE CartVisit ------------------------------
(***************************************************************************)
(* The cart screen with a history of what this visit of it has gone        *)
(* through, to say what it shows on a smooth visit, and what on any:       *)
(*   "crossed"  two requests were on their way at a time, or an order of   *)
(*              an earlier visit or the addition of a product page reached *)
(*              the server under the screen;                               *)
(*   "filled"   such an addition found the cart empty, and no answer that  *)
(*              can tell the screen of it is awaited;                      *)
(*   "lossy"    a request was lost, or not made for want of a connection.  *)
(***************************************************************************)
EXTENDS Cart

VARIABLE visit   \* history: "smooth", "crossed", "filled", "lossy"

visitvars == <<vars, visit>>

\* Two requests at a time, or the server's cart changes by other hands.
Crossed ==
  \/ \E s, t \in Slots : s # t /\ wire'[s] # Idle /\ wire'[t] # Idle
  \/ screen = "cart" /\ cart' # cart /\ UNCHANGED wire

\* A product is added to an empty cart whose fetch has been answered.
Filled ==
  /\ Alive /\ cart = Empty /\ cart' # cart
  /\ \/ \E s \in Slots : wire[s].op = "cart"
     \/ \A s \in Slots : wire[s] # Fetch

\* A request or a reply is lost, or the screen appears while offline.
Missed ==
  \/ \E s \in Slots : Lost(s) /\ ~Network(s)
  \/ screen # "cart" /\ screen' = "cart" /\ UNCHANGED wire

Observe ==
  LET before == IF screen = "closed" THEN "smooth" ELSE visit
  IN visit' = IF Missed \/ before = "lossy" THEN "lossy"
              ELSE IF Filled \/ before = "filled" THEN "filled"
              ELSE IF Crossed THEN "crossed" ELSE before

VisitInit == Init /\ visit = "smooth"
VisitNext == Next /\ Observe

\* What is on the wire goes on, and a delayed tap runs.
VisitSpec ==
  /\ VisitInit /\ [][VisitNext]_visitvars
  /\ \A s \in Slots : WF_visitvars(Network(s) /\ Observe)
  /\ WF_visitvars((IncreaseFires \/ IncreaseCrashes) /\ Observe)

-----------------------------------------------------------------------------
\* On a smooth visit a screen at rest shows the server's cart and checks out
\* its total (getMycartList after every confirmed change).
QuietScreenIsCurrent ==
  Quiet /\ screen = "cart" /\ visit = "smooth"
    => /\ list = cart /\ sum = Total(cart)
       /\ (~tableHidden => shown = cart)

\* While a list that was emptied stays empty a fetch is on its way that will
\* fill it, unless something was lost, or a product page's addition reached
\* an empty cart too late for the fetch: whichever replies overtake it, no
\* confirmation leaves the screen blank (getMycartList).
BlankIsAwaited ==
  screen = "cart" /\ list = Empty /\ cart # Empty
      /\ visit \notin {"filled", "lossy"}
    => \E s \in Slots : \/ wire[s] = Fetch
                        \/ wire[s].op = "cart" /\ wire[s].c # Empty

\* A screen that emptied its list to fetch it again gets one, whatever other
\* changes are confirmed meanwhile, unless something is lost or an addition
\* comes too late for the fetch (getMycartList, addToCartButton).
BlankIsTemporary ==
  (screen = "cart" /\ list = Empty)
     ~> \/ screen # "cart" \/ list # Empty \/ cart = Empty
        \/ visit \in {"filled", "lossy"}
=============================================================================
