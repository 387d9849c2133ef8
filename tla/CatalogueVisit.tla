--------------------------- MODULE CatalogueVisit ---------------------------
(***************************************************************************)
(* The catalogue with a history of what has happened since the last choice *)
(* that was made in peace, to say what the list holds in each case:        *)
(*   "crossed"  two chains were on their way at a time, or the choice was  *)
(*              changed under a chain or under rows that stay;             *)
(*   "kept"     the rows were given up while the page number stayed;       *)
(*   "lost"     a request was lost, or not made for want of a connection   *)
(*              or of categories.                                          *)
(***************************************************************************)
EXTENDS Catalogue

VARIABLE mishaps   \* history: a subset of {"crossed", "kept", "lost"}

visitvars == <<vars, mishaps>>

Fetching == {s \in Slots : wire[s].op \in {"cart", "category", "add", "list"}}

\* The rows are given up and the first page is asked for.
Fresh == /\ screen' = "open" /\ list' = <<>> /\ startIndex' = 1
         /\ Fetching = {} /\ Fetching' # {}

\* What this step does to the browsing under way.
Crossed == \/ \E s, t \in Fetching' : s # t
           \/ Fetching # {} /\ screen # "open" /\ screen' = "open"
           \/ filter' # filter /\ (Fetching # {} \/ list' # <<>>)

Kept == list # <<>> /\ list' = <<>> /\ startIndex' > 1

Missed == \/ \E s \in Slots : wire[s].op # "idle" /\ Lost(s) /\ ~Network(s)
          \/ \E s \in Slots : wire[s].op = "category" /\ wire'[s].op = "idle"
          \/ screen # "open" /\ screen' = "open" /\ wire' = wire

Observe ==
  mishaps' =
    (IF Fresh THEN {} ELSE mishaps)
      \cup (IF Crossed THEN {"crossed"} ELSE {})
      \cup (IF Kept THEN {"kept"} ELSE {})
      \cup (IF Missed THEN {"lost"} ELSE {})

VisitInit == Init /\ mishaps = {}
VisitNext == Next /\ Observe

\* Replies arrive, the delayed block runs, and the user scrolls again and
\* again.
VisitSpec ==
  /\ VisitInit /\ [][VisitNext]_visitvars
  /\ \A s \in Slots : WF_visitvars(Network(s) /\ Observe)
  /\ WF_visitvars((AddFires \/ AddFiresEmpty) /\ Observe)
  /\ SF_visitvars(DisplayLast /\ Observe)

-----------------------------------------------------------------------------
\* The products of f, as they are listed.
Listing(f) == [k \in 1 .. Total[f] |-> [of |-> f, n |-> k]]

\* A browsing without mishaps shows the products of the choice from the
\* first on, none left out, none twice, none of another choice
\* (catalogueListApi, willDisplay).
PeacefulPrefix ==
  Alive /\ mishaps = {} =>
    /\ Len(list) <= Total[filter]
    /\ \A k \in 1 .. Len(list) : list[k] = [of |-> filter, n |-> k]

\* As long as requests do not cross, the rows are of the choice and in
\* order, none twice, whatever is lost or fetched again from a later page.
InOrderUnlessCrossed ==
  Alive /\ "crossed" \notin mishaps =>
    \A i \in 1 .. Len(list) :
      list[i].of = filter /\ \A j \in 1 .. i - 1 : list[j].n < list[i].n

\* A browsing without mishaps is never stuck before the end, unless the screen
\* was opened offline and draws no rows: products that are not listed are on
\* their way, or the last row that is drawn will ask for them when it is
\* scrolled to (noofelements, willDisplay).
EndIsAwaited ==
  screen = "open" /\ dataSource /\ mishaps = {} =>
    \/ list = Listing(filter)
    \/ Fetching # {}
    \/ Tappable /\ cells = Len(list) /\ noofelements >= PageRows

\* A user who scrolls gets to see every product of the choice, if rows are
\* drawn at all and the browsing stays without mishaps.
EndIsReached ==
  \A f \in Filters :
    (screen = "open" /\ filter = f)
       ~> \/ screen # "open" \/ filter # f
          \/ ~dataSource \/ mishaps # {}
          \/ list = Listing(f)
=============================================================================
