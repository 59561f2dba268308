------------------------------ MODULE EventsCenter ------------------------------
(***************************************************************************)
(* The events center: a page that shows the events newest first, a page of *)
(* the result at a time, while new ones arrive.  The result is asked for   *)
(* by page number, with the filter that is in the form at that moment.     *)
(*                                                                         *)
(* An event is its number of arrival, and a filter the set it selects.     *)
(***************************************************************************)
EXTENDS Integers, FiniteSets

CONSTANTS
    GFilters,    \* the filters
    GOpen,       \* those with nothing but perhaps a date in the form
    GPerPage,    \* events on a page
    GMaxEvents   \* bound on the events

ASSUME GAssumption == GPerPage \in Nat \ {0} /\ GMaxEvents \in Nat /\ GOpen \subseteq GFilters

VARIABLES
    gArrived,   \* events stored so far
    gAcked,     \* acknowledged ones
    gForm,      \* the filter in the form
    gPage, gMore,   \* currentPage and hasMore
    gLoad,      \* the request under way, if any
    gShown,     \* events the pages brought
    gPut,       \* events that live messages put on top
    gFirst,     \* ghost: the filter of the first page and the events it was read from
    gMixed      \* ghost: a later page was asked for with another filter

center == <<gArrived, gAcked, gForm, gPage, gMore, gLoad, gShown, gPut, gFirst, gMixed>>

Idling == [step |-> "none", filter |-> {}, rows |-> {}, more |-> FALSE]

GInit ==
    /\ gArrived = 0 /\ gAcked = {} /\ gForm \in GFilters
    /\ gPage = 1 /\ gMore = TRUE /\ gLoad = Idling /\ gShown = {} /\ gPut = {}
    /\ gFirst = [filter |-> gForm, arrived |-> 0] /\ gMixed = FALSE

-----------------------------------------------------------------------------
EventArrives ==
    /\ gArrived < GMaxEvents /\ gArrived' = gArrived + 1
    /\ UNCHANGED <<gAcked, gForm, gPage, gMore, gLoad, gShown, gPut, gFirst, gMixed>>

ChangeForm ==
    /\ \E f \in GFilters \ {gForm} : gForm' = f
    /\ UNCHANGED <<gArrived, gAcked, gPage, gMore, gLoad, gShown, gPut, gFirst, gMixed>>

(* loadEvents(): nothing while a load is under way, nor after the last page.  *)
LoadEvents(reset) ==
    LET first == reset \/ gPage = 1 IN
    /\ gLoad = Idling /\ (reset \/ gMore)
    /\ gLoad' = [Idling EXCEPT !.step = "asked", !.filter = gForm]
    /\ gPage' = (IF reset THEN 1 ELSE gPage) /\ gMore' = TRUE
    /\ IF reset THEN gShown' = {} /\ gPut' = {} ELSE UNCHANGED <<gShown, gPut>>
    /\ gFirst' = IF first THEN [gFirst EXCEPT !.filter = gForm] ELSE gFirst
    /\ gMixed' = (~first /\ (gMixed \/ gForm # gFirst.filter))
    /\ UNCHANGED <<gArrived, gAcked, gForm>>

ApplyFilters == LoadEvents(TRUE)
LoadMore     == LoadEvents(FALSE)

(* How many of the selected events are newer.                                 *)
Newer(e, selected) == Cardinality({o \in selected : o > e})

(* Bug: the offset counts the extra row that tells whether there is more.     *)
RowsBug(selected) ==
    LET offset == (gPage - 1) * (GPerPage + 1)
    IN  {e \in selected : Newer(e, selected) \in offset .. offset + GPerPage}

(* api_events_center: ORDER BY created_at DESC LIMIT per_page + 1 OFFSET ...  *)
Rows(selected) ==
    LET offset == (gPage - 1) * GPerPage
    IN  {e \in selected : Newer(e, selected) \in offset .. offset + GPerPage}

ApiEventsCenter ==
    LET rows == Rows(gLoad.filter \cap 1..gArrived) IN
    /\ gLoad.step = "asked"
    /\ gLoad' = [gLoad EXCEPT !.step = "answered", !.rows = {e \in rows : Newer(e, rows) < GPerPage},
                              !.more = (Cardinality(rows) > GPerPage)]
    /\ gFirst' = IF gPage = 1 THEN [gFirst EXCEPT !.arrived = gArrived] ELSE gFirst
    /\ UNCHANGED <<gArrived, gAcked, gForm, gPage, gMore, gShown, gPut, gMixed>>

(* An empty first page leaves the page number and hasMore as they were.       *)
RowsArrive ==
    /\ gLoad.step = "answered" /\ gLoad' = Idling
    /\ IF gLoad.rows = {} /\ gPage = 1 THEN UNCHANGED <<gPage, gMore, gShown>>
       ELSE gShown' = gShown \cup gLoad.rows /\ gMore' = gLoad.more /\ gPage' = gPage + 1
    /\ UNCHANGED <<gArrived, gAcked, gForm, gPut, gFirst, gMixed>>

LoadFails ==
    /\ gLoad # Idling /\ gLoad' = Idling
    /\ UNCHANGED <<gArrived, gAcked, gForm, gPage, gMore, gShown, gPut, gFirst, gMixed>>

(* A live message is put on top of the first page when nothing is filtered;    *)
(* the date is not looked at.                                                  *)
Prepend(e) ==
    /\ gPage = 2 /\ gForm \in GOpen /\ e <= gArrived /\ e \notin gPut
    /\ gPut' = gPut \cup {e}
    /\ UNCHANGED <<gArrived, gAcked, gForm, gPage, gMore, gLoad, gShown, gFirst, gMixed>>

(* Acknowledging one event that is shown, or, as the button does, all there   *)
(* are, shown or not; the page then loads again, unless it is loading.        *)
Acknowledge(events) ==
    /\ ~events \subseteq gAcked /\ gAcked' = gAcked \cup events
    /\ UNCHANGED <<gArrived, gForm, gPage, gMore, gLoad, gShown, gPut, gFirst, gMixed>>
ApiAcknowledgeEvent == \E e \in gShown \cup gPut : Acknowledge({e})
ApiAcknowledgeAll   == Acknowledge(1..gArrived)

GNext ==
    \/ EventArrives \/ ChangeForm \/ ApplyFilters \/ LoadMore
    \/ ApiEventsCenter \/ RowsArrive \/ LoadFails
    \/ \E e \in 1..GMaxEvents : Prepend(e)
    \/ ApiAcknowledgeEvent \/ ApiAcknowledgeAll

GSpec == GInit /\ [][GNext]_center

-----------------------------------------------------------------------------
GTypeOK ==
    /\ gArrived \in 0..GMaxEvents /\ gAcked \cup gShown \cup gPut \subseteq 1..gArrived
    /\ {gForm, gFirst.filter} \subseteq GFilters /\ gFirst.arrived \in 0..gArrived
    /\ gPage \in Nat \ {0} /\ {gMore, gMixed, gLoad.more} \subseteq BOOLEAN
    /\ gLoad.step \in {"none", "asked", "answered"} /\ gLoad.rows \subseteq 1..gArrived

(* As long as the form is left alone between the pages, they leave no gap,    *)
(* although new events move the rest down the list and loads fail: of what     *)
(* there was when the first page was read, everything newer than an event      *)
(* that is shown is shown, and everything is when there is no more.            *)
PagesLeaveNoGap ==
    LET selected == gFirst.filter \cap 1..gFirst.arrived IN
    ~gMixed /\ gPage > 1 =>
        /\ \A e \in selected, o \in gShown \cap selected : o < e => e \in gShown
        /\ ~gMore => selected \subseteq gShown
=============================================================================
