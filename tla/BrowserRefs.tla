----------------------------- MODULE BrowserRefs -----------------------------
(***************************************************************************)
(* Element references (ElementReferenceRegistry) and the two transports    *)
(* that mint and resolve them, for the tabs of each browser context.  The  *)
(* operations are atomic: one worker thread serves Playwright, and the     *)
(* simulator is called directly.  A page is its address; frame, origin and *)
(* fingerprint come to whether the element is found once, in its place.    *)
(***************************************************************************)
EXTENDS Integers, FiniteSets

CONSTANTS
    PageSessions,     \* browser contexts, by session key
    Urls, Blank,      \* addresses; about:blank
    MaxTabs,          \* bound on tab tokens over all contexts
    MaxGeneration,    \* bound on snapshot generations
    NoPage            \* no context

ASSUME RefsAssumption == MaxTabs \in Nat /\ MaxGeneration \in Nat

Engines == {"playwright", "simulated"}

VARIABLES
    engine,       \* the transport of this installation
    pages,        \* per session: NoPage or its tabs (token to address) and the active one
    generations,  \* per session and tab token
    refs,         \* per session: issued references still in the registry
    issued,       \* every reference a caller was given (history)
    expired,      \* those older than their time to live
    spoiled,      \* those an operation has made invalid (history)
    lastUse,      \* the last reference an element was acted on with was the
                  \* caller's own, not expired and not spoiled by then (history)
    tabCount

refVars == <<engine, pages, generations, refs, issued, expired, spoiled, lastUse, tabCount>>

RefsInit ==
    /\ engine \in Engines
    /\ pages = [s \in PageSessions |-> NoPage]
    /\ generations = [s \in PageSessions |-> [t \in 1..MaxTabs |-> 0]]
    /\ refs = [s \in PageSessions |-> {}]
    /\ issued = {} /\ expired = {} /\ spoiled = {}
    /\ lastUse = TRUE
    /\ tabCount = 0

Of(s, t) == {r \in issued : r.session = s /\ r.tab = t}
Active(s) == pages[s].active
Address(s) == pages[s].tabs[Active(s)]
\* The active page answers; a page that closed itself stays the active one.
Live(s) == pages[s] # NoPage /\ Active(s) \in DOMAIN pages[s].tabs
Moved(s, t, u) == [pages EXCEPT ![s].tabs[t] = u]

\* invalidate_tab and its effect on the callers' references.
InvalidateTab(s, t) ==
    /\ refs' = [refs EXCEPT ![s] = {r \in @ : r.tab # t}]
    /\ generations' = [generations EXCEPT ![s][t] = @ + 1]
    /\ spoiled' = spoiled \cup Of(s, t)

\* The tab shows address u: invalidate_tab goes with it.
GoesTo(s, u) ==
    /\ generations[s][Active(s)] < MaxGeneration
    /\ pages' = Moved(s, Active(s), u)
    /\ InvalidateTab(s, Active(s))

\* A context with one tab.
OpenTab(s, u) ==
    /\ pages[s] = NoPage /\ tabCount < MaxTabs
    /\ pages' = [pages EXCEPT ![s] = [tabs |-> [t \in {tabCount + 1} |-> u], active |-> tabCount + 1]]
    /\ tabCount' = tabCount + 1
    /\ UNCHANGED <<engine, generations, refs, issued, expired, spoiled, lastUse>>

\* begin_snapshot keeps the older references unless they expired, and register
\* gives an element a reference in the new generation.
Snapshot(s) ==
    /\ Live(s) /\ generations[s][Active(s)] < MaxGeneration
    /\ LET g == generations[s][Active(s)] + 1
           new == [session |-> s, tab |-> Active(s), generation |-> g, url |-> Address(s)]
       IN  /\ generations' = [generations EXCEPT ![s][Active(s)] = g]
           /\ refs' = [refs EXCEPT ![s] = {r \in @ : r.tab # Active(s) \/ r \notin expired} \cup {new}]
           /\ spoiled' = spoiled \cup Of(s, Active(s))
           /\ issued' = issued \cup {new}
    /\ UNCHANGED <<engine, pages, expired, lastUse, tabCount>>

\* Mutant: the snapshot generation is not compared.
CheckScope_AnySnapshot(s, r) == r \notin expired /\ r.tab = Active(s) /\ r.url = Address(s)

\* check_scope
CheckScope(s, r) ==
    /\ r \notin expired
    /\ r.tab = Active(s)
    /\ r.generation = generations[s][Active(s)]
    /\ r.url = Address(s)

\* What acting on an element with reference r leads to (lastUse is the history
\* of it): the page stays, it shows another address, or a tab opens in the
\* background and gets its token.
Acted(s, r) == lastUse' = (r.session = s /\ r \notin (spoiled \cup expired))

Stays(s, r) ==
    /\ Acted(s, r)
    /\ UNCHANGED <<engine, pages, generations, refs, issued, expired, spoiled, tabCount>>

Leaves(s, r, u) ==
    /\ Acted(s, r)
    /\ GoesTo(s, u)
    /\ UNCHANGED <<engine, issued, expired, tabCount>>

PopsUp(s, r, u) ==
    /\ tabCount < MaxTabs
    /\ Acted(s, r)
    /\ pages' = [pages EXCEPT ![s].tabs = [t \in DOMAIN @ \cup {tabCount + 1} |->
                                              IF t = tabCount + 1 THEN u ELSE @[t]]]
    /\ tabCount' = tabCount + 1
    /\ UNCHANGED <<engine, generations, refs, issued, expired, spoiled>>

\* invalidate_session: the context and what belongs to it.
CloseContext(s) ==
    /\ pages[s] # NoPage
    /\ pages' = [pages EXCEPT ![s] = NoPage]
    /\ refs' = [refs EXCEPT ![s] = {}]
    /\ generations' = [generations EXCEPT ![s] = [t \in 1..MaxTabs |-> 0]]
    /\ spoiled' = spoiled \cup {r \in issued : r.session = s}
    /\ UNCHANGED <<engine, issued, expired, lastUse, tabCount>>

Activate(s, t) ==
    /\ pages[s] # NoPage /\ t \in DOMAIN pages[s].tabs
    /\ pages' = [pages EXCEPT ![s].active = t]
    /\ UNCHANGED <<engine, generations, refs, issued, expired, spoiled, lastUse, tabCount>>

-----------------------------------------------------------------------------
(* PlaywrightBrowserTransport *)

\* The element is there, once, in its place (or the action is refused and
\* nothing changes).
ResolveRefHandle(s, r) == engine = "playwright" /\ Live(s) /\ r \in refs[s] /\ CheckScope(s, r)

\* _context_page: the first command for a session key makes its context.
ContextPage(s) == engine = "playwright" /\ OpenTab(s, Blank)

PageGoto(s, u) ==
    /\ engine = "playwright" /\ Live(s)
    /\ GoesTo(s, u)
    /\ UNCHANGED <<engine, issued, expired, lastUse, tabCount>>

PageInspect(s) == engine = "playwright" /\ Snapshot(s)
PageActivate(s, t) == engine = "playwright" /\ Activate(s, t)
\* close_context, an unknown outcome, an idle context.
PageClose(s) == engine = "playwright" /\ CloseContext(s)

\* _post_data compares addresses: a page loaded again under its own is not seen.
PostData(s, r, u) == IF u = Address(s) THEN Stays(s, r) ELSE Leaves(s, r, u)

PageClick(s, r, u) == ResolveRefHandle(s, r) /\ (PostData(s, r, u) \/ PopsUp(s, r, u))
PageFill(s, r, u) == ResolveRefHandle(s, r) /\ PostData(s, r, u)
PageSubmit(s, r, u) == ResolveRefHandle(s, r) /\ (PostData(s, r, u) \/ PopsUp(s, r, u))
PageDownload(s, r) == ResolveRefHandle(s, r) /\ Stays(s, r)
PageUpload(s, r) == ResolveRefHandle(s, r) /\ Stays(s, r)

\* The page moves and the registry does not hear of it: a goto that times out
\* or ends on a blocked address, a click by selector or text, a script.
MovesUnseen(s, t, u) ==
    /\ engine = "playwright" /\ pages[s] # NoPage /\ t \in DOMAIN pages[s].tabs
    /\ pages' = Moved(s, t, u)
    /\ UNCHANGED <<engine, generations, refs, issued, expired, spoiled, lastUse, tabCount>>

\* A tab closes itself.
TabCloses(s, t) ==
    /\ engine = "playwright" /\ pages[s] # NoPage /\ t \in DOMAIN pages[s].tabs
    /\ pages' = [pages EXCEPT ![s].tabs = [x \in DOMAIN @ \ {t} |-> @[x]]]
    /\ spoiled' = spoiled \cup Of(s, t)
    /\ UNCHANGED <<engine, generations, refs, issued, expired, lastUse, tabCount>>

-----------------------------------------------------------------------------
(* SimulatedBrowserTransport *)

ResolveRef(s, r) == engine = "simulated" /\ Live(s) /\ r \in refs[s] /\ CheckScope(s, r)

SimNavigate(s, u) ==
    /\ engine = "simulated"
    /\ \/ OpenTab(s, u)
       \/ Live(s) /\ GoesTo(s, u) /\ UNCHANGED <<engine, issued, expired, lastUse, tabCount>>

SimInspect(s) == engine = "simulated" /\ Snapshot(s)
SimActivate(s, t) == engine = "simulated" /\ Activate(s, t)
SimClose(s) == engine = "simulated" /\ CloseContext(s)

\* _simulate_click: no link, a link to another tab, a link.
SimClick(s, r, u) == ResolveRef(s, r) /\ (Stays(s, r) \/ PopsUp(s, r, u) \/ Leaves(s, r, u))

\* _simulate_click_legacy: a link found by its text.
SimClickText(s, u) ==
    /\ engine = "simulated" /\ Live(s)
    /\ GoesTo(s, u)
    /\ UNCHANGED <<engine, issued, expired, lastUse, tabCount>>

SimFill(s, r) == ResolveRef(s, r) /\ Stays(s, r)
SimSubmit(s, r, u) == ResolveRef(s, r) /\ (Stays(s, r) \/ Leaves(s, r, u))
SimDownload(s, r) == ResolveRef(s, r) /\ Stays(s, r)
SimUpload(s, r) == ResolveRef(s, r) /\ Stays(s, r)

-----------------------------------------------------------------------------
\* The time to live of a reference passes.
Expires(r) ==
    /\ r \in issued \ expired
    /\ expired' = expired \cup {r}
    /\ UNCHANGED <<engine, pages, generations, refs, issued, spoiled, lastUse, tabCount>>

ByReference(s, r) ==
    \/ PageDownload(s, r) \/ PageUpload(s, r) \/ SimFill(s, r) \/ SimDownload(s, r) \/ SimUpload(s, r)
    \/ \E u \in Urls : PageClick(s, r, u) \/ PageFill(s, r, u) \/ PageSubmit(s, r, u)
                       \/ SimClick(s, r, u) \/ SimSubmit(s, r, u)

RefsNext ==
    \/ \E s \in PageSessions :
         \/ ContextPage(s) \/ PageInspect(s) \/ PageClose(s) \/ SimInspect(s) \/ SimClose(s)
         \/ \E u \in Urls : PageGoto(s, u) \/ SimNavigate(s, u) \/ SimClickText(s, u)
                            \/ \E t \in 1..MaxTabs : MovesUnseen(s, t, u)
         \/ \E t \in 1..MaxTabs : PageActivate(s, t) \/ TabCloses(s, t) \/ SimActivate(s, t)
         \/ \E r \in issued : ByReference(s, r)
    \/ \E r \in issued : Expires(r)

RefsSpec == RefsInit /\ [][RefsNext]_refVars

-----------------------------------------------------------------------------
\* A reference is good for the context, tab and snapshot it was issued in: no
\* element is acted on with one that has expired, that another caller was
\* given, or that a navigation, a later inspection, the end of its tab or of
\* its context has made invalid, whatever tabs were opened and activated since.
RefsDie == lastUse
=============================================================================
