------------------------------- MODULE DomWalk -------------------------------
(***************************************************************************)
(* The simulator's walk of a document (_AccessibilityWalker): tags arrive  *)
(* one by one and build the tree whose paths element references record.    *)
(* Held against the walk that runs in Chromium (_JS_ACCESSIBILITY).  The   *)
(* tags are those inside an element that both walks enter, Root.           *)
(***************************************************************************)
EXTENDS Integers, Sequences, FiniteSets, SequencesExt

CONSTANTS
    MaxTags        \* bound on the tags of a document

\* An element, a void element, an open shadow template, a skipped element (such
\* as script; meta and link, which are never closed, are skips without an end),
\* and the end tags.
Tags == {"open", "void", "shadow", "skip", "/open", "/shadow", "/skip"}
Root == 0

VARIABLES
    document,      \* the tags fed so far
    stack,         \* _stack: positions of the open elements
    children,      \* per position, and Root: the children in order
    skipDepth      \* _skip_depth

domVars == <<document, stack, children, skipDepth>>

DomInit ==
    /\ document = <<>>
    /\ stack = <<>>
    /\ children = [p \in 0..MaxTags |-> <<>>]
    /\ skipDepth = 0

Position == Len(document) + 1
Parent == IF stack = <<>> THEN Root ELSE Last(stack)
Feed(tag) == Len(document) < MaxTags /\ document' = Append(document, tag)

\* Mutant: void elements stay open.
HandleVoid_Open ==
    /\ Feed("void")
    /\ IF skipDepth > 0 THEN UNCHANGED <<stack, children>>
       ELSE /\ children' = [children EXCEPT ![Parent] = Append(@, Position)]
            /\ stack' = Append(stack, Position)
    /\ UNCHANGED skipDepth

\* handle_starttag of a void element.
HandleVoid ==
    /\ Feed("void")
    /\ children' = IF skipDepth > 0 THEN children ELSE [children EXCEPT ![Parent] = Append(@, Position)]
    /\ UNCHANGED <<stack, skipDepth>>

\* handle_starttag of an element.
HandleStart ==
    /\ Feed("open")
    /\ IF skipDepth > 0 THEN UNCHANGED <<stack, children>>
       ELSE /\ children' = [children EXCEPT ![Parent] = Append(@, Position)]
            /\ stack' = Append(stack, Position)
    /\ UNCHANGED skipDepth

\* handle_starttag of a shadow template: a placeholder its host does not list.
HandleShadow ==
    /\ Feed("shadow")
    /\ IF skipDepth > 0 THEN UNCHANGED <<stack, children>>
       ELSE /\ stack' = Append(stack, Position)
            /\ children' = IF stack # <<>> THEN children ELSE [children EXCEPT ![Root] = Append(@, Position)]
    /\ UNCHANGED skipDepth

\* handle_starttag and handle_endtag of skipped elements.
HandleSkip ==
    /\ \/ Feed("skip") /\ skipDepth' = skipDepth + 1
       \/ Feed("/skip") /\ skipDepth' = IF skipDepth > 0 THEN skipDepth - 1 ELSE 0
    /\ UNCHANGED <<stack, children>>

\* The elements handle_endtag pops: up to one with this tag, or a template.
Closes(tag) ==
    LET stops == {i \in 1..Len(stack) : document[stack[i]] \in {tag, "shadow"}}
    IN  IF stops = {} THEN 0 ELSE CHOOSE i \in stops : \A j \in stops : j <= i

\* handle_endtag, _splice_shadow: a template's children go to its host.
HandleEnd(tag) ==
    /\ Feed(IF tag = "open" THEN "/open" ELSE "/shadow")
    /\ IF skipDepth > 0 \/ stack = <<>> THEN UNCHANGED <<stack, children>>
       ELSE LET i == Closes(tag)
                last == IF i = 0 THEN 0 ELSE stack[i]
            IN  /\ stack' = IF i = 0 THEN <<>> ELSE SubSeq(stack, 1, i - 1)
                /\ children' = IF i > 1 /\ document[last] = "shadow"
                               THEN [children EXCEPT ![stack[i - 1]] = @ \o children[last]] ELSE children
    /\ UNCHANGED skipDepth

DomNext == HandleVoid \/ HandleStart \/ HandleShadow \/ HandleSkip \/ \E tag \in {"open", "shadow"} : HandleEnd(tag)

-----------------------------------------------------------------------------
\* The reference: tags as brackets.
Opening == {"open", "shadow", "skip"}
Depth(i, j) ==
    Cardinality({k \in i..j : document[k] \in Opening}) - Cardinality({k \in i..j : document[k] \in {"/open", "/shadow", "/skip"}})
Encloses(o, i) == o < i /\ document[o] \in Opening /\ \A k \in o..(i - 1) : Depth(o, k) > 0
EndOf(o) == CHOOSE e \in (o + 1)..Len(document) : Depth(o, e) = 0 /\ \A k \in o..(e - 1) : Depth(o, k) > 0
WellNested ==
    /\ Len(document) > 0 /\ Depth(1, Len(document)) = 0
    /\ \A k \in 1..Len(document) : Depth(1, k) >= 0
    /\ \A o \in 1..Len(document) : document[o] \in Opening =>
          document[EndOf(o)] = (IF document[o] = "open" THEN "/open" ELSE IF document[o] = "shadow" THEN "/shadow" ELSE "/skip")

\* Elements that are not inside a skipped one, and those among them that are not
\* skipped; the innermost element around one, templates aside; whether it sits in
\* the shadow of that element.
Elements == {i \in 1..Len(document) : /\ document[i] \in {"open", "void", "skip"}
                                      /\ \A o \in 1..Len(document) : Encloses(o, i) => document[o] # "skip"}
Shown == {i \in Elements : document[i] # "skip"}
Around(i) == {o \in Shown : Encloses(o, i)}
Host(i) == IF Around(i) = {} THEN Root ELSE CHOOSE o \in Around(i) : \A p \in Around(i) : p <= o
InShadow(i) == \E o \in 1..Len(document) : document[o] = "shadow" /\ Encloses(o, i) /\ Host(i) < o
\* Chromium numbers the light children of an element first, then its shadow; a
\* skipped child has a number, and is left as soon as it is entered.
JsChildren(p) ==
    LET kids(shadow) == SetToSortSeq({i \in Elements : Host(i) = p /\ InShadow(i) = shadow}, <)
    IN  kids(FALSE) \o kids(TRUE)
JsVisited(p) == SelectSeq(JsChildren(p), LAMBDA i : i \in Shown)
\* At most one template to an element, after its light children, and every
\* template in an element.
ShadowsLast ==
    \A o \in 1..Len(document) : document[o] = "shadow" =>
        /\ Around(o) # {}
        /\ \A i \in Shown : Host(i) = Host(o) /\ i > o => InShadow(i) /\ Encloses(o, i)
        /\ \A q \in 1..Len(document) : document[q] = "shadow" /\ q # o => Host(q) # Host(o)

\* What a workflow finds in the simulator it finds in Chromium: on a well-nested
\* document whose shadow templates come last in their hosts, both walks enter the
\* same elements, under the same parents and in the same order.  Not at the same
\* paths: Chromium counts the skipped siblings and the simulator drops them, so a
\* path is good only for the walk that minted it.
WalksAgree ==
    WellNested /\ ShadowsLast =>
        \A p \in Shown \cup {Root} : children[p] = JsVisited(p)
=============================================================================
