------------------------ MODULE ToolDiscoveryProofs ------------------------
(***************************************************************************)
(* The tools that are offered, called and remembered, for any tasks, words, *)
(* bodies of the gateway and replies of the desktop server.                 *)
(*                                                                          *)
(* The plans, the reading of answers and the rules of the demo client are   *)
(* operators over sequences: the lemmas say of each what it may return.     *)
(* DiscoveryInv puts them together: what is revealed has been searched for  *)
(* in this task, what waits to be called is visible and has its inputs, and *)
(* the demo client keeps to what needs no search.  It is needed because a   *)
(* call is run rounds after it was checked, and because the demo client     *)
(* plans from what is visible, which only its own calls could widen.        *)
(***************************************************************************)
EXTENDS ToolDiscovery, SelectionProofs, FiniteSetTheorems

\* Where the first element in a set stands, there what is selected begins.
LEMMA OnlyFirst ==
    ASSUME NEW A, NEW s \in Seq(A), NEW S, NEW i \in 1..Len(s), s[i] \in S,
           \A j \in 1..(i - 1) : s[j] \notin S
    PROVE  Only(s, S) # <<>> /\ Only(s, S)[1] = s[i]
<1> DEFINE t == Only(s, S)
<1>1. t \in Seq(A)
  BY OnlySelects
<1>2. PICK m : Selects(s, S, Len(s), t, m)
  BY OnlySelects
<1> HIDE DEF t
<1>3. PICK k \in 1..Len(t) : m[k] = i
  BY <1>2 DEF Selects
<1>4. Len(t) \in Nat /\ Len(s) \in Nat /\ 1 \in 1..Len(t)
  BY <1>1, <1>3
<1>5. m[1] \in 1..Len(s) /\ t[1] = s[m[1]] /\ t[1] \in S
  BY <1>2, <1>4 DEF Selects
<1>6. m[1] \notin 1..(i - 1)
  BY <1>5
<1>7. k # 1 => m[1] < i
  BY <1>2, <1>3, <1>4 DEF Selects
<1>8. m[1] = i
  BY <1>3, <1>4, <1>5, <1>6, <1>7
<1>9. t # <<>>
  BY <1>4
<1> QED BY <1>5, <1>8, <1>9 DEF t

\* Each element where it first occurs: the first of them is the first.
LEMMA FirstsType ==
    ASSUME NEW A, NEW s \in Seq(A)
    PROVE  /\ Firsts(s) \in Seq(A)
           /\ s # <<>> => Firsts(s) # <<>> /\ Firsts(s)[1] = s[1]
<1> DEFINE positions == [i \in DOMAIN s |-> i]
           S == {i \in DOMAIN s : \A j \in 1..(i - 1) : s[j] # s[i]}
           new == Only(positions, S)
<1>1. DOMAIN s = 1..Len(s) /\ Len(s) \in Nat
  OBVIOUS
<1>2. positions \in Seq(1..Len(s)) /\ Len(positions) = Len(s)
  BY <1>1
<1>3. \A i \in 1..Len(s) : positions[i] = i
  BY <1>1
<1>4. new \in Seq((1..Len(s)) \cap S)
  BY <1>2, OnlyType
<1>5. s # <<>> => 1 \in 1..Len(s) /\ 1 \in S
  <2> SUFFICES ASSUME s # <<>> PROVE 1 \in 1..Len(s) /\ 1 \in S
    OBVIOUS
  <2>1. 1 \in 1..Len(s) /\ 1..(1 - 1) = {}
    BY <1>1
  <2> QED BY <1>1, <2>1
<1> HIDE DEF S, positions
<1>6. s # <<>> => new # <<>> /\ new[1] = 1
  <2> SUFFICES ASSUME s # <<>> PROVE new # <<>> /\ new[1] = 1
    OBVIOUS
  <2>1. 1 \in 1..Len(positions) /\ positions[1] = 1 /\ 1 \in S /\ 1..(1 - 1) = {}
    BY <1>2, <1>3, <1>5
  <2> HIDE DEF new
  <2>2. Only(positions, S) # <<>> /\ Only(positions, S)[1] = positions[1]
    BY <1>2, <2>1, OnlyFirst
  <2> QED BY <2>1, <2>2 DEF new
<1>7. Firsts(s) = [k \in DOMAIN new |-> s[new[k]]]
  BY DEF Firsts, new, positions, S
<1> HIDE DEF new
<1>8. DOMAIN new = 1..Len(new) /\ Len(new) \in Nat /\ \A k \in 1..Len(new) : new[k] \in 1..Len(s)
  BY <1>4
<1>9. \A k \in 1..Len(new) : s[new[k]] \in A
  BY <1>8
<1>10. Firsts(s) \in Seq(A) /\ Len(Firsts(s)) = Len(new)
  BY <1>7, <1>8, <1>9
<1> QED
  <2> SUFFICES ASSUME s # <<>> PROVE Firsts(s) # <<>> /\ Firsts(s)[1] = s[1]
    BY <1>10
  <2>1. Len(new) # 0
    BY <1>4, <1>6
  <2>2. 1 \in DOMAIN new
    BY <1>8, <2>1
  <2> QED BY <1>6, <1>7, <1>8, <1>10, <2>1, <2>2

\* dedupeStrings: strings, of which the first is the first that is a name; none if none is.
LEMMA DedupeType ==
    ASSUME NEW s \in Seq(Name)
    PROVE  /\ DedupeStrings(s) \in Seq(Name)
           /\ \A i \in 1..Len(s) :
                 s[i] # NoName /\ (\A j \in 1..(i - 1) : s[j] = NoName)
                     => HeadOr(DedupeStrings(s), NoName) = s[i] /\ DedupeStrings(s) # <<>>
<1> DEFINE S == ToSet(s) \ {NoName}
           t == Only(s, S)
<1>1. t \in Seq(Name)
  BY OnlySelects
<1>2. \A i \in 1..Len(s) : s[i] \in S <=> s[i] # NoName
  <2>1. DOMAIN s = 1..Len(s)
    OBVIOUS
  <2> QED BY <2>1, Zenon DEF ToSet
<1> HIDE DEF S
<1>3. ASSUME NEW i \in 1..Len(s), s[i] # NoName, \A j \in 1..(i - 1) : s[j] = NoName
      PROVE  t # <<>> /\ t[1] = s[i]
  <2>1. \A j \in 1..(i - 1) : j \in 1..Len(s)
    OBVIOUS
  <2>2. s[i] \in S /\ \A j \in 1..(i - 1) : s[j] \notin S
    BY <1>2, <1>3, <2>1
  <2> QED BY <2>2, OnlyFirst
<1> HIDE DEF t
<1>4. /\ Firsts(t) \in Seq(Name)
      /\ t # <<>> => Firsts(t) # <<>> /\ Firsts(t)[1] = t[1]
  BY <1>1, FirstsType
<1>5. DedupeStrings(s) = Firsts(t)
  BY DEF DedupeStrings, t, S
<1>6. Firsts(t) # <<>> => HeadOr(Firsts(t), NoName) = Firsts(t)[1]
  BY <1>4 DEF HeadOr
<1> QED BY <1>3, <1>4, <1>5, <1>6
-----------------------------------------------------------------------------
\* The names of controls.
LEMMA NamesType ==
    ASSUME NEW s \in Seq(Control)
    PROVE  [i \in DOMAIN s |-> NameOf(s[i])] \in Seq(Name)
<1>1. \A c \in Control : NameOf(c) \in Name
  BY DEF NameOf, Control
<1>2. DOMAIN s = 1..Len(s) /\ Len(s) \in Nat /\ \A i \in 1..Len(s) : s[i] \in Control
  OBVIOUS
<1> HIDE DEF Control, NameOf
<1> QED BY <1>1, <1>2

\* A text of the server is parsed into a snapshot (parseTextSnapshotPayload), whose
\* windows have names.
LEMMA NoNameType == NoName \in Name
BY DEF Name

LEMMA TextType ==
    ASSUME NEW text, text.focus \in Seq(Name), text.opened \in Seq(Name),
           text.controls \in Seq(Control), text.tree \in Seq(Control)
    PROVE  TextSnapshot(text) \in Snapshot
<1>1. FocusedWindow(text) \in Name
  BY NoNameType DEF FocusedWindow, HeadOr
<1>2. OpenedWindows(text) \in Seq(Name \ {NoName})
  <2> DEFINE listed == Only(text.opened, ToSet(text.opened) \ Heading)
             named == Only(listed, ToSet(listed) \ {NoName})
  <2>1. listed \in Seq(Name)
    BY OnlySelects
  <2>2. named \in Seq(Name \cap (ToSet(listed) \ {NoName}))
    <3> HIDE DEF listed
    <3> QED BY <2>1, OnlyType
  <2> HIDE DEF named
  <2>3. named \in Seq(Name \ {NoName})
    BY <2>2
  <2>4. Firsts(named) \in Seq(Name \ {NoName})
    BY <2>3, FirstsType
  <2> QED BY <2>4 DEF OpenedWindows, DedupeStrings, named, listed
<1>3. ListedControls(text) \in Seq(Control)
  BY OnlySelects DEF ListedControls
<1>4. DrawnControls(text) \in Seq(Control)
  <2> DEFINE drawn == Only(text.tree, {control \in ToSet(text.tree) :
                               control.place > 0 /\ control.type # NoName /\ control.name # NoName})
  <2>1. drawn \in Seq(Control)
    BY OnlySelects
  <2> HIDE DEF drawn
  <2>2. \A i \in DOMAIN drawn : [drawn[i] EXCEPT !.label = 0, !.window = NoName] \in Control
    <3> TAKE i \in DOMAIN drawn
    <3>1. drawn[i] \in Control
      BY <2>1
    <3> DEFINE c == drawn[i]
    <3> HIDE DEF c
    <3>2. [c EXCEPT !.label = 0, !.window = NoName] \in Control
      BY <3>1, NoNameType DEF Control, c
    <3> QED BY <3>2 DEF c
  <2>3. [i \in DOMAIN drawn |-> [drawn[i] EXCEPT !.label = 0, !.window = NoName]] \in Seq(Control)
    <3>1. DOMAIN drawn = 1..Len(drawn) /\ Len(drawn) \in Nat
      BY <2>1
    <3> DEFINE bare == [i \in DOMAIN drawn |-> [drawn[i] EXCEPT !.label = 0, !.window = NoName]]
    <3>2. bare \in [1..Len(drawn) -> Control]
      BY <2>2, <3>1
    <3> HIDE DEF bare
    <3>3. bare \in Seq(Control)
      BY <3>1, <3>2
    <3> QED BY <3>3 DEF bare
  <2> QED BY <2>3 DEF DrawnControls, drawn
<1> DEFINE controls == Merged(ListedControls(text) \o DrawnControls(text))
           names == [i \in DOMAIN controls |-> NameOf(controls[i])]
<1>5. controls \in Seq(Control)
  <2>1. ListedControls(text) \o DrawnControls(text) \in Seq(Control)
    BY <1>3, <1>4
  <2> QED BY <2>1, FirstsType DEF Merged
<1> HIDE DEF controls
<1>6. names \in Seq(Name)
  BY <1>5, NamesType
<1>7. DrawnNames(text) \in Seq(Name)
  <2>1. [i \in DOMAIN text.tree |-> NameOf(text.tree[i])] \in Seq(Name)
    BY NamesType
  <2> QED BY <2>1, DedupeType DEF DrawnNames
<1>8. OpenedWindows(text) \in Seq(Name)
  BY <1>2
<1> HIDE DEF names
<1>9. <<FocusedWindow(text)>> \o OpenedWindows(text) \o names \o DrawnNames(text) \in Seq(Name)
  BY <1>1, <1>6, <1>7, <1>8
<1>10. NoPage \in [texts : Seq(Name), described : BOOLEAN] /\ <<>> \in Seq(Name)
  <2>1. <<>> \in Seq(Name)
    OBVIOUS
  <2> QED BY <2>1 DEF NoPage
<1> QED BY <1>1, <1>2, <1>5, <1>9, <1>10 DEF TextSnapshot, Snapshot, controls, names

LEMMA NothingType == Nothing \in Snapshot
<1>1. <<>> \in Seq(Name) /\ <<>> \in Seq(Name \ {NoName}) /\ <<>> \in Seq(Control)
  OBVIOUS
<1> QED BY <1>1, NoNameType DEF Nothing, NoPage, Snapshot

\* What a reply is parsed into (normalizeSnapshot) is a snapshot.
LEMMA ParsedType ==
    ASSUME NEW reply \in Replies
    PROVE  Parsed(reply) \in Snapshot
<1>1. ReplyTyped(reply)
  BY ReplyAssumption
<1>2. CASE reply.form = "text"
  BY <1>1, <1>2, TextType DEF ReplyTyped, Parsed
<1>3. CASE reply.form = "snapshot"
  BY <1>1, <1>3 DEF ReplyTyped, Parsed
<1>4. CASE reply.form = "other"
  <2>1. reply.names \in Seq(Name)
    BY <1>1, <1>4 DEF ReplyTyped
  <2>2. [Nothing EXCEPT !.details = reply.names] \in Snapshot
    BY <2>1, NothingType DEF Snapshot
  <2> QED BY <1>4, <2>2 DEF Parsed
<1>5. CASE reply.form \notin {"text", "snapshot", "other"}
  BY <1>5, NothingType DEF Parsed
<1> QED BY <1>2, <1>3, <1>4, <1>5

\* Without a window neither a snapshot nor a screenshot can be relied on, as long as it is
\* not of a page: an anchor and what is in it are not enough.
LEMMA WindowNeeded ==
    ASSUME NEW s \in Snapshot, NEW mode \in {"snapshot", "screenshot"}, s.page = NoPage,
           Reliable(s, mode)
    PROVE  s.focused # NoName \/ s.windows # <<>>
<1> SUFFICES ASSUME s.focused = NoName, s.windows = <<>> PROVE ~(Confidence(s, mode) >= 500)
  BY DEF Reliable
<1>1. DomAnchor(s) = NoName /\ ~s.page.described
  BY DEF DomAnchor, NoPage, HeadOr
<1> DEFINE window == If(WindowAnchor(s) # NoName, 280)
           anchors == If(Anchors(s) # <<>>, 80)
           none == WindowAnchor(s) = NoName /\ DomAnchor(s) = NoName
           sum == 100 + window + 0 + 0 + anchors + 0 + 0 + 0 - If(none, 120)
<1>2. /\ window \in {0, 280} /\ anchors \in {0, 80} /\ If(none, 120) \in {0, 120}
  BY DEF If
<1>3. sum \in Int /\ sum <= 460
  <2> HIDE DEF window, anchors, none
  <2> QED BY <1>2
<1>4. Confidence(s, mode) = LET rounded == 10 * ((sum + 5) \div 10)
                            IN IF rounded < 50 THEN 50 ELSE IF rounded > 980 THEN 980
                               ELSE rounded
  BY <1>1 DEF Confidence, If
<1> HIDE DEF sum
<1>5. 10 * ((sum + 5) \div 10) <= 465
  BY <1>3
<1> QED BY <1>3, <1>4, <1>5

\* So the target of an observation that can be relied on is a window that is shown.
LEMMA TargetShown ==
    ASSUME NEW s \in Snapshot, NEW mode \in {"snapshot", "screenshot"}, s.page = NoPage,
           Reliable(s, mode)
    PROVE  TargetOf(s) \in Shown(s)
<1> DEFINE first == HeadOr(s.windows, NoName)
           three == <<s.focused, WindowAnchor(s), first>>
           many == <<s.focused, first>> \o s.titles \o Anchors(s)
<1>1. s.focused \in Name /\ s.windows \in Seq(Name \ {NoName}) /\ s.titles \in Seq(Name)
      /\ s.anchors \in Seq(Name) /\ s.details \in Seq(Name) /\ s.page.texts \in Seq(Name)
  BY DEF Snapshot
<1>2. s.windows \in Seq(Name) /\ first \in Name
  BY <1>1, NoNameType DEF HeadOr
<1>3. Anchors(s) \in Seq(Name)
  <2>1. s.anchors \o s.windows \o <<s.focused>> \o s.titles \o s.details
          \o s.page.texts \in Seq(Name)
    BY <1>1, <1>2
  <2> QED BY <2>1, DedupeType DEF Anchors
<1> HIDE DEF first
<1>4. /\ many \in Seq(Name) /\ Len(many) >= 2
      /\ many[1] = s.focused /\ many[2] = first
  BY <1>1, <1>2, <1>3
<1>5. WindowAnchor(s) = HeadOr(DedupeStrings(many), NoName)
  BY DEF WindowAnchor, first
<1> HIDE DEF many
<1>6. WindowAnchor(s) \in Name
  <2>1. DedupeStrings(many) \in Seq(Name)
    BY <1>4, DedupeType
  <2> QED BY <1>5, <2>1, NoNameType DEF HeadOr
<1>7. three \in Seq(Name) /\ Len(three) = 3
  BY <1>1, <1>2, <1>6
<1>8. TargetOf(s) = HeadOr(DedupeStrings(three), NoName)
  BY DEF TargetOf, first
<1>9. s.focused \in Shown(s) /\ (s.windows # <<>> => first \in Shown(s) /\ first # NoName)
  <2> DEFINE front == s.windows \o <<s.focused>>
             more == front \o s.titles
             all == more \o s.page.texts
             n == Len(s.windows)
  <2>1. n \in Nat /\ front \in Seq(Name) /\ Len(front) = n + 1 /\ front[n + 1] = s.focused
        /\ \A i \in 1..n : front[i] = s.windows[i]
    BY <1>1, <1>2
  <2>2. s.windows # <<>> => n >= 1 /\ first = s.windows[1] /\ first # NoName
    BY <1>1 DEF HeadOr, first
  <2> HIDE DEF front, n
  <2>3. /\ more \in Seq(Name) /\ Len(more) >= n + 1
        /\ \A i \in 1..(n + 1) : more[i] = front[i]
    BY <1>1, <2>1
  <2> HIDE DEF more
  <2>4. (n + 1) \in DOMAIN all /\ \A i \in 1..(n + 1) : i \in DOMAIN all /\ all[i] = front[i]
    BY <1>1, <2>1, <2>3
  <2> HIDE DEF all
  <2>5. s.focused \in {all[i] : i \in DOMAIN all}
    BY <2>1, <2>4
  <2>6. s.windows # <<>> => first \in {all[i] : i \in DOMAIN all} /\ first # NoName
    BY <2>1, <2>2, <2>4
  <2> QED BY <2>5, <2>6, Zenon DEF Shown, ToSet, all, more, front
<1>10. CASE s.focused # NoName
  <2>1. 1 \in 1..Len(three) /\ three[1] = s.focused /\ 1..(1 - 1) = {}
    BY <1>7
  <2> HIDE DEF three
  <2>2. TargetOf(s) = s.focused
    BY <1>7, <1>8, <1>10, <2>1, DedupeType
  <2> QED BY <1>9, <2>2
<1>11. CASE s.focused = NoName
  <2>1. s.windows # <<>>
    BY <1>11, WindowNeeded
  <2>2. first # NoName /\ first \in Shown(s)
    BY <1>9, <2>1
  <2>3. 2 \in 1..Len(many) /\ 1..(2 - 1) = {1}
    BY <1>4
  <2>4. WindowAnchor(s) = first
    BY <1>4, <1>5, <1>11, <2>2, <2>3, DedupeType
  <2>5. 2 \in 1..Len(three) /\ three[2] = first /\ three[1] = NoName
    BY <1>7, <1>11, <2>4
  <2> HIDE DEF three
  <2>6. TargetOf(s) = first
    BY <1>7, <1>8, <2>2, <2>3, <2>5, DedupeType
  <2> QED BY <2>2, <2>6
<1> QED BY <1>10, <1>11
-----------------------------------------------------------------------------
\* The names of a catalogue are finitely many.
LEMMA NamesFinite ==
    ASSUME NEW A, NEW s \in Seq(A)
    PROVE  IsFiniteSet(Names(Listed(s)))
<1> DEFINE named == [i \in 1..Len(s) |-> s[i].name]
           T == Names(Listed(s))
<1>1. DOMAIN s = 1..Len(s) /\ Len(s) \in Nat
  OBVIOUS
<1>2. \A r \in T : \E i \in 1..Len(s) : named[i] = r
  BY <1>1 DEF Names, Listed
<1>3. \A i \in 1..Len(s) : named[i] \in T
  BY <1>1 DEF Names, Listed
<1> HIDE DEF T
<1>4. named \in Surjection(1..Len(s), T)
  BY <1>2, <1>3 DEF Surjection
<1>5. IsFiniteSet(1..Len(s))
  BY <1>1, FS_Interval
<1>6. IsFiniteSet(T)
  BY <1>4, <1>5, FS_Surjection
<1> QED BY <1>6 DEF T

LEMMA CatalogueFinite ==
    IsFiniteSet(CapabilityNames) /\ IsFiniteSet(ToolNames) /\ IsFiniteSet(AlwaysAvailable)
<1>1. IsFiniteSet(CapabilityNames)
  <2>1. ItemList \in Seq(Items)
    BY DEF ItemList, Items, Listed
  <2> QED BY <2>1, NamesFinite DEF CapabilityNames, Items
<1>2. IsFiniteSet(ToolNames)
  <2>1. ByName \in Seq(Listed(ByName))
    BY DEF ByName, Listed
  <2>2. IsFiniteSet(Names(Listed(ByName)))
    BY <2>1, NamesFinite
  <2>3. ToolNames \subseteq Names(Listed(ByName))
    BY DEF ToolNames, Names
  <2> QED BY <2>2, <2>3, FS_Subset
<1>3. IsFiniteSet(AlwaysAvailable)
  <2> DEFINE list == <<"command.app.open_or_focus", "command.desktop.capture_and_locate",
                       "command.browser.inspect_dom">>
             T == {list[i] : i \in 1..3}
  <2>1. AlwaysAvailable = T
    BY DEF AlwaysAvailable
  <2>2. list \in Surjection(1..3, T)
    BY DEF Surjection
  <2>3. IsFiniteSet(1..3)
    <3>1. \A n \in Nat : IsFiniteSet(1..n)
      BY FS_Interval
    <3> QED BY <3>1
  <2> HIDE DEF list, T
  <2> QED BY <2>1, <2>2, <2>3, FS_Surjection
<1> QED BY <1>1, <1>2, <1>3

\* An order of finitely many is a sequence.
LEMMA SortedType ==
    ASSUME NEW score, IsFiniteSet(DOMAIN score)
    PROVE  \E A : Sorted(score) \in Seq(A)
<1> DEFINE S == {n \in DOMAIN score : score[n] > 0}
           order == Sorted(score)
<1>1. Cardinality(S) \in Nat
  BY FS_Subset, FS_CardinalityType
<1> DEFINE before(m, n) == \/ score[m] > score[n]
                           \/ score[m] = score[n] /\ Rank[m] < Rank[n]
           place == [e \in S |-> Cardinality({d \in S : d = e \/ before(d, e)})]
           at_(i) == CHOOSE e \in S : place[e] = i
<1>2. order = [i \in 1..Cardinality(S) |-> at_(i)]
  BY Zenon DEF Sorted, InOrder
<1> HIDE DEF order, at_
<1> DEFINE n == Cardinality(S)
<1> HIDE DEF n
<1>3. order = [i \in 1..n |-> at_(i)] /\ n \in Nat
  BY <1>1, <1>2 DEF n
<1>4. order \in Seq({at_(i) : i \in 1..n})
  BY <1>3
<1> QED BY <1>4 DEF order

\* The orders of a task (buildCapabilityRoutingPlan).
LEMMA OrdersType ==
    ASSUME NEW t \in Tasks
    PROVE  (\E A : CapabilitiesByScore[t] \in Seq(A)) /\ (\E A : ToolsByScore[t] \in Seq(A))
<1> DEFINE tools == [n \in ToolNames \cup AlwaysAvailable |-> ToolScore(t, n)]
           capabilities == [n \in CapabilityNames |-> CapabilityScore(t, n)]
<1>1. IsFiniteSet(ToolNames \cup AlwaysAvailable)
  BY CatalogueFinite, FS_Union
<1>2. IsFiniteSet(DOMAIN tools)
  BY <1>1
<1>3. IsFiniteSet(DOMAIN capabilities)
  BY CatalogueFinite
<1>4. CapabilitiesByScore[t] = Sorted(capabilities)
  BY DEF CapabilitiesByScore, CapabilityScores
<1>5. ToolsByScore[t] = Sorted(tools)
  BY DEF ToolsByScore
<1> HIDE DEF tools, capabilities
<1> QED BY <1>2, <1>3, <1>4, <1>5, SortedType

\* The best of an order that are visible are a sequence of what is visible.
LEMMA BestType ==
    ASSUME NEW A, NEW order \in Seq(A), NEW S, NEW k \in Nat
    PROVE  Best(order, S, k) \in Seq(S)
<1> DEFINE kept == Only(order, S)
           m == Min({k, Len(kept)})
<1>1. kept \in Seq(A \cap S)
  BY OnlyType
<1> HIDE DEF kept
<1>2. kept \in Seq(S) /\ Len(kept) \in Nat
  BY <1>1
<1>3. m \in 0..Len(kept)
  BY <1>2 DEF Min
<1> HIDE DEF m
<1>4. SubSeq(kept, 1, m) \in Seq(S)
  BY <1>2, <1>3
<1>5. First(kept, k) \in Seq(S)
  BY <1>4 DEF First, m
<1> QED BY <1>5 DEF Best, kept

\* What the plan of a round offers is what may be called in it.
LEMMA OfferedType ==
    ASSUME task \in Tasks
    PROVE  RecommendedNow \in Seq(revealed) /\ FallbackNow \in Seq(VisibleTools)
<1>1. RecommendedNow \in Seq(revealed)
  BY OrdersType, BestType DEF RecommendedNow, Recommended
<1>2. FallbackNow \in Seq(VisibleTools \ (revealed \cup {"capabilities.search"}))
  BY OrdersType, BestType DEF FallbackNow, Fallback
<1>3. FallbackNow \in Seq(VisibleTools)
  BY <1>2
<1> QED BY <1>1, <1>3
-----------------------------------------------------------------------------
\* What is found in a sequence is what all that is looked for is, or nothing.
LEMMA FoundAmong ==
    ASSUME NEW A, NEW s \in Seq(A), NEW hits \in SUBSET DOMAIN s, NEW Good,
           \A i \in hits : s[i] \in Good
    PROVE  (IF hits = {} THEN NoTool ELSE s[D!Min(hits)]) \in Good \cup {NoTool}
<1>1. CASE hits = {}
  BY <1>1
<1>2. CASE hits # {}
  <2>1. hits \in SUBSET Nat
    OBVIOUS
  <2>2. \E i \in hits : \A j \in hits : i <= j
    BY <1>2, <2>1, LeastElement
  <2>3. D!Min(hits) \in hits
    BY <2>2 DEF D!Min
  <2> QED BY <1>2, <2>3
<1> QED BY <1>1, <1>2

\* Whichever of its rules decides (generate), the demo client calls what it can fill the
\* inputs of, or nothing.
LEMMA DemoPrepared ==
    ASSUME NEW plan, NEW A, plan.recommended \in Seq(A), NEW B, plan.fallback \in Seq(B),
           NEW h, NEW p, NEW role
    PROVE  D!DemoAnswer(role, plan, h, p) \in plan.preparable \cup {NoTool}
<1> DEFINE good == plan.preparable
<1>1. D!NextAction(plan, h) \in good \cup {NoTool}
  <2> DEFINE usable(t) == t \notin D!ExhaustedTools(h) /\ t \in plan.preparable
             inF == {i \in DOMAIN plan.fallback : usable(plan.fallback[i])}
             inR == {i \in DOMAIN plan.recommended : usable(plan.recommended[i])}
  <2>1. (IF inF = {} THEN NoTool ELSE plan.fallback[D!Min(inF)]) \in good \cup {NoTool}
    BY FoundAmong
  <2>2. (IF inR = {} THEN NoTool ELSE plan.recommended[D!Min(inR)]) \in good \cup {NoTool}
    BY FoundAmong
  <2> QED BY <2>1, <2>2 DEF D!NextAction, D!Find
<1>2. D!RecoveryTool(plan, h, p) \in good \cup {NoTool}
  BY DEF D!RecoveryTool
<1>3. D!SafeFallback(plan, h) \in good \cup {NoTool}
  <2> DEFINE harmless(t) == D!Ready(plan, h, t) /\ D!Safe(t)
             hits == {i \in DOMAIN plan.fallback : harmless(plan.fallback[i])}
  <2>1. \A i \in hits : plan.fallback[i] \in good
    BY DEF D!Ready
  <2>2. (IF hits = {} THEN NoTool ELSE plan.fallback[D!Min(hits)]) \in good \cup {NoTool}
    BY <2>1, FoundAmong
  <2> QED BY <2>2 DEF D!SafeFallback, D!Find
<1>4. D!BackupCapability(plan, h) \in good \cup {NoTool}
  <2> DEFINE backup(t) == /\ D!Ready(plan, h, t) /\ t \in plan.near
                          /\ D!LastOfHistory(h).outcome = "blocked" => D!Safe(t)
             hits == {i \in DOMAIN plan.recommended : backup(plan.recommended[i])}
  <2>1. \A i \in hits : plan.recommended[i] \in good
    BY DEF D!Ready
  <2>2. (IF hits = {} THEN NoTool ELSE plan.recommended[D!Min(hits)]) \in good \cup {NoTool}
    BY <2>1, FoundAmong
  <2> QED BY <2>2 DEF D!BackupCapability, D!Find
<1>5. D!FallbackTool(plan, h) \in good \cup {NoTool}
  <2> DEFINE hits == {i \in DOMAIN plan.fallback : D!Ready(plan, h, plan.fallback[i])}
  <2>1. \A i \in hits : plan.fallback[i] \in good
    BY DEF D!Ready
  <2>2. (IF hits = {} THEN NoTool ELSE plan.fallback[D!Min(hits)]) \in good \cup {NoTool}
    BY <2>1, FoundAmong
  <2> QED BY <2>2 DEF D!FallbackTool, D!Find
<1>6. D!SameTool(plan, h) \in good \cup {NoTool}
  BY DEF D!SameTool
<1>7. D!RecoveryAction(plan, h, p) \in good \cup {NoTool}
  <2> DEFINE five == <<D!RecoveryTool(plan, h, p), D!SafeFallback(plan, h),
                       D!BackupCapability(plan, h), D!FallbackTool(plan, h),
                       D!SameTool(plan, h)>>
             hits == {i \in DOMAIN five : five[i] # NoTool}
  <2>1. five \in Seq(good \cup {NoTool})
    BY <1>2, <1>3, <1>4, <1>5, <1>6
  <2>2. \A i \in hits : five[i] \in good
    <3> HIDE DEF five
    <3> QED BY <2>1
  <2>3. (IF hits = {} THEN NoTool ELSE five[D!Min(hits)]) \in good \cup {NoTool}
    <3> HIDE DEF five
    <3> QED BY <2>1, <2>2, FoundAmong
  <2> QED BY <2>3 DEF D!RecoveryAction, D!Find
<1> QED BY <1>1, <1>7 DEF D!DemoAnswer

\* So it is with the plans that it is given.
LEMMA DemoAnswersPrepared ==
    ASSUME task \in Tasks
    PROVE  D!DemoAnswer(LastRole, PlanOfRound, attempts, point)
               \in Preparable(VisibleTools) \cup {NoTool}
<1>1. RecommendedNow \in Seq(revealed) /\ FallbackNow \in Seq(VisibleTools)
  BY OfferedType
<1>2. NotSkipped(task, RecommendedNow, VisibleTools) \in Seq(revealed)
  BY <1>1, OnlySelects DEF NotSkipped
<1>3. FallbackOrder(task, FallbackNow, VisibleTools) \in Seq(VisibleTools)
  <2>1. Only(FallbackNow, {Opener}) \in Seq(VisibleTools)
    BY <1>1, OnlySelects
  <2> HIDE DEF VisibleTools
  <2> QED BY <1>1, <2>1 DEF FallbackOrder
<1>4. /\ PlanOfRound.recommended \in Seq(revealed)
      /\ PlanOfRound.fallback \in Seq(VisibleTools)
      /\ PlanOfRound.preparable = Preparable(VisibleTools)
  BY <1>1, <1>2, <1>3 DEF PlanOfRound
<1> QED BY <1>4, DemoPrepared
-----------------------------------------------------------------------------
\* What the gateway's answers may be (parseModelResponse): the calls of a message are
\* numbered without gaps, whatever the order its deltas came in.
Shaped(answer) ==
    \/ answer \in {Final, Error}
    \/ /\ answer.type \in {"content", "tool_calls"}
       /\ answer.calls \in Seq(ToSet(answer.calls))

LEMMA MessageShape ==
    ASSUME NEW message, NEW mode
    PROVE  \/ MessageAnswer(message, mode).type = "content"
           \/ Shaped(MessageAnswer(message, mode))
<1> DEFINE given == message.calls
           read == [i \in DOMAIN given |-> CallIn(given[i])]
           numbered == \E n \in DOMAIN given : DOMAIN given = 1 .. n
<1>1. CASE given = <<>>
  <2>1. ContentAnswer(message.content) \in {Final}
          \/ ContentAnswer(message.content).type = "content"
    BY DEF ContentAnswer, ToolCalls
  <2> QED BY <1>1, <2>1 DEF MessageAnswer, Shaped
<1>2. CASE given # <<>>
  <2>1. ASSUME numbered
        PROVE  read \in Seq(ToSet(read))
    <3>1. PICK n \in DOMAIN given : DOMAIN given = 1 .. n
      BY <2>1
    <3>2. n \in Nat
      BY <3>1
    <3>3. read \in [1..n -> {CallIn(given[i]) : i \in 1..n}]
      BY <3>1
    <3>4. read \in Seq({CallIn(given[i]) : i \in 1..n})
      BY <3>2, <3>3
    <3> HIDE DEF read
    <3>5. \A i \in DOMAIN read : read[i] \in ToSet(read)
      BY DEF ToSet
    <3> QED BY <3>4, <3>5
  <2>2. MessageAnswer(message, mode) \in {Error} \/
          (numbered /\ MessageAnswer(message, mode) = ToolCalls("tool_calls", read))
    BY <1>2 DEF MessageAnswer
  <2> HIDE DEF read, numbered
  <2> QED BY <2>1, <2>2 DEF Shaped, ToolCalls
<1> QED BY <1>1, <1>2

LEMMA AnswerShape ==
    ASSUME NEW body \in Bodies
    PROVE  Shaped(AnswerOf(body))
<1> DEFINE answer == AnswerOf(body)
<1>1. answer.type = "content" \/ Shaped(answer)
  <2>1. \A lines, mode : StreamAnswer(lines, mode).type = "content"
                           \/ Shaped(StreamAnswer(lines, mode))
    BY MessageShape DEF StreamAnswer, Shaped
  <2>2. Shaped(Error)
    BY DEF Shaped
  <2> HIDE DEF Shaped
  <2> QED BY <2>1, <2>2, MessageShape DEF AnswerOf
<1>2. answer.type = "content" => answer.calls \in Seq(ToSet(answer.calls))
  BY BodyAssumption
<1> QED BY <1>1, <1>2 DEF Shaped

\* In a context every call of an answer passes (validateToolInput).
LEMMA ContextShape ==
    ASSUME NEW answer, Shaped(answer), NEW catalogue
    PROVE  LET said == InContext(answer, catalogue)
           IN /\ Shaped(said)
              /\ said.calls \in Seq(ToSet(said.calls))
              /\ said.type \in {"final", "error"} => said.calls = <<>>
              /\ \A i \in DOMAIN said.calls : Passes(said.calls[i], catalogue)
<1>1. /\ Final.calls = <<>> /\ Error.calls = <<>>
      /\ Final.type = "final" /\ Error.type = "error"
  BY DEF Final, Error
<1>2. <<>> \in Seq(ToSet(<<>>)) /\ DOMAIN <<>> = {}
  OBVIOUS
<1>3. Shaped(Final) /\ Shaped(Error)
  BY DEF Shaped
<1>4. CASE InContext(answer, catalogue) = answer
           /\ \A i \in DOMAIN answer.calls : Passes(answer.calls[i], catalogue)
  <2> HIDE DEF Final, Error
  <2> QED BY <1>1, <1>2, <1>4 DEF Shaped
<1>5. CASE InContext(answer, catalogue) \in {Final, Error}
  BY <1>1, <1>2, <1>3, <1>5
<1> QED BY <1>4, <1>5 DEF InContext
-----------------------------------------------------------------------------
\* What is revealed has been searched for in this task, the calls that wait to run are
\* of what is visible and have their inputs, and the demo client, which never searches,
\* keeps to what needs no search.
CallReady(c) ==
    c.name \in VisibleTools /\ Record[c.name].required \subseteq {f.name : f \in c.fields}

DiscoveryInv ==
    /\ task \in Tasks
    /\ calls \in Seq(ToSet(calls))
    /\ at = "call" => calls # <<>>
    /\ at # "call" => calls = <<>>
    /\ revealed \subseteq AlwaysVisible \cup FoundBySearch
    /\ discovered \subseteq FoundBySearch
    /\ \A i \in DOMAIN calls : CallReady(calls[i])
    /\ client = "demo" =>
          /\ revealed \subseteq AlwaysVisible /\ discovered = {}
          /\ \A i \in DOMAIN calls : calls[i].name \in Preparable(NeedsNoSearch)
    /\ VerifiedNamesWindow

\* The calls that an answer leaves to run (generate of either client).
LEMMA AnswersReady ==
    ASSUME DiscoveryInv, NEW answer \in Answers
    PROVE  /\ answer.calls \in Seq(ToSet(answer.calls))
           /\ answer.type \in {"final", "error"} => answer.calls = <<>>
           /\ \A i \in DOMAIN answer.calls : CallReady(answer.calls[i])
           /\ client = "demo" => \A i \in DOMAIN answer.calls :
                                    answer.calls[i].name \in Preparable(NeedsNoSearch)
<1>1. CASE client = "demo"
  <2> DEFINE name == D!DemoAnswer(LastRole, PlanOfRound, attempts, point)
  <2>1. name \in Preparable(VisibleTools) \cup {NoTool}
    BY DemoAnswersPrepared DEF DiscoveryInv
  <2>2. answer = Prepared(name)
    BY <1>1 DEF Answers
  <2> HIDE DEF name
  <2>3. CASE name = NoTool
    <3>1. answer = [type |-> "final", calls |-> <<>>]
      BY <2>2, <2>3 DEF Prepared, Final
    <3>2. <<>> \in Seq(ToSet(<<>>)) /\ DOMAIN <<>> = {}
      OBVIOUS
    <3> QED BY <3>1, <3>2
  <2>4. CASE name # NoTool
    <3> DEFINE fields == {[token |-> "field", name |-> k, fits |-> TRUE]
                             : k \in InferredInput(name)}
               made == [name |-> name, fields |-> fields]
    <3>1. answer.calls = <<made>> /\ answer.type = "tool_calls"
      BY <2>2, <2>4 DEF Prepared, ToolCalls
    <3>2. name \in VisibleTools /\ Record[name].required \subseteq InferredInput(name)
      BY <2>1, <2>4 DEF Preparable
    <3>3. \A k \in InferredInput(name) : k \in {f.name : f \in fields}
      <4> TAKE k \in InferredInput(name)
      <4> DEFINE f == [token |-> "field", name |-> k, fits |-> TRUE]
      <4>1. f \in fields /\ f.name = k
        OBVIOUS
      <4> QED BY <4>1
    <3>4. made.name = name /\ made.fields = fields
      OBVIOUS
    <3>5. VisibleTools \subseteq NeedsNoSearch
      BY <1>1 DEF DiscoveryInv, VisibleTools, NeedsNoSearch
    <3>6. name \in Preparable(NeedsNoSearch)
      BY <3>2, <3>5 DEF Preparable
    <3> HIDE DEF fields, made
    <3>7. CallReady(made)
      BY <3>2, <3>3, <3>4 DEF CallReady
    <3>8. made \in ToSet(<<made>>)
      BY DEF ToSet
    <3>9. <<made>> \in Seq(ToSet(<<made>>)) /\ \A i \in DOMAIN <<made>> : <<made>>[i] = made
      BY <3>8
    <3> QED BY <3>1, <3>4, <3>6, <3>7, <3>9
  <2> QED BY <2>3, <2>4
<1>2. CASE client # "demo"
  <2>1. PICK body \in Bodies : answer = InContext(AnswerOf(body), VisibleTools)
    BY <1>2 DEF Answers, Said
  <2>2. Shaped(AnswerOf(body))
    BY AnswerShape
  <2>3. /\ answer.calls \in Seq(ToSet(answer.calls))
        /\ answer.type \in {"final", "error"} => answer.calls = <<>>
        /\ \A i \in DOMAIN answer.calls : Passes(answer.calls[i], VisibleTools)
    <3> HIDE DEF Shaped
    <3> QED BY <2>1, <2>2, ContextShape
  <2>4. \A i \in DOMAIN answer.calls : CallReady(answer.calls[i])
    BY <2>3 DEF Passes, CallReady
  <2> QED BY <1>2, <2>3, <2>4
<1> QED BY <1>1, <1>2

\* The rest of the calls, after the first has run.
LEMMA RestReady ==
    ASSUME DiscoveryInv, at = "call"
    PROVE  /\ Tail(calls) \in Seq(ToSet(Tail(calls)))
           /\ \A i \in DOMAIN Tail(calls) :
                 i + 1 \in DOMAIN calls /\ Tail(calls)[i] = calls[i + 1]
           /\ 1 \in DOMAIN calls /\ call = calls[1].name
<1>1. calls \in Seq(ToSet(calls)) /\ calls # <<>>
  BY DEF DiscoveryInv
<1> DEFINE rest == Tail(calls)
           n == Len(calls)
<1>2. /\ n \in Nat /\ n >= 1 /\ DOMAIN calls = 1..n
      /\ rest \in Seq(ToSet(calls)) /\ Len(rest) = n - 1 /\ DOMAIN rest = 1..(n - 1)
      /\ \A i \in 1..(n - 1) : rest[i] = calls[i + 1]
  BY <1>1
<1>3. \A i \in 1..(n - 1) : rest[i] \in ToSet(rest)
  BY <1>2 DEF ToSet
<1> HIDE DEF rest, n
<1>4. rest \in Seq(ToSet(rest))
  BY <1>2, <1>3
<1>5. call = calls[1].name
  BY <1>1 DEF call
<1> QED BY <1>2, <1>4, <1>5 DEF rest

\* A call that has run, of whatever tool, leaves the rest as ready as it was: what has
\* become visible in a task stays so until its end.
LEMMA CallRun ==
    ASSUME DiscoveryInv, at = "call", client' = client, task' = task,
           calls' = Tail(calls), Tail(calls) = <<>> => at' = "ask",
           Tail(calls) # <<>> => at' = at,
           revealed \subseteq revealed', discovered \subseteq discovered',
           revealed' \subseteq AlwaysVisible \cup FoundBySearch',
           discovered' \subseteq FoundBySearch',
           client = "demo" => revealed' = revealed /\ discovered' = discovered,
           VerifiedNamesWindow'
    PROVE  DiscoveryInv'
<1>1. /\ calls' \in Seq(ToSet(calls'))
      /\ \A i \in DOMAIN calls' : i + 1 \in DOMAIN calls /\ calls'[i] = calls[i + 1]
  BY RestReady
<1>2. VisibleTools \subseteq VisibleTools'
  BY DEF VisibleTools
<1>3. \A i \in DOMAIN calls' :
          /\ calls'[i].name \in VisibleTools'
          /\ Record[calls'[i].name].required \subseteq {f.name : f \in calls'[i].fields}
  <2> TAKE i \in DOMAIN calls'
  <2>1. i + 1 \in DOMAIN calls /\ calls'[i] = calls[i + 1]
    BY <1>1
  <2> DEFINE c == calls[i + 1]
  <2>2. c.name \in VisibleTools /\ Record[c.name].required \subseteq {f.name : f \in c.fields}
    BY <2>1 DEF DiscoveryInv, CallReady
  <2> HIDE DEF c
  <2>3. calls'[i] = c
    BY <2>1 DEF c
  <2> QED BY <1>2, <2>2, <2>3
<1>4. ASSUME client' = "demo"
      PROVE  /\ revealed' \subseteq AlwaysVisible /\ discovered' = {}
             /\ \A i \in DOMAIN calls' : calls'[i].name \in Preparable(NeedsNoSearch)
  <2> HIDE DEF Preparable
  <2> QED BY <1>1, <1>4 DEF DiscoveryInv
<1>5. task' \in Tasks
  BY DEF DiscoveryInv
<1>6. (at' = "call" => calls' # <<>>) /\ (at' # "call" => calls' = <<>>)
  OBVIOUS
<1> HIDE DEF VerifiedNamesWindow, Preparable, FoundBySearch, VisibleTools
<1> QED BY <1>1, <1>3, <1>4, <1>5, <1>6 DEF DiscoveryInv, CallReady

LEMMA RemembersRun ==
    ASSUME NEW r, NEW c, Remember(r, c)
    PROVE  /\ client' = client /\ task' = task /\ calls' = Tail(calls)
           /\ Tail(calls) = <<>> => at' = "ask"
           /\ Tail(calls) # <<>> => at' = at
BY DEF Remember

LEMMA DiscoveryInit == Init => DiscoveryInv
<1> SUFFICES ASSUME Init PROVE DiscoveryInv
  OBVIOUS
<1>1. <<>> \in Seq(ToSet(<<>>)) /\ DOMAIN <<>> = {}
  OBVIOUS
<1> QED BY <1>1 DEF Init, DiscoveryInv, VerifiedNamesWindow

\* What has been found by searches only grows.
LEMMA FoundGrows ==
    ASSUME searched \subseteq searched'
    PROVE  FoundBySearch \subseteq FoundBySearch'
BY DEF FoundBySearch

\* A snapshot or a screenshot of no page, or none at all.
LEMMA PagelessType ==
    ASSUME NEW mode \in {"snapshot", "screenshot"}, NEW reply \in Taken(mode) \cup {NoReply}
    PROVE  Parsed(reply) \in Snapshot /\ Parsed(reply).page = NoPage
<1>1. CASE reply \in Taken(mode)
  BY <1>1, ParsedType DEF Taken
<1>2. CASE reply = NoReply
  <2>1. Parsed(reply) = Nothing
    BY <1>2 DEF NoReply, Parsed
  <2>2. Nothing.page = NoPage
    BY DEF Nothing
  <2> QED BY <2>1, <2>2, NothingType
<1> QED BY <1>1, <1>2

\* Whichever of the two an observation comes from, its target is a window that it shows
\* (buildObservationChainState); one that cannot be relied on names none.
LEMMA TargetReported ==
    ASSUME VerifiedNamesWindow, NEW mode \in {"snapshot", "screenshot"},
           NEW reply \in Taken(mode) \cup {NoReply}, Reliable(Parsed(reply), mode),
           NEW result, Report(result, Parsed(reply))
    PROVE  VerifiedNamesWindow'
<1>1. TargetOf(Parsed(reply)) \in Shown(Parsed(reply))
  BY PagelessType, TargetShown
<1>2. \/ target' = TargetOf(Parsed(reply)) /\ shown' = Shown(Parsed(reply))
      \/ UNCHANGED <<target, shown>>
  BY DEF Report
<1> QED BY <1>1, <1>2 DEF VerifiedNamesWindow

LEMMA TargetObserved ==
    ASSUME VerifiedNamesWindow, RunObserve
    PROVE  VerifiedNamesWindow'
<1>1. PICK snapshot \in Taken("snapshot") \cup {NoReply} :
          IF Reliable(Parsed(snapshot), "snapshot")
          THEN \E r : Report(r, Parsed(snapshot))
          ELSE \E screenshot \in Taken("screenshot") \cup {NoReply} :
                  IF Reliable(Parsed(screenshot), "screenshot")
                  THEN \E r : Report(r, Parsed(screenshot))
                  ELSE UNCHANGED <<target, shown>>
  BY DEF RunObserve
<1>2. CASE Reliable(Parsed(snapshot), "snapshot")
  BY <1>1, <1>2, TargetReported
<1>3. CASE ~Reliable(Parsed(snapshot), "snapshot")
  <2>1. PICK screenshot \in Taken("screenshot") \cup {NoReply} :
            IF Reliable(Parsed(screenshot), "screenshot")
            THEN \E r : Report(r, Parsed(screenshot))
            ELSE UNCHANGED <<target, shown>>
    BY <1>1, <1>3
  <2>2. CASE Reliable(Parsed(screenshot), "screenshot")
    BY <2>1, <2>2, TargetReported
  <2>3. CASE ~Reliable(Parsed(screenshot), "screenshot")
    BY <2>1, <2>3 DEF VerifiedNamesWindow
  <2> QED BY <2>2, <2>3
<1> QED BY <1>2, <1>3

LEMMA DiscoveryStep == DiscoveryInv /\ [Next]_vars => DiscoveryInv'
<1> SUFFICES ASSUME DiscoveryInv, [Next]_vars PROVE DiscoveryInv'
  OBVIOUS
<1>0. <<>> \in Seq(ToSet(<<>>)) /\ DOMAIN <<>> = {}
  OBVIOUS
<1>1. CASE Submit
  <2>1. calls' = <<>>
    BY <1>1 DEF Submit, DiscoveryInv
  <2>2. VerifiedNamesWindow'
    BY <1>1 DEF Submit, DiscoveryInv, VerifiedNamesWindow
  <2> QED BY <1>0, <1>1, <2>1, <2>2 DEF Submit, DiscoveryInv
<1>2. CASE ReachMaxTurns
  <2>1. UNCHANGED FoundBySearch /\ UNCHANGED VerifiedNamesWindow
        /\ \A c : CallReady(c)' = CallReady(c)
    BY <1>2 DEF ReachMaxTurns, FoundBySearch, VerifiedNamesWindow, CallReady, VisibleTools
  <2>2. calls = <<>>
    BY <1>2 DEF ReachMaxTurns, DiscoveryInv
  <2> HIDE DEF FoundBySearch, VerifiedNamesWindow, CallReady
  <2> QED BY <1>0, <1>2, <2>1, <2>2 DEF ReachMaxTurns, DiscoveryInv
<1>3. CASE Answer
  <2>1. PICK answer \in Answers :
            /\ calls' = answer.calls
            /\ at' = IF answer.type \in {"final", "error"} THEN "idle"
                     ELSE IF answer.calls = <<>> THEN "ask" ELSE "call"
    BY <1>3 DEF Answer
  <2>2. /\ answer.calls \in Seq(ToSet(answer.calls))
        /\ answer.type \in {"final", "error"} => answer.calls = <<>>
        /\ \A i \in DOMAIN answer.calls : CallReady(answer.calls[i])
        /\ client = "demo" => \A i \in DOMAIN answer.calls :
                                 answer.calls[i].name \in Preparable(NeedsNoSearch)
    BY AnswersReady
  <2>3. UNCHANGED <<client, task, discovered, revealed, searched, target, shown>>
    BY <1>3 DEF Answer
  <2>4. UNCHANGED FoundBySearch /\ UNCHANGED VerifiedNamesWindow
        /\ \A c : CallReady(c)' = CallReady(c)
    BY <2>3 DEF FoundBySearch, VerifiedNamesWindow, CallReady, VisibleTools
  <2> HIDE DEF FoundBySearch, VerifiedNamesWindow, CallReady, Preparable
  <2> QED BY <2>1, <2>2, <2>3, <2>4 DEF DiscoveryInv
<1>4. CASE RunSearch
  <2>1. PICK word \in Queries :
          /\ searched' = searched \cup {<<call, word>>}
          /\ IF call = "capabilities.search"
             THEN /\ revealed' = revealed \cup CapabilityMatches[word]
                  /\ UNCHANGED discovered
             ELSE /\ discovered' = discovered \cup ToolMatches[word]
                  /\ UNCHANGED revealed
    BY <1>4 DEF RunSearch
  <2>2. FoundBySearch \subseteq FoundBySearch'
    BY <2>1, FoundGrows
  <2>3. \A n \in (IF call = "capabilities.search" THEN CapabilityMatches[word]
                   ELSE ToolMatches[word]) : n \in FoundBySearch'
    <3> DEFINE s == <<call, word>>
               found == IF s[1] = "capabilities.search" THEN CapabilityMatches[s[2]]
                        ELSE ToolMatches[s[2]]
    <3>1. s \in searched' /\ s[1] = call /\ s[2] = word
      BY <2>1
    <3>2. found \subseteq FoundBySearch'
      <4> HIDE DEF s
      <4> QED BY <3>1 DEF FoundBySearch
    <3> QED BY <3>1, <3>2
  <2>4. client # "demo"
    <3> SUFFICES ASSUME client = "demo" PROVE FALSE
      OBVIOUS
    <3>1. calls[1].name \in Preparable(NeedsNoSearch) /\ call = calls[1].name
      BY <1>4, RestReady DEF RunSearch, DiscoveryInv
    <3> QED BY <1>4, <3>1, HarmlessAssumption DEF RunSearch
  <2>5. VerifiedNamesWindow'
    BY <1>4 DEF RunSearch, DiscoveryInv, VerifiedNamesWindow
  <2>6. at = "call" /\ \E r, c : Remember(r, c)
    BY <1>4 DEF RunSearch
  <2>7. /\ revealed \subseteq AlwaysVisible \cup FoundBySearch
        /\ discovered \subseteq FoundBySearch
    BY DEF DiscoveryInv
  <2> HIDE DEF FoundBySearch, VerifiedNamesWindow, DiscoveryInv
  <2>8. /\ revealed \subseteq revealed' /\ discovered \subseteq discovered'
        /\ revealed' \subseteq AlwaysVisible \cup FoundBySearch'
        /\ discovered' \subseteq FoundBySearch'
    BY <2>1, <2>2, <2>3, <2>7
  <2> QED BY <2>4, <2>5, <2>6, <2>8, RemembersRun, CallRun
<1>5. CASE RunLook \/ RunObserve \/ RunOther
  <2>1. at = "call" /\ UNCHANGED <<discovered, revealed, searched>>
    BY <1>5 DEF RunLook, RunObserve, RunOther
  <2>2. \E r, c : Remember(r, c)
    <3>1. CASE RunLook
      BY <3>1 DEF RunLook
    <3>2. CASE RunObserve
      BY <3>2 DEF RunObserve, Report
    <3>3. CASE RunOther
      BY <3>3 DEF RunOther
    <3> QED BY <1>5, <3>1, <3>2, <3>3
  <2>3. VerifiedNamesWindow'
    <3>1. CASE RunLook \/ RunOther
      BY <3>1 DEF RunLook, RunOther, DiscoveryInv, VerifiedNamesWindow
    <3>2. CASE RunObserve
      BY <3>2, TargetObserved DEF DiscoveryInv
    <3> QED BY <1>5, <3>1, <3>2
  <2>4. FoundBySearch' = FoundBySearch
    BY <2>1 DEF FoundBySearch
  <2>5. /\ revealed \subseteq AlwaysVisible \cup FoundBySearch
        /\ discovered \subseteq FoundBySearch
    BY DEF DiscoveryInv
  <2> HIDE DEF FoundBySearch, VerifiedNamesWindow, DiscoveryInv
  <2> QED BY <2>1, <2>2, <2>3, <2>4, <2>5, RemembersRun, CallRun
<1>6. CASE UNCHANGED vars
  <2>1. UNCHANGED FoundBySearch /\ UNCHANGED VerifiedNamesWindow
        /\ \A c : CallReady(c)' = CallReady(c)
    BY <1>6 DEF vars, FoundBySearch, VerifiedNamesWindow, CallReady, VisibleTools
  <2> HIDE DEF FoundBySearch, VerifiedNamesWindow, CallReady
  <2> QED BY <1>6, <2>1 DEF vars, DiscoveryInv
<1> QED BY <1>1, <1>2, <1>3, <1>4, <1>5, <1>6 DEF Next
-----------------------------------------------------------------------------
THEOREM DiscoveryInvHolds == Spec => []DiscoveryInv
BY DiscoveryInit, DiscoveryStep, PTL DEF Spec

\* What a plan offers and what a call names is visible, and has been searched for in this
\* task unless it needs no search: the plan ranks what submitUserMessage and the searches
\* since have left, and a call of anything else is an error (validateToolInput).
LEMMA InvOffered == DiscoveryInv => OfferedRevealed
<1> SUFFICES ASSUME DiscoveryInv
             PROVE  ToSet(RecommendedNow \o FallbackNow) \cup {c.name : c \in ToSet(calls)}
                        \subseteq VisibleTools \cap (NeedsNoSearch \cup FoundBySearch)
  BY DEF OfferedRevealed
<1>1. RecommendedNow \in Seq(revealed) /\ FallbackNow \in Seq(VisibleTools)
  BY OfferedType DEF DiscoveryInv
<1>2. VisibleTools \subseteq NeedsNoSearch \cup FoundBySearch
  BY DEF DiscoveryInv, VisibleTools, NeedsNoSearch
<1>3. revealed \subseteq VisibleTools
  BY DEF VisibleTools
<1>4. \A i \in DOMAIN calls : calls[i].name \in VisibleTools
  BY DEF DiscoveryInv, CallReady
<1>5. {c.name : c \in ToSet(calls)} \subseteq VisibleTools
  BY <1>4 DEF ToSet
<1> HIDE DEF VisibleTools, NeedsNoSearch, FoundBySearch, RecommendedNow, FallbackNow
<1>6. RecommendedNow \o FallbackNow \in Seq(VisibleTools)
  BY <1>1, <1>3
<1> DEFINE ranked == RecommendedNow \o FallbackNow
<1> HIDE DEF ranked
<1>7. ranked \in Seq(VisibleTools)
  BY <1>6 DEF ranked
<1>8. ToSet(ranked) \subseteq VisibleTools
  BY <1>7 DEF ToSet
<1> QED BY <1>2, <1>5, <1>8 DEF ranked

THEOREM OfferedRevealedHolds == Spec => []OfferedRevealed
BY DiscoveryInvHolds, InvOffered, PTL

\* Every call that waits to run has the inputs that its tool requires, and the demo
\* client's is not of high risk: so says the reading of an answer, and the choice of the
\* client from its plans (selectNextActionFromRoutingPlan and the recovery).
LEMMA InvPrepared == DiscoveryInv => CallsPrepared
<1> SUFFICES ASSUME DiscoveryInv, NEW i \in DOMAIN calls
             PROVE  LET tool == Record[calls[i].name]
                    IN /\ tool.required \subseteq {f.name : f \in calls[i].fields}
                       /\ client = "demo" => tool.risk # "high"
  BY DEF CallsPrepared
<1>1. CallReady(calls[i])
  BY DEF DiscoveryInv
<1>2. client = "demo" => calls[i].name \in Preparable(NeedsNoSearch)
  BY DEF DiscoveryInv
<1> HIDE DEF Preparable
<1> QED BY <1>1, <1>2, HarmlessAssumption DEF CallReady

THEOREM CallsPreparedHolds == Spec => []CallsPrepared
BY DiscoveryInvHolds, InvPrepared, PTL

\* The target that skill.desktop.observe leaves with the engine is always a window that
\* its observation showed (buildObservationChainState).
THEOREM VerifiedNamesWindowHolds == Spec => []VerifiedNamesWindow
<1>1. DiscoveryInv => VerifiedNamesWindow
  BY DEF DiscoveryInv
<1> QED BY <1>1, DiscoveryInvHolds, PTL
=============================================================================
