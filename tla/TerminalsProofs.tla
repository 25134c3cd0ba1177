--------------------------- MODULE TerminalsProofs --------------------------
(***************************************************************************)
(* Proofs about Terminals, for any hosts, names, tabs and bounds: types,   *)
(* the active tab, the titles and the commands of deployments.             *)
(***************************************************************************)
EXTENDS Terminals, FiniteSetTheorems, SequenceTheorems, WellFoundedInduction, TLAPS

TermInv == TermTypeOK /\ ActiveIsOpen /\ TitlesDiffer /\ CommandRunsOnce

\* What the tabs alone must satisfy.
GoodTabs(s) ==
  /\ s \in Seq(TermTab) /\ Len(s) <= MaxTabs
  /\ \A i, j \in 1 .. Len(s) : i # j /\ s[i].host = s[j].host => s[i].title # s[j].title
  /\ \A i \in 1 .. Len(s) : s[i].runs + (IF s[i].runOnReady THEN 1 ELSE 0) <= 1

GoodSessions(f) ==
  DOMAIN f \subseteq Pane /\ \A p \in DOMAIN f : f[p] \in {"connecting", "open", "closed"}

LEMMA InvIsGood ==
  TermInv <=>
    /\ nameOf \in [HostId -> Name \cup {Gone}]
    /\ opening \in [HostId \X BOOLEAN -> Nat]
    /\ reconnecting \in [Tab -> Nat] /\ activeTab \in Tab \cup {NoTab}
    /\ GoodTabs(tabs) /\ GoodSessions(session) /\ ActiveIsOpen
BY DEF TermInv, TermTypeOK, TitlesDiffer, CommandRunsOnce, GoodTabs, GoodSessions

LEMMA GoodAgain ==
  ASSUME nameOf' \in [HostId -> Name \cup {Gone}],
         opening' \in [HostId \X BOOLEAN -> Nat],
         reconnecting' \in [Tab -> Nat], activeTab' \in Tab \cup {NoTab},
         GoodTabs(tabs'), GoodSessions(session'), ActiveIsOpen'
  PROVE  TermInv'
BY DEF TermInv, TermTypeOK, TitlesDiffer, CommandRunsOnce, GoodTabs, GoodSessions

-----------------------------------------------------------------------------
(* Sequences, numbers and titles. *)

LEMMA AppendTab ==
  ASSUME NEW s \in Seq(TermTab), NEW t \in TermTab
  PROVE  /\ Append(s, t) \in Seq(TermTab) /\ Len(Append(s, t)) = Len(s) + 1 /\ Len(s) \in Nat
         /\ \A i \in 1 .. Len(s) : Append(s, t)[i] = s[i]
         /\ Append(s, t)[Len(s) + 1] = t
OBVIOUS

LEMMA RemoveTab ==
  ASSUME NEW s \in Seq(TermTab), NEW i \in 1 .. Len(s)
  PROVE  /\ RemoveAt(s, i) \in Seq(TermTab) /\ Len(RemoveAt(s, i)) = Len(s) - 1 /\ Len(s) \in Nat
         /\ \A k \in 1 .. Len(s) - 1 : RemoveAt(s, i)[k] = IF k < i THEN s[k] ELSE s[k + 1]
<1> DEFINE l == SubSeq(s, 1, i - 1)
           r == SubSeq(s, i + 1, Len(s))
<1>1. l \in Seq(TermTab) /\ Len(l) = i - 1 /\ \A k \in 1 .. i - 1 : l[k] = s[k]
  OBVIOUS
<1>2. r \in Seq(TermTab) /\ Len(r) = Len(s) - i /\ \A k \in 1 .. Len(s) - i : r[k] = s[i + k]
  OBVIOUS
<1>3. RemoveAt(s, i) = l \o r
  BY DEF RemoveAt
<1> HIDE DEF l, r
<1>4. /\ l \o r \in Seq(TermTab) /\ Len(l \o r) = Len(l) + Len(r)
      /\ \A k \in 1 .. Len(l) + Len(r) : (l \o r)[k] = IF k <= Len(l) THEN l[k] ELSE r[k - Len(l)]
  BY <1>1, <1>2, ConcatProperties, Zenon
<1>5. ASSUME NEW k \in 1 .. Len(s) - 1
      PROVE  (l \o r)[k] = IF k < i THEN s[k] ELSE s[k + 1]
  <2>1. CASE k < i
    BY <1>1, <1>2, <1>4, <2>1
  <2>2. CASE ~(k < i)
    <3>1. k - (i - 1) \in 1 .. Len(s) - i /\ i + (k - (i - 1)) = k + 1 /\ ~(k <= Len(l))
      BY <1>1, <1>4, <2>2
    <3>2. (l \o r)[k] = r[k - (i - 1)]
      BY <1>1, <1>2, <1>4, <3>1
    <3>3. r[k - (i - 1)] = s[k + 1]
      BY <1>2, <3>1
    <3> QED
      BY <2>2, <3>2, <3>3
  <2> QED
    BY <2>1, <2>2
<1>6. Len(s) \in Nat
  OBVIOUS
<1> QED
  BY <1>1, <1>2, <1>3, <1>4, <1>5, <1>6

LEMMA PositionFacts ==
  ASSUME NEW id \in Ids(tabs)
  PROVE  Position(id) \in 1 .. Len(tabs) /\ tabs[Position(id)].id = id
BY DEF Ids, Position

LEMMA SmallestOf == ASSUME NEW T \in SUBSET Nat, T # {} PROVE \E x \in T : \A y \in T : x <= y
<1> DEFINE Less == OpToRel(<, Nat)
<1>1. IsWellFoundedOn(Less, Nat)
  BY NatLessThanWellFounded
<1>2. ASSUME NEW x \in Nat, NEW y \in Nat, y < x PROVE <<y, x>> \in Less
  BY <1>2 DEF OpToRel
<1> HIDE DEF Less
<1>3. \E x \in T : \A y \in T : ~(<<y, x>> \in Less)
  BY <1>1, WFMin
<1>4. ASSUME NEW x \in Nat, NEW y \in Nat, ~(<<y, x>> \in Less) PROVE x <= y
  <2>1. ~(y < x)
    BY <1>2, <1>4, Zenon
  <2> QED
    BY <2>1
<1> QED
  BY <1>3, <1>4, Zenon

\* While fewer than MaxTabs tabs are open, one of MaxTabs numbers is free: the loop of
\* openTerminal ends.
LEMMA SomeTitleIsFree ==
  ASSUME TerminalsAssumption, GoodTabs(tabs), Len(tabs) < MaxTabs, NEW h \in HostId
  PROVE  \E n \in 1 .. MaxTabs : <<nameOf[h], n>> \notin Taken(h)
<1> SUFFICES ASSUME \A n \in 1 .. MaxTabs : <<nameOf[h], n>> \in Taken(h)
             PROVE  FALSE
  OBVIOUS
<1> DEFINE at == [n \in 1 .. MaxTabs |-> CHOOSE i \in 1 .. Len(tabs) : tabs[i].title = <<nameOf[h], n>>]
<1>1. \A n \in 1 .. MaxTabs : \E i \in 1 .. Len(tabs) : tabs[i].title = <<nameOf[h], n>>
  BY DEF Taken
<1>2. \A n \in 1 .. MaxTabs : at[n] \in 1 .. Len(tabs) /\ tabs[at[n]].title = <<nameOf[h], n>>
  BY <1>1
<1>3. at \in [1 .. MaxTabs -> 1 .. Len(tabs)]
  BY <1>2
<1>4. Len(tabs) \in Nat /\ MaxTabs \in Nat
  BY DEF GoodTabs, TerminalsAssumption
<1>5. /\ IsFiniteSet(1 .. MaxTabs) /\ IsFiniteSet(1 .. Len(tabs))
      /\ Cardinality(1 .. Len(tabs)) < Cardinality(1 .. MaxTabs)
  <2>1. \A n \in Nat : IsFiniteSet(1 .. n) /\ Cardinality(1 .. n) = n
    <3>1. ASSUME NEW n \in Nat PROVE IsFiniteSet(1 .. n) /\ Cardinality(1 .. n) = n
      <4>1. 1 \in Int /\ n \in Int
        OBVIOUS
      <4>2. IsFiniteSet(1 .. n) /\ Cardinality(1 .. n) = IF 1 > n THEN 0 ELSE n - 1 + 1
        BY <4>1, FS_Interval
      <4> QED
        BY <4>2
    <3> QED
      BY <3>1
  <2> QED
    BY <1>4, <2>1
<1> HIDE DEF at
<1>6. PICK m, n \in 1 .. MaxTabs : m # n /\ at[m] = at[n]
  BY <1>3, <1>5, FS_PigeonHole
<1>7. <<nameOf[h], m>> = <<nameOf[h], n>>
  BY <1>2, <1>6
<1> QED
  BY <1>6, <1>7

LEMMA FreeTitleFacts ==
  ASSUME TerminalsAssumption, GoodTabs(tabs), Len(tabs) < MaxTabs, NEW h \in HostId,
         nameOf[h] \in Name
  PROVE  FreeTitle(h) \in Name \X (1 .. MaxTabs) /\ FreeTitle(h) \notin Taken(h)
<1> DEFINE Free == {n \in 1 .. MaxTabs : <<nameOf[h], n>> \notin Taken(h)}
<1>1. Free # {} /\ Free \in SUBSET Nat
  BY SomeTitleIsFree
<1>2. PICK n \in Free : \A m \in Free : n <= m
  BY <1>1, SmallestOf
<1>3. \E t \in {nameOf[h]} \X (1 .. MaxTabs) :
        /\ t \notin Taken(h)
        /\ \A m \in 1 .. MaxTabs : <<nameOf[h], m>> \notin Taken(h) => t[2] <= m
  <2>1. <<nameOf[h], n>> \in {nameOf[h]} \X (1 .. MaxTabs) /\ <<nameOf[h], n>>[2] = n
    BY <1>2
  <2> QED
    BY <1>2, <2>1
<1>4. FreeTitle(h) \in {nameOf[h]} \X (1 .. MaxTabs) /\ FreeTitle(h) \notin Taken(h)
  BY <1>3 DEF FreeTitle
<1> QED
  BY <1>4

\* Mounted panes are those of the tabs.
LEMMA CommitSessions ==
  ASSUME GoodSessions(session), NEW s \in Seq(TermTab), Commit(s)
  PROVE  tabs' = s /\ GoodSessions(session')
<1>1. Panes(s) \subseteq Pane
  <2>1. \A i \in 1 .. Len(s) : s[i] \in TermTab
    OBVIOUS
  <2> QED
    BY <2>1 DEF Panes, PaneOf, Pane, TermTab
<1> QED
  BY <1>1 DEF Commit, GoodSessions

-----------------------------------------------------------------------------
(* The steps. *)

LEMMA InitTerm == ASSUME TerminalsAssumption, TermInit PROVE TermInv
<1>1. tabs \in Seq(TermTab) /\ Len(tabs) = 0 /\ DOMAIN session = {}
  BY DEF TermInit
<1>2. nameOf \in [HostId -> Name \cup {Gone}] /\ opening \in [HostId \X BOOLEAN -> Nat]
  BY DEF TermInit
<1> QED
  BY <1>1, <1>2, InvIsGood DEF TermInit, GoodTabs, GoodSessions, ActiveIsOpen, TerminalsAssumption

LEMMA OpenedTerm ==
  ASSUME TerminalsAssumption, TermInv, NEW h \in HostId, NEW c \in BOOLEAN, Opened(h, c)
  PROVE  TermInv'
<1>1. /\ nameOf \in [HostId -> Name \cup {Gone}]
      /\ opening \in [HostId \X BOOLEAN -> Nat]
      /\ GoodTabs(tabs) /\ GoodSessions(session)
  BY InvIsGood
<1>2. opening' \in [HostId \X BOOLEAN -> Nat] /\ UNCHANGED <<nameOf, reconnecting>>
  <2>1. <<h, c>> \in HostId \X BOOLEAN
    OBVIOUS
  <2>2. opening[<<h, c>>] \in Nat /\ opening[<<h, c>>] > 0
    BY <1>1, <2>1 DEF Opened
  <2>3. opening[<<h, c>>] - 1 \in Nat /\ opening' = [opening EXCEPT ![<<h, c>>] = opening[<<h, c>>] - 1]
    BY <2>2 DEF Opened
  <2>4. opening' \in [HostId \X BOOLEAN -> Nat]
    BY <1>1, <2>3
  <2> QED
    BY <2>4 DEF Opened
<1>3. CASE nameOf[h] = Gone
  <2>1. UNCHANGED <<tabs, activeTab, session>>
    BY <1>3 DEF Opened
  <2> QED
    BY <1>2, <2>1 DEF TermInv, TermTypeOK, ActiveIsOpen, TitlesDiffer, CommandRunsOnce
<1>4. CASE nameOf[h] # Gone
  <2> DEFINE t == [id |-> FreshId, host |-> h, title |-> FreeTitle(h), nonce |-> 0,
                   runOnReady |-> c, runs |-> 0]
  <2>1. /\ Len(tabs) < MaxTabs /\ Unused # {}
        /\ Commit(Append(tabs, t)) /\ activeTab' = FreshId
    BY <1>4 DEF Opened
  <2>2. FreshId \in Tab
    BY <2>1 DEF FreshId, Unused
  <2>3. FreeTitle(h) \in Name \X (1 .. MaxTabs) /\ FreeTitle(h) \notin Taken(h)
    BY <1>1, <1>4, <2>1, FreeTitleFacts
  <2>4. t \in TermTab
    BY <2>2, <2>3 DEF TermTab, TerminalsAssumption
  <2>5. t.id = FreshId /\ t.host = h /\ t.title = FreeTitle(h) /\ t.runOnReady = c /\ t.runs = 0
    OBVIOUS
  <2> HIDE DEF t
  <2>6. /\ Append(tabs, t) \in Seq(TermTab) /\ Len(Append(tabs, t)) = Len(tabs) + 1 /\ Len(tabs) \in Nat
        /\ \A i \in 1 .. Len(tabs) : Append(tabs, t)[i] = tabs[i]
        /\ Append(tabs, t)[Len(tabs) + 1] = t
    BY <1>1, <2>4, AppendTab DEF GoodTabs
  <2>7. tabs' = Append(tabs, t) /\ GoodSessions(session')
    BY <1>1, <2>1, <2>6, CommitSessions
  <2>8. \A i \in 1 .. Len(tabs) : tabs[i].host = h => tabs[i].title # t.title
    BY <2>3, <2>5 DEF Taken
  <2>9. GoodTabs(tabs')
    <3>1. Len(tabs') <= MaxTabs
      BY <2>1, <2>6, <2>7 DEF TerminalsAssumption
    <3>2. \A i \in 1 .. Len(tabs') : i \in 1 .. Len(tabs) \/ i = Len(tabs) + 1
      BY <2>6, <2>7
    <3>3. ASSUME NEW i \in 1 .. Len(tabs'), NEW j \in 1 .. Len(tabs'),
                 i # j, tabs'[i].host = tabs'[j].host
          PROVE  tabs'[i].title # tabs'[j].title
      BY <1>1, <2>5, <2>6, <2>7, <2>8, <3>2, <3>3 DEF GoodTabs
    <3>4. \A i \in 1 .. Len(tabs') : tabs'[i].runs + (IF tabs'[i].runOnReady THEN 1 ELSE 0) <= 1
      BY <1>1, <2>5, <2>6, <2>7, <3>2 DEF GoodTabs
    <3> QED
      BY <2>6, <2>7, <3>1, <3>3, <3>4 DEF GoodTabs
  <2>10. ActiveIsOpen' /\ activeTab' \in Tab
    BY <2>1, <2>2, <2>5, <2>6, <2>7 DEF ActiveIsOpen, Ids
  <2> QED
    BY <1>1, <1>2, <2>7, <2>9, <2>10, InvIsGood, GoodAgain
<1> QED
  BY <1>3, <1>4

\* The neighbour that becomes active is one of the tabs that stay.
LEMMA CloseTerm ==
  ASSUME TerminalsAssumption, TermInv, NEW id \in Tab, CloseTab(id)
  PROVE  TermInv'
<1> DEFINE p == Position(id)
           rest == RemoveAt(tabs, p)
<1>1. /\ id \in Ids(tabs) /\ Commit(rest) /\ activeTab' = AfterClosing(id)
      /\ UNCHANGED <<nameOf, opening, reconnecting>>
  BY DEF CloseTab
<1>2. GoodTabs(tabs) /\ GoodSessions(session)
  BY InvIsGood
<1>3. p \in 1 .. Len(tabs) /\ tabs[p].id = id
  BY <1>1, PositionFacts
<1> HIDE DEF p
<1>4. /\ rest \in Seq(TermTab) /\ Len(rest) = Len(tabs) - 1 /\ Len(tabs) \in Nat
      /\ \A k \in 1 .. Len(tabs) - 1 : rest[k] = IF k < p THEN tabs[k] ELSE tabs[k + 1]
  BY <1>2, <1>3, RemoveTab DEF GoodTabs
<1>5. activeTab' = IF activeTab # id THEN activeTab
                   ELSE IF rest = <<>> THEN NoTab
                   ELSE rest[IF p > 1 THEN p - 1 ELSE 1].id
  BY <1>1 DEF AfterClosing, p
<1> HIDE DEF rest
<1>6. tabs' = rest /\ GoodSessions(session')
  BY <1>1, <1>2, <1>4, CommitSessions
<1>7. GoodTabs(tabs')
  <2> DEFINE from == [k \in 1 .. Len(rest) |-> IF k < p THEN k ELSE k + 1]
  <2>1. \A k \in 1 .. Len(rest) : from[k] \in 1 .. Len(tabs) /\ rest[k] = tabs[from[k]]
    BY <1>3, <1>4
  <2>2. \A k, m \in 1 .. Len(rest) : k # m => from[k] # from[m]
    BY <1>3, <1>4
  <2>3. Len(rest) <= MaxTabs
    BY <1>2, <1>4 DEF GoodTabs, TerminalsAssumption
  <2> HIDE DEF from
  <2>4. ASSUME NEW k \in 1 .. Len(rest), NEW m \in 1 .. Len(rest), k # m,
               rest[k].host = rest[m].host
        PROVE  rest[k].title # rest[m].title
    <3>1. /\ from[k] \in 1 .. Len(tabs) /\ from[m] \in 1 .. Len(tabs) /\ from[k] # from[m]
          /\ rest[k] = tabs[from[k]] /\ rest[m] = tabs[from[m]]
      BY <2>1, <2>2, <2>4
    <3>2. tabs[from[k]].host = tabs[from[m]].host => tabs[from[k]].title # tabs[from[m]].title
      BY <1>2, <3>1 DEF GoodTabs
    <3> QED
      BY <2>4, <3>1, <3>2
  <2>5. \A k \in 1 .. Len(rest) : rest[k].runs + (IF rest[k].runOnReady THEN 1 ELSE 0) <= 1
    BY <1>2, <2>1 DEF GoodTabs
  <2> QED
    BY <1>4, <1>6, <2>3, <2>4, <2>5 DEF GoodTabs
<1>8. ActiveIsOpen'
  <2>1. CASE activeTab # id
    <3>1. PICK i \in 1 .. Len(tabs) : tabs[i].id = activeTab
      BY <1>1, <2>1 DEF TermInv, ActiveIsOpen, Ids
    <3>2. i # p
      BY <1>3, <2>1, <3>1
    <3>3. \E k \in 1 .. Len(rest) : rest[k] = tabs[i]
      <4>1. CASE i < p
        BY <1>3, <1>4, <4>1
      <4>2. CASE i > p
        <5>1. i - 1 \in 1 .. Len(rest) /\ ~(i - 1 < p) /\ (i - 1) + 1 = i
          BY <1>3, <1>4, <4>2
        <5> QED
          BY <1>4, <5>1
      <4> QED
        BY <1>3, <3>2, <4>1, <4>2
    <3> QED
      BY <1>5, <1>6, <2>1, <3>1, <3>3 DEF ActiveIsOpen, Ids
  <2>2. CASE activeTab = id /\ rest = <<>>
    BY <1>5, <1>6, <2>2 DEF ActiveIsOpen
  <2>3. CASE activeTab = id /\ rest # <<>>
    <3>1. (IF p > 1 THEN p - 1 ELSE 1) \in 1 .. Len(rest)
      BY <1>3, <1>4, <2>3
    <3> QED
      BY <1>5, <1>6, <2>3, <3>1 DEF ActiveIsOpen, Ids
  <2> QED
    BY <2>1, <2>2, <2>3
<1>9. activeTab' \in Tab \cup {NoTab}
  <2>1. \A k \in 1 .. Len(rest) : rest[k].id \in Tab
    <3>1. \A k \in 1 .. Len(rest) : rest[k] \in TermTab
      BY <1>4
    <3> QED
      BY <3>1 DEF TermTab
  <2> QED
    BY <1>6, <1>8, <2>1 DEF ActiveIsOpen, Ids
<1> QED
  BY <1>1, <1>6, <1>7, <1>8, <1>9, InvIsGood, GoodAgain

LEMMA CloseOthersTerm ==
  ASSUME TerminalsAssumption, TermInv, NEW id \in Tab, CloseOtherTabs(id)
  PROVE  TermInv'
<1> DEFINE t == tabs[Position(id)]
<1>1. /\ id \in Ids(tabs) /\ Len(tabs) > 1 /\ Commit(<<t>>) /\ activeTab' = id
      /\ UNCHANGED <<nameOf, opening, reconnecting>>
  BY DEF CloseOtherTabs
<1>2. GoodTabs(tabs) /\ GoodSessions(session)
  BY InvIsGood
<1>3. Position(id) \in 1 .. Len(tabs) /\ t.id = id
  BY <1>1, PositionFacts
<1>4. t \in TermTab /\ t.runs + (IF t.runOnReady THEN 1 ELSE 0) <= 1
  BY <1>2, <1>3 DEF GoodTabs
<1> HIDE DEF t
<1>5. <<t>> \in Seq(TermTab) /\ Len(<<t>>) = 1 /\ <<t>>[1] = t
  BY <1>4
<1>6. tabs' = <<t>> /\ GoodSessions(session')
  BY <1>1, <1>2, <1>5, CommitSessions
<1>7. MaxTabs \in Nat /\ 1 <= MaxTabs
  BY <1>1, <1>2 DEF GoodTabs, TerminalsAssumption
<1>8. GoodTabs(tabs')
  BY <1>4, <1>5, <1>6, <1>7 DEF GoodTabs
<1>9. ActiveIsOpen'
  BY <1>1, <1>3, <1>5, <1>6 DEF ActiveIsOpen, Ids
<1> QED
  BY <1>1, <1>6, <1>8, <1>9, InvIsGood, GoodAgain

\* A tab that stays where it is, with its host and title.
LEMMA UpdateTab ==
  ASSUME GoodTabs(tabs), NEW i \in 1 .. Len(tabs), NEW t \in TermTab,
         t.id = tabs[i].id, t.host = tabs[i].host, t.title = tabs[i].title,
         t.runs + (IF t.runOnReady THEN 1 ELSE 0) <= 1
  PROVE  /\ GoodTabs([tabs EXCEPT ![i] = t])
         /\ Ids([tabs EXCEPT ![i] = t]) = Ids(tabs)
         /\ [tabs EXCEPT ![i] = t] # <<>>
<1> DEFINE s == [tabs EXCEPT ![i] = t]
<1>1. /\ s \in Seq(TermTab) /\ Len(s) = Len(tabs)
      /\ \A k \in 1 .. Len(tabs) : s[k] = IF k = i THEN t ELSE tabs[k]
  BY DEF GoodTabs
<1> HIDE DEF s
<1>2. \A k \in 1 .. Len(tabs) : /\ s[k].id = tabs[k].id /\ s[k].host = tabs[k].host
                                /\ s[k].title = tabs[k].title
  BY <1>1
<1>3. GoodTabs(s)
  BY <1>1, <1>2 DEF GoodTabs
<1>4. Ids(s) = Ids(tabs)
  BY <1>1, <1>2 DEF Ids
<1>5. s # <<>>
  BY <1>1
<1> QED
  BY <1>3, <1>4, <1>5 DEF s

LEMMA ReconnectedTerm ==
  ASSUME TerminalsAssumption, TermInv, NEW id \in Tab, Reconnected(id)
  PROVE  TermInv'
<1>1. GoodTabs(tabs) /\ GoodSessions(session)
  BY InvIsGood
<1>2. CASE id \notin Ids(tabs)
  BY <1>2 DEF Reconnected, TermInv, TermTypeOK, ActiveIsOpen, TitlesDiffer, CommandRunsOnce
<1>3. CASE id \in Ids(tabs)
  <2> DEFINE i == Position(id)
             t == [tabs[i] EXCEPT !.nonce = @ + 1]
  <2>1. i \in 1 .. Len(tabs)
    BY <1>3, PositionFacts
  <2>2. tabs[i] \in TermTab /\ tabs[i].nonce < MaxNonce
    BY <1>1, <1>3, <2>1 DEF GoodTabs, Reconnected
  <2>3. t \in TermTab
    BY <2>2 DEF TermTab, TerminalsAssumption
  <2>4. /\ t.id = tabs[i].id /\ t.host = tabs[i].host /\ t.title = tabs[i].title
        /\ t.runs = tabs[i].runs /\ t.runOnReady = tabs[i].runOnReady
    BY <2>2 DEF TermTab
  <2>r. reconnecting' \in [Tab -> Nat]
    BY DEF Reconnected, TermInv, TermTypeOK
  <2>5. Commit([tabs EXCEPT ![i] = t]) /\ UNCHANGED <<nameOf, opening, activeTab>>
    BY <1>3 DEF Reconnected
  <2> HIDE DEF i, t
  <2>6. t.runs + (IF t.runOnReady THEN 1 ELSE 0) <= 1
    BY <1>1, <2>1, <2>4 DEF GoodTabs
  <2>7. /\ GoodTabs([tabs EXCEPT ![i] = t]) /\ Ids([tabs EXCEPT ![i] = t]) = Ids(tabs)
        /\ [tabs EXCEPT ![i] = t] # <<>>
    BY <1>1, <2>1, <2>3, <2>4, <2>6, UpdateTab
  <2>8. tabs' = [tabs EXCEPT ![i] = t] /\ GoodSessions(session')
    BY <1>1, <2>5, <2>7, CommitSessions DEF GoodTabs
  <2>9. ActiveIsOpen'
    <3>1. activeTab \in Ids(tabs)
      BY <1>3 DEF TermInv, ActiveIsOpen, Ids
    <3> QED
      BY <2>5, <2>7, <2>8, <3>1 DEF ActiveIsOpen
  <2> QED
    BY <2>r, <2>5, <2>7, <2>8, <2>9, InvIsGood, GoodAgain
<1> QED
  BY <1>2, <1>3

LEMMA TypedFacts ==
  ASSUME NEW u \in TermTab
  PROVE  /\ CommandTyped(u) \in TermTab
         /\ CommandTyped(u).id = u.id /\ CommandTyped(u).host = u.host
         /\ CommandTyped(u).title = u.title
         /\ CommandTyped(u).runs = u.runs + 1 /\ ~CommandTyped(u).runOnReady
<1> DEFINE Title == Name \X (1 .. MaxTabs)
           Typed == [id : Tab, host : HostId, title : Title, nonce : 0 .. MaxNonce,
                     runOnReady : BOOLEAN, runs : Nat]
<1>1. u \in Typed /\ TermTab = Typed
  BY DEF TermTab
<1> HIDE DEF Title
<1>2. CommandTyped(u) = [[u EXCEPT !.runOnReady = FALSE] EXCEPT !.runs = u.runs + 1]
  BY <1>1 DEF CommandTyped
<1> DEFINE v == [u EXCEPT !.runOnReady = FALSE]
<1>3. /\ v \in Typed /\ v.id = u.id /\ v.host = u.host /\ v.title = u.title
      /\ v.nonce = u.nonce /\ v.runs = u.runs /\ ~v.runOnReady
  BY <1>1
<1> HIDE DEF v
<1>4. LET w == [v EXCEPT !.runs = u.runs + 1]
      IN  /\ w \in Typed /\ w.id = v.id /\ w.host = v.host /\ w.title = v.title
          /\ w.runs = u.runs + 1 /\ (w.runOnReady <=> v.runOnReady)
  BY <1>1, <1>3
<1> QED
  BY <1>1, <1>2, <1>3, <1>4 DEF v

LEMMA ReadyTerm ==
  ASSUME TerminalsAssumption, TermInv, NEW id \in Tab, Ready(id)
  PROVE  TermInv'
<1> DEFINE i == Position(id)
<1>1. GoodTabs(tabs) /\ GoodSessions(session) /\ UNCHANGED <<nameOf, opening, activeTab, reconnecting>>
  BY InvIsGood DEF Ready
<1>2. i \in 1 .. Len(tabs) /\ id \in Ids(tabs)
  BY PositionFacts DEF Ready
<1>3. GoodSessions(session')
  BY <1>1 DEF Ready, GoodSessions
<1>4. CASE ~tabs[i].runOnReady
  <2>1. tabs' = tabs
    BY <1>4 DEF Ready
  <2> QED
    BY <1>1, <1>3, <2>1, InvIsGood, GoodAgain DEF ActiveIsOpen
<1>5. CASE tabs[i].runOnReady
  <2> DEFINE t == CommandTyped(tabs[i])
  <2>1. tabs' = [tabs EXCEPT ![i] = t]
    BY <1>5 DEF Ready
  <2>2. tabs[i] \in TermTab /\ tabs[i].runs + 1 <= 1
    BY <1>1, <1>2, <1>5 DEF GoodTabs
  <2>3. t \in TermTab
    BY <2>2, TypedFacts
  <2>4. /\ t.id = tabs[i].id /\ t.host = tabs[i].host /\ t.title = tabs[i].title
        /\ t.runs = tabs[i].runs + 1 /\ ~t.runOnReady
    BY <2>2, TypedFacts
  <2> HIDE DEF i, t
  <2>5. t.runs + (IF t.runOnReady THEN 1 ELSE 0) <= 1
    <3>1. (IF t.runOnReady THEN 1 ELSE 0) = 0
      BY <2>4
    <3>2. t.runs <= 1 /\ t.runs \in Nat
      BY <2>2, <2>3, <2>4 DEF TermTab
    <3> QED
      BY <3>1, <3>2
  <2>6. /\ GoodTabs([tabs EXCEPT ![i] = t]) /\ Ids([tabs EXCEPT ![i] = t]) = Ids(tabs)
        /\ [tabs EXCEPT ![i] = t] # <<>>
    BY <1>1, <1>2, <2>3, <2>4, <2>5, UpdateTab
  <2>7. ActiveIsOpen'
    <3>1. activeTab \in Ids(tabs)
      BY <1>2 DEF TermInv, ActiveIsOpen, Ids
    <3> QED
      BY <1>1, <2>1, <2>6, <3>1 DEF ActiveIsOpen
  <2> QED
    BY <1>1, <1>3, <2>1, <2>6, <2>7, InvIsGood, GoodAgain
<1> QED
  BY <1>4, <1>5

\* The tabs stay as they are.
LEMMA OthersTerm ==
  ASSUME TerminalsAssumption, TermInv,
         \/ \E h \in HostId, c \in BOOLEAN : OpenTerminal(h, c) \/ NotOpened(h, c)
         \/ \E id \in Tab : SelectTab(id) \/ ReconnectTab(id) \/ NotReconnected(id) \/ SessionEnds(id)
         \/ \E h \in HostId, n \in Name \cup {Gone} : EditHost(h, n)
         \/ UNCHANGED termVars
  PROVE  TermInv'
<1>1. tabs' = tabs /\ TitlesDiffer' /\ CommandRunsOnce'
  BY DEF OpenTerminal, NotOpened, SelectTab, ReconnectTab, NotReconnected, SessionEnds,
         EditHost, termVars, TermInv, TitlesDiffer, CommandRunsOnce
<1>2. ASSUME NEW h \in HostId, NEW c \in BOOLEAN, OpenTerminal(h, c) \/ NotOpened(h, c)
      PROVE  TermInv'
  <2>1. <<h, c>> \in HostId \X BOOLEAN /\ opening[<<h, c>>] \in Nat
    BY DEF TermInv, TermTypeOK
  <2>2. \E n \in Nat : opening' = [opening EXCEPT ![<<h, c>>] = n]
    BY <1>2, <2>1 DEF OpenTerminal, NotOpened
  <2>3. opening' \in [HostId \X BOOLEAN -> Nat]
    BY <2>2 DEF TermInv, TermTypeOK
  <2> QED
    BY <1>1, <1>2, <2>3 DEF OpenTerminal, NotOpened, TermInv, TermTypeOK, ActiveIsOpen
<1>3. ASSUME NEW id \in Tab, SelectTab(id) \/ ReconnectTab(id) \/ NotReconnected(id) PROVE TermInv'
  BY <1>1, <1>3 DEF SelectTab, ReconnectTab, NotReconnected, TermInv, TermTypeOK, ActiveIsOpen
<1>4. ASSUME NEW id \in Tab, SessionEnds(id) PROVE TermInv'
  <2>1. GoodSessions(session')
    BY <1>4 DEF SessionEnds, TermInv, TermTypeOK, GoodSessions
  <2> QED
    BY <1>1, <1>4, <2>1 DEF SessionEnds, TermInv, TermTypeOK, ActiveIsOpen, GoodSessions
<1>5. ASSUME NEW h \in HostId, NEW n \in Name \cup {Gone}, EditHost(h, n) PROVE TermInv'
  BY <1>1, <1>5 DEF EditHost, TermInv, TermTypeOK, ActiveIsOpen
<1>6. CASE UNCHANGED termVars
  BY <1>1, <1>6 DEF termVars, TermInv, TermTypeOK, ActiveIsOpen
<1> QED
  BY <1>2, <1>3, <1>4, <1>5, <1>6

LEMMA NextTerm == ASSUME TerminalsAssumption, TermInv, [TermNext]_termVars PROVE TermInv'
BY OpenedTerm, CloseTerm, CloseOthersTerm, ReconnectedTerm, ReadyTerm, OthersTerm DEF TermNext

-----------------------------------------------------------------------------

\* The four invariants are inductive together; titles need the types, to be chosen from.
THEOREM TermSafe == ASSUME TerminalsAssumption PROVE TermSpec => []TermInv
<1>1. TermInit => TermInv
  BY InitTerm
<1>2. TermInv /\ [TermNext]_termVars => TermInv'
  BY NextTerm
<1> QED
  BY <1>1, <1>2, PTL DEF TermSpec

\* Closing tabs in any order leaves one of the open ones active (closeTab, closeOtherTabs).
THEOREM ActiveStaysOpen == ASSUME TerminalsAssumption PROVE TermSpec => []ActiveIsOpen
<1>1. TermInv => ActiveIsOpen
  BY DEF TermInv
<1> QED
  BY <1>1, TermSafe, PTL

\* The tabs of a host have different titles, however opening, closing and renaming
\* interleave (openTerminal).
THEOREM TitlesStayDifferent == ASSUME TerminalsAssumption PROVE TermSpec => []TitlesDiffer
<1>1. TermInv => TitlesDiffer
  BY DEF TermInv
<1> QED
  BY <1>1, TermSafe, PTL

\* A deployment's command is typed once, whatever happens to its session (runOnReady).
THEOREM CommandsRunOnce == ASSUME TerminalsAssumption PROVE TermSpec => []CommandRunsOnce
<1>1. TermInv => CommandRunsOnce
  BY DEF TermInv
<1> QED
  BY <1>1, TermSafe, PTL

=============================================================================
