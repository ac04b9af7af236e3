------------------------------- MODULE Mux_proofs -------------------------------
(***************************************************************************)
(* What Mux promises, for every number of panes, tabs, windows and spawns. *)
(*                                                                         *)
(* Every action is a chain of calls that pass the record MuxState on, so   *)
(* the proofs are about those calls: each has a lemma that says what it    *)
(* does to the record, and the actions put the lemmas together.            *)
(***************************************************************************)
EXTENDS Mux, WellFoundedInduction, FiniteSetTheorems, TLAPS

Windows == UNION {[ws -> Window] : ws \in SUBSET WindowIds}

MuxRecord ==
    [tabs : SUBSET TabIds, panes : SUBSET PaneIds, dead : SUBSET PaneIds,
     tree : [TabIds -> SUBSET PaneIds], windows : Windows, vacant : BOOLEAN,
     removals : SUBSET PaneIds, stranded : SUBSET PaneIds,
     prune_due : BOOLEAN, unannounced : BOOLEAN]

-------------------------------------------------------------------------------
\* The inductive invariant, part by part.

\* A window shows one of its tabs, and starts at its first position again when
\* it has none.
WindowOK(v) ==
    /\ IsInjective(v.tabs)
    /\ IF v.tabs = <<>> THEN v.active = 1 ELSE v.active \in 1..Len(v.tabs)

\* What every call keeps, also in the middle of an action: no pane in two trees,
\* those of tabs that have left their windows included; no tab in two windows; no
\* tab in a window that the mux does not know.
Sound(m) ==
    /\ m \in MuxRecord
    /\ \A t, u \in TabIds : t # u => m.tree[t] \cap m.tree[u] = {}
    /\ \A v, w \in DOMAIN m.windows :
        v # w => ToSet(m.windows[v].tabs) \cap ToSet(m.windows[w].tabs) = {}
    /\ \A w \in DOMAIN m.windows : WindowOK(m.windows[w])
    /\ TabsOf(m) \subseteq m.tabs

\* Every registered pane is held, but those in the hands of the caller.
HeldBut(m, ps) == m.panes \subseteq PlacedPanes(m) \cup m.removals \cup m.stranded \cup ps

Counted(m) ==
    /\ m.vacant => PlacedPanes(m) = {}
    /\ DOMAIN m.windows = {} => m.vacant

LastIsGone(m) == m.unannounced => m.panes = {}

\* What calls for a prune.
Doomed(m) == {p \in m.dead : p \in PlacedPanes(m) \/ p \notin m.panes}
NoEmptyWindow(m) == \A w \in DOMAIN m.windows : m.windows[w].tabs # <<>>
EmptyIsCounted(m) == PlacedPanes(m) = {} => m.vacant
NothingOwed(m) ==
    /\ EmptyIsCounted(m)
    /\ Doomed(m) = {}
    /\ ~m.unannounced

\* And that one is to come.
Building(ops) == \E op \in ops : op.kind = "window"
HeldUp(m, ops) == m.prune_due \/ Building(ops)
Due(m, ops) == HeldUp(m, ops) \/ m.removals # {}

\* The homes of the spawns under way: a window that is being built is there, a
\* tab to split is in a window as long as it has panes.
HomesKept(m, ops) ==
    \A op \in ops :
        /\ op.kind = "window" => op.home \in DOMAIN m.windows
        /\ op.kind = "split" => /\ op.home \in TabIds
                                /\ m.tree[op.home] # {} => op.home \in TabsOf(m)

InvOf(m, ops) ==
    /\ IsFiniteSet(ops) /\ ops \subseteq Spawn
    /\ Sound(m)
    /\ HeldBut(m, {})
    /\ Counted(m)
    /\ LastIsGone(m)
    /\ HomesKept(m, ops)
    /\ NoEmptyWindow(m) \/ HeldUp(m, ops)
    /\ NothingOwed(m) \/ Due(m, ops)

MuxInv == InvOf(mux, spawns)

-------------------------------------------------------------------------------
\* Induction, over a set of the steps that are done.

LEMMA UpTo ==
    ASSUME NEW N \in Nat, NEW S, 0 \in S, \A i \in 1..N : i - 1 \in S => i \in S
    PROVE  \A i \in 0..N : i \in S
<1>. DEFINE bad == {i \in 0..N : i \notin S}
<1>. SUFFICES ASSUME bad # {} PROVE FALSE
    OBVIOUS
<1>. DEFINE less == {ss \in Nat \X Nat : ss[1] < ss[2]}
<1>1. IsWellFoundedOn(less, Nat)
    BY NatLessThanWellFounded, Zenon DEF OpToRel
<1>2. bad \subseteq Nat
    OBVIOUS
<1>3. PICK i \in bad : \A j \in bad : ~ (<<j, i>> \in less)
  <2>. HIDE DEF less, bad
  <2>. QED
    BY <1>1, <1>2, WFMin, Zenon
<1>4. i \in 1..N /\ i - 1 \in 0..N /\ i - 1 < i /\ i - 1 \in Nat /\ i \in Nat
    OBVIOUS
<1>5. <<i - 1, i>> \in less
    BY <1>4
<1>6. QED
    BY <1>3, <1>4, <1>5

-------------------------------------------------------------------------------
\* The tabs of a window.

LEMMA ElementsOf ==
    ASSUME NEW s \in Seq(TabIds)
    PROVE  /\ ToSet(s) \subseteq TabIds
           /\ \A i \in 1..Len(s) : s[i] \in ToSet(s)
           /\ \A t \in ToSet(s) : \E i \in 1..Len(s) : s[i] = t
           /\ ToSet(s) = {} <=> s = <<>>
           /\ Len(s) \in Nat
           /\ s = <<>> <=> Len(s) = 0
    BY DEF ToSet

LEMMA PositionOf ==
    ASSUME NEW s \in Seq(TabIds), NEW t \in ToSet(s)
    PROVE  Position(s, t) \in 1..Len(s) /\ s[Position(s, t)] = t
    BY ElementsOf DEF Position

LEMMA PositionIs ==
    ASSUME NEW s \in Seq(TabIds), IsInjective(s), NEW i \in 1..Len(s)
    PROVE  Position(s, s[i]) = i
<1>. s[i] \in ToSet(s) /\ DOMAIN s = 1..Len(s)
    BY ElementsOf
<1>. QED
    BY PositionOf DEF IsInjective

LEMMA ConcatIs ==
    ASSUME NEW x \in Seq(TabIds), NEW y \in Seq(TabIds)
    PROVE  /\ x \o y \in Seq(TabIds)
           /\ Len(x \o y) = Len(x) + Len(y)
           /\ \A i \in 1..Len(x) + Len(y) :
                (x \o y)[i] = IF i <= Len(x) THEN x[i] ELSE y[i - Len(x)]
    OBVIOUS

LEMMA RemoveAtIs ==
    ASSUME NEW s \in Seq(TabIds), NEW k \in 1..Len(s)
    PROVE  /\ RemoveAt(s, k) \in Seq(TabIds)
           /\ Len(RemoveAt(s, k)) = Len(s) - 1
           /\ \A i \in 1..Len(s) - 1 :
                RemoveAt(s, k)[i] = IF i < k THEN s[i] ELSE s[i + 1]
<1>. DEFINE a == SubSeq(s, 1, k - 1)
            b == SubSeq(s, k + 1, Len(s))
<1>1. a \in Seq(TabIds) /\ Len(a) = k - 1 /\ \A i \in 1..k - 1 : a[i] = s[i]
    OBVIOUS
<1>2. b \in Seq(TabIds) /\ Len(b) = Len(s) - k
        /\ \A i \in 1..Len(s) - k : b[i] = s[k + i]
    OBVIOUS
<1>3. RemoveAt(s, k) = a \o b
    BY DEF RemoveAt
<1>. HIDE DEF a, b
<1>4. a \o b \in Seq(TabIds) /\ Len(a \o b) = Len(s) - 1
  <2>1. a \o b \in Seq(TabIds) /\ Len(a \o b) = Len(a) + Len(b)
    BY <1>1, <1>2, ConcatIs
  <2>2. QED
    BY <2>1, <1>1, <1>2
<1>5. ASSUME NEW i \in 1..Len(s) - 1
      PROVE  (a \o b)[i] = IF i < k THEN s[i] ELSE s[i + 1]
    <2>1. CASE i < k
        BY <2>1, <1>1, <1>2
    <2>2. CASE ~ (i < k)
        <3>1. (a \o b)[i] = b[i - (k - 1)]
            BY <2>2, <1>1, <1>2
        <3>2. i - (k - 1) \in 1..Len(s) - k /\ k + (i - (k - 1)) = i + 1
            BY <2>2
        <3>3. QED
            BY <3>1, <3>2, <1>2, <2>2
    <2>3. QED
        BY <2>1, <2>2
<1>6. QED
    BY <1>3, <1>4, <1>5

LEMMA RemoveAtLeaves ==
    ASSUME NEW s \in Seq(TabIds), IsInjective(s), NEW k \in 1..Len(s)
    PROVE  /\ IsInjective(RemoveAt(s, k))
           /\ ToSet(RemoveAt(s, k)) = ToSet(s) \ {s[k]}
<1>. DEFINE r == RemoveAt(s, k)
<1>1. /\ r \in Seq(TabIds) /\ Len(r) = Len(s) - 1
      /\ \A i \in 1..Len(s) - 1 : r[i] = IF i < k THEN s[i] ELSE s[i + 1]
    BY RemoveAtIs
<1>2. DOMAIN r = 1..Len(s) - 1 /\ DOMAIN s = 1..Len(s) /\ Len(s) \in Nat
    BY <1>1
<1>. HIDE DEF r
<1>3. \A i, j \in 1..Len(s) : s[i] = s[j] => i = j
    BY <1>2 DEF IsInjective
<1>4. ASSUME NEW i \in 1..Len(s) - 1, NEW j \in 1..Len(s) - 1, r[i] = r[j]
      PROVE  i = j
    <2>1. i \in 1..Len(s) /\ i + 1 \in 1..Len(s) /\ j \in 1..Len(s) /\ j + 1 \in 1..Len(s)
        BY <1>2
    <2>2. i \in Int /\ j \in Int /\ k \in Int
        OBVIOUS
    <2>3. (IF i < k THEN i ELSE i + 1) = (IF j < k THEN j ELSE j + 1)
        <3>1. CASE i < k /\ j < k
            BY <3>1, <2>1, <1>1, <1>3, <1>4
        <3>2. CASE i < k /\ ~ (j < k)
            BY <3>2, <2>1, <1>1, <1>3, <1>4
        <3>3. CASE ~ (i < k) /\ j < k
            BY <3>3, <2>1, <1>1, <1>3, <1>4
        <3>4. CASE ~ (i < k) /\ ~ (j < k)
            BY <3>4, <2>1, <1>1, <1>3, <1>4
        <3>5. QED
            BY <3>1, <3>2, <3>3, <3>4
    <2>4. QED
        BY <2>2, <2>3
<1>5. IsInjective(r)
    BY <1>2, <1>4 DEF IsInjective
<1>6. ASSUME NEW i \in 1..Len(s) - 1 PROVE r[i] \in ToSet(s) \ {s[k]}
    <2>1. i \in 1..Len(s) /\ i + 1 \in 1..Len(s) /\ i \in Int /\ k \in Int
        BY <1>2
    <2>2. CASE i < k
        BY <2>1, <2>2, <1>1, <1>2, <1>3 DEF ToSet
    <2>3. CASE ~ (i < k)
        BY <2>1, <2>3, <1>1, <1>2, <1>3 DEF ToSet
    <2>4. QED
        BY <2>2, <2>3
<1>7. ASSUME NEW j \in 1..Len(s), j # k PROVE s[j] \in ToSet(r)
    <2>1. CASE j < k
        <3>1. j \in 1..Len(s) - 1
            BY <2>1
        <3>2. r[j] = s[j]
            BY <2>1, <3>1, <1>1
        <3>3. QED
            BY <3>1, <3>2, <1>2 DEF ToSet
    <2>2. CASE ~ (j < k)
        <3>1. j - 1 \in 1..Len(s) - 1 /\ ~ (j - 1 < k) /\ (j - 1) + 1 = j
            BY <2>2, <1>7
        <3>2. r[j - 1] = s[j]
            BY <3>1, <1>1
        <3>3. QED
            BY <3>1, <3>2, <1>2 DEF ToSet
    <2>3. QED
        BY <2>1, <2>2
<1>8. ToSet(r) = ToSet(s) \ {s[k]}
    <2>1. ToSet(r) \subseteq ToSet(s) \ {s[k]}
        BY <1>6, <1>2 DEF ToSet
    <2>2. ASSUME NEW t \in ToSet(s), t # s[k] PROVE t \in ToSet(r)
        <3>1. PICK j \in 1..Len(s) : t = s[j]
            BY <1>2 DEF ToSet
        <3>2. QED
            BY <3>1, <2>2, <1>7
    <2>3. QED
        BY <2>1, <2>2
<1>9. QED
    BY <1>5, <1>8 DEF r

LEMMA ActiveTabIs ==
    ASSUME NEW v \in Window, WindowOK(v)
    PROVE  /\ v.tabs = <<>> => ActiveTab(v) = NoTab
           /\ v.tabs # <<>> => /\ ActiveTab(v) = v.tabs[v.active]
                               /\ ActiveTab(v) \in ToSet(v.tabs)
                               /\ ActiveTab(v) \in TabIds
           /\ ActiveTab(v) \in TabIds \cup {NoTab}
           /\ ActiveTab(v) # NoTab <=> v.tabs # <<>>
<1>1. v.tabs \in Seq(TabIds)
    BY DEF Window
<1>2. CASE v.tabs = <<>>
    <2>1. 1..Len(v.tabs) = {}
        BY <1>2
    <2>2. QED
        BY <2>1, <1>2 DEF ActiveTab
<1>3. CASE v.tabs # <<>>
    <2>1. v.active \in 1..Len(v.tabs)
        BY <1>3 DEF WindowOK
    <2>2. QED
        BY <1>1, <1>3, <2>1, ElementsOf, MuxIdAssumption DEF ActiveTab
<1>4. QED
    BY <1>2, <1>3

\* What a window keeps when tabs leave it: a tab that was shown and is still
\* there is still shown.
Shrunk(v, w) ==
    /\ w \in Window /\ WindowOK(w)
    /\ ToSet(w.tabs) \subseteq ToSet(v.tabs)
    /\ ActiveTab(v) \in ToSet(w.tabs) => ActiveTab(w) = ActiveTab(v)

LEMMA ShrunkSelf ==
    ASSUME NEW v \in Window, WindowOK(v) PROVE Shrunk(v, v)
    BY DEF Shrunk

LEMMA ShrunkTwice ==
    ASSUME NEW u, NEW v, NEW w, Shrunk(u, v), Shrunk(v, w) PROVE Shrunk(u, w)
<1>1. ASSUME ActiveTab(u) \in ToSet(w.tabs) PROVE ActiveTab(w) = ActiveTab(u)
    BY <1>1 DEF Shrunk
<1>2. QED
    BY <1>1 DEF Shrunk

\* remove_by_id
LEMMA WithoutTabShrinks ==
    ASSUME NEW v \in Window, WindowOK(v), NEW t
    PROVE  /\ Shrunk(v, WithoutTab(v, t))
           /\ ToSet(WithoutTab(v, t).tabs) = ToSet(v.tabs) \ {t}
           /\ t \notin ToSet(v.tabs) => WithoutTab(v, t) = v
<1>1. CASE t \notin ToSet(v.tabs)
    BY <1>1, ShrunkSelf DEF WithoutTab
<1>2. CASE t \in ToSet(v.tabs)
    <2>. DEFINE s == v.tabs
                k == Position(s, t)
                rest == RemoveAt(s, k)
                position ==
                    IF /\ ActiveTab(v) = t /\ SwitchToLast
                       /\ v.last_active \in ToSet(s)
                    THEN Position(s, v.last_active) ELSE v.active
                active ==
                    IF ActiveTab(v) \in ToSet(rest)
                    THEN Position(rest, ActiveTab(v))
                    ELSE IF rest # <<>> /\ position > Len(rest) THEN Len(rest)
                    ELSE position
                w == [v EXCEPT !.tabs = rest, !.active = active]
    <2>1. WithoutTab(v, t) = w
        BY <1>2 DEF WithoutTab
    <2>2. s \in Seq(TabIds) /\ IsInjective(s)
        BY DEF Window, WindowOK
    <2>3. k \in 1..Len(s) /\ s[k] = t
        BY <1>2, <2>2, PositionOf
    <2>4. rest \in Seq(TabIds) /\ Len(rest) = Len(s) - 1
        BY <2>2, <2>3, RemoveAtIs
    <2>5. IsInjective(rest) /\ ToSet(rest) = ToSet(s) \ {t}
        BY <2>2, <2>3, RemoveAtLeaves
    <2>6. v.active \in 1..Len(s)
        <3>1. s # <<>>
            BY <2>2, <1>2, ElementsOf
        <3>2. QED
            BY <3>1 DEF WindowOK
    <2>7. position \in 1..Len(s)
        BY <2>2, <2>6, PositionOf
    <2>8. IF rest = <<>> THEN active = 1 ELSE active \in 1..Len(rest)
      <3>. HIDE DEF rest, position, k
      <3>1. CASE rest = <<>>
        <4>1. ToSet(rest) = {} /\ Len(s) = 1
          <5>1. Len(rest) = 0 /\ ToSet(rest) = {}
            BY <3>1, <2>4, ElementsOf
          <5>2. QED
            BY <5>1, <2>4, <2>2, ElementsOf
        <4>2. position = 1
            BY <4>1, <2>7
        <4>3. QED
            BY <3>1, <4>1, <4>2
      <3>2. CASE rest # <<>>
        <4>1. Len(rest) # 0 /\ Len(rest) \in Nat /\ Len(s) \in Nat
            BY <3>2, <2>4, <2>2, ElementsOf
        <4>2. CASE ActiveTab(v) \in ToSet(rest)
            BY <4>2, <3>2, <2>4, PositionOf
        <4>3. CASE ActiveTab(v) \notin ToSet(rest)
            BY <4>3, <4>1, <3>2, <2>7, <2>4
        <4>4. QED
            BY <4>2, <4>3
      <3>3. QED
        BY <3>1, <3>2
    <2>9. active \in Nat \ {0}
      <3>. HIDE DEF rest, active
      <3>. QED
        BY <2>8, <2>4
    <2>10. ActiveTab(v) \in ToSet(rest) => active = Position(rest, ActiveTab(v))
        OBVIOUS
    <2>. HIDE DEF rest, active, k, position
    <2>11. w.tabs = rest /\ w.active = active /\ w.last_active = v.last_active
           /\ w \in Window
        BY <2>4, <2>9 DEF Window
    <2>. HIDE DEF w
    <2>12. WindowOK(w)
        BY <2>11, <2>8, <2>5 DEF WindowOK
    <2>13. ASSUME ActiveTab(v) \in ToSet(w.tabs) PROVE ActiveTab(w) = ActiveTab(v)
        <3>1. rest # <<>> /\ w.tabs # <<>>
            BY <2>13, <2>11, <2>4, ElementsOf
        <3>2. ActiveTab(w) = rest[active]
            BY <3>1, <2>11, <2>12, ActiveTabIs
        <3>3. rest[active] = ActiveTab(v)
            BY <2>13, <2>11, <2>10, <2>4, PositionOf
        <3>4. QED
            BY <3>2, <3>3
    <2>14. QED
        BY <2>1, <2>5, <2>11, <2>12, <2>13, <1>2 DEF Shrunk
<1>3. QED
    BY <1>1, <1>2

\* The steps of WithoutTabs
LeavingTabs(v, gone, n, f) ==
    f = [i \in 0..n |->
            IF i = 0 THEN v
            ELSE IF v.tabs[i] \in gone THEN WithoutTab(f[i - 1], v.tabs[i])
            ELSE f[i - 1]]

LEMMA LeavingTabsExist ==
    ASSUME NEW v, NEW gone, NEW N \in Nat
    PROVE  \E f : LeavingTabs(v, gone, N, f)
<1>. DEFINE S == {n \in 0..N : \E f : LeavingTabs(v, gone, n, f)}
<1>1. 0 \in S
    <2>1. LeavingTabs(v, gone, 0, [i \in 0..0 |-> v])
        BY DEF LeavingTabs
    <2>2. QED
        BY <2>1
<1>2. ASSUME NEW n \in 1..N, n - 1 \in S PROVE n \in S
    <2>1. PICK f : LeavingTabs(v, gone, n - 1, f)
        BY <1>2
    <2>. DEFINE last == IF v.tabs[n] \in gone THEN WithoutTab(f[n - 1], v.tabs[n])
                        ELSE f[n - 1]
                g == [i \in 0..n |-> IF i = n THEN last ELSE f[i]]
    <2>2. \A i \in 0..n - 1 :
            f[i] = IF i = 0 THEN v
                   ELSE IF v.tabs[i] \in gone THEN WithoutTab(f[i - 1], v.tabs[i])
                   ELSE f[i - 1]
        BY <2>1 DEF LeavingTabs
    <2>3. \A i \in 0..n :
            g[i] = IF i = 0 THEN v
                   ELSE IF v.tabs[i] \in gone THEN WithoutTab(g[i - 1], v.tabs[i])
                   ELSE g[i - 1]
      <3>1. ASSUME NEW i \in 0..n
            PROVE g[i] = IF i = 0 THEN v
                   ELSE IF v.tabs[i] \in gone THEN WithoutTab(g[i - 1], v.tabs[i])
                   ELSE g[i - 1]
        <4>1. CASE i = n
            <5>1. g[i] = last /\ i # 0 /\ g[i - 1] = f[n - 1]
                BY <4>1
            <5>2. QED
                BY <5>1, <4>1
        <4>2. CASE i # n
            <5>1. i \in 0..n - 1 /\ g[i] = f[i] /\ (i # 0 => g[i - 1] = f[i - 1])
                BY <4>2
            <5>2. QED
                BY <5>1, <2>2
        <4>3. QED
            BY <4>1, <4>2
      <3>2. QED
        BY <3>1
    <2>4. LeavingTabs(v, gone, n, g)
      <3>1. g = [i \in 0..n |-> g[i]]
        OBVIOUS
      <3>. HIDE DEF g
      <3>2. QED
        BY <3>1, <2>3 DEF LeavingTabs
    <2>5. QED
        BY <2>4
<1>3. \A n \in 0..N : n \in S
  <2>. HIDE DEF S
  <2>. QED
    BY <1>1, <1>2, UpTo
<1>4. QED
    BY <1>3

LEMMA WithoutTabsSteps ==
    ASSUME NEW v, NEW gone, Len(v.tabs) \in Nat
    PROVE  \E f : /\ LeavingTabs(v, gone, Len(v.tabs), f)
                  /\ WithoutTabs(v, gone) = f[Len(v.tabs)]
<1>. DEFINE left == CHOOSE f : LeavingTabs(v, gone, Len(v.tabs), f)
<1>1. LeavingTabs(v, gone, Len(v.tabs), left)
    BY LeavingTabsExist
<1>2. WithoutTabs(v, gone) = left[Len(v.tabs)]
    BY DEF WithoutTabs, LeavingTabs
<1>3. QED
    BY <1>1, <1>2

LEMMA WithoutTabsShrinks ==
    ASSUME NEW v \in Window, WindowOK(v), NEW gone
    PROVE  /\ Shrunk(v, WithoutTabs(v, gone))
           /\ ToSet(WithoutTabs(v, gone).tabs) = ToSet(v.tabs) \ gone
<1>. DEFINE N == Len(v.tabs)
            Left(i) == {v.tabs[j] : j \in {k \in 1..i : v.tabs[k] \in gone}}
<1>1. v.tabs \in Seq(TabIds) /\ N \in Nat
    BY DEF Window
<1>2. PICK f : LeavingTabs(v, gone, N, f) /\ WithoutTabs(v, gone) = f[N]
    BY <1>1, WithoutTabsSteps
<1>3. \A i \in 0..N : f[i] = IF i = 0 THEN v
            ELSE IF v.tabs[i] \in gone THEN WithoutTab(f[i - 1], v.tabs[i])
            ELSE f[i - 1]
    BY <1>2 DEF LeavingTabs
<1>. DEFINE S == {i \in 0..N : /\ Shrunk(v, f[i])
                               /\ ToSet(f[i].tabs) = ToSet(v.tabs) \ Left(i)}
<1>4. 0 \in S
    <2>1. f[0] = v /\ Left(0) = {}
        BY <1>1, <1>3
    <2>2. QED
        BY <2>1, <1>1, ShrunkSelf
<1>5. ASSUME NEW i \in 1..N, i - 1 \in S PROVE i \in S
    <2>. DEFINE u == f[i - 1]
    <2>1. Shrunk(v, u) /\ ToSet(u.tabs) = ToSet(v.tabs) \ Left(i - 1) /\ u \in Window /\ WindowOK(u)
        BY <1>5 DEF Shrunk
    <2>2. Left(i) = Left(i - 1) \cup (IF v.tabs[i] \in gone THEN {v.tabs[i]} ELSE {})
        <3>1. \A k \in 1..i : k \in 1..i - 1 \/ k = i
            OBVIOUS
        <3>2. 1..i - 1 \subseteq 1..i /\ i \in 1..i
            OBVIOUS
        <3>3. QED
            BY <3>1, <3>2
    <2>3. f[i] = IF v.tabs[i] \in gone THEN WithoutTab(u, v.tabs[i]) ELSE u
        BY <1>3
    <2>. HIDE DEF u, Left
    <2>4. CASE v.tabs[i] \in gone
        <3>1. f[i] = WithoutTab(u, v.tabs[i])
            BY <2>3, <2>4
        <3>2. Shrunk(u, f[i]) /\ ToSet(f[i].tabs) = ToSet(u.tabs) \ {v.tabs[i]}
            BY <3>1, <2>1, WithoutTabShrinks
        <3>3. Shrunk(v, f[i])
            BY <3>2, <2>1, ShrunkTwice
        <3>4. QED
            BY <3>2, <3>3, <2>1, <2>2, <2>4
    <2>5. CASE v.tabs[i] \notin gone
        BY <2>1, <2>2, <2>3, <2>5
    <2>6. QED
        BY <2>4, <2>5
<1>6. N \in S
    <2>. HIDE DEF S
    <2>1. \A i \in 0..N : i \in S
        BY <1>1, <1>4, <1>5, UpTo
    <2>2. QED
        BY <2>1, <1>1
<1>7. ToSet(v.tabs) \ Left(N) = ToSet(v.tabs) \ gone
    <2>1. \A t \in ToSet(v.tabs) : \E j \in 1..N : v.tabs[j] = t
        BY <1>1, ElementsOf
    <2>2. QED
        BY <2>1
<1>8. QED
    BY <1>2, <1>6, <1>7

-------------------------------------------------------------------------------
\* The record.

LEMMA WindowsAre ==
    ASSUME NEW f
    PROVE  f \in Windows <=> /\ f = [w \in DOMAIN f |-> f[w]]
                             /\ DOMAIN f \subseteq WindowIds
                             /\ \A w \in DOMAIN f : f[w] \in Window
<1>1. ASSUME f \in Windows
      PROVE  /\ f = [w \in DOMAIN f |-> f[w]]
             /\ DOMAIN f \subseteq WindowIds
             /\ \A w \in DOMAIN f : f[w] \in Window
    <2>1. PICK ws \in SUBSET WindowIds : f \in [ws -> Window]
        BY <1>1 DEF Windows
    <2>2. QED
        BY <2>1
<1>2. ASSUME f = [w \in DOMAIN f |-> f[w]], DOMAIN f \subseteq WindowIds,
             \A w \in DOMAIN f : f[w] \in Window
      PROVE  f \in Windows
    <2>1. f \in [DOMAIN f -> Window]
        BY <1>2
    <2>2. QED
        BY <2>1, <1>2 DEF Windows
<1>3. QED
    BY <1>1, <1>2

LEMMA TabsOfIs ==
    ASSUME NEW m, NEW t
    PROVE  t \in TabsOf(m) <=> \E w \in DOMAIN m.windows : t \in ToSet(m.windows[w].tabs)
    BY DEF TabsOf

LEMMA PlacedIs ==
    ASSUME NEW m, NEW p
    PROVE  p \in PlacedPanes(m) <=> \E t \in TabsOf(m) : p \in m.tree[t]
    BY DEF PlacedPanes

LEMMA SameTabs ==
    ASSUME NEW m, NEW n, m.windows = n.windows PROVE TabsOf(m) = TabsOf(n)
    BY DEF TabsOf

LEMMA SamePlaced ==
    ASSUME NEW m, NEW n, m.windows = n.windows, m.tree = n.tree
    PROVE  PlacedPanes(m) = PlacedPanes(n)
    BY SameTabs DEF PlacedPanes

LEMMA TabsOfAreTabs ==
    ASSUME NEW m \in MuxRecord PROVE TabsOf(m) \subseteq TabIds
<1>1. ASSUME NEW w \in DOMAIN m.windows PROVE ToSet(m.windows[w].tabs) \subseteq TabIds
    <2>1. m.windows \in Windows
        BY DEF MuxRecord
    <2>2. m.windows[w].tabs \in Seq(TabIds)
        BY <2>1, WindowsAre DEF Window
    <2>3. QED
        BY <2>2, ElementsOf
<1>2. QED
    BY <1>1, TabsOfIs

\* The fields that removals leave alone
SameRest(m, n) ==
    /\ n.dead = m.dead /\ n.removals = m.removals /\ n.stranded = m.stranded
    /\ n.prune_due = m.prune_due

\* recompute_pane_count
LEMMA RecountedIs ==
    ASSUME NEW m \in MuxRecord
    PROVE  /\ Recounted(m) \in MuxRecord
           /\ Recounted(m).tabs = m.tabs /\ Recounted(m).panes = m.panes
           /\ Recounted(m).tree = m.tree /\ Recounted(m).windows = m.windows
           /\ SameRest(m, Recounted(m))
           /\ Recounted(m).unannounced = m.unannounced
           /\ Recounted(m).vacant <=> PlacedPanes(m) = {}
<1>. DEFINE b == PlacedPanes(m) = {}
<1>1. b \in BOOLEAN
    OBVIOUS
<1>2. Recounted(m) = [m EXCEPT !.vacant = b]
    BY DEF Recounted
<1>. HIDE DEF b
<1>3. /\ Recounted(m) \in MuxRecord
      /\ Recounted(m).tabs = m.tabs /\ Recounted(m).panes = m.panes
      /\ Recounted(m).tree = m.tree /\ Recounted(m).windows = m.windows
      /\ SameRest(m, Recounted(m))
      /\ Recounted(m).unannounced = m.unannounced
    BY <1>1, <1>2 DEF MuxRecord, SameRest
<1>4. Recounted(m).vacant = b
    BY <1>2 DEF MuxRecord
<1>5. QED
    BY <1>3, <1>4 DEF b

\* remove_pane_internal
LEMMA RemovePanesIs ==
    ASSUME NEW m \in MuxRecord, NEW ps
    PROVE  LET n == RemovePanes(m, ps)
           IN  /\ n \in MuxRecord
               /\ n.tabs = m.tabs /\ n.tree = m.tree /\ n.windows = m.windows
               /\ n.panes = m.panes \ ps
               /\ SameRest(m, n)
               /\ n.unannounced => m.unannounced \/ n.panes = {}
               /\ n.vacant => m.vacant \/ PlacedPanes(m) = {}
               /\ m.vacant => n.vacant \/ PlacedPanes(m) # {}
<1>1. CASE ps \cap m.panes = {}
    <2>1. RemovePanes(m, ps) = m
        BY <1>1 DEF RemovePanes
    <2>2. m.panes \ ps = m.panes
        BY <1>1
    <2>3. QED
        BY <2>1, <2>2 DEF SameRest
<1>2. CASE ps \cap m.panes # {}
    <2>. DEFINE u == m.unannounced \/ m.panes \subseteq ps
                k == [m EXCEPT !.panes = @ \ ps, !.unannounced = u]
    <2>1. u \in BOOLEAN
        BY DEF MuxRecord
    <2>2. RemovePanes(m, ps) = Recounted(k)
        BY <1>2 DEF RemovePanes
    <2>. HIDE DEF u
    <2>3. /\ k \in MuxRecord
          /\ k.tabs = m.tabs /\ k.tree = m.tree /\ k.windows = m.windows
          /\ k.panes = m.panes \ ps /\ SameRest(m, k)
          /\ k.unannounced = u
        BY <2>1 DEF MuxRecord, SameRest
    <2>. HIDE DEF k
    <2>4. k.unannounced => m.unannounced \/ k.panes = {}
        BY <2>3 DEF u
    <2>5. PlacedPanes(k) = PlacedPanes(m)
        BY <2>3, SamePlaced
    <2>6. QED
        BY <2>2, <2>3, <2>4, <2>5, RecountedIs DEF SameRest
<1>3. QED
    BY <1>1, <1>2

LEMMA WindowsOfSound ==
    ASSUME NEW m, Sound(m), NEW w \in DOMAIN m.windows
    PROVE  m.windows[w] \in Window /\ WindowOK(m.windows[w]) /\ w \in WindowIds
<1>1. m.windows \in Windows
    BY DEF Sound, MuxRecord
<1>2. QED
    BY <1>1, WindowsAre DEF Sound

\* remove_tab_internal, of a tab that the mux knows
LEMMA RemoveTabInternalIs ==
    ASSUME NEW m, Sound(m), NEW t \in m.tabs
    PROVE  LET n == RemoveTabInternal(m, t)
           IN  /\ n \in MuxRecord
               /\ n.tabs = m.tabs \ {t} /\ n.panes = m.panes \ m.tree[t]
               /\ n.tree = [m.tree EXCEPT ![t] = {}]
               /\ n.windows = [w \in DOMAIN m.windows |-> WithoutTab(m.windows[w], t)]
               /\ SameRest(m, n)
               /\ n.unannounced => m.unannounced \/ n.panes = {}
               /\ n.vacant <=> PlacedPanes(n) = {}
<1>. DEFINE ws == [w \in DOMAIN m.windows |-> WithoutTab(m.windows[w], t)]
            tr == [m.tree EXCEPT ![t] = {}]
            k == [m EXCEPT !.tabs = @ \ {t}, !.tree = tr, !.windows = ws]
            r == RemovePanes(k, m.tree[t])
            n == Recounted(r)
<1>1. m \in MuxRecord /\ t \in TabIds /\ m.tree \in [TabIds -> SUBSET PaneIds]
    BY DEF Sound, MuxRecord
<1>2. ws \in Windows
    <2>1. \A w \in DOMAIN m.windows : WithoutTab(m.windows[w], t) \in Window
        BY WindowsOfSound, WithoutTabShrinks DEF Shrunk
    <2>2. DOMAIN ws = DOMAIN m.windows /\ DOMAIN m.windows \subseteq WindowIds
        BY WindowsOfSound
    <2>3. QED
        BY <2>1, <2>2, WindowsAre
<1>3. tr \in [TabIds -> SUBSET PaneIds]
    BY <1>1
<1>4. RemoveTabInternal(m, t) = n
    BY DEF RemoveTabInternal
<1>. HIDE DEF ws, tr
<1>5. /\ k \in MuxRecord
      /\ k.tabs = m.tabs \ {t} /\ k.panes = m.panes /\ k.tree = tr /\ k.windows = ws
      /\ SameRest(m, k) /\ k.unannounced = m.unannounced
    BY <1>1, <1>2, <1>3 DEF MuxRecord, SameRest
<1>. HIDE DEF k
<1>6. /\ r \in MuxRecord
      /\ r.tabs = k.tabs /\ r.tree = k.tree /\ r.windows = k.windows
      /\ r.panes = k.panes \ m.tree[t] /\ SameRest(k, r)
      /\ r.unannounced => k.unannounced \/ r.panes = {}
    BY <1>5, RemovePanesIs
<1>. HIDE DEF r
<1>7. /\ n \in MuxRecord
      /\ n.tabs = r.tabs /\ n.tree = r.tree /\ n.windows = r.windows
      /\ n.panes = r.panes /\ SameRest(r, n) /\ n.unannounced = r.unannounced
      /\ n.vacant <=> PlacedPanes(r) = {}
    BY <1>6, RecountedIs
<1>. HIDE DEF n
<1>8. PlacedPanes(r) = PlacedPanes(n)
    BY <1>7, SamePlaced
<1>9. SameRest(m, n)
    BY <1>5, <1>6, <1>7 DEF SameRest
<1>10. n.windows = ws /\ n.tree = tr
    BY <1>5, <1>6, <1>7
<1>11. n.tabs = m.tabs \ {t} /\ n.panes = m.panes \ m.tree[t]
       /\ (n.unannounced => m.unannounced \/ n.panes = {})
    BY <1>5, <1>6, <1>7
<1>12. QED
    BY <1>4, <1>7, <1>8, <1>9, <1>10, <1>11 DEF ws, tr

\* What removals do, one or many: everything that shrinks, and a tab leaves its
\* window only without panes.
Removes(m, n) ==
    /\ Sound(n)
    /\ n.tabs \subseteq m.tabs /\ n.panes \subseteq m.panes /\ n.dead \subseteq m.dead
    /\ \A t \in TabIds : n.tree[t] \subseteq m.tree[t]
    /\ DOMAIN n.windows \subseteq DOMAIN m.windows
    /\ \A w \in DOMAIN n.windows : Shrunk(m.windows[w], n.windows[w])
    /\ \A t \in TabsOf(m) : t \in TabsOf(n) \/ n.tree[t] = {}
    /\ m.removals \subseteq n.removals /\ n.prune_due = m.prune_due
    /\ n.unannounced => m.unannounced \/ n.panes = {}

LEMMA RemovesSelf ==
    ASSUME NEW m, Sound(m) PROVE Removes(m, m)
    BY WindowsOfSound, ShrunkSelf DEF Removes

LEMMA RemovesTabsOf ==
    ASSUME NEW m, NEW n, Removes(m, n) PROVE TabsOf(n) \subseteq TabsOf(m)
    BY TabsOfIs DEF Removes, Shrunk

LEMMA RemovesPlaced ==
    ASSUME NEW m, NEW n, Removes(m, n) PROVE PlacedPanes(n) \subseteq PlacedPanes(m)
<1>1. TabsOf(n) \subseteq TabsOf(m) /\ TabsOf(n) \subseteq TabIds
    BY RemovesTabsOf, TabsOfAreTabs DEF Removes, Sound
<1>2. QED
    BY <1>1, PlacedIs DEF Removes

LEMMA RemovesTwice ==
    ASSUME NEW k, NEW m, NEW n, Removes(k, m), Removes(m, n), Sound(k)
    PROVE  Removes(k, n)
<1>1. Sound(n) /\ n.tabs \subseteq k.tabs /\ n.panes \subseteq k.panes /\ n.dead \subseteq k.dead
      /\ (\A t \in TabIds : n.tree[t] \subseteq k.tree[t])
      /\ DOMAIN n.windows \subseteq DOMAIN k.windows
      /\ k.removals \subseteq n.removals /\ n.prune_due = k.prune_due
      /\ (n.unannounced => k.unannounced \/ n.panes = {})
    BY DEF Removes
<1>2. ASSUME NEW w \in DOMAIN n.windows PROVE Shrunk(k.windows[w], n.windows[w])
    BY ShrunkTwice DEF Removes
<1>3. ASSUME NEW t \in TabsOf(k) PROVE t \in TabsOf(n) \/ n.tree[t] = {}
    <2>1. t \in TabIds
        BY TabsOfAreTabs DEF Sound
    <2>2. t \in TabsOf(m) \/ n.tree[t] = {}
        BY <2>1 DEF Removes
    <2>3. QED
        BY <2>2 DEF Removes
<1>4. QED
    BY <1>1, <1>2, <1>3 DEF Removes

LEMMA RemoveTabSound ==
    ASSUME NEW m, Sound(m), NEW t \in m.tabs
    PROVE  LET n == RemoveTabInternal(m, t)
           IN  Sound(n) /\ TabsOf(n) = TabsOf(m) \ {t}
<1>. DEFINE n == RemoveTabInternal(m, t)
<1>1. /\ n \in MuxRecord /\ n.tabs = m.tabs \ {t}
      /\ n.tree = [m.tree EXCEPT ![t] = {}]
      /\ n.windows = [w \in DOMAIN m.windows |-> WithoutTab(m.windows[w], t)]
    BY RemoveTabInternalIs
<1>2. m.tree \in [TabIds -> SUBSET PaneIds]
    BY DEF Sound, MuxRecord
<1>. HIDE DEF n
<1>3. DOMAIN n.windows = DOMAIN m.windows
    BY <1>1
<1>4. ASSUME NEW w \in DOMAIN m.windows
      PROVE  /\ WindowOK(n.windows[w])
             /\ ToSet(n.windows[w].tabs) = ToSet(m.windows[w].tabs) \ {t}
    <2>1. n.windows[w] = WithoutTab(m.windows[w], t)
        BY <1>1
    <2>2. m.windows[w] \in Window /\ WindowOK(m.windows[w])
        BY WindowsOfSound
    <2>3. QED
        BY <2>1, <2>2, WithoutTabShrinks DEF Shrunk
<1>5. TabsOf(n) = TabsOf(m) \ {t}
    <2>1. ASSUME NEW u
          PROVE  u \in TabsOf(n) <=> u \in TabsOf(m) /\ u # t
        <3>1. u \in TabsOf(n) <=> \E w \in DOMAIN n.windows : u \in ToSet(n.windows[w].tabs)
            BY TabsOfIs
        <3>2. u \in TabsOf(m) <=> \E w \in DOMAIN m.windows : u \in ToSet(m.windows[w].tabs)
            BY TabsOfIs
        <3>3. QED
            BY <3>1, <3>2, <1>3, <1>4
    <2>2. QED
        BY <2>1
<1>6. \A v, w \in DOMAIN n.windows :
        v # w => ToSet(n.windows[v].tabs) \cap ToSet(n.windows[w].tabs) = {}
    BY <1>3, <1>4 DEF Sound
<1>7. \A s, u \in TabIds : s # u => n.tree[s] \cap n.tree[u] = {}
    BY <1>1, <1>2 DEF Sound
<1>8. TabsOf(n) \subseteq n.tabs
    BY <1>1, <1>5 DEF Sound
<1>9. QED
    BY <1>1, <1>3, <1>4, <1>5, <1>6, <1>7, <1>8 DEF Sound, n

LEMMA RemoveTabRemoves ==
    ASSUME NEW m, Sound(m), NEW t
    PROVE  LET n == RemoveTabInternal(m, t)
           IN  /\ Removes(m, n)
               /\ DOMAIN n.windows = DOMAIN m.windows
               /\ SameRest(m, n)
               /\ Counted(m) => Counted(n)
               /\ t \in m.tabs => n.tree[t] = {}
               /\ \A ps : HeldBut(m, ps) => HeldBut(n, ps)
<1>1. CASE t \notin m.tabs
    <2>1. RemoveTabInternal(m, t) = m
        BY <1>1 DEF RemoveTabInternal
    <2>2. QED
        BY <1>1, <2>1, RemovesSelf DEF SameRest
<1>2. CASE t \in m.tabs
    <2>. DEFINE n == RemoveTabInternal(m, t)
    <2>1. /\ n \in MuxRecord
          /\ n.tabs = m.tabs \ {t} /\ n.panes = m.panes \ m.tree[t]
          /\ n.tree = [m.tree EXCEPT ![t] = {}]
          /\ n.windows = [w \in DOMAIN m.windows |-> WithoutTab(m.windows[w], t)]
          /\ SameRest(m, n)
          /\ n.unannounced => m.unannounced \/ n.panes = {}
          /\ n.vacant <=> PlacedPanes(n) = {}
        BY <1>2, RemoveTabInternalIs
    <2>2. Sound(n) /\ TabsOf(n) = TabsOf(m) \ {t}
        BY <1>2, RemoveTabSound
    <2>3. m.tree \in [TabIds -> SUBSET PaneIds] /\ t \in TabIds
        BY <1>2 DEF Sound, MuxRecord
    <2>. HIDE DEF n
    <2>4. n.tree[t] = {} /\ \A u \in TabIds : u # t => n.tree[u] = m.tree[u]
        BY <2>1, <2>3
    <2>5. DOMAIN n.windows = DOMAIN m.windows
        BY <2>1
    <2>6. ASSUME NEW w \in DOMAIN n.windows PROVE Shrunk(m.windows[w], n.windows[w])
        BY <2>1, <2>5, WindowsOfSound, WithoutTabShrinks
    <2>7. Removes(m, n)
        BY <2>1, <2>2, <2>4, <2>5, <2>6 DEF Removes, SameRest
    <2>8. Counted(m) => Counted(n)
        <3>1. DOMAIN n.windows = {} => PlacedPanes(n) = {}
            BY PlacedIs, TabsOfIs
        <3>2. QED
            BY <2>1, <3>1 DEF Counted
    <2>9. ASSUME NEW ps, HeldBut(m, ps) PROVE HeldBut(n, ps)
        <3>1. ASSUME NEW p \in n.panes
              PROVE  p \in PlacedPanes(n) \/ p \in n.removals \/ p \in n.stranded \/ p \in ps
            <4>1. p \in m.panes /\ p \notin m.tree[t]
                BY <2>1
            <4>2. CASE p \in PlacedPanes(m)
                <5>1. PICK u \in TabsOf(m) : p \in m.tree[u]
                    BY <4>2, PlacedIs
                <5>2. u # t /\ u \in TabIds
                    BY <4>1, <5>1, TabsOfAreTabs DEF Sound
                <5>3. u \in TabsOf(n) /\ p \in n.tree[u]
                    BY <2>2, <2>4, <5>1, <5>2
                <5>4. QED
                    BY <5>3, PlacedIs
            <4>3. CASE p \notin PlacedPanes(m)
                BY <4>1, <4>3, <2>1, <2>9 DEF HeldBut, SameRest
            <4>4. QED
                BY <4>2, <4>3
        <3>2. QED
            BY <3>1 DEF HeldBut
    <2>10. QED
        BY <1>2, <2>1, <2>4, <2>5, <2>7, <2>8, <2>9 DEF n
<1>3. QED
    BY <1>1, <1>2

-------------------------------------------------------------------------------
\* Several tabs.

\* What the removal of tabs does, of one or of many
RemovesTabs(m, n) ==
    /\ Removes(m, n) /\ SameRest(m, n)
    /\ DOMAIN n.windows = DOMAIN m.windows
    /\ Counted(m) => Counted(n)
    /\ \A ps : HeldBut(m, ps) => HeldBut(n, ps)
    /\ \A t \in n.tabs : n.tree[t] = m.tree[t]
    /\ \A t \in m.tabs \ n.tabs : n.tree[t] = {} /\ n.panes \cap m.tree[t] = {}
    /\ EmptyIsCounted(m) \/ n.tabs # m.tabs => EmptyIsCounted(n)
    /\ (\A t \in m.tabs \ n.tabs : t \notin TabsOf(m)) => n.windows = m.windows

LEMMA RemovesTabsSelf ==
    ASSUME NEW m, Sound(m) PROVE RemovesTabs(m, m)
    BY RemovesSelf DEF RemovesTabs, SameRest

LEMMA RemovesTabsTwice ==
    ASSUME NEW k, NEW m, NEW n, RemovesTabs(k, m), RemovesTabs(m, n), Sound(k)
    PROVE  RemovesTabs(k, n)
<1>1. Removes(k, n)
    BY RemovesTwice DEF RemovesTabs
<1>2. SameRest(k, n)
    BY DEF RemovesTabs, SameRest
<1>3. /\ DOMAIN n.windows = DOMAIN k.windows
      /\ Counted(k) => Counted(n)
      /\ \A ps : HeldBut(k, ps) => HeldBut(n, ps)
    BY DEF RemovesTabs
<1>4. n.tabs \subseteq m.tabs /\ m.tabs \subseteq k.tabs /\ k.tabs \subseteq TabIds
      /\ n.panes \subseteq m.panes /\ \A t \in TabIds : n.tree[t] \subseteq m.tree[t]
    BY DEF RemovesTabs, Removes, Sound, MuxRecord
<1>5. \A t \in n.tabs : n.tree[t] = k.tree[t]
    BY <1>4 DEF RemovesTabs
<1>6. ASSUME NEW t \in k.tabs \ n.tabs
      PROVE  n.tree[t] = {} /\ n.panes \cap k.tree[t] = {}
    <2>1. CASE t \in m.tabs
        <3>1. m.tree[t] = k.tree[t]
            BY <2>1 DEF RemovesTabs
        <3>2. n.tree[t] = {} /\ n.panes \cap m.tree[t] = {}
            BY <2>1, <1>6 DEF RemovesTabs
        <3>3. QED
            BY <3>1, <3>2
    <2>2. CASE t \notin m.tabs
        <3>1. m.tree[t] = {} /\ m.panes \cap k.tree[t] = {}
            BY <2>2, <1>6 DEF RemovesTabs
        <3>2. n.tree[t] \subseteq m.tree[t]
            BY <1>4
        <3>3. QED
            BY <3>1, <3>2, <1>4
    <2>3. QED
        BY <2>1, <2>2
<1>7. EmptyIsCounted(k) \/ n.tabs # k.tabs => EmptyIsCounted(n)
    <2>1. EmptyIsCounted(k) \/ m.tabs # k.tabs => EmptyIsCounted(m)
        BY DEF RemovesTabs
    <2>2. EmptyIsCounted(m) \/ n.tabs # m.tabs => EmptyIsCounted(n)
        BY DEF RemovesTabs
    <2>3. QED
        BY <2>1, <2>2
<1>8. ASSUME \A t \in k.tabs \ n.tabs : t \notin TabsOf(k)
      PROVE  n.windows = k.windows
    <2>1. m.windows = k.windows
        BY <1>8, <1>4 DEF RemovesTabs
    <2>2. TabsOf(m) = TabsOf(k)
        BY <2>1, SameTabs
    <2>3. \A t \in m.tabs \ n.tabs : t \notin TabsOf(m)
        BY <1>8, <1>4, <2>2
    <2>4. n.windows = m.windows
        BY <2>3 DEF RemovesTabs
    <2>5. QED
        BY <2>1, <2>4
<1>9. QED
    BY <1>1, <1>2, <1>3, <1>5, <1>6, <1>7, <1>8 DEF RemovesTabs

LEMMA RemoveTabRemovesTabs ==
    ASSUME NEW m, Sound(m), NEW t
    PROVE  LET n == RemoveTabInternal(m, t)
           IN  RemovesTabs(m, n) /\ n.tabs = m.tabs \ {t}
<1>1. CASE t \notin m.tabs
    <2>1. RemoveTabInternal(m, t) = m
        BY <1>1 DEF RemoveTabInternal
    <2>2. QED
        BY <1>1, <2>1, RemovesTabsSelf
<1>2. CASE t \in m.tabs
    <2>. DEFINE n == RemoveTabInternal(m, t)
    <2>1. /\ n.tabs = m.tabs \ {t} /\ n.panes = m.panes \ m.tree[t]
          /\ n.tree = [m.tree EXCEPT ![t] = {}]
          /\ n.windows = [w \in DOMAIN m.windows |-> WithoutTab(m.windows[w], t)]
          /\ n.vacant <=> PlacedPanes(n) = {}
        BY <1>2, RemoveTabInternalIs
    <2>2. /\ Removes(m, n) /\ SameRest(m, n)
          /\ DOMAIN n.windows = DOMAIN m.windows
          /\ Counted(m) => Counted(n)
          /\ \A ps : HeldBut(m, ps) => HeldBut(n, ps)
        BY RemoveTabRemoves
    <2>3. m.tree \in [TabIds -> SUBSET PaneIds] /\ m.tabs \subseteq TabIds
        BY DEF Sound, MuxRecord
    <2>. HIDE DEF n
    <2>4. n.tree[t] = {} /\ \A u \in TabIds : u # t => n.tree[u] = m.tree[u]
        BY <2>1, <2>3, <1>2
    <2>5. \A u \in n.tabs : n.tree[u] = m.tree[u]
        BY <2>1, <2>3, <2>4
    <2>6. \A u \in m.tabs \ n.tabs : n.tree[u] = {} /\ n.panes \cap m.tree[u] = {}
        BY <2>1, <2>4
    <2>7. EmptyIsCounted(n)
        BY <2>1 DEF EmptyIsCounted
    <2>8. ASSUME \A u \in m.tabs \ n.tabs : u \notin TabsOf(m)
          PROVE  n.windows = m.windows
        <3>1. t \notin TabsOf(m)
            BY <2>8, <2>1, <1>2
        <3>2. ASSUME NEW w \in DOMAIN m.windows PROVE n.windows[w] = m.windows[w]
            <4>1. t \notin ToSet(m.windows[w].tabs)
                BY <3>1, TabsOfIs
            <4>2. QED
                BY <4>1, <2>1, WindowsOfSound, WithoutTabShrinks
        <3>3. m.windows = [w \in DOMAIN m.windows |-> m.windows[w]]
            BY WindowsAre DEF Sound, MuxRecord
        <3>4. n.windows = [w \in DOMAIN m.windows |-> n.windows[w]]
            BY <2>1
        <3>5. QED
            BY <3>2, <3>3, <3>4
    <2>9. QED
        BY <2>1, <2>2, <2>5, <2>6, <2>7, <2>8 DEF RemovesTabs, n
<1>3. QED
    BY <1>1, <1>2

\* The steps of RemoveTabs
RemovingTabs(m, tabs, n, f) ==
    f = [i \in 0..n |->
            IF i = 0 THEN m ELSE RemoveTabInternal(f[i - 1], tabs[i])]

LEMMA RemovingTabsExist ==
    ASSUME NEW m, NEW tabs, NEW N \in Nat
    PROVE  \E f : RemovingTabs(m, tabs, N, f)
<1>. DEFINE S == {n \in 0..N : \E f : RemovingTabs(m, tabs, n, f)}
<1>1. 0 \in S
    <2>1. RemovingTabs(m, tabs, 0, [i \in 0..0 |-> m])
        BY DEF RemovingTabs
    <2>2. QED
        BY <2>1
<1>2. ASSUME NEW n \in 1..N, n - 1 \in S PROVE n \in S
    <2>1. PICK f : RemovingTabs(m, tabs, n - 1, f)
        BY <1>2
    <2>. DEFINE g == [i \in 0..n |-> IF i = n THEN RemoveTabInternal(f[n - 1], tabs[n])
                                    ELSE f[i]]
    <2>2. \A i \in 0..n - 1 :
            f[i] = IF i = 0 THEN m ELSE RemoveTabInternal(f[i - 1], tabs[i])
        BY <2>1 DEF RemovingTabs
    <2>3. ASSUME NEW i \in 0..n
          PROVE  g[i] = IF i = 0 THEN m ELSE RemoveTabInternal(g[i - 1], tabs[i])
        <3>1. CASE i = n
            <4>1. i # 0 /\ g[i - 1] = f[n - 1]
                BY <3>1
            <4>2. QED
                BY <4>1, <3>1
        <3>2. CASE i # n
            <4>1. i \in 0..n - 1 /\ g[i] = f[i] /\ (i # 0 => g[i - 1] = f[i - 1])
                BY <3>2
            <4>2. QED
                BY <4>1, <2>2
        <3>3. QED
            BY <3>1, <3>2
    <2>4. g = [i \in 0..n |-> g[i]]
        OBVIOUS
    <2>. HIDE DEF g
    <2>5. RemovingTabs(m, tabs, n, g)
        BY <2>3, <2>4 DEF RemovingTabs
    <2>6. QED
        BY <2>5
<1>3. \A n \in 0..N : n \in S
  <2>. HIDE DEF S
  <2>. QED
    BY <1>1, <1>2, UpTo
<1>4. QED
    BY <1>3

LEMMA RemoveTabsSteps ==
    ASSUME NEW m, NEW tabs, Len(tabs) \in Nat
    PROVE  \E f : /\ RemovingTabs(m, tabs, Len(tabs), f)
                  /\ RemoveTabs(m, tabs) = f[Len(tabs)]
<1>. DEFINE left == CHOOSE f : RemovingTabs(m, tabs, Len(tabs), f)
<1>1. RemovingTabs(m, tabs, Len(tabs), left)
    BY RemovingTabsExist
<1>2. RemoveTabs(m, tabs) = left[Len(tabs)]
    BY DEF RemoveTabs, RemovingTabs
<1>3. QED
    BY <1>1, <1>2

LEMMA RemoveTabsRemoves ==
    ASSUME NEW m, Sound(m), NEW tabs, Len(tabs) \in Nat
    PROVE  LET n == RemoveTabs(m, tabs)
           IN  RemovesTabs(m, n) /\ n.tabs = m.tabs \ {tabs[j] : j \in 1..Len(tabs)}
<1>. DEFINE N == Len(tabs)
            First(i) == {tabs[j] : j \in 1..i}
<1>1. PICK f : RemovingTabs(m, tabs, N, f) /\ RemoveTabs(m, tabs) = f[N]
    BY RemoveTabsSteps
<1>2. \A i \in 0..N : f[i] = IF i = 0 THEN m ELSE RemoveTabInternal(f[i - 1], tabs[i])
    BY <1>1 DEF RemovingTabs
<1>. DEFINE S == {i \in 0..N : RemovesTabs(m, f[i]) /\ f[i].tabs = m.tabs \ First(i)}
<1>3. 0 \in S
    <2>1. f[0] = m /\ First(0) = {}
        BY <1>2
    <2>2. QED
        BY <2>1, RemovesTabsSelf
<1>4. ASSUME NEW i \in 1..N, i - 1 \in S PROVE i \in S
    <2>. DEFINE u == f[i - 1]
    <2>1. RemovesTabs(m, u) /\ u.tabs = m.tabs \ First(i - 1) /\ Sound(u)
        BY <1>4 DEF RemovesTabs, Removes
    <2>2. f[i] = RemoveTabInternal(u, tabs[i])
        BY <1>2
    <2>3. First(i) = First(i - 1) \cup {tabs[i]}
        <3>1. \A j \in 1..i : j \in 1..i - 1 \/ j = i
            OBVIOUS
        <3>2. 1..i - 1 \subseteq 1..i /\ i \in 1..i
            OBVIOUS
        <3>3. QED
            BY <3>1, <3>2
    <2>. HIDE DEF u, First
    <2>4. RemovesTabs(u, f[i]) /\ f[i].tabs = u.tabs \ {tabs[i]}
        BY <2>1, <2>2, RemoveTabRemovesTabs
    <2>5. RemovesTabs(m, f[i])
        BY <2>1, <2>4, RemovesTabsTwice
    <2>6. QED
        BY <2>1, <2>3, <2>4, <2>5
<1>5. N \in S
    <2>. HIDE DEF S
    <2>1. \A i \in 0..N : i \in S
        BY <1>3, <1>4, UpTo
    <2>2. QED
        BY <2>1
<1>6. QED
    BY <1>1, <1>5

-------------------------------------------------------------------------------
\* Windows.

\* What the removal of windows does, of one or of many: the others are as before.
RemovesWindows(m, n) ==
    /\ Removes(m, n) /\ SameRest(m, n)
    /\ Counted(m) => Counted(n)
    /\ \A ps : HeldBut(m, ps) => HeldBut(n, ps)
    /\ EmptyIsCounted(m) \/ DOMAIN n.windows # DOMAIN m.windows => EmptyIsCounted(n)
    /\ \A w \in DOMAIN n.windows : n.windows[w] = m.windows[w]
    /\ \A t \in n.tabs : n.tree[t] = m.tree[t]

LEMMA RemovesWindowsSelf ==
    ASSUME NEW m, Sound(m) PROVE RemovesWindows(m, m)
    BY RemovesSelf DEF RemovesWindows, SameRest

LEMMA RemovesWindowsTwice ==
    ASSUME NEW k, NEW m, NEW n, RemovesWindows(k, m), RemovesWindows(m, n), Sound(k)
    PROVE  RemovesWindows(k, n)
<1>1. Removes(k, n)
    BY RemovesTwice DEF RemovesWindows
<1>2. SameRest(k, n)
    BY DEF RemovesWindows, SameRest
<1>3. /\ Counted(k) => Counted(n)
      /\ \A ps : HeldBut(k, ps) => HeldBut(n, ps)
    BY DEF RemovesWindows
<1>4. EmptyIsCounted(k) \/ DOMAIN n.windows # DOMAIN k.windows => EmptyIsCounted(n)
    <2>1. EmptyIsCounted(k) \/ DOMAIN m.windows # DOMAIN k.windows => EmptyIsCounted(m)
        BY DEF RemovesWindows
    <2>2. EmptyIsCounted(m) \/ DOMAIN n.windows # DOMAIN m.windows => EmptyIsCounted(n)
        BY DEF RemovesWindows
    <2>3. QED
        BY <2>1, <2>2
<1>5. \A w \in DOMAIN n.windows : n.windows[w] = k.windows[w]
    BY DEF RemovesWindows, Removes
<1>6. \A t \in n.tabs : n.tree[t] = k.tree[t]
    BY DEF RemovesWindows, Removes
<1>7. QED
    BY <1>1, <1>2, <1>3, <1>4, <1>5, <1>6 DEF RemovesWindows

LEMMA RecountedRemoves ==
    ASSUME NEW m, Sound(m)
    PROVE  /\ RemovesWindows(m, Recounted(m))
           /\ EmptyIsCounted(Recounted(m)) /\ Counted(Recounted(m))
<1>. DEFINE n == Recounted(m)
<1>1. /\ n \in MuxRecord
      /\ n.tabs = m.tabs /\ n.panes = m.panes /\ n.tree = m.tree /\ n.windows = m.windows
      /\ SameRest(m, n) /\ n.unannounced = m.unannounced
      /\ n.vacant <=> PlacedPanes(m) = {}
    BY RecountedIs DEF Sound
<1>. HIDE DEF n
<1>2. TabsOf(n) = TabsOf(m) /\ PlacedPanes(n) = PlacedPanes(m)
    BY <1>1, SameTabs, SamePlaced
<1>3. Sound(n)
    BY <1>1, <1>2 DEF Sound
<1>4. \A w \in DOMAIN n.windows : Shrunk(m.windows[w], n.windows[w])
    BY <1>1, WindowsOfSound, ShrunkSelf
<1>5. Removes(m, n)
    BY <1>1, <1>2, <1>3, <1>4 DEF Removes, SameRest
<1>6. EmptyIsCounted(n)
    BY <1>1, <1>2 DEF EmptyIsCounted
<1>7. Counted(n)
    <2>1. DOMAIN n.windows = {} => PlacedPanes(n) = {}
        BY PlacedIs, TabsOfIs
    <2>2. QED
        BY <1>1, <1>2, <2>1 DEF Counted
<1>8. \A ps : HeldBut(m, ps) => HeldBut(n, ps)
    BY <1>1, <1>2 DEF HeldBut, SameRest
<1>9. QED
    BY <1>1, <1>5, <1>6, <1>7, <1>8 DEF RemovesWindows, n

\* The first half of remove_window_internal: the window goes, its tabs stay.
LEMMA WindowGone ==
    ASSUME NEW m, Sound(m), NEW w \in DOMAIN m.windows
    PROVE  LET k == [m EXCEPT !.windows = [v \in DOMAIN @ \ {w} |-> @[v]]]
               tabs == m.windows[w].tabs
           IN  /\ Sound(k) /\ SameRest(m, k)
               /\ k.tabs = m.tabs /\ k.panes = m.panes /\ k.tree = m.tree
               /\ k.unannounced = m.unannounced
               /\ DOMAIN k.windows = DOMAIN m.windows \ {w}
               /\ \A v \in DOMAIN k.windows : k.windows[v] = m.windows[v]
               /\ TabsOf(m) = TabsOf(k) \cup ToSet(tabs)
               /\ TabsOf(k) \cap ToSet(tabs) = {}
               /\ ToSet(tabs) \subseteq m.tabs
<1>. DEFINE ws == [v \in DOMAIN m.windows \ {w} |-> m.windows[v]]
            k == [m EXCEPT !.windows = ws]
            tabs == m.windows[w].tabs
<1>1. ws \in Windows
    BY WindowsAre, WindowsOfSound
<1>2. DOMAIN ws = DOMAIN m.windows \ {w} /\ \A v \in DOMAIN ws : ws[v] = m.windows[v]
    OBVIOUS
<1>3. m \in MuxRecord
    BY DEF Sound
<1>. HIDE DEF ws
<1>4. /\ k \in MuxRecord /\ k.windows = ws
      /\ k.tabs = m.tabs /\ k.panes = m.panes /\ k.tree = m.tree
      /\ k.unannounced = m.unannounced /\ SameRest(m, k)
    BY <1>1, <1>3 DEF MuxRecord, SameRest
<1>. HIDE DEF k
<1>5. ASSUME NEW t
      PROVE  /\ t \in TabsOf(m) <=> t \in TabsOf(k) \/ t \in ToSet(tabs)
             /\ ~ (t \in TabsOf(k) /\ t \in ToSet(tabs))
    <2>1. t \in TabsOf(k) <=> \E v \in DOMAIN m.windows \ {w} : t \in ToSet(m.windows[v].tabs)
        BY <1>2, <1>4, TabsOfIs
    <2>2. t \in TabsOf(m) <=> \E v \in DOMAIN m.windows : t \in ToSet(m.windows[v].tabs)
        BY TabsOfIs
    <2>3. t \in ToSet(tabs) =>
            \A v \in DOMAIN m.windows \ {w} : t \notin ToSet(m.windows[v].tabs)
        BY DEF Sound
    <2>. HIDE DEF tabs
    <2>4. (t \in TabsOf(m) <=> t \in TabsOf(k) \/ t \in ToSet(tabs))
        BY <2>1, <2>2 DEF tabs
    <2>5. QED
        BY <2>1, <2>3, <2>4
<1>6. /\ TabsOf(m) = TabsOf(k) \cup ToSet(tabs)
      /\ TabsOf(k) \cap ToSet(tabs) = {}
    BY <1>5
<1>7. ToSet(tabs) \subseteq m.tabs /\ TabsOf(k) \subseteq k.tabs
    BY <1>4, <1>6 DEF Sound
<1>8. Sound(k)
    BY <1>2, <1>4, <1>7 DEF Sound
<1>9. QED
    BY <1>2, <1>4, <1>6, <1>7, <1>8 DEF k, ws

LEMMA RemoveWindowRemoves ==
    ASSUME NEW m, Sound(m), NEW w
    PROVE  LET n == RemoveWindowInternal(m, w)
           IN  /\ RemovesWindows(m, n) /\ Counted(n) /\ EmptyIsCounted(n)
               /\ DOMAIN n.windows = DOMAIN m.windows \ {w}
<1>1. CASE w \notin DOMAIN m.windows
    <2>1. RemoveWindowInternal(m, w) = Recounted(m)
        BY <1>1 DEF RemoveWindowInternal
    <2>2. Recounted(m).windows = m.windows
        BY RecountedIs DEF Sound
    <2>3. QED
        BY <1>1, <2>1, <2>2, RecountedRemoves
<1>2. CASE w \in DOMAIN m.windows
    <2>. DEFINE k == [m EXCEPT !.windows = [v \in DOMAIN @ \ {w} |-> @[v]]]
                tabs == m.windows[w].tabs
                r == RemoveTabs(k, tabs)
                n == Recounted(r)
    <2>1. RemoveWindowInternal(m, w) = n
        BY <1>2 DEF RemoveWindowInternal
    <2>2. /\ Sound(k) /\ SameRest(m, k)
          /\ k.tabs = m.tabs /\ k.panes = m.panes /\ k.tree = m.tree
          /\ k.unannounced = m.unannounced
          /\ DOMAIN k.windows = DOMAIN m.windows \ {w}
          /\ \A v \in DOMAIN k.windows : k.windows[v] = m.windows[v]
          /\ TabsOf(m) = TabsOf(k) \cup ToSet(tabs)
          /\ TabsOf(k) \cap ToSet(tabs) = {}
          /\ ToSet(tabs) \subseteq m.tabs
        BY <1>2, WindowGone
    <2>3. tabs \in Seq(TabIds)
        BY <1>2, WindowsOfSound DEF Window
    <2>. HIDE DEF k, tabs
    <2>4. ToSet(tabs) = {tabs[j] : j \in 1..Len(tabs)} /\ Len(tabs) \in Nat
        BY <2>3, ElementsOf
    <2>5. RemovesTabs(k, r) /\ r.tabs = k.tabs \ ToSet(tabs)
        BY <2>2, <2>4, RemoveTabsRemoves
    <2>. HIDE DEF r
    <2>6. Sound(r)
        BY <2>5 DEF RemovesTabs, Removes
    <2>7. RemovesWindows(r, n) /\ Counted(n) /\ EmptyIsCounted(n) /\ n.windows = r.windows
        BY <2>6, RecountedRemoves, RecountedIs DEF Sound
    <2>. HIDE DEF n
    <2>8. r.windows = k.windows
        <3>1. \A t \in k.tabs \ r.tabs : t \notin TabsOf(k)
            BY <2>2, <2>5
        <3>2. QED
            BY <2>5, <3>1 DEF RemovesTabs
    <2>9. Removes(k, n)
        BY <2>2, <2>5, <2>7, RemovesTwice DEF RemovesTabs, RemovesWindows
    <2>10. \A t \in ToSet(tabs) : n.tree[t] = {} /\ n.panes \cap m.tree[t] = {}
        <3>1. ASSUME NEW t \in ToSet(tabs)
              PROVE  n.tree[t] = {} /\ n.panes \cap m.tree[t] = {}
            <4>1. t \in k.tabs \ r.tabs /\ t \in TabIds
                BY <2>2, <2>3, <2>5, ElementsOf
            <4>2. r.tree[t] = {} /\ r.panes \cap k.tree[t] = {}
                BY <4>1, <2>5 DEF RemovesTabs
            <4>3. n.tree[t] \subseteq r.tree[t] /\ n.panes \subseteq r.panes
                BY <4>1, <2>7 DEF RemovesWindows, Removes
            <4>4. QED
                BY <4>2, <4>3, <2>2
        <3>2. QED
            BY <3>1
    <2>11. ASSUME NEW t \in TabsOf(m) PROVE t \in TabsOf(n) \/ n.tree[t] = {}
        <3>1. CASE t \in TabsOf(k)
            BY <3>1, <2>9 DEF Removes
        <3>2. CASE t \in ToSet(tabs)
            BY <3>2, <2>10
        <3>3. QED
            BY <3>1, <3>2, <2>2
    <2>12. DOMAIN n.windows = DOMAIN m.windows \ {w}
           /\ \A v \in DOMAIN n.windows : n.windows[v] = m.windows[v]
        BY <2>2, <2>7, <2>8
    <2>13. \A v \in DOMAIN n.windows : Shrunk(m.windows[v], n.windows[v])
        BY <2>12, WindowsOfSound, ShrunkSelf
    <2>14. SameRest(m, n)
        BY <2>2, <2>5, <2>7 DEF RemovesTabs, RemovesWindows, SameRest
    <2>15. Removes(m, n)
        BY <2>2, <2>9, <2>11, <2>12, <2>13, <2>14 DEF Removes, SameRest
    <2>16. ASSUME NEW ps, HeldBut(m, ps) PROVE HeldBut(n, ps)
        <3>. DEFINE qs == UNION {m.tree[t] : t \in ToSet(tabs)}
        <3>1. ASSUME NEW p \in k.panes
              PROVE  \/ p \in PlacedPanes(k) \/ p \in k.removals \/ p \in k.stranded
                     \/ p \in ps \cup qs
            <4>1. p \in m.panes
                BY <2>2
            <4>2. CASE p \in PlacedPanes(m)
                <5>1. PICK t \in TabsOf(m) : p \in m.tree[t]
                    BY <4>2, PlacedIs
                <5>2. CASE t \in TabsOf(k)
                    <6>1. p \in k.tree[t]
                        BY <5>1, <2>2
                    <6>2. QED
                        BY <6>1, <5>2, PlacedIs
                <5>3. CASE t \in ToSet(tabs)
                    BY <5>1, <5>3
                <5>4. QED
                    BY <5>2, <5>3, <2>2
            <4>3. CASE p \notin PlacedPanes(m)
                BY <4>1, <4>3, <2>2, <2>16 DEF HeldBut, SameRest
            <4>4. QED
                BY <4>2, <4>3
        <3>2. n.panes \cap qs = {}
            BY <2>10
        <3>. HIDE DEF qs
        <3>3. HeldBut(k, ps \cup qs)
            BY <3>1 DEF HeldBut
        <3>4. HeldBut(r, ps \cup qs)
            BY <3>3, <2>5 DEF RemovesTabs
        <3>5. HeldBut(n, ps \cup qs)
            BY <3>4, <2>7 DEF RemovesWindows
        <3>6. QED
            BY <3>5, <3>2 DEF HeldBut
    <2>17. \A t \in n.tabs : n.tree[t] = m.tree[t]
        <3>1. n.tabs \subseteq r.tabs /\ \A t \in n.tabs : n.tree[t] = r.tree[t]
            BY <2>7 DEF RemovesWindows, Removes
        <3>2. \A t \in r.tabs : r.tree[t] = m.tree[t]
            BY <2>2, <2>5 DEF RemovesTabs
        <3>3. QED
            BY <3>1, <3>2
    <2>18. QED
        BY <2>1, <2>7, <2>12, <2>14, <2>15, <2>16, <2>17 DEF RemovesWindows
<1>3. QED
    BY <1>1, <1>2

\* The steps of RemoveWindows
RemovingWindows(m, windows, n, f) ==
    f = [i \in 0..n |->
            IF i = 0 THEN m ELSE RemoveWindowInternal(f[i - 1], windows[i])]

LEMMA RemovingWindowsExist ==
    ASSUME NEW m, NEW windows, NEW N \in Nat
    PROVE  \E f : RemovingWindows(m, windows, N, f)
<1>. DEFINE S == {n \in 0..N : \E f : RemovingWindows(m, windows, n, f)}
<1>1. 0 \in S
    <2>1. RemovingWindows(m, windows, 0, [i \in 0..0 |-> m])
        BY DEF RemovingWindows
    <2>2. QED
        BY <2>1
<1>2. ASSUME NEW n \in 1..N, n - 1 \in S PROVE n \in S
    <2>1. PICK f : RemovingWindows(m, windows, n - 1, f)
        BY <1>2
    <2>. DEFINE g == [i \in 0..n |-> IF i = n THEN RemoveWindowInternal(f[n - 1], windows[n])
                                    ELSE f[i]]
    <2>2. \A i \in 0..n - 1 :
            f[i] = IF i = 0 THEN m ELSE RemoveWindowInternal(f[i - 1], windows[i])
        BY <2>1 DEF RemovingWindows
    <2>3. ASSUME NEW i \in 0..n
          PROVE  g[i] = IF i = 0 THEN m ELSE RemoveWindowInternal(g[i - 1], windows[i])
        <3>1. CASE i = n
            <4>1. i # 0 /\ g[i - 1] = f[n - 1]
                BY <3>1
            <4>2. QED
                BY <4>1, <3>1
        <3>2. CASE i # n
            <4>1. i \in 0..n - 1 /\ g[i] = f[i] /\ (i # 0 => g[i - 1] = f[i - 1])
                BY <3>2
            <4>2. QED
                BY <4>1, <2>2
        <3>3. QED
            BY <3>1, <3>2
    <2>4. g = [i \in 0..n |-> g[i]]
        OBVIOUS
    <2>. HIDE DEF g
    <2>5. RemovingWindows(m, windows, n, g)
        BY <2>3, <2>4 DEF RemovingWindows
    <2>6. QED
        BY <2>5
<1>3. \A n \in 0..N : n \in S
  <2>. HIDE DEF S
  <2>. QED
    BY <1>1, <1>2, UpTo
<1>4. QED
    BY <1>3

LEMMA RemoveWindowsSteps ==
    ASSUME NEW m, NEW windows, Len(windows) \in Nat
    PROVE  \E f : /\ RemovingWindows(m, windows, Len(windows), f)
                  /\ RemoveWindows(m, windows) = f[Len(windows)]
<1>. DEFINE left == CHOOSE f : RemovingWindows(m, windows, Len(windows), f)
<1>1. RemovingWindows(m, windows, Len(windows), left)
    BY RemovingWindowsExist
<1>2. RemoveWindows(m, windows) = left[Len(windows)]
    BY DEF RemoveWindows, RemovingWindows
<1>3. QED
    BY <1>1, <1>2

LEMMA RemoveWindowsRemoves ==
    ASSUME NEW m, Sound(m), NEW windows, Len(windows) \in Nat
    PROVE  LET n == RemoveWindows(m, windows)
           IN  /\ RemovesWindows(m, n)
               /\ DOMAIN n.windows = DOMAIN m.windows \ {windows[j] : j \in 1..Len(windows)}
<1>. DEFINE N == Len(windows)
            First(i) == {windows[j] : j \in 1..i}
<1>1. PICK f : RemovingWindows(m, windows, N, f) /\ RemoveWindows(m, windows) = f[N]
    BY RemoveWindowsSteps
<1>2. \A i \in 0..N :
        f[i] = IF i = 0 THEN m ELSE RemoveWindowInternal(f[i - 1], windows[i])
    BY <1>1 DEF RemovingWindows
<1>. DEFINE S == {i \in 0..N : /\ RemovesWindows(m, f[i])
                               /\ DOMAIN f[i].windows = DOMAIN m.windows \ First(i)}
<1>3. 0 \in S
    <2>1. f[0] = m /\ First(0) = {}
        BY <1>2
    <2>2. QED
        BY <2>1, RemovesWindowsSelf
<1>4. ASSUME NEW i \in 1..N, i - 1 \in S PROVE i \in S
    <2>. DEFINE u == f[i - 1]
    <2>1. /\ RemovesWindows(m, u) /\ Sound(u)
          /\ DOMAIN u.windows = DOMAIN m.windows \ First(i - 1)
        BY <1>4 DEF RemovesWindows, Removes
    <2>2. f[i] = RemoveWindowInternal(u, windows[i])
        BY <1>2
    <2>3. First(i) = First(i - 1) \cup {windows[i]}
        <3>1. \A j \in 1..i : j \in 1..i - 1 \/ j = i
            OBVIOUS
        <3>2. 1..i - 1 \subseteq 1..i /\ i \in 1..i
            OBVIOUS
        <3>3. QED
            BY <3>1, <3>2
    <2>. HIDE DEF u, First
    <2>4. /\ RemovesWindows(u, f[i])
          /\ DOMAIN f[i].windows = DOMAIN u.windows \ {windows[i]}
        BY <2>1, <2>2, RemoveWindowRemoves
    <2>5. RemovesWindows(m, f[i])
        BY <2>1, <2>4, RemovesWindowsTwice
    <2>6. QED
        BY <2>1, <2>3, <2>4, <2>5
<1>5. N \in S
    <2>. HIDE DEF S
    <2>1. \A i \in 0..N : i \in S
        BY <1>3, <1>4, UpTo
    <2>2. QED
        BY <2>1
<1>6. QED
    BY <1>1, <1>5

LEMMA SetToSeqIs ==
    ASSUME NEW S, IsFiniteSet(S)
    PROVE  /\ Len(SetToSeq(S)) \in Nat
           /\ {SetToSeq(S)[j] : j \in 1..Len(SetToSeq(S))} = S
<1>. DEFINE n == Cardinality(S)
            s == SetToSeq(S)
<1>1. n \in Nat /\ ExistsBijection(1..n, S)
    BY FS_CardinalityType
<1>2. PICK f : f \in Bijection(1..n, S)
    BY <1>1 DEF ExistsBijection
<1>3. f \in [1..n -> S] /\ IsInjective(f)
    BY <1>2 DEF Bijection, Injection, IsInjective
<1>4. s \in [1..n -> S] /\ IsInjective(s)
    BY <1>3 DEF SetToSeq
<1>. HIDE DEF s
<1>5. s \in Seq(S) /\ Len(s) = n
    BY <1>1, <1>4
<1>6. s \in Injection(1..n, S)
    BY <1>4 DEF Injection, IsInjective
<1>7. Cardinality(1..n) = n
    BY <1>1, FS_Interval
<1>8. s \in Surjection(1..n, S)
    BY <1>6, <1>7, FS_Injection
<1>9. \A e \in S : \E j \in 1..n : s[j] = e
    BY <1>8 DEF Surjection
<1>10. {s[j] : j \in 1..n} = S
    BY <1>4, <1>9
<1>11. QED
    BY <1>1, <1>5, <1>10 DEF s

-------------------------------------------------------------------------------
\* Pruning.

Pruned(m, skipped, t) == IF t \in TabsOf(m) THEN Prunable(m, t) \ skipped ELSE {}

\* prune_dead_panes: what leaves a tab will be removed.
LEMMA PrunePanesKeeps ==
    ASSUME NEW m, Sound(m), NEW skipped
    PROVE  LET k == PrunePanes(m, skipped)
           IN  /\ Sound(k)
               /\ k.tabs = m.tabs /\ k.panes = m.panes /\ k.dead = m.dead
               /\ k.windows = m.windows /\ k.vacant = m.vacant
               /\ k.stranded = m.stranded /\ k.prune_due = m.prune_due
               /\ k.unannounced = m.unannounced
               /\ \A t \in TabIds : k.tree[t] = m.tree[t] \ Pruned(m, skipped, t)
               /\ m.removals \subseteq k.removals
               /\ \A t \in TabIds : Pruned(m, skipped, t) \subseteq k.removals
               /\ \A ps : HeldBut(m, ps) => HeldBut(k, ps)
<1>. DEFINE tr == [t \in TabIds |-> m.tree[t] \ Pruned(m, skipped, t)]
            rm == m.removals \cup UNION {Pruned(m, skipped, t) : t \in TabIds}
            k == [m EXCEPT !.tree = tr, !.removals = rm]
<1>1. m \in MuxRecord /\ m.tree \in [TabIds -> SUBSET PaneIds]
      /\ m.removals \subseteq PaneIds
    BY DEF Sound, MuxRecord
<1>2. PrunePanes(m, skipped) = k
    <2>. DEFINE pruned == [t \in TabIds |-> Pruned(m, skipped, t)]
    <2>1. PrunePanes(m, skipped) =
            [m EXCEPT !.tree = [t \in TabIds |-> m.tree[t] \ pruned[t]],
                      !.removals = m.removals \cup UNION {pruned[t] : t \in TabIds}]
        BY DEF PrunePanes, Pruned
    <2>2. \A t \in TabIds : pruned[t] = Pruned(m, skipped, t)
        OBVIOUS
    <2>. HIDE DEF pruned
    <2>3. [t \in TabIds |-> m.tree[t] \ pruned[t]] = tr
        BY <2>2
    <2>4. m.removals \cup UNION {pruned[t] : t \in TabIds} = rm
        BY <2>2
    <2>. HIDE DEF tr, rm
    <2>5. QED
        BY <2>1, <2>3, <2>4
<1>3. \A t \in TabIds : Pruned(m, skipped, t) \subseteq m.tree[t]
    BY DEF Pruned, Prunable
<1>4. tr \in [TabIds -> SUBSET PaneIds] /\ rm \subseteq PaneIds
    BY <1>1, <1>3
<1>5. /\ \A t \in TabIds : tr[t] = m.tree[t] \ Pruned(m, skipped, t)
      /\ m.removals \subseteq rm
      /\ \A t \in TabIds : Pruned(m, skipped, t) \subseteq rm
    OBVIOUS
<1>. HIDE DEF tr, rm
<1>6. /\ k \in MuxRecord /\ k.tree = tr /\ k.removals = rm
      /\ k.tabs = m.tabs /\ k.panes = m.panes /\ k.dead = m.dead
      /\ k.windows = m.windows /\ k.vacant = m.vacant
      /\ k.stranded = m.stranded /\ k.prune_due = m.prune_due
      /\ k.unannounced = m.unannounced
    BY <1>1, <1>4 DEF MuxRecord
<1>. HIDE DEF k
<1>7. TabsOf(k) = TabsOf(m)
    BY <1>6, SameTabs
<1>8. \A t, u \in TabIds : t # u => k.tree[t] \cap k.tree[u] = {}
    BY <1>5, <1>6 DEF Sound
<1>9. Sound(k)
    BY <1>6, <1>7, <1>8 DEF Sound
<1>10. ASSUME NEW ps, HeldBut(m, ps) PROVE HeldBut(k, ps)
    <2>1. ASSUME NEW p \in k.panes
          PROVE  p \in PlacedPanes(k) \/ p \in k.removals \/ p \in k.stranded \/ p \in ps
        <3>1. CASE p \in PlacedPanes(m)
            <4>1. PICK t \in TabsOf(m) : p \in m.tree[t]
                BY <3>1, PlacedIs
            <4>2. t \in TabIds
                BY <1>1, TabsOfAreTabs
            <4>3. p \in k.tree[t] \/ p \in k.removals
                BY <4>1, <4>2, <1>5, <1>6
            <4>4. QED
                BY <4>1, <4>3, <1>7, PlacedIs
        <3>2. CASE p \notin PlacedPanes(m)
            <4>1. p \in m.removals \/ p \in m.stranded \/ p \in ps
                BY <3>2, <1>6, <1>10 DEF HeldBut
            <4>2. QED
                BY <4>1, <1>5, <1>6
        <3>3. QED
            BY <3>1, <3>2
    <2>2. QED
        BY <2>1 DEF HeldBut
<1>11. QED
    BY <1>2, <1>5, <1>6, <1>9, <1>10

\* The rest of prune_dead_tabs
LEMMA PruneTabsKeeps ==
    ASSUME NEW k, Sound(k)
    PROVE  LET r == PruneTabs(k)
           IN  /\ Sound(r) /\ SameRest(k, r)
               /\ r.tabs = k.tabs /\ r.panes = k.panes /\ r.tree = k.tree
               /\ r.vacant = k.vacant /\ r.unannounced = k.unannounced
               /\ DOMAIN r.windows = DOMAIN k.windows
               /\ \A w \in DOMAIN r.windows : Shrunk(k.windows[w], r.windows[w])
               /\ TabsOf(r) = {t \in TabsOf(k) : ~ TabIsDead(k, t)}
<1>. DEFINE gone == {t \in TabIds : TabIsDead(k, t)}
            unknown == TabIds \ k.tabs
            once(w) == WithoutTabs(k.windows[w], gone)
            twice(w) == WithoutTabs(once(w), unknown)
            ws == [w \in DOMAIN k.windows |-> twice(w)]
            r == [k EXCEPT !.windows = ws]
<1>1. PruneTabs(k) = r
    BY DEF PruneTabs
<1>2. ASSUME NEW w \in DOMAIN k.windows
      PROVE  /\ Shrunk(k.windows[w], twice(w))
             /\ ToSet(twice(w).tabs) = {t \in ToSet(k.windows[w].tabs) : ~ TabIsDead(k, t)}
    <2>1. k.windows[w] \in Window /\ WindowOK(k.windows[w])
        BY WindowsOfSound
    <2>2. ToSet(k.windows[w].tabs) \subseteq k.tabs /\ k.tabs \subseteq TabIds
        BY TabsOfIs DEF Sound, MuxRecord
    <2>3. /\ Shrunk(k.windows[w], once(w))
          /\ ToSet(once(w).tabs) = ToSet(k.windows[w].tabs) \ gone
      <3>. HIDE DEF gone
      <3>. QED
        BY <2>1, WithoutTabsShrinks
    <2>4. once(w) \in Window /\ WindowOK(once(w))
        BY <2>3 DEF Shrunk
    <2>5. /\ Shrunk(once(w), twice(w))
          /\ ToSet(twice(w).tabs) = ToSet(once(w).tabs) \ unknown
      <3>. HIDE DEF once, unknown
      <3>. QED
        BY <2>4, WithoutTabsShrinks
    <2>6. Shrunk(k.windows[w], twice(w))
        BY <2>3, <2>5, ShrunkTwice
    <2>7. QED
        BY <2>2, <2>3, <2>5, <2>6
<1>3. DOMAIN ws = DOMAIN k.windows /\ \A w \in DOMAIN ws : ws[w] = twice(w)
    OBVIOUS
<1>4. ws \in Windows
    <2>1. \A w \in DOMAIN k.windows : twice(w) \in Window
        BY <1>2 DEF Shrunk
    <2>2. DOMAIN k.windows \subseteq WindowIds
        BY WindowsOfSound
    <2>. HIDE DEF twice
    <2>3. QED
        BY <2>1, <2>2, WindowsAre
<1>5. k \in MuxRecord
    BY DEF Sound
<1>. HIDE DEF ws
<1>6. /\ r \in MuxRecord /\ r.windows = ws /\ SameRest(k, r)
      /\ r.tabs = k.tabs /\ r.panes = k.panes /\ r.tree = k.tree
      /\ r.vacant = k.vacant /\ r.unannounced = k.unannounced
    BY <1>4, <1>5 DEF MuxRecord, SameRest
<1>. HIDE DEF r, twice
<1>7. ASSUME NEW w \in DOMAIN k.windows
      PROVE  /\ Shrunk(k.windows[w], r.windows[w])
             /\ ToSet(r.windows[w].tabs) = {t \in ToSet(k.windows[w].tabs) : ~ TabIsDead(k, t)}
    BY <1>2, <1>3, <1>6
<1>8. DOMAIN r.windows = DOMAIN k.windows
    BY <1>3, <1>6
<1>9. TabsOf(r) = {t \in TabsOf(k) : ~ TabIsDead(k, t)}
    <2>1. ASSUME NEW t PROVE t \in TabsOf(r) <=> t \in TabsOf(k) /\ ~ TabIsDead(k, t)
        <3>1. t \in TabsOf(r) <=> \E w \in DOMAIN r.windows : t \in ToSet(r.windows[w].tabs)
            BY TabsOfIs
        <3>2. t \in TabsOf(k) <=> \E w \in DOMAIN k.windows : t \in ToSet(k.windows[w].tabs)
            BY TabsOfIs
        <3>3. QED
            BY <3>1, <3>2, <1>7, <1>8
    <2>2. QED
        BY <2>1
<1>10. Sound(r)
    <2>1. \A w \in DOMAIN r.windows : WindowOK(r.windows[w])
        BY <1>7, <1>8 DEF Shrunk
    <2>2. \A v, w \in DOMAIN r.windows :
            v # w => ToSet(r.windows[v].tabs) \cap ToSet(r.windows[w].tabs) = {}
        BY <1>7, <1>8 DEF Sound
    <2>3. TabsOf(r) \subseteq r.tabs
        BY <1>6, <1>9 DEF Sound
    <2>4. QED
        BY <2>1, <2>2, <2>3, <1>6 DEF Sound
<1>11. QED
    BY <1>1, <1>6, <1>7, <1>8, <1>9, <1>10

LEMMA DeadIsTheSame ==
    ASSUME NEW m, NEW n, NEW t, n.tree = m.tree, n.dead = m.dead
    PROVE  TabIsDead(n, t) <=> TabIsDead(m, t)
    BY DEF TabIsDead

LEMMA AnnounceIs ==
    ASSUME NEW m, Sound(m), NEW gone
    PROVE  LET n == Announce(m, gone)
           IN  /\ Sound(n) /\ SameRest(m, n)
               /\ n.tabs = m.tabs /\ n.panes = m.panes /\ n.tree = m.tree
               /\ n.windows = m.windows /\ n.vacant = m.vacant
               /\ n.unannounced => m.unannounced /\ n.panes # {}
<1>1. m \in MuxRecord
    BY DEF Sound
<1>2. CASE m.panes = {}
    <2>. DEFINE n == [m EXCEPT !.unannounced = FALSE]
    <2>1. Announce(m, gone) = n
        BY <1>2 DEF Announce
    <2>2. /\ n \in MuxRecord /\ SameRest(m, n)
          /\ n.tabs = m.tabs /\ n.panes = m.panes /\ n.tree = m.tree
          /\ n.windows = m.windows /\ n.vacant = m.vacant /\ n.unannounced = FALSE
        BY <1>1 DEF MuxRecord, SameRest
    <2>. HIDE DEF n
    <2>3. TabsOf(n) = TabsOf(m)
        BY <2>2, SameTabs
    <2>4. Sound(n)
        BY <2>2, <2>3 DEF Sound
    <2>5. QED
        BY <2>1, <2>2, <2>4
<1>3. CASE m.panes # {}
    BY <1>3 DEF Announce, SameRest
<1>4. QED
    BY <1>2, <1>3

\* prune_dead_windows leaves nothing owed, but what the walk over a tab passed
\* over, and then it queues a task.
LEMMA PruneNowSettles ==
    ASSUME NEW m, Sound(m), NEW skipped \in Skips(m)
    PROVE  LET n == PruneNow(m, skipped)
           IN  /\ Removes(m, n)
               /\ \A ps : HeldBut(m, ps) => HeldBut(n, ps)
               /\ Counted(m) => Counted(n) /\ EmptyIsCounted(n)
               /\ NoEmptyWindow(n)
               /\ LastIsGone(m) => ~ n.unannounced
               /\ n.dead \cap PlacedPanes(n) # {} => n.removals # {}
               /\ n.dead = m.dead /\ n.stranded = m.stranded
<1>. DEFINE k == PrunePanes(m, skipped)
            r == PruneTabs(k)
            dead_windows == {w \in DOMAIN r.windows : r.windows[w].tabs = <<>>}
            dead_tabs == {t \in r.tabs : TabIsDead(r, t)}
            a == RemoveTabs(r, SetToSeq(dead_tabs))
            b == RemoveWindows(a, SetToSeq(dead_windows))
            n == Announce(b, dead_windows)
<1>1. PruneNow(m, skipped) = n
    BY DEF PruneNow
<1>2. /\ Sound(k)
      /\ k.tabs = m.tabs /\ k.panes = m.panes /\ k.dead = m.dead
      /\ k.windows = m.windows /\ k.vacant = m.vacant
      /\ k.stranded = m.stranded /\ k.prune_due = m.prune_due
      /\ k.unannounced = m.unannounced
      /\ \A t \in TabIds : k.tree[t] = m.tree[t] \ Pruned(m, skipped, t)
      /\ m.removals \subseteq k.removals
      /\ \A t \in TabIds : Pruned(m, skipped, t) \subseteq k.removals
      /\ \A ps : HeldBut(m, ps) => HeldBut(k, ps)
    BY PrunePanesKeeps
<1>. HIDE DEF k
<1>3. /\ Sound(r) /\ SameRest(k, r)
      /\ r.tabs = k.tabs /\ r.panes = k.panes /\ r.tree = k.tree
      /\ r.vacant = k.vacant /\ r.unannounced = k.unannounced
      /\ DOMAIN r.windows = DOMAIN k.windows
      /\ \A w \in DOMAIN r.windows : Shrunk(k.windows[w], r.windows[w])
      /\ TabsOf(r) = {t \in TabsOf(k) : ~ TabIsDead(k, t)}
    BY <1>2, PruneTabsKeeps
<1>. HIDE DEF r
<1>4. /\ IsFiniteSet(dead_tabs) /\ IsFiniteSet(dead_windows)
      /\ m.tabs \subseteq TabIds /\ r.tabs \subseteq TabIds
    <2>1. r.tabs \subseteq TabIds /\ m.tabs \subseteq TabIds
        BY <1>3 DEF Sound, MuxRecord
    <2>2. DOMAIN r.windows \subseteq WindowIds
        BY <1>3, WindowsOfSound
    <2>3. dead_tabs \subseteq TabIds /\ dead_windows \subseteq WindowIds
        BY <2>1, <2>2
    <2>. HIDE DEF dead_tabs, dead_windows
    <2>4. QED
        BY <2>1, <2>3, FS_Subset, MuxIdAssumption
<1>5. /\ \A t \in r.tabs : t \in dead_tabs <=> TabIsDead(k, t)
      /\ dead_tabs \subseteq r.tabs
      /\ \A t \in dead_tabs : t \notin TabsOf(r)
    BY <1>3, DeadIsTheSame DEF SameRest
<1>6. \A w \in DOMAIN r.windows : w \in dead_windows <=> r.windows[w].tabs = <<>>
    OBVIOUS
<1>. HIDE DEF dead_tabs, dead_windows
<1>7. RemovesTabs(r, a) /\ a.tabs = r.tabs \ dead_tabs
    <2>1. /\ Len(SetToSeq(dead_tabs)) \in Nat
          /\ {SetToSeq(dead_tabs)[j] : j \in 1..Len(SetToSeq(dead_tabs))} = dead_tabs
        BY <1>4, SetToSeqIs
    <2>2. /\ RemovesTabs(r, a)
          /\ a.tabs = r.tabs \ {SetToSeq(dead_tabs)[j] : j \in 1..Len(SetToSeq(dead_tabs))}
        BY <2>1, <1>3, RemoveTabsRemoves
    <2>3. QED
        BY <2>1, <2>2
<1>. HIDE DEF a
<1>8. Sound(a) /\ a.windows = r.windows
    <2>1. \A t \in r.tabs \ a.tabs : t \notin TabsOf(r)
        BY <1>5, <1>7
    <2>2. QED
        BY <2>1, <1>7 DEF RemovesTabs, Removes
<1>9. RemovesWindows(a, b) /\ DOMAIN b.windows = DOMAIN a.windows \ dead_windows
    <2>1. /\ Len(SetToSeq(dead_windows)) \in Nat
          /\ {SetToSeq(dead_windows)[j] : j \in 1..Len(SetToSeq(dead_windows))} = dead_windows
        BY <1>4, SetToSeqIs
    <2>2. /\ RemovesWindows(a, b)
          /\ DOMAIN b.windows = DOMAIN a.windows \
               {SetToSeq(dead_windows)[j] : j \in 1..Len(SetToSeq(dead_windows))}
        BY <2>1, <1>8, RemoveWindowsRemoves
    <2>3. QED
        BY <2>1, <2>2
<1>. HIDE DEF b
<1>10. Sound(b)
    BY <1>9 DEF RemovesWindows, Removes
<1>11. /\ Sound(n) /\ SameRest(b, n)
       /\ n.tabs = b.tabs /\ n.panes = b.panes /\ n.tree = b.tree
       /\ n.windows = b.windows /\ n.vacant = b.vacant
       /\ n.unannounced => b.unannounced /\ n.panes # {}
    BY <1>10, AnnounceIs
<1>. HIDE DEF n
<1>12. /\ n.dead = m.dead /\ n.stranded = m.stranded /\ n.prune_due = m.prune_due
       /\ n.removals = k.removals
    BY <1>2, <1>3, <1>7, <1>9, <1>11 DEF SameRest, RemovesTabs, RemovesWindows
<1>13. /\ n.tabs \subseteq a.tabs /\ n.panes \subseteq a.panes /\ a.panes \subseteq m.panes
       /\ \A t \in TabIds : n.tree[t] \subseteq a.tree[t] /\ a.tree[t] \subseteq k.tree[t]
                            /\ k.tree[t] \subseteq m.tree[t]
    BY <1>2, <1>3, <1>7, <1>9, <1>11 DEF RemovesTabs, RemovesWindows, Removes
<1>14. /\ DOMAIN n.windows = DOMAIN m.windows \ dead_windows
       /\ \A w \in DOMAIN n.windows : n.windows[w] = r.windows[w]
    BY <1>2, <1>3, <1>8, <1>9, <1>11 DEF RemovesWindows
<1>15. TabsOf(n) = TabsOf(b) /\ PlacedPanes(n) = PlacedPanes(b)
    BY <1>11, SameTabs, SamePlaced
<1>16. TabsOf(k) = TabsOf(m)
    BY <1>2, SameTabs
<1>17. ASSUME NEW t \in TabsOf(m) PROVE t \in TabsOf(n) \/ n.tree[t] = {}
    <2>1. t \in TabIds /\ t \in r.tabs /\ t \in TabsOf(k)
        BY <1>2, <1>3, <1>4, <1>16 DEF Sound
    <2>2. CASE TabIsDead(k, t)
        <3>1. t \in r.tabs \ a.tabs
            BY <2>1, <2>2, <1>5, <1>7
        <3>2. a.tree[t] = {}
            BY <3>1, <1>7 DEF RemovesTabs
        <3>3. QED
            BY <3>2, <2>1, <1>13
    <2>3. CASE ~ TabIsDead(k, t)
        <3>1. t \in TabsOf(r) /\ TabsOf(a) = TabsOf(r)
            BY <2>1, <2>3, <1>3, <1>8, SameTabs
        <3>2. t \in TabsOf(b) \/ b.tree[t] = {}
            BY <3>1, <1>9 DEF RemovesWindows, Removes
        <3>3. QED
            BY <3>2, <1>11, <1>15
    <2>4. QED
        BY <2>2, <2>3
<1>18. ASSUME NEW w \in DOMAIN n.windows PROVE Shrunk(m.windows[w], n.windows[w])
    <2>1. w \in DOMAIN r.windows /\ n.windows[w] = r.windows[w]
        BY <1>2, <1>3, <1>14
    <2>2. QED
        BY <2>1, <1>2, <1>3
<1>19. n.unannounced => (m.unannounced /\ n.panes # {}) \/ n.panes = {}
    BY <1>2, <1>3, <1>7, <1>9, <1>11 DEF RemovesTabs, RemovesWindows, Removes
<1>20. Removes(m, n)
    <2>1. DOMAIN n.windows \subseteq DOMAIN m.windows
        BY <1>14
    <2>2. n.tabs \subseteq m.tabs
        BY <1>2, <1>3, <1>7, <1>13
    <2>3. \A t \in TabIds : n.tree[t] \subseteq m.tree[t]
        BY <1>13
    <2>4. n.panes \subseteq m.panes /\ n.dead \subseteq m.dead /\ m.removals \subseteq n.removals
        BY <1>2, <1>12, <1>13
    <2>5. QED
        BY <2>1, <2>2, <2>3, <2>4, <1>11, <1>12, <1>17, <1>18, <1>19 DEF Removes
<1>21. NoEmptyWindow(n)
    <2>1. ASSUME NEW w \in DOMAIN n.windows PROVE n.windows[w].tabs # <<>>
        BY <1>2, <1>3, <1>6, <1>14
    <2>2. QED
        BY <2>1 DEF NoEmptyWindow
<1>22. ASSUME LastIsGone(m) PROVE ~ n.unannounced
    <2>1. SUFFICES ASSUME n.unannounced PROVE FALSE
        OBVIOUS
    <2>2. n.panes # {} /\ m.unannounced
        BY <2>1, <1>11, <1>19
    <2>3. QED
        BY <2>2, <1>13, <1>22 DEF LastIsGone
<1>23. ASSUME n.dead \cap PlacedPanes(n) # {} PROVE n.removals # {}
    <2>1. PICK p \in n.dead : p \in PlacedPanes(n)
        BY <1>23
    <2>2. PICK t \in TabsOf(n) : p \in n.tree[t]
        BY <2>1, PlacedIs
    <2>3. t \in TabsOf(m) /\ t \in TabIds
        BY <1>20, RemovesTabsOf, TabsOfAreTabs DEF Sound
    <2>4. p \in Prunable(m, t)
        BY <2>1, <2>2, <2>3, <1>12, <1>13 DEF Prunable
    <2>5. ~ (Prunable(m, t) \subseteq skipped)
        BY <2>3, <2>4 DEF Skips
    <2>6. Pruned(m, skipped, t) # {}
        BY <2>3, <2>5 DEF Pruned
    <2>7. QED
        BY <2>3, <2>6, <1>2, <1>12
<1>24. ASSUME NEW ps, HeldBut(m, ps) PROVE HeldBut(n, ps)
    <2>. DEFINE qs == UNION {k.tree[t] : t \in dead_tabs}
    <2>1. HeldBut(k, ps)
        BY <1>2, <1>24
    <2>2. ASSUME NEW p \in r.panes
          PROVE  \/ p \in PlacedPanes(r) \/ p \in r.removals \/ p \in r.stranded
                 \/ p \in ps \cup qs
        <3>1. CASE p \in PlacedPanes(k)
            <4>1. PICK t \in TabsOf(k) : p \in k.tree[t]
                BY <3>1, PlacedIs
            <4>2. CASE TabIsDead(k, t)
                <5>1. t \in dead_tabs
                    BY <4>2, <1>2, <1>3, <1>5, <1>16 DEF Sound
                <5>2. QED
                    BY <5>1, <4>1
            <4>3. CASE ~ TabIsDead(k, t)
                <5>1. t \in TabsOf(r) /\ p \in r.tree[t]
                    BY <4>1, <4>3, <1>3
                <5>2. QED
                    BY <5>1, PlacedIs
            <4>4. QED
                BY <4>2, <4>3
        <3>2. CASE p \notin PlacedPanes(k)
            BY <3>2, <2>1, <1>3 DEF HeldBut, SameRest
        <3>3. QED
            BY <3>1, <3>2
    <2>3. n.panes \cap qs = {}
        <3>1. \A t \in dead_tabs : a.panes \cap r.tree[t] = {}
            BY <1>5, <1>7 DEF RemovesTabs
        <3>2. QED
            BY <3>1, <1>3, <1>13
    <2>. HIDE DEF qs
    <2>4. HeldBut(r, ps \cup qs)
        BY <2>2 DEF HeldBut
    <2>5. HeldBut(a, ps \cup qs)
        BY <2>4, <1>7 DEF RemovesTabs
    <2>6. HeldBut(b, ps \cup qs)
        BY <2>5, <1>9 DEF RemovesWindows
    <2>7. n.removals = b.removals /\ n.stranded = b.stranded
        BY <1>11 DEF SameRest
    <2>8. QED
        BY <2>3, <2>6, <2>7, <1>11, <1>15 DEF HeldBut
<1>25. ASSUME Counted(m) PROVE Counted(n) /\ EmptyIsCounted(n)
    <2>1. PlacedPanes(r) \subseteq PlacedPanes(m)
        <3>1. ASSUME NEW p \in PlacedPanes(r) PROVE p \in PlacedPanes(m)
            <4>1. PICK t \in TabsOf(r) : p \in r.tree[t]
                BY PlacedIs
            <4>2. t \in TabsOf(m) /\ t \in TabIds
                BY <1>3, <1>16, TabsOfAreTabs DEF Sound
            <4>3. p \in m.tree[t]
                BY <4>1, <4>2, <1>3, <1>13
            <4>4. QED
                BY <4>2, <4>3, PlacedIs
        <3>2. QED
            BY <3>1
    <2>2. Counted(r)
        <3>1. r.vacant = m.vacant /\ DOMAIN r.windows = DOMAIN m.windows
            BY <1>2, <1>3
        <3>2. QED
            BY <2>1, <3>1, <1>25 DEF Counted
    <2>3. Counted(b)
        BY <2>2, <1>7, <1>9 DEF RemovesTabs, RemovesWindows
    <2>4. Counted(n)
        BY <2>3, <1>11, <1>15 DEF Counted
    <2>5. EmptyIsCounted(n)
        <3>1. CASE dead_tabs # {}
            <4>1. a.tabs # r.tabs
                BY <3>1, <1>5, <1>7
            <4>2. EmptyIsCounted(b)
                BY <4>1, <1>7, <1>9 DEF RemovesTabs, RemovesWindows
            <4>3. QED
                BY <4>2, <1>11, <1>15 DEF EmptyIsCounted
        <3>2. CASE dead_windows \cap DOMAIN a.windows # {}
            <4>1. EmptyIsCounted(b)
                BY <3>2, <1>9 DEF RemovesWindows
            <4>2. QED
                BY <4>1, <1>11, <1>15 DEF EmptyIsCounted
        <3>3. CASE dead_tabs = {} /\ dead_windows \cap DOMAIN a.windows = {}
            <4>1. SUFFICES ASSUME PlacedPanes(n) = {}, DOMAIN n.windows # {} PROVE FALSE
                BY <2>4 DEF EmptyIsCounted, Counted
            <4>2. PICK w \in DOMAIN n.windows : TRUE
                BY <4>1
            <4>3. n.windows[w].tabs # <<>> /\ n.windows[w].tabs \in Seq(TabIds)
                BY <1>11, <1>21, WindowsOfSound DEF NoEmptyWindow, Window
            <4>4. PICK t \in ToSet(n.windows[w].tabs) : TRUE
                BY <4>3, ElementsOf
            <4>5. t \in TabsOf(n)
                BY TabsOfIs
            <4>6. t \in n.tabs /\ t \in a.tabs /\ t \in b.tabs /\ t \in r.tabs
                BY <4>5, <1>7, <1>11, <1>13 DEF Sound
            <4>7. r.tree[t] # {}
                BY <4>6, <3>3, <1>3, <1>5 DEF TabIsDead
            <4>8. n.tree[t] = r.tree[t]
                BY <4>6, <1>7, <1>9, <1>11 DEF RemovesTabs, RemovesWindows
            <4>9. QED
                BY <4>1, <4>5, <4>7, <4>8, PlacedIs
        <3>4. QED
            BY <3>1, <3>2, <3>3
    <2>6. QED
        BY <2>4, <2>5
<1>26. QED
    BY <1>1, <1>12, <1>20, <1>21, <1>22, <1>23, <1>24, <1>25

-------------------------------------------------------------------------------
\* The end of an action that prunes.

LEMMA TidyIs ==
    ASSUME NEW m, Sound(m)
    PROVE  LET n == Tidy(m)
           IN  /\ Sound(n)
               /\ n.tabs = m.tabs /\ n.panes = m.panes /\ n.tree = m.tree
               /\ n.vacant = m.vacant /\ n.removals = m.removals
               /\ n.prune_due = m.prune_due /\ n.unannounced = m.unannounced
               /\ n.dead = m.dead \cap (m.panes \cup PlacedPanes(m))
               /\ n.stranded = (m.stranded \cap m.panes) \ (m.removals \cup PlacedPanes(m))
               /\ DOMAIN n.windows = DOMAIN m.windows
               /\ \A w \in DOMAIN n.windows : /\ n.windows[w].tabs = m.windows[w].tabs
                                              /\ Shrunk(m.windows[w], n.windows[w])
               /\ TabsOf(n) = TabsOf(m) /\ PlacedPanes(n) = PlacedPanes(m)
<1>. DEFINE tidied(v) == IF v.last_active \in ToSet(v.tabs) THEN v
                         ELSE [v EXCEPT !.last_active = NoTab]
            ws == [w \in DOMAIN m.windows |-> tidied(m.windows[w])]
            d == m.dead \cap (m.panes \cup PlacedPanes(m))
            s == (m.stranded \cap m.panes) \ (m.removals \cup PlacedPanes(m))
            n == [m EXCEPT !.dead = d, !.stranded = s, !.windows = ws]
<1>1. Tidy(m) = n
    BY DEF Tidy
<1>2. ASSUME NEW w \in DOMAIN m.windows
      PROVE  /\ ws[w].tabs = m.windows[w].tabs /\ ws[w].active = m.windows[w].active
             /\ ws[w] \in Window
    <2>1. m.windows[w] \in Window /\ ws[w] = tidied(m.windows[w])
        BY WindowsOfSound
    <2>2. QED
        BY <2>1 DEF Window
<1>3. DOMAIN ws = DOMAIN m.windows /\ ws = [w \in DOMAIN ws |-> ws[w]]
    OBVIOUS
<1>. HIDE DEF ws
<1>4. ws \in Windows
    <2>1. DOMAIN m.windows \subseteq WindowIds
        BY WindowsOfSound
    <2>2. QED
        BY <2>1, <1>2, <1>3, WindowsAre
<1>5. m \in MuxRecord /\ d \subseteq PaneIds /\ s \subseteq PaneIds
    BY DEF Sound, MuxRecord
<1>. HIDE DEF d, s
<1>6. /\ n \in MuxRecord /\ n.windows = ws /\ n.dead = d /\ n.stranded = s
      /\ n.tabs = m.tabs /\ n.panes = m.panes /\ n.tree = m.tree
      /\ n.vacant = m.vacant /\ n.removals = m.removals
      /\ n.prune_due = m.prune_due /\ n.unannounced = m.unannounced
    BY <1>4, <1>5 DEF MuxRecord
<1>. HIDE DEF n
<1>7. ASSUME NEW w \in DOMAIN m.windows
      PROVE  /\ WindowOK(n.windows[w]) /\ n.windows[w].tabs = m.windows[w].tabs
             /\ Shrunk(m.windows[w], n.windows[w])
    <2>1. /\ n.windows[w].tabs = m.windows[w].tabs
          /\ n.windows[w].active = m.windows[w].active
          /\ n.windows[w] \in Window
        BY <1>2, <1>6
    <2>2. WindowOK(m.windows[w])
        BY WindowsOfSound
    <2>3. ActiveTab(n.windows[w]) = ActiveTab(m.windows[w]) /\ WindowOK(n.windows[w])
        BY <2>1, <2>2 DEF ActiveTab, WindowOK
    <2>4. QED
        BY <2>1, <2>3 DEF Shrunk
<1>8. DOMAIN n.windows = DOMAIN m.windows
    BY <1>3, <1>6
<1>9. TabsOf(n) = TabsOf(m)
    BY <1>7, <1>8 DEF TabsOf
<1>10. PlacedPanes(n) = PlacedPanes(m)
    BY <1>6, <1>9 DEF PlacedPanes
<1>11. Sound(n)
    BY <1>6, <1>7, <1>8, <1>9 DEF Sound
<1>12. QED
    BY <1>1, <1>6, <1>7, <1>8, <1>9, <1>10, <1>11 DEF d, s

\* ThenPrune, and the end of AfterMove
LEMMA PruneSettles ==
    ASSUME NEW m, Sound(m), Counted(m), LastIsGone(m),
           NEW activities \in Nat, NEW skipped,
           activities = 0 => skipped \in Skips(m)
    PROVE  LET n == Tidy(PruneDeadWindows(m, skipped, activities))
           IN  /\ Removes(m, n)
               /\ \A ps : HeldBut(m, ps) => HeldBut(n, ps)
               /\ Counted(n)
               /\ activities > 0 => DOMAIN n.windows = DOMAIN m.windows
               /\ activities = 0 => /\ NoEmptyWindow(n)
                                    /\ NothingOwed(n) \/ n.removals # {}
<1>. DEFINE k == PruneDeadWindows(m, skipped, activities)
            n == Tidy(k)
<1>1. /\ Removes(m, k)
      /\ \A ps : HeldBut(m, ps) => HeldBut(k, ps)
      /\ Counted(k)
      /\ activities > 0 => DOMAIN k.windows = DOMAIN m.windows
      /\ activities = 0 => /\ NoEmptyWindow(k) /\ EmptyIsCounted(k) /\ ~ k.unannounced
                           /\ k.dead \cap PlacedPanes(k) # {} => k.removals # {}
    <2>1. CASE activities > 0
        <3>1. k = m /\ activities # 0
            BY <2>1 DEF PruneDeadWindows
        <3>2. QED
            BY <3>1, RemovesSelf
    <2>2. CASE activities = 0
        <3>1. k = PruneNow(m, skipped)
            BY <2>2 DEF PruneDeadWindows
        <3>2. QED
            BY <2>2, <3>1, PruneNowSettles
    <2>3. QED
        BY <2>1, <2>2
<1>. HIDE DEF k
<1>2. Sound(k)
    BY <1>1 DEF Removes
<1>3. /\ Sound(n)
      /\ n.tabs = k.tabs /\ n.panes = k.panes /\ n.tree = k.tree
      /\ n.vacant = k.vacant /\ n.removals = k.removals
      /\ n.prune_due = k.prune_due /\ n.unannounced = k.unannounced
      /\ n.dead = k.dead \cap (k.panes \cup PlacedPanes(k))
      /\ n.stranded = (k.stranded \cap k.panes) \ (k.removals \cup PlacedPanes(k))
      /\ DOMAIN n.windows = DOMAIN k.windows
      /\ \A w \in DOMAIN n.windows : /\ n.windows[w].tabs = k.windows[w].tabs
                                     /\ Shrunk(k.windows[w], n.windows[w])
      /\ TabsOf(n) = TabsOf(k) /\ PlacedPanes(n) = PlacedPanes(k)
    BY <1>2, TidyIs
<1>. HIDE DEF n
<1>4. Removes(k, n)
    BY <1>3 DEF Removes
<1>5. Removes(m, n)
    BY <1>1, <1>4, RemovesTwice
<1>6. ASSUME NEW ps, HeldBut(m, ps) PROVE HeldBut(n, ps)
    <2>1. HeldBut(k, ps)
        BY <1>1, <1>6
    <2>2. QED
        BY <2>1, <1>3 DEF HeldBut
<1>7. Counted(n)
    BY <1>1, <1>3 DEF Counted
<1>8. ASSUME activities = 0
      PROVE  NoEmptyWindow(n) /\ (NothingOwed(n) \/ n.removals # {})
    <2>1. NoEmptyWindow(n)
        BY <1>1, <1>3, <1>8 DEF NoEmptyWindow
    <2>2. EmptyIsCounted(n) /\ ~ n.unannounced
        BY <1>1, <1>3, <1>8 DEF EmptyIsCounted
    <2>3. Doomed(n) \subseteq k.dead \cap PlacedPanes(k)
        BY <1>3 DEF Doomed
    <2>4. Doomed(n) = {} \/ n.removals # {}
        BY <2>3, <1>1, <1>3, <1>8
    <2>5. QED
        BY <2>1, <2>2, <2>4 DEF NothingOwed
<1>9. activities > 0 => DOMAIN n.windows = DOMAIN m.windows
    BY <1>1, <1>3
<1>10. QED
    BY <1>5, <1>6, <1>7, <1>8, <1>9 DEF k, n

-------------------------------------------------------------------------------
\* The invariant over the actions that remove.

\* What a call of prune_dead_windows finds
Prunes(m, ops) ==
    /\ IsFiniteSet(ops) /\ ops \subseteq Spawn
    /\ Sound(m)
    /\ HeldBut(m, {})
    /\ Counted(m)
    /\ LastIsGone(m)
    /\ HomesKept(m, ops)

ActivitiesOf(ops) == Cardinality({op \in ops : op.kind = "window"})

LEMMA CountActivities ==
    ASSUME NEW ops, IsFiniteSet(ops)
    PROVE  /\ ActivitiesOf(ops) \in Nat
           /\ ActivitiesOf(ops) > 0 <=> Building(ops)
           /\ ActivitiesOf(ops) = 0 <=> ~ Building(ops)
<1>. DEFINE builders == {op \in ops : op.kind = "window"}
<1>1. IsFiniteSet(builders)
    BY FS_Subset
<1>2. builders = {} <=> ~ Building(ops)
    BY DEF Building
<1>. HIDE DEF builders
<1>3. Cardinality(builders) \in Nat /\ (Cardinality(builders) = 0 <=> builders = {})
    BY <1>1, FS_CardinalityType, FS_EmptySet
<1>4. ActivitiesOf(ops) = Cardinality(builders)
    BY DEF ActivitiesOf, builders
<1>5. QED
    BY <1>2, <1>3, <1>4

LEMMA ActivitiesAre == Activities = ActivitiesOf(spawns)
    BY DEF Activities, ActivitiesOf

LEMMA HomesRemoved ==
    ASSUME NEW m, NEW n, NEW ops, Removes(m, n), HomesKept(m, ops),
           \A op \in ops : op.kind = "window" => op.home \in DOMAIN n.windows
    PROVE  HomesKept(n, ops)
<1>1. ASSUME NEW op \in ops, op.kind = "split", n.tree[op.home] # {}
      PROVE  op.home \in TabsOf(n)
    <2>1. op.home \in TabIds /\ (m.tree[op.home] # {} => op.home \in TabsOf(m))
        BY <1>1 DEF HomesKept
    <2>2. QED
        BY <1>1, <2>1 DEF Removes
<1>2. QED
    BY <1>1 DEF HomesKept

LEMMA LastRemoved ==
    ASSUME NEW m, NEW n, Removes(m, n), LastIsGone(m) PROVE LastIsGone(n)
    BY DEF Removes, LastIsGone

LEMMA PruneKeepsInv ==
    ASSUME NEW m, NEW ops, Prunes(m, ops), NEW skipped \in Skips(m)
    PROVE  InvOf(Tidy(PruneDeadWindows(m, skipped, ActivitiesOf(ops))), ops)
<1>. DEFINE act == ActivitiesOf(ops)
            n == Tidy(PruneDeadWindows(m, skipped, act))
<1>1. act \in Nat /\ (act > 0 <=> Building(ops)) /\ (act = 0 <=> ~ Building(ops))
    BY CountActivities DEF Prunes
<1>. HIDE DEF act
<1>2. /\ Removes(m, n)
      /\ \A ps : HeldBut(m, ps) => HeldBut(n, ps)
      /\ Counted(n)
      /\ act > 0 => DOMAIN n.windows = DOMAIN m.windows
      /\ act = 0 => /\ NoEmptyWindow(n)
                    /\ NothingOwed(n) \/ n.removals # {}
    BY <1>1, PruneSettles DEF Prunes
<1>. HIDE DEF n
<1>3. \A op \in ops : op.kind = "window" => op.home \in DOMAIN n.windows
    BY <1>1, <1>2 DEF Prunes, HomesKept, Building
<1>4. HomesKept(n, ops) /\ LastIsGone(n)
    BY <1>2, <1>3, HomesRemoved, LastRemoved DEF Prunes
<1>5. Sound(n) /\ HeldBut(n, {})
    BY <1>2 DEF Prunes, Removes
<1>6. NoEmptyWindow(n) \/ HeldUp(n, ops)
    BY <1>1, <1>2 DEF HeldUp
<1>7. NothingOwed(n) \/ Due(n, ops)
    BY <1>1, <1>2 DEF Due, HeldUp
<1>8. InvOf(n, ops)
    BY <1>2, <1>4, <1>5, <1>6, <1>7 DEF InvOf, Prunes
<1>9. QED
    BY <1>8 DEF n, act

LEMMA ThenPruneKeepsInv ==
    ASSUME NEW m, Prunes(m, spawns), ThenPrune(m), spawns' = spawns
    PROVE  MuxInv'
<1>1. PICK skipped \in Skips(m) : mux' = Tidy(PruneDeadWindows(m, skipped, Activities))
    BY DEF ThenPrune
<1>2. InvOf(mux', spawns)
    BY <1>1, PruneKeepsInv, ActivitiesAre
<1>3. QED
    BY <1>2 DEF MuxInv

\* The record with other fields than those that say what is shown where
LEMMA SameView ==
    ASSUME NEW m, NEW n, Sound(m), n \in MuxRecord,
           n.tabs = m.tabs, n.tree = m.tree, n.windows = m.windows
    PROVE  Sound(n) /\ TabsOf(n) = TabsOf(m) /\ PlacedPanes(n) = PlacedPanes(m)
<1>1. TabsOf(n) = TabsOf(m) /\ PlacedPanes(n) = PlacedPanes(m)
    BY SameTabs, SamePlaced
<1>2. QED
    BY <1>1 DEF Sound

LEMMA RemovePanesRemoves ==
    ASSUME NEW m, Sound(m), Counted(m), NEW ps
    PROVE  LET n == RemovePanes(m, ps)
           IN  /\ Removes(m, n) /\ Counted(n)
               /\ n.windows = m.windows
               /\ \A qs : HeldBut(m, qs) => HeldBut(n, qs \ ps)
<1>. DEFINE n == RemovePanes(m, ps)
<1>1. /\ n \in MuxRecord
      /\ n.tabs = m.tabs /\ n.tree = m.tree /\ n.windows = m.windows
      /\ n.panes = m.panes \ ps
      /\ SameRest(m, n)
      /\ n.unannounced => m.unannounced \/ n.panes = {}
      /\ n.vacant => m.vacant \/ PlacedPanes(m) = {}
      /\ m.vacant => n.vacant \/ PlacedPanes(m) # {}
    BY RemovePanesIs DEF Sound
<1>. HIDE DEF n
<1>2. Sound(n) /\ TabsOf(n) = TabsOf(m) /\ PlacedPanes(n) = PlacedPanes(m)
    BY <1>1, SameView
<1>3. \A w \in DOMAIN n.windows : Shrunk(m.windows[w], n.windows[w])
    BY <1>1, WindowsOfSound, ShrunkSelf
<1>4. Removes(m, n)
    BY <1>1, <1>2, <1>3 DEF Removes, SameRest
<1>5. Counted(n)
    BY <1>1, <1>2 DEF Counted
<1>6. \A qs : HeldBut(m, qs) => HeldBut(n, qs \ ps)
    BY <1>1, <1>2 DEF HeldBut, SameRest
<1>7. QED
    BY <1>1, <1>4, <1>5, <1>6 DEF n

LEMMA InvPrunes ==
    ASSUME NEW m, NEW ops, InvOf(m, ops) PROVE Prunes(m, ops)
    BY DEF InvOf, Prunes

LEMMA ClosePaneKeepsInv ==
    ASSUME MuxInv, NEW p, ClosePane(p) PROVE MuxInv'
<1>. DEFINE n == RemovePanes(mux, {p})
<1>1. Prunes(mux, spawns)
    BY InvPrunes DEF MuxInv
<1>2. /\ Removes(mux, n) /\ Counted(n) /\ n.windows = mux.windows
      /\ \A qs : HeldBut(mux, qs) => HeldBut(n, qs \ {p})
    BY <1>1, RemovePanesRemoves DEF Prunes
<1>. HIDE DEF n
<1>3. HeldBut(n, {})
    BY <1>1, <1>2 DEF Prunes, HeldBut
<1>4. HomesKept(n, spawns) /\ LastIsGone(n)
    BY <1>1, <1>2, HomesRemoved, LastRemoved DEF Prunes, HomesKept
<1>5. Prunes(n, spawns)
    BY <1>1, <1>2, <1>3, <1>4 DEF Prunes, Removes
<1>6. ThenPrune(n) /\ spawns' = spawns
    BY DEF ClosePane, n
<1>7. QED
    BY <1>5, <1>6, ThenPruneKeepsInv

LEMMA RunRemovalKeepsInv ==
    ASSUME MuxInv, NEW p, RunRemoval(p) PROVE MuxInv'
<1>. DEFINE rm == mux.removals \ {p}
            k == [mux EXCEPT !.removals = rm]
            n == RemovePanes(k, {p})
<1>1. Prunes(mux, spawns) /\ mux \in MuxRecord
    BY InvPrunes DEF MuxInv, Prunes, Sound
<1>2. rm \subseteq PaneIds
    BY <1>1 DEF MuxRecord
<1>3. mux.removals \subseteq rm \cup {p}
    OBVIOUS
<1>. HIDE DEF rm
<1>4. /\ k \in MuxRecord /\ k.removals = rm
      /\ k.tabs = mux.tabs /\ k.tree = mux.tree /\ k.windows = mux.windows
      /\ k.panes = mux.panes /\ k.stranded = mux.stranded /\ k.vacant = mux.vacant
      /\ k.unannounced = mux.unannounced
    BY <1>1, <1>2 DEF MuxRecord
<1>. HIDE DEF k
<1>5. Sound(k) /\ TabsOf(k) = TabsOf(mux) /\ PlacedPanes(k) = PlacedPanes(mux)
    BY <1>1, <1>4, SameView DEF Prunes
<1>6. Counted(k) /\ LastIsGone(k) /\ HomesKept(k, spawns)
    BY <1>1, <1>4, <1>5 DEF Prunes, Counted, LastIsGone, HomesKept
<1>7. HeldBut(k, {p})
    BY <1>1, <1>3, <1>4, <1>5 DEF Prunes, HeldBut
<1>8. /\ Removes(k, n) /\ Counted(n) /\ n.windows = k.windows
      /\ \A qs : HeldBut(k, qs) => HeldBut(n, qs \ {p})
    BY <1>5, <1>6, RemovePanesRemoves
<1>. HIDE DEF n
<1>9. HeldBut(n, {p} \ {p})
    BY <1>7, <1>8
<1>10. HeldBut(n, {})
    BY <1>9 DEF HeldBut
<1>11. HomesKept(n, spawns) /\ LastIsGone(n)
    BY <1>6, <1>8, HomesRemoved, LastRemoved DEF HomesKept
<1>12. Prunes(n, spawns)
    BY <1>1, <1>8, <1>10, <1>11 DEF Prunes, Removes
<1>13. ThenPrune(n) /\ spawns' = spawns
    BY DEF RunRemoval, n, k, rm
<1>14. QED
    BY <1>12, <1>13, ThenPruneKeepsInv

LEMMA CloseTabKeepsInv ==
    ASSUME MuxInv, NEW t, CloseTab(t) PROVE MuxInv'
<1>. DEFINE n == RemoveTabInternal(mux, t)
<1>1. Prunes(mux, spawns)
    BY InvPrunes DEF MuxInv
<1>2. /\ Removes(mux, n) /\ DOMAIN n.windows = DOMAIN mux.windows
      /\ Counted(mux) => Counted(n)
      /\ \A ps : HeldBut(mux, ps) => HeldBut(n, ps)
    BY <1>1, RemoveTabRemoves DEF Prunes
<1>. HIDE DEF n
<1>3. HomesKept(n, spawns) /\ LastIsGone(n)
    BY <1>1, <1>2, HomesRemoved, LastRemoved DEF Prunes, HomesKept
<1>4. Prunes(n, spawns)
    BY <1>1, <1>2, <1>3 DEF Prunes, Removes
<1>5. ThenPrune(n) /\ spawns' = spawns
    BY DEF CloseTab, n
<1>6. QED
    BY <1>4, <1>5, ThenPruneKeepsInv

LEMMA CloseWindowKeepsInv ==
    ASSUME MuxInv, NEW w, CloseWindow(w) PROVE MuxInv'
<1>. DEFINE n == RemoveWindowInternal(mux, w)
<1>1. Prunes(mux, spawns)
    BY InvPrunes DEF MuxInv
<1>2. /\ RemovesWindows(mux, n) /\ Counted(n)
      /\ DOMAIN n.windows = DOMAIN mux.windows \ {w}
    BY <1>1, RemoveWindowRemoves DEF Prunes
<1>. HIDE DEF n
<1>3. ASSUME NEW op \in spawns, op.kind = "window" PROVE op.home \in DOMAIN n.windows
    <2>1. op \in Spawn /\ op.home \in DOMAIN mux.windows
        BY <1>1, <1>3 DEF Prunes, HomesKept
    <2>2. op = [kind |-> "window", home |-> op.home]
        BY <2>1, <1>3 DEF Spawn
    <2>3. op.home # w
        BY <2>2 DEF CloseWindow
    <2>4. QED
        BY <1>2, <2>1, <2>3
<1>4. HomesKept(n, spawns) /\ LastIsGone(n)
    BY <1>1, <1>2, <1>3, HomesRemoved, LastRemoved DEF Prunes, RemovesWindows
<1>5. Prunes(n, spawns)
    BY <1>1, <1>2, <1>4 DEF Prunes, RemovesWindows, Removes
<1>6. ThenPrune(n) /\ spawns' = spawns
    BY DEF CloseWindow, n
<1>7. QED
    BY <1>5, <1>6, ThenPruneKeepsInv

LEMMA RunPruneKeepsInv ==
    ASSUME MuxInv, RunPrune PROVE MuxInv'
<1>. DEFINE n == [mux EXCEPT !.prune_due = FALSE]
<1>1. Prunes(mux, spawns) /\ mux \in MuxRecord
    BY InvPrunes DEF MuxInv, Prunes, Sound
<1>2. /\ n \in MuxRecord /\ n.removals = mux.removals
      /\ n.tabs = mux.tabs /\ n.tree = mux.tree /\ n.windows = mux.windows
      /\ n.panes = mux.panes /\ n.stranded = mux.stranded /\ n.vacant = mux.vacant
      /\ n.unannounced = mux.unannounced
    BY <1>1 DEF MuxRecord
<1>. HIDE DEF n
<1>3. Sound(n) /\ TabsOf(n) = TabsOf(mux) /\ PlacedPanes(n) = PlacedPanes(mux)
    BY <1>1, <1>2, SameView DEF Prunes
<1>4. Counted(n) /\ LastIsGone(n) /\ HomesKept(n, spawns) /\ HeldBut(n, {})
    BY <1>1, <1>2, <1>3 DEF Prunes, Counted, LastIsGone, HomesKept, HeldBut
<1>5. Prunes(n, spawns)
    BY <1>1, <1>3, <1>4 DEF Prunes
<1>6. ThenPrune(n) /\ spawns' = spawns
    BY DEF RunPrune, n
<1>7. QED
    BY <1>5, <1>6, ThenPruneKeepsInv

-------------------------------------------------------------------------------
\* The invariant over the actions that leave the view alone, or one window.

LEMMA MoreSpawns ==
    ASSUME NEW m, NEW ops, InvOf(m, ops), NEW op \in Spawn, op.kind # "window",
           op.kind = "split" => op.home \in TabsOf(m) /\ op.home \in TabIds
    PROVE  InvOf(m, ops \cup {op})
<1>1. IsFiniteSet(ops \cup {op}) /\ ops \cup {op} \subseteq Spawn
    BY FS_AddElement DEF InvOf
<1>2. HomesKept(m, ops \cup {op})
    BY DEF InvOf, HomesKept
<1>3. (HeldUp(m, ops) => HeldUp(m, ops \cup {op})) /\ (Due(m, ops) => Due(m, ops \cup {op}))
    BY DEF HeldUp, Due, Building
<1>4. QED
    BY <1>1, <1>2, <1>3 DEF InvOf

LEMMA SpawnTabKeepsInv ==
    ASSUME MuxInv, NEW w \in WindowIds, SpawnTab(w) PROVE MuxInv'
<1>. DEFINE op == [kind |-> "tab", home |-> w]
<1>1. op \in Spawn /\ op.kind # "window" /\ op.kind # "split"
    BY DEF Spawn
<1>2. spawns' = spawns \cup {op} /\ mux' = mux
    BY DEF SpawnTab, StartSpawn
<1>. HIDE DEF op
<1>3. InvOf(mux, spawns \cup {op})
    BY <1>1, MoreSpawns DEF MuxInv
<1>4. QED
    BY <1>2, <1>3 DEF MuxInv

LEMMA SplitPaneKeepsInv ==
    ASSUME MuxInv, NEW t \in TabIds, SplitPane(t) PROVE MuxInv'
<1>. DEFINE op == [kind |-> "split", home |-> t]
<1>1. op \in Spawn /\ op.kind = "split" /\ op.kind # "window" /\ op.home = t
    BY DEF Spawn
<1>2. spawns' = spawns \cup {op} /\ mux' = mux /\ t \in TabsOf(mux)
    BY DEF SplitPane, StartSpawn
<1>. HIDE DEF op
<1>3. InvOf(mux, spawns \cup {op})
    BY <1>1, <1>2, MoreSpawns DEF MuxInv
<1>4. QED
    BY <1>2, <1>3 DEF MuxInv

LEMMA ProcessExitsKeepsInv ==
    ASSUME MuxInv, NEW p \in PaneIds, ProcessExits(p) PROVE MuxInv'
<1>. DEFINE d == mux.dead \cup {p}
            n == [mux EXCEPT !.dead = d, !.prune_due = TRUE]
<1>1. InvOf(mux, spawns) /\ Sound(mux) /\ mux \in MuxRecord
    BY DEF MuxInv, InvOf, Sound
<1>2. d \subseteq PaneIds
    BY <1>1 DEF MuxRecord
<1>. HIDE DEF d
<1>3. /\ n \in MuxRecord /\ n.removals = mux.removals /\ n.prune_due = TRUE
      /\ n.tabs = mux.tabs /\ n.tree = mux.tree /\ n.windows = mux.windows
      /\ n.panes = mux.panes /\ n.stranded = mux.stranded /\ n.vacant = mux.vacant
      /\ n.unannounced = mux.unannounced
    BY <1>1, <1>2 DEF MuxRecord
<1>4. mux' = n /\ spawns' = spawns
    BY DEF ProcessExits, d
<1>. HIDE DEF n
<1>5. Sound(n) /\ TabsOf(n) = TabsOf(mux) /\ PlacedPanes(n) = PlacedPanes(mux)
    BY <1>1, <1>3, SameView
<1>6. Counted(n) /\ LastIsGone(n) /\ HomesKept(n, spawns) /\ HeldBut(n, {})
    BY <1>1, <1>3, <1>5 DEF InvOf, Counted, LastIsGone, HomesKept, HeldBut
<1>7. HeldUp(n, spawns) /\ Due(n, spawns)
    BY <1>3 DEF HeldUp, Due
<1>8. InvOf(n, spawns)
    BY <1>1, <1>5, <1>6, <1>7 DEF InvOf
<1>9. QED
    BY <1>4, <1>8 DEF MuxInv

LEMMA DroppedKeepsInv ==
    ASSUME NEW m, NEW ops, InvOf(m, ops), NEW op \in ops
    PROVE  InvOf(Dropped(m, op), ops \ {op})
<1>1. IsFiniteSet(ops \ {op}) /\ ops \ {op} \subseteq Spawn
    BY FS_RemoveElement DEF InvOf
<1>2. CASE op.kind # "window"
    <2>1. Dropped(m, op) = m
        BY <1>2 DEF Dropped
    <2>2. Building(ops) <=> Building(ops \ {op})
        BY <1>2 DEF Building
    <2>3. HomesKept(m, ops \ {op})
        BY DEF InvOf, HomesKept
    <2>4. QED
        BY <1>1, <2>1, <2>2, <2>3 DEF InvOf, HeldUp, Due
<1>3. CASE op.kind = "window"
    <2>. DEFINE n == [m EXCEPT !.prune_due = TRUE]
    <2>1. Dropped(m, op) = n
        BY <1>3 DEF Dropped
    <2>2. m \in MuxRecord /\ Sound(m)
        BY DEF InvOf, Sound
    <2>3. /\ n \in MuxRecord /\ n.prune_due = TRUE /\ n.removals = m.removals
          /\ n.tabs = m.tabs /\ n.tree = m.tree /\ n.windows = m.windows
          /\ n.panes = m.panes /\ n.stranded = m.stranded /\ n.vacant = m.vacant
          /\ n.unannounced = m.unannounced
        BY <2>2 DEF MuxRecord
    <2>. HIDE DEF n
    <2>4. Sound(n) /\ TabsOf(n) = TabsOf(m) /\ PlacedPanes(n) = PlacedPanes(m)
        BY <2>2, <2>3, SameView
    <2>5. Counted(n) /\ LastIsGone(n) /\ HomesKept(n, ops \ {op}) /\ HeldBut(n, {})
        BY <2>3, <2>4 DEF InvOf, Counted, LastIsGone, HomesKept, HeldBut
    <2>6. HeldUp(n, ops \ {op}) /\ Due(n, ops \ {op})
        BY <2>3 DEF HeldUp, Due
    <2>7. QED
        BY <1>1, <2>1, <2>4, <2>5, <2>6 DEF InvOf
<1>4. QED
    BY <1>2, <1>3

LEMMA FailSpawnKeepsInv ==
    ASSUME MuxInv, NEW op, FailSpawn(op) PROVE MuxInv'
<1>1. InvOf(Dropped(mux, op), spawns \ {op})
    BY DroppedKeepsInv DEF FailSpawn, MuxInv
<1>2. QED
    BY <1>1 DEF FailSpawn, MuxInv

\* The pane leaves the tree of its tab, and is in the hands of the caller.
LEMMA TakenFromRemoves ==
    ASSUME NEW m, Sound(m), NEW s \in TabIds, NEW p \in m.tree[s]
    PROVE  LET n == TakenFrom(m, p, s)
           IN  /\ Removes(m, n) /\ SameRest(m, n)
               /\ n.tabs = m.tabs /\ n.panes = m.panes /\ n.windows = m.windows
               /\ n.vacant = m.vacant /\ n.unannounced = m.unannounced
               /\ TabsOf(n) = TabsOf(m)
               /\ \A t \in TabIds : p \notin n.tree[t]
               /\ \A t \in TabIds : t # s => n.tree[t] = m.tree[t]
               /\ n.tree[s] = m.tree[s] \ {p}
               /\ \A ps : HeldBut(m, ps) => HeldBut(n, ps \cup {p})
               /\ Counted(m) => Counted(n)
<1>. DEFINE tr == [m.tree EXCEPT ![s] = @ \ {p}]
            n == [m EXCEPT !.tree = tr]
<1>1. m \in MuxRecord
    BY DEF Sound
<1>2. tr \in [TabIds -> SUBSET PaneIds]
      /\ \A u \in TabIds : tr[u] = IF u = s THEN m.tree[u] \ {p} ELSE m.tree[u]
    BY <1>1 DEF MuxRecord
<1>3. TakenFrom(m, p, s) = n
    BY DEF TakenFrom
<1>. HIDE DEF tr
<1>4. /\ n \in MuxRecord /\ n.tree = tr /\ SameRest(m, n)
      /\ n.tabs = m.tabs /\ n.panes = m.panes /\ n.windows = m.windows
      /\ n.vacant = m.vacant /\ n.unannounced = m.unannounced
    BY <1>1, <1>2 DEF MuxRecord, SameRest
<1>. HIDE DEF n
<1>5. TabsOf(n) = TabsOf(m) /\ TabsOf(m) \subseteq TabIds
    BY <1>1, <1>4, SameTabs, TabsOfAreTabs
<1>6. /\ \A t \in TabIds : t # s => n.tree[t] = m.tree[t]
      /\ n.tree[s] = m.tree[s] \ {p}
      /\ \A t \in TabIds : n.tree[t] \subseteq m.tree[t]
    BY <1>2, <1>4
<1>7. \A t \in TabIds : p \notin n.tree[t]
    BY <1>6 DEF Sound
<1>8. \A u, v \in TabIds : u # v => n.tree[u] \cap n.tree[v] = {}
    BY <1>6 DEF Sound
<1>9. Sound(n)
    BY <1>4, <1>5, <1>8 DEF Sound
<1>10. \A w \in DOMAIN n.windows : Shrunk(m.windows[w], n.windows[w])
    BY <1>4, WindowsOfSound, ShrunkSelf
<1>11. Removes(m, n)
    BY <1>4, <1>5, <1>6, <1>9, <1>10 DEF Removes, SameRest
<1>12. ASSUME NEW q \in PlacedPanes(m), q # p PROVE q \in PlacedPanes(n)
    <2>1. PICK t \in TabsOf(m) : q \in m.tree[t]
        BY PlacedIs
    <2>2. q \in n.tree[t] /\ t \in TabsOf(n)
        BY <2>1, <1>5, <1>6, <1>12
    <2>3. QED
        BY <2>2, PlacedIs
<1>13. \A ps : HeldBut(m, ps) => HeldBut(n, ps \cup {p})
    BY <1>4, <1>12 DEF HeldBut, SameRest
<1>14. PlacedPanes(n) \subseteq PlacedPanes(m)
    BY <1>11, RemovesPlaced
<1>15. Counted(m) => Counted(n)
    BY <1>4, <1>14 DEF Counted
<1>16. QED
    BY <1>3, <1>4, <1>5, <1>6, <1>7, <1>11, <1>13, <1>15

LEMMA KillPaneInTabKeepsInv ==
    ASSUME MuxInv, NEW t \in TabIds, NEW p \in PaneIds, KillPaneInTab(t, p)
    PROVE  MuxInv'
<1>. DEFINE rm == mux.removals \cup {p}
            k == TakenFrom(mux, p, t)
            n == [k EXCEPT !.removals = rm]
<1>1. InvOf(mux, spawns) /\ Sound(mux) /\ mux \in MuxRecord
    BY DEF MuxInv, InvOf, Sound
<1>2. p \in mux.tree[t]
    BY DEF KillPaneInTab
<1>3. /\ Removes(mux, k) /\ SameRest(mux, k) /\ k.windows = mux.windows
      /\ \A ps : HeldBut(mux, ps) => HeldBut(k, ps \cup {p})
      /\ Counted(mux) => Counted(k)
    BY <1>1, <1>2, TakenFromRemoves
<1>4. mux' = [k EXCEPT !.removals = @ \cup {p}] /\ spawns' = spawns
    BY DEF KillPaneInTab
<1>. HIDE DEF k
<1>5. mux' = n
    BY <1>3, <1>4 DEF SameRest
<1>6. rm \subseteq PaneIds /\ mux.removals \subseteq rm /\ p \in rm
    BY <1>1 DEF MuxRecord
<1>. HIDE DEF rm
<1>7. Sound(k) /\ k \in MuxRecord
    BY <1>3 DEF Removes, Sound
<1>8. /\ n \in MuxRecord /\ n.removals = rm /\ n.tree = k.tree
      /\ n.tabs = k.tabs /\ n.windows = k.windows
      /\ n.panes = k.panes /\ n.stranded = k.stranded /\ n.vacant = k.vacant
      /\ n.unannounced = k.unannounced /\ n.prune_due = k.prune_due
    BY <1>6, <1>7 DEF MuxRecord
<1>. HIDE DEF n
<1>9. Sound(n) /\ TabsOf(n) = TabsOf(k) /\ PlacedPanes(n) = PlacedPanes(k)
    BY <1>7, <1>8, SameView
<1>10. HeldBut(n, {})
    <2>1. HeldBut(k, {} \cup {p})
        BY <1>1, <1>3 DEF InvOf
    <2>2. QED
        BY <2>1, <1>3, <1>6, <1>8, <1>9 DEF HeldBut, SameRest
<1>11. HomesKept(k, spawns) /\ LastIsGone(k) /\ Counted(k)
    BY <1>1, <1>3, HomesRemoved, LastRemoved DEF InvOf, HomesKept
<1>12. HomesKept(n, spawns) /\ LastIsGone(n) /\ Counted(n)
    BY <1>8, <1>9, <1>11 DEF HomesKept, LastIsGone, Counted
<1>13. (NoEmptyWindow(n) \/ HeldUp(n, spawns)) /\ Due(n, spawns)
    BY <1>1, <1>3, <1>6, <1>8 DEF InvOf, NoEmptyWindow, HeldUp, Due, SameRest
<1>14. InvOf(n, spawns)
    BY <1>1, <1>9, <1>10, <1>12, <1>13 DEF InvOf
<1>15. QED
    BY <1>4, <1>5, <1>14 DEF MuxInv

\* A window of its own is replaced by one with the same tabs, or with new ones.
LEMMA WindowReplaced ==
    ASSUME NEW m, Sound(m), NEW w \in DOMAIN m.windows, NEW v \in Window, WindowOK(v),
           NEW ts \in SUBSET m.tabs, ts \cap TabsOf(m) = {},
           ToSet(v.tabs) = ToSet(m.windows[w].tabs) \cup ts
    PROVE  LET n == [m EXCEPT !.windows[w] = v]
           IN  /\ Sound(n) /\ SameRest(m, n)
               /\ n.tabs = m.tabs /\ n.panes = m.panes /\ n.tree = m.tree
               /\ n.vacant = m.vacant /\ n.unannounced = m.unannounced
               /\ DOMAIN n.windows = DOMAIN m.windows /\ n.windows[w] = v
               /\ \A u \in DOMAIN m.windows : u # w => n.windows[u] = m.windows[u]
               /\ TabsOf(n) = TabsOf(m) \cup ts
<1>. DEFINE ws == [m.windows EXCEPT ![w] = v]
            n == [m EXCEPT !.windows = ws]
<1>1. /\ m \in MuxRecord /\ DOMAIN m.windows \subseteq WindowIds
      /\ \A u \in DOMAIN m.windows : m.windows[u] \in Window
      /\ m.windows = [u \in DOMAIN m.windows |-> m.windows[u]]
    BY WindowsOfSound, WindowsAre DEF Sound, MuxRecord
<1>2. /\ DOMAIN ws = DOMAIN m.windows /\ ws[w] = v
      /\ \A u \in DOMAIN m.windows : u # w => ws[u] = m.windows[u]
      /\ ws = [u \in DOMAIN ws |-> ws[u]]
    BY <1>1
<1>3. [m EXCEPT !.windows[w] = v] = n
    OBVIOUS
<1>. HIDE DEF ws
<1>4. ws \in Windows
    BY <1>1, <1>2, WindowsAre
<1>5. /\ n \in MuxRecord /\ n.windows = ws /\ SameRest(m, n)
      /\ n.tabs = m.tabs /\ n.panes = m.panes /\ n.tree = m.tree
      /\ n.vacant = m.vacant /\ n.unannounced = m.unannounced
    BY <1>1, <1>4 DEF MuxRecord, SameRest
<1>. HIDE DEF n
<1>6. /\ DOMAIN n.windows = DOMAIN m.windows /\ n.windows[w] = v
      /\ \A u \in DOMAIN m.windows : u # w => n.windows[u] = m.windows[u]
    BY <1>2, <1>5
<1>7. TabsOf(n) = TabsOf(m) \cup ts
    <2>1. ASSUME NEW t PROVE t \in TabsOf(n) <=> t \in TabsOf(m) \/ t \in ts
        <3>1. t \in TabsOf(n) <=> \E u \in DOMAIN n.windows : t \in ToSet(n.windows[u].tabs)
            BY TabsOfIs
        <3>2. t \in TabsOf(m) <=> \E u \in DOMAIN m.windows : t \in ToSet(m.windows[u].tabs)
            BY TabsOfIs
        <3>3. t \in ToSet(n.windows[w].tabs) <=> t \in ToSet(m.windows[w].tabs) \/ t \in ts
            BY <1>6
        <3>4. QED
            BY <3>1, <3>2, <3>3, <1>6
    <2>2. QED
        BY <2>1
<1>8. ASSUME NEW u \in DOMAIN m.windows, u # w
      PROVE  ToSet(m.windows[u].tabs) \cap ToSet(v.tabs) = {}
    <2>1. ToSet(m.windows[u].tabs) \cap ToSet(m.windows[w].tabs) = {}
        BY <1>8 DEF Sound
    <2>2. ToSet(m.windows[u].tabs) \cap ts = {}
        BY TabsOfIs
    <2>3. QED
        BY <2>1, <2>2
<1>9. ASSUME NEW u \in DOMAIN n.windows, NEW x \in DOMAIN n.windows, u # x
      PROVE  ToSet(n.windows[u].tabs) \cap ToSet(n.windows[x].tabs) = {}
    <2>1. CASE u = w
        BY <2>1, <1>6, <1>8, <1>9
    <2>2. CASE x = w
        BY <2>2, <1>6, <1>8, <1>9
    <2>3. CASE u # w /\ x # w
        BY <2>3, <1>6, <1>9 DEF Sound
    <2>4. QED
        BY <2>1, <2>2, <2>3
<1>10. \A u \in DOMAIN n.windows : WindowOK(n.windows[u])
    BY <1>6 DEF Sound
<1>11. Sound(n)
    BY <1>5, <1>7, <1>9, <1>10 DEF Sound
<1>12. QED
    BY <1>3, <1>5, <1>6, <1>7, <1>11

\* The window has the same tabs: nothing else of the invariant is touched.
LEMMA SameTabsKeepInv ==
    ASSUME NEW m, NEW ops, InvOf(m, ops), NEW w \in DOMAIN m.windows,
           NEW v \in Window, WindowOK(v), ToSet(v.tabs) = ToSet(m.windows[w].tabs)
    PROVE  InvOf([m EXCEPT !.windows[w] = v], ops)
<1>. DEFINE n == [m EXCEPT !.windows[w] = v]
<1>1. /\ Sound(n) /\ SameRest(m, n)
      /\ n.tabs = m.tabs /\ n.panes = m.panes /\ n.tree = m.tree
      /\ n.vacant = m.vacant /\ n.unannounced = m.unannounced
      /\ DOMAIN n.windows = DOMAIN m.windows /\ n.windows[w] = v
      /\ \A u \in DOMAIN m.windows : u # w => n.windows[u] = m.windows[u]
      /\ TabsOf(n) = TabsOf(m)
    <2>. DEFINE none == {}
    <2>1. Sound(m) /\ ToSet(v.tabs) = ToSet(m.windows[w].tabs) \cup none
        BY DEF InvOf
    <2>2. none \in SUBSET m.tabs /\ none \cap TabsOf(m) = {} /\ TabsOf(m) \cup none = TabsOf(m)
        OBVIOUS
    <2>. HIDE DEF none
    <2>3. /\ Sound(n) /\ SameRest(m, n)
          /\ n.tabs = m.tabs /\ n.panes = m.panes /\ n.tree = m.tree
          /\ n.vacant = m.vacant /\ n.unannounced = m.unannounced
          /\ DOMAIN n.windows = DOMAIN m.windows /\ n.windows[w] = v
          /\ \A u \in DOMAIN m.windows : u # w => n.windows[u] = m.windows[u]
          /\ TabsOf(n) = TabsOf(m) \cup none
        BY <2>1, <2>2, WindowReplaced
    <2>4. QED
        BY <2>2, <2>3
<1>. HIDE DEF n
<1>2. PlacedPanes(n) = PlacedPanes(m)
    BY <1>1 DEF PlacedPanes
<1>3. v.tabs = <<>> <=> m.windows[w].tabs = <<>>
    <2>1. v.tabs \in Seq(TabIds) /\ m.windows[w].tabs \in Seq(TabIds)
        BY WindowsOfSound DEF Window, InvOf
    <2>2. QED
        BY <2>1, ElementsOf
<1>4. NoEmptyWindow(m) => NoEmptyWindow(n)
    BY <1>1, <1>3 DEF NoEmptyWindow
<1>5. HeldBut(n, {}) /\ Counted(n) /\ LastIsGone(n) /\ HomesKept(n, ops)
    BY <1>1, <1>2 DEF InvOf, HeldBut, Counted, LastIsGone, HomesKept, SameRest
<1>6. (NothingOwed(m) => NothingOwed(n)) /\ (Due(m, ops) => Due(n, ops))
      /\ (HeldUp(m, ops) => HeldUp(n, ops))
    BY <1>1, <1>2 DEF NothingOwed, EmptyIsCounted, Doomed, Due, HeldUp, SameRest
<1>7. InvOf(n, ops)
    BY <1>1, <1>4, <1>5, <1>6 DEF InvOf
<1>8. QED
    BY <1>7 DEF n

\* save_and_then_set_active
LEMMA ActivatedIs ==
    ASSUME NEW v \in Window, WindowOK(v), NEW i \in 1..Len(v.tabs)
    PROVE  /\ Activated(v, i) \in Window /\ WindowOK(Activated(v, i))
           /\ Activated(v, i).tabs = v.tabs
<1>1. v.tabs \in Seq(TabIds) /\ i \in Nat \ {0} /\ v.tabs # <<>>
    BY ElementsOf DEF Window
<1>2. CASE i = v.active
    BY <1>2 DEF Activated
<1>3. CASE i # v.active
    <2>. DEFINE last == IF SwitchToLast THEN ActiveTab(v) ELSE NoTab
                u == [v EXCEPT !.active = i, !.last_active = last]
    <2>1. last \in TabIds \cup {NoTab}
        BY ActiveTabIs
    <2>2. Activated(v, i) = u
        BY <1>3 DEF Activated
    <2>. HIDE DEF last
    <2>3. u.tabs = v.tabs /\ u.active = i /\ u \in Window
        BY <1>1, <2>1 DEF Window
    <2>. HIDE DEF u
    <2>4. WindowOK(u)
        BY <1>1, <2>3 DEF WindowOK
    <2>5. QED
        BY <2>2, <2>3, <2>4
<1>4. QED
    BY <1>2, <1>3

LEMMA ActivateTabKeepsInv ==
    ASSUME MuxInv, NEW w, NEW i, ActivateTab(w, i) PROVE MuxInv'
<1>. DEFINE v == mux.windows[w]
            u == Activated(v, i)
<1>1. w \in DOMAIN mux.windows /\ i \in 1..Len(v.tabs) /\ spawns' = spawns
    BY DEF ActivateTab
<1>2. mux' = [mux EXCEPT !.windows[w] = u]
    BY DEF ActivateTab
<1>3. v \in Window /\ WindowOK(v)
    BY <1>1, WindowsOfSound DEF MuxInv, InvOf
<1>4. u \in Window /\ WindowOK(u) /\ u.tabs = v.tabs
    BY <1>1, <1>3, ActivatedIs
<1>. HIDE DEF u
<1>5. InvOf([mux EXCEPT !.windows[w] = u], spawns)
    BY <1>1, <1>4, SameTabsKeepInv DEF MuxInv
<1>6. QED
    BY <1>1, <1>2, <1>5 DEF MuxInv

LEMMA InsertAtIs ==
    ASSUME NEW s \in Seq(TabIds), IsInjective(s), NEW k \in 1..Len(s) + 1,
           NEW e \in TabIds, e \notin ToSet(s)
    PROVE  /\ InsertAt(s, k, e) \in Seq(TabIds)
           /\ Len(InsertAt(s, k, e)) = Len(s) + 1
           /\ IsInjective(InsertAt(s, k, e))
           /\ ToSet(InsertAt(s, k, e)) = ToSet(s) \cup {e}
<1>. DEFINE a == SubSeq(s, 1, k - 1)
            c == <<e>>
            b == SubSeq(s, k, Len(s))
            x == a \o c
            r == x \o b
<1>1. a \in Seq(TabIds) /\ Len(a) = k - 1 /\ \A i \in 1..k - 1 : a[i] = s[i]
    OBVIOUS
<1>2. /\ b \in Seq(TabIds) /\ Len(b) = Len(s) - k + 1
      /\ \A i \in 1..Len(s) - k + 1 : b[i] = s[k + i - 1]
    OBVIOUS
<1>3. c \in Seq(TabIds) /\ Len(c) = 1 /\ c[1] = e
    OBVIOUS
<1>4. InsertAt(s, k, e) = r
    BY DEF InsertAt
<1>5. Len(s) \in Nat /\ DOMAIN s = 1..Len(s) /\ k \in Int
    OBVIOUS
<1>. HIDE DEF a, b, c
<1>6. x \in Seq(TabIds) /\ Len(x) = Len(a) + Len(c)
      /\ \A i \in 1..Len(a) + Len(c) : x[i] = IF i <= Len(a) THEN a[i] ELSE c[i - Len(a)]
    BY <1>1, <1>3, ConcatIs
<1>7. Len(x) = k /\ \A i \in 1..k : x[i] = IF i < k THEN s[i] ELSE e
    <2>1. Len(x) = k
        BY <1>1, <1>3, <1>5, <1>6
    <2>2. ASSUME NEW i \in 1..k PROVE x[i] = IF i < k THEN s[i] ELSE e
        <3>1. CASE i < k
            BY <3>1, <1>1, <1>3, <1>5, <1>6
        <3>2. CASE ~ (i < k)
            <4>1. i = k /\ ~ (i <= Len(a)) /\ i - Len(a) = 1 /\ i \in 1..Len(a) + Len(c)
                BY <3>2, <1>1, <1>3, <1>5
            <4>2. QED
                BY <4>1, <1>3, <1>6
        <3>3. QED
            BY <3>1, <3>2
    <2>3. QED
        BY <2>1, <2>2
<1>. HIDE DEF x
<1>8. r \in Seq(TabIds) /\ Len(r) = Len(x) + Len(b)
      /\ \A i \in 1..Len(x) + Len(b) : r[i] = IF i <= Len(x) THEN x[i] ELSE b[i - Len(x)]
    BY <1>2, <1>6, ConcatIs
<1>9. Len(r) = Len(s) + 1
      /\ \A i \in 1..Len(s) + 1 : r[i] = IF i < k THEN s[i] ELSE IF i = k THEN e ELSE s[i - 1]
    <2>1. Len(r) = Len(s) + 1
        BY <1>2, <1>5, <1>7, <1>8
    <2>2. ASSUME NEW i \in 1..Len(s) + 1
          PROVE  r[i] = IF i < k THEN s[i] ELSE IF i = k THEN e ELSE s[i - 1]
        <3>1. i \in 1..Len(x) + Len(b)
            BY <1>2, <1>5, <1>7
        <3>2. CASE i <= k
            <4>1. i \in 1..k /\ i <= Len(x)
                BY <3>2, <1>7
            <4>2. QED
                BY <4>1, <3>1, <3>2, <1>5, <1>7, <1>8
        <3>3. CASE ~ (i <= k)
            <4>1. ~ (i <= Len(x)) /\ i - k \in 1..Len(s) - k + 1 /\ k + (i - k) - 1 = i - 1
                  /\ ~ (i < k) /\ i # k /\ i - Len(x) = i - k
                BY <3>3, <1>5, <1>7
            <4>2. r[i] = b[i - k]
                BY <4>1, <3>1, <1>8
            <4>3. b[i - k] = s[k + (i - k) - 1]
                BY <4>1, <1>2
            <4>4. QED
                BY <4>1, <4>2, <4>3
        <3>4. QED
            BY <3>2, <3>3
    <2>3. QED
        BY <2>1, <2>2
<1>. HIDE DEF r
<1>10. \A i, j \in 1..Len(s) : s[i] = s[j] => i = j
    BY <1>5 DEF IsInjective
<1>11. \A i \in 1..Len(s) : s[i] # e
    BY ElementsOf
<1>12. ASSUME NEW i \in 1..Len(s) + 1
       PROVE  \/ i < k /\ i \in 1..Len(s) /\ r[i] = s[i]
              \/ i = k /\ r[i] = e
              \/ i > k /\ i - 1 \in 1..Len(s) /\ r[i] = s[i - 1]
    BY <1>5, <1>9
<1>13. ASSUME NEW i \in 1..Len(s) + 1, NEW j \in 1..Len(s) + 1, r[i] = r[j]
       PROVE  i = j
    <2>1. i \in Int /\ j \in Int
        OBVIOUS
    <2>2. CASE i = k \/ j = k
        BY <2>2, <1>11, <1>12, <1>13
    <2>3. CASE i < k /\ j < k
        BY <2>1, <2>3, <1>5, <1>10, <1>12, <1>13
    <2>4. CASE i > k /\ j > k
        <3>1. i - 1 = j - 1
            BY <2>1, <2>4, <1>5, <1>10, <1>12, <1>13
        <3>2. QED
            BY <2>1, <3>1
    <2>5. CASE i < k /\ j > k
        <3>1. i = j - 1
            BY <2>1, <2>5, <1>5, <1>10, <1>12, <1>13
        <3>2. QED
            BY <2>1, <2>5, <3>1, <1>5
    <2>6. CASE i > k /\ j < k
        <3>1. j = i - 1
            BY <2>1, <2>6, <1>5, <1>10, <1>12, <1>13
        <3>2. QED
            BY <2>1, <2>6, <3>1, <1>5
    <2>7. QED
        BY <2>1, <2>2, <2>3, <2>4, <2>5, <2>6, <1>5
<1>14. DOMAIN r = 1..Len(s) + 1
    BY <1>8, <1>9
<1>15. IsInjective(r)
    BY <1>13, <1>14 DEF IsInjective
<1>16. ToSet(r) \subseteq ToSet(s) \cup {e}
    BY <1>12, <1>14, ElementsOf DEF ToSet
<1>17. e \in ToSet(r)
    <2>1. r[k] = e
        BY <1>9, <1>5
    <2>2. QED
        BY <2>1, <1>14 DEF ToSet
<1>18. ASSUME NEW j \in 1..Len(s) PROVE s[j] \in ToSet(r)
    <2>1. CASE j < k
        <3>1. j \in 1..Len(s) + 1 /\ r[j] = s[j]
            BY <2>1, <1>5, <1>9
        <3>2. QED
            BY <3>1, <1>14 DEF ToSet
    <2>2. CASE ~ (j < k)
        <3>1. j + 1 \in 1..Len(s) + 1 /\ ~ (j + 1 < k) /\ j + 1 # k /\ (j + 1) - 1 = j
            BY <2>2, <1>5
        <3>2. r[j + 1] = s[j]
            BY <3>1, <1>9
        <3>3. QED
            BY <3>1, <3>2, <1>14 DEF ToSet
    <2>3. QED
        BY <2>1, <2>2
<1>19. ToSet(s) \subseteq ToSet(r)
    BY <1>18, ElementsOf
<1>20. QED
    BY <1>4, <1>8, <1>9, <1>15, <1>16, <1>17, <1>19

\* move_tab: the window has the same tabs in another order.
LEMMA MoveTabIs ==
    ASSUME MuxInv, NEW w, NEW i, MoveTab(w, i)
    PROVE  /\ w \in DOMAIN mux.windows /\ spawns' = spawns
           /\ \E u \in Window :
                /\ WindowOK(u) /\ ToSet(u.tabs) = ToSet(mux.windows[w].tabs)
                /\ Len(u.tabs) = Len(mux.windows[w].tabs)
                /\ mux' = [mux EXCEPT !.windows[w] = u]
<1>. DEFINE v == mux.windows[w]
            rest == RemoveAt(v.tabs, v.active)
            moved == InsertAt(rest, i, ActiveTab(v))
            u == [v EXCEPT !.tabs = moved, !.active = i]
<1>1. w \in DOMAIN mux.windows /\ i \in 1..Len(v.tabs) /\ v.active \in 1..Len(v.tabs)
      /\ spawns' = spawns
    BY DEF MoveTab
<1>2. v \in Window /\ WindowOK(v)
    BY <1>1, WindowsOfSound DEF MuxInv, InvOf
<1>3. v.tabs \in Seq(TabIds) /\ IsInjective(v.tabs)
    BY <1>2 DEF Window, WindowOK
<1>4. v.tabs # <<>>
    BY <1>1, <1>3
<1>5. ActiveTab(v) = v.tabs[v.active] /\ ActiveTab(v) \in TabIds
      /\ ActiveTab(v) \in ToSet(v.tabs)
    BY <1>2, <1>4, ActiveTabIs
<1>6. rest \in Seq(TabIds) /\ Len(rest) = Len(v.tabs) - 1 /\ IsInjective(rest)
      /\ ToSet(rest) = ToSet(v.tabs) \ {ActiveTab(v)}
    BY <1>1, <1>3, <1>5, RemoveAtIs, RemoveAtLeaves
<1>7. Len(rest) + 1 = Len(v.tabs)
  <2>. HIDE DEF rest
  <2>. QED
    BY <1>3, <1>6
<1>8. mux' = [mux EXCEPT !.windows[w] = u]
    <2>1. mux' = [mux EXCEPT !.windows[w].tabs = moved, !.windows[w].active = i]
        BY DEF MoveTab
    <2>2. mux \in MuxRecord /\ mux.windows = [x \in DOMAIN mux.windows |-> mux.windows[x]]
        BY WindowsAre DEF MuxInv, InvOf, Sound, MuxRecord
    <2>. HIDE DEF moved
    <2>. DEFINE step == [v EXCEPT !.tabs = moved]
                ws == [mux.windows EXCEPT ![w] = step]
                k == [mux EXCEPT !.windows = ws]
    <2>3. mux' = [k EXCEPT !.windows[w].active = i]
        BY <2>1
    <2>4. k.windows = ws /\ ws[w] = step
        BY <1>1, <2>2 DEF MuxRecord
    <2>5. mux' = [k EXCEPT !.windows = [ws EXCEPT ![w] = [step EXCEPT !.active = i]]]
        BY <2>3, <2>4
    <2>6. [step EXCEPT !.active = i] = u
        BY <1>2 DEF Window
    <2>7. [ws EXCEPT ![w] = u] = [mux.windows EXCEPT ![w] = u]
        BY <2>2
    <2>8. QED
        BY <2>2, <2>5, <2>6, <2>7 DEF MuxRecord
<1>. HIDE DEF rest
<1>9. moved \in Seq(TabIds) /\ Len(moved) = Len(v.tabs) /\ IsInjective(moved)
      /\ ToSet(moved) = ToSet(v.tabs)
    <2>. DEFINE e == ActiveTab(v)
    <2>1. i \in 1..Len(rest) + 1 /\ e \in TabIds /\ e \notin ToSet(rest)
        BY <1>1, <1>5, <1>6, <1>7
    <2>2. ToSet(rest) \cup {e} = ToSet(v.tabs)
        BY <1>5, <1>6
    <2>. HIDE DEF e
    <2>3. /\ InsertAt(rest, i, e) \in Seq(TabIds)
          /\ Len(InsertAt(rest, i, e)) = Len(rest) + 1
          /\ IsInjective(InsertAt(rest, i, e))
          /\ ToSet(InsertAt(rest, i, e)) = ToSet(rest) \cup {e}
        BY <2>1, <1>6, InsertAtIs
    <2>4. QED
        BY <2>2, <2>3, <1>7 DEF e
<1>. HIDE DEF moved
<1>10. u.tabs = moved /\ u.active = i /\ u \in Window
    <2>1. i \in Nat \ {0}
        BY <1>1
    <2>. HIDE DEF v
    <2>2. QED
        BY <2>1, <1>2, <1>9 DEF Window
<1>. HIDE DEF u
<1>11. WindowOK(u)
    <2>1. moved # <<>>
        BY <1>4, <1>3, <1>9, ElementsOf
    <2>2. QED
        BY <2>1, <1>1, <1>9, <1>10 DEF WindowOK
<1>12. QED
    BY <1>1, <1>8, <1>9, <1>10, <1>11

LEMMA MoveTabKeepsInv ==
    ASSUME MuxInv, NEW w, NEW i, MoveTab(w, i) PROVE MuxInv'
<1>1. w \in DOMAIN mux.windows /\ spawns' = spawns
    BY MoveTabIs
<1>2. PICK u \in Window :
        /\ WindowOK(u) /\ ToSet(u.tabs) = ToSet(mux.windows[w].tabs)
        /\ mux' = [mux EXCEPT !.windows[w] = u]
    BY MoveTabIs
<1>3. InvOf([mux EXCEPT !.windows[w] = u], spawns)
    BY <1>1, <1>2, SameTabsKeepInv DEF MuxInv
<1>4. QED
    BY <1>1, <1>2, <1>3 DEF MuxInv

-------------------------------------------------------------------------------
\* The calls that add.

\* new_empty_window
LEMMA AddWindowIs ==
    ASSUME NEW m, Sound(m), NEW w \in WindowIds, w \notin DOMAIN m.windows
    PROVE  LET n == AddWindow(m, w)
           IN  /\ Sound(n) /\ SameRest(m, n)
               /\ n.tabs = m.tabs /\ n.panes = m.panes /\ n.tree = m.tree
               /\ n.vacant = m.vacant /\ n.unannounced = m.unannounced
               /\ DOMAIN n.windows = DOMAIN m.windows \cup {w}
               /\ n.windows[w] = EmptyWindow
               /\ \A v \in DOMAIN m.windows : n.windows[v] = m.windows[v]
               /\ TabsOf(n) = TabsOf(m) /\ PlacedPanes(n) = PlacedPanes(m)
<1>. DEFINE ws == [v \in DOMAIN m.windows \cup {w} |->
                      IF v = w THEN EmptyWindow ELSE m.windows[v]]
            n == [m EXCEPT !.windows = ws]
<1>1. m \in MuxRecord /\ DOMAIN m.windows \subseteq WindowIds
      /\ \A u \in DOMAIN m.windows : m.windows[u] \in Window
    BY WindowsOfSound DEF Sound
<1>2. EmptyWindow \in Window /\ EmptyWindow.tabs = <<>> /\ EmptyWindow.active = 1
    BY DEF EmptyWindow, Window
<1>3. WindowOK(EmptyWindow) /\ ToSet(EmptyWindow.tabs) = {}
    BY <1>2 DEF WindowOK, IsInjective, ToSet
<1>4. /\ DOMAIN ws = DOMAIN m.windows \cup {w} /\ ws[w] = EmptyWindow
      /\ \A v \in DOMAIN m.windows : ws[v] = m.windows[v]
      /\ ws = [v \in DOMAIN ws |-> ws[v]]
    OBVIOUS
<1>5. AddWindow(m, w) = n
    BY DEF AddWindow
<1>. HIDE DEF ws
<1>6. ws \in Windows
    BY <1>1, <1>2, <1>4, WindowsAre
<1>7. /\ n \in MuxRecord /\ n.windows = ws /\ SameRest(m, n)
      /\ n.tabs = m.tabs /\ n.panes = m.panes /\ n.tree = m.tree
      /\ n.vacant = m.vacant /\ n.unannounced = m.unannounced
    BY <1>1, <1>6 DEF MuxRecord, SameRest
<1>. HIDE DEF n
<1>8. /\ DOMAIN n.windows = DOMAIN m.windows \cup {w} /\ n.windows[w] = EmptyWindow
      /\ \A v \in DOMAIN m.windows : n.windows[v] = m.windows[v]
    BY <1>4, <1>7
<1>9. TabsOf(n) = TabsOf(m)
    <2>1. ASSUME NEW t PROVE t \in TabsOf(n) <=> t \in TabsOf(m)
        <3>1. t \in TabsOf(n) <=> \E u \in DOMAIN n.windows : t \in ToSet(n.windows[u].tabs)
            BY TabsOfIs
        <3>2. t \in TabsOf(m) <=> \E u \in DOMAIN m.windows : t \in ToSet(m.windows[u].tabs)
            BY TabsOfIs
        <3>3. t \notin ToSet(n.windows[w].tabs)
            BY <1>3, <1>8
        <3>4. QED
            BY <3>1, <3>2, <3>3, <1>8
    <2>2. QED
        BY <2>1
<1>10. PlacedPanes(n) = PlacedPanes(m)
    BY <1>7, <1>9 DEF PlacedPanes
<1>11. \A v \in DOMAIN n.windows : WindowOK(n.windows[v])
    BY <1>3, <1>8 DEF Sound
<1>12. ASSUME NEW u \in DOMAIN n.windows, NEW x \in DOMAIN n.windows, u # x
       PROVE  ToSet(n.windows[u].tabs) \cap ToSet(n.windows[x].tabs) = {}
    <2>1. CASE u = w \/ x = w
        BY <2>1, <1>3, <1>8
    <2>2. CASE u # w /\ x # w
        BY <2>2, <1>8, <1>12 DEF Sound
    <2>3. QED
        BY <2>1, <2>2
<1>13. Sound(n)
    BY <1>7, <1>9, <1>11, <1>12 DEF Sound
<1>14. QED
    BY <1>5, <1>7, <1>8, <1>9, <1>10, <1>13

\* add_pane
LEMMA AddPaneIs ==
    ASSUME NEW m, Sound(m), Counted(m), LastIsGone(m), NEW p \in PaneIds
    PROVE  LET n == AddPane(m, p)
           IN  /\ Sound(n) /\ SameRest(m, n)
               /\ n.tabs = m.tabs /\ n.tree = m.tree /\ n.windows = m.windows
               /\ n.panes = m.panes \cup {p} /\ ~ n.unannounced
               /\ TabsOf(n) = TabsOf(m) /\ PlacedPanes(n) = PlacedPanes(m)
               /\ Counted(n) /\ (EmptyIsCounted(m) => EmptyIsCounted(n))
<1>1. CASE p \in m.panes
    <2>1. AddPane(m, p) = m /\ m.panes \cup {p} = m.panes
        BY <1>1 DEF AddPane
    <2>2. ~ m.unannounced
        BY <1>1 DEF LastIsGone
    <2>3. QED
        BY <2>1, <2>2 DEF SameRest
<1>2. CASE p \notin m.panes
    <2>. DEFINE ps == m.panes \cup {p}
                k == [m EXCEPT !.panes = ps, !.unannounced = FALSE]
                n == Recounted(k)
    <2>1. m \in MuxRecord
        BY DEF Sound
    <2>2. ps \subseteq PaneIds
        BY <2>1 DEF MuxRecord
    <2>3. AddPane(m, p) = n
        BY <1>2 DEF AddPane
    <2>. HIDE DEF ps
    <2>4. /\ k \in MuxRecord /\ k.panes = ps /\ k.unannounced = FALSE /\ SameRest(m, k)
          /\ k.tabs = m.tabs /\ k.tree = m.tree /\ k.windows = m.windows
        BY <2>1, <2>2 DEF MuxRecord, SameRest
    <2>. HIDE DEF k
    <2>5. Sound(k) /\ TabsOf(k) = TabsOf(m) /\ PlacedPanes(k) = PlacedPanes(m)
        BY <2>4, SameView
    <2>6. /\ n \in MuxRecord
          /\ n.tabs = k.tabs /\ n.panes = k.panes /\ n.tree = k.tree /\ n.windows = k.windows
          /\ SameRest(k, n) /\ n.unannounced = k.unannounced
          /\ n.vacant <=> PlacedPanes(k) = {}
        BY <2>4, RecountedIs
    <2>7. Counted(n) /\ EmptyIsCounted(n) /\ RemovesWindows(k, n)
        BY <2>5, RecountedRemoves
    <2>. HIDE DEF n
    <2>8. Sound(n) /\ TabsOf(n) = TabsOf(k) /\ PlacedPanes(n) = PlacedPanes(k)
        BY <2>5, <2>6, SameView
    <2>9. SameRest(m, n) /\ n.tabs = m.tabs /\ n.tree = m.tree /\ n.windows = m.windows
          /\ ~ n.unannounced
        BY <2>4, <2>6 DEF SameRest
    <2>10. n.panes = m.panes \cup {p}
        BY <2>4, <2>6 DEF ps
    <2>11. QED
        BY <2>3, <2>5, <2>7, <2>8, <2>9, <2>10
<1>3. QED
    BY <1>1, <1>2

\* Tab::new and add_tab_and_active_pane: the tab is in no window yet.
LEMMA AddTabIs ==
    ASSUME NEW m, Sound(m), Counted(m), LastIsGone(m),
           NEW t \in TabIds, t \notin TabsOf(m), NEW p \in PaneIds,
           \A u \in TabIds : u # t => p \notin m.tree[u]
    PROVE  LET n == AddTab(m, t, p)
           IN  /\ Sound(n) /\ SameRest(m, n)
               /\ n.tabs = m.tabs \cup {t} /\ n.panes = m.panes \cup {p}
               /\ n.windows = m.windows /\ n.tree[t] = {p}
               /\ \A u \in TabIds : u # t => n.tree[u] = m.tree[u]
               /\ ~ n.unannounced
               /\ TabsOf(n) = TabsOf(m) /\ PlacedPanes(n) = PlacedPanes(m)
               /\ Counted(n) /\ (EmptyIsCounted(m) => EmptyIsCounted(n))
<1>. DEFINE ts == m.tabs \cup {t}
            tr == [m.tree EXCEPT ![t] = {p}]
            k == [m EXCEPT !.tabs = ts, !.tree = tr]
            n == AddPane(k, p)
<1>1. m \in MuxRecord
    BY DEF Sound
<1>2. /\ ts \subseteq TabIds /\ tr \in [TabIds -> SUBSET PaneIds]
      /\ tr[t] = {p} /\ \A u \in TabIds : u # t => tr[u] = m.tree[u]
    BY <1>1 DEF MuxRecord
<1>3. AddTab(m, t, p) = n
    BY DEF AddTab
<1>. HIDE DEF ts, tr
<1>4. /\ k \in MuxRecord /\ k.tabs = ts /\ k.tree = tr /\ SameRest(m, k)
      /\ k.panes = m.panes /\ k.windows = m.windows /\ k.vacant = m.vacant
      /\ k.unannounced = m.unannounced
    BY <1>1, <1>2 DEF MuxRecord, SameRest
<1>. HIDE DEF k
<1>5. TabsOf(k) = TabsOf(m) /\ TabsOf(m) \subseteq TabIds
    BY <1>1, <1>4, SameTabs, TabsOfAreTabs
<1>6. PlacedPanes(k) = PlacedPanes(m)
    <2>1. \A u \in TabsOf(m) : k.tree[u] = m.tree[u]
        BY <1>2, <1>4, <1>5
    <2>2. QED
        BY <2>1, <1>5 DEF PlacedPanes
<1>7. Sound(k)
    <2>1. \A u, v \in TabIds : u # v => k.tree[u] \cap k.tree[v] = {}
        BY <1>2, <1>4 DEF Sound
    <2>2. TabsOf(k) \subseteq k.tabs
        BY <1>4, <1>5 DEF Sound, ts
    <2>3. QED
        BY <2>1, <2>2, <1>4 DEF Sound
<1>8. Counted(k) /\ LastIsGone(k) /\ (EmptyIsCounted(m) => EmptyIsCounted(k))
    BY <1>4, <1>6 DEF Counted, LastIsGone, EmptyIsCounted
<1>9. /\ Sound(n) /\ SameRest(k, n)
      /\ n.tabs = k.tabs /\ n.tree = k.tree /\ n.windows = k.windows
      /\ n.panes = k.panes \cup {p} /\ ~ n.unannounced
      /\ TabsOf(n) = TabsOf(k) /\ PlacedPanes(n) = PlacedPanes(k)
      /\ Counted(n) /\ (EmptyIsCounted(k) => EmptyIsCounted(n))
    BY <1>7, <1>8, AddPaneIs
<1>. HIDE DEF n
<1>10. n.tree[t] = {p} /\ \A u \in TabIds : u # t => n.tree[u] = m.tree[u]
    BY <1>2, <1>4, <1>9
<1>11. n.tabs = m.tabs \cup {t}
    BY <1>4, <1>9 DEF ts
<1>12. SameRest(m, n)
    BY <1>4, <1>9 DEF SameRest
<1>13. QED
    BY <1>3, <1>4, <1>5, <1>6, <1>8, <1>9, <1>10, <1>11, <1>12

LEMMA AppendIs ==
    ASSUME NEW v \in Window, WindowOK(v), NEW t \in TabIds, t \notin ToSet(v.tabs)
    PROVE  LET u == [v EXCEPT !.tabs = Append(@, t)]
           IN  /\ u \in Window /\ WindowOK(u) /\ u.tabs = Append(v.tabs, t)
               /\ ToSet(u.tabs) = ToSet(v.tabs) \cup {t}
               /\ u.tabs # <<>> /\ Len(u.tabs) = Len(v.tabs) + 1
               /\ ActiveTab(v) # NoTab => ActiveTab(u) = ActiveTab(v)
<1>. DEFINE s == v.tabs
            r == Append(s, t)
            u == [v EXCEPT !.tabs = r]
<1>1. s \in Seq(TabIds) /\ IsInjective(s) /\ Len(s) \in Nat /\ DOMAIN s = 1..Len(s)
    BY DEF Window, WindowOK
<1>2. r \in Seq(TabIds) /\ Len(r) = Len(s) + 1 /\ r[Len(s) + 1] = t
      /\ \A i \in 1..Len(s) : r[i] = s[i]
    BY <1>1
<1>3. DOMAIN r = 1..Len(s) + 1
    BY <1>2
<1>. HIDE DEF r, s
<1>4. \A i \in 1..Len(s) + 1 : i \in 1..Len(s) \/ i = Len(s) + 1
    BY <1>1
<1>5. \A i \in 1..Len(s) : s[i] # t
    BY <1>1, ElementsOf DEF s
<1>6. IsInjective(r)
    BY <1>1, <1>2, <1>3, <1>4, <1>5 DEF IsInjective
<1>7. ToSet(r) = ToSet(s) \cup {t}
    <2>1. ToSet(r) \subseteq ToSet(s) \cup {t}
        BY <1>1, <1>2, <1>3, <1>4 DEF ToSet
    <2>2. Len(s) + 1 \in 1..Len(s) + 1 /\ \A i \in 1..Len(s) : i \in 1..Len(s) + 1
        BY <1>1
    <2>3. ToSet(s) \cup {t} \subseteq ToSet(r)
        BY <1>1, <1>2, <1>3, <2>2 DEF ToSet
    <2>4. QED
        BY <2>1, <2>3
<1>8. u.tabs = r /\ u.active = v.active /\ u \in Window
    BY <1>2 DEF Window
<1>. HIDE DEF u
<1>9. r # <<>>
    BY <1>1, <1>2
<1>10. v.active \in 1..Len(s) + 1 /\ (s # <<>> => v.active \in 1..Len(s))
    BY <1>1 DEF WindowOK, s
<1>11. WindowOK(u)
    BY <1>2, <1>6, <1>8, <1>9, <1>10 DEF WindowOK
<1>12. ASSUME ActiveTab(v) # NoTab PROVE ActiveTab(u) = ActiveTab(v)
    <2>1. s # <<>> /\ ActiveTab(v) = s[v.active]
        BY <1>12, ActiveTabIs DEF s
    <2>2. ActiveTab(u) = r[v.active]
        BY <1>8, <1>9, <1>11, ActiveTabIs
    <2>3. QED
        BY <2>1, <2>2, <1>2, <1>10
<1>13. QED
    BY <1>2, <1>7, <1>8, <1>9, <1>11, <1>12 DEF u, r, s

\* add_tab_to_window, of a window that is there
LEMMA AddTabToWindowIs ==
    ASSUME NEW m, Sound(m), NEW t \in m.tabs, t \notin TabsOf(m), NEW w \in DOMAIN m.windows
    PROVE  LET n == AddTabToWindow(m, t, w)
           IN  /\ Sound(n) /\ SameRest(m, n)
               /\ n.tabs = m.tabs /\ n.panes = m.panes /\ n.tree = m.tree
               /\ n.unannounced = m.unannounced
               /\ DOMAIN n.windows = DOMAIN m.windows
               /\ n.windows[w].tabs # <<>>
               /\ Len(n.windows[w].tabs) = Len(m.windows[w].tabs) + 1
               /\ ActiveTab(m.windows[w]) # NoTab =>
                    ActiveTab(n.windows[w]) = ActiveTab(m.windows[w])
               /\ \A u \in DOMAIN m.windows : u # w => n.windows[u] = m.windows[u]
               /\ TabsOf(n) = TabsOf(m) \cup {t}
               /\ PlacedPanes(n) = PlacedPanes(m) \cup m.tree[t]
               /\ Counted(n) /\ EmptyIsCounted(n)
<1>. DEFINE v == m.windows[w]
            u == [v EXCEPT !.tabs = Append(@, t)]
            k == [m EXCEPT !.windows[w] = u]
            n == Recounted(k)
<1>1. AddTabToWindow(m, t, w) = n
    BY DEF AddTabToWindow
<1>2. v \in Window /\ WindowOK(v)
    BY WindowsOfSound
<1>3. t \in TabIds /\ t \notin ToSet(v.tabs)
    BY TabsOfIs DEF Sound, MuxRecord
<1>. HIDE DEF v
<1>4. /\ u \in Window /\ WindowOK(u)
      /\ ToSet(u.tabs) = ToSet(v.tabs) \cup {t}
      /\ u.tabs # <<>> /\ Len(u.tabs) = Len(v.tabs) + 1
      /\ ActiveTab(v) # NoTab => ActiveTab(u) = ActiveTab(v)
    BY <1>2, <1>3, AppendIs
<1>. HIDE DEF u
<1>. DEFINE ts == {t}
<1>5. ts \in SUBSET m.tabs /\ ts \cap TabsOf(m) = {}
      /\ ToSet(u.tabs) = ToSet(m.windows[w].tabs) \cup ts
    BY <1>4 DEF v
<1>6. /\ Sound(k) /\ SameRest(m, k)
      /\ k.tabs = m.tabs /\ k.panes = m.panes /\ k.tree = m.tree
      /\ k.unannounced = m.unannounced
      /\ DOMAIN k.windows = DOMAIN m.windows /\ k.windows[w] = u
      /\ \A x \in DOMAIN m.windows : x # w => k.windows[x] = m.windows[x]
      /\ TabsOf(k) = TabsOf(m) \cup {t}
    <2>. HIDE DEF ts
    <2>1. /\ Sound(k) /\ SameRest(m, k)
          /\ k.tabs = m.tabs /\ k.panes = m.panes /\ k.tree = m.tree
          /\ k.unannounced = m.unannounced
          /\ DOMAIN k.windows = DOMAIN m.windows /\ k.windows[w] = u
          /\ \A x \in DOMAIN m.windows : x # w => k.windows[x] = m.windows[x]
          /\ TabsOf(k) = TabsOf(m) \cup ts
        <3>1. u \in Window /\ WindowOK(u)
            BY <1>4
        <3>2. QED
            BY <3>1, <1>5, WindowReplaced
    <2>2. QED
        BY <2>1 DEF ts
<1>. HIDE DEF k
<1>7. PlacedPanes(k) = PlacedPanes(m) \cup m.tree[t]
    BY <1>6 DEF PlacedPanes
<1>8. /\ n \in MuxRecord
      /\ n.tabs = k.tabs /\ n.panes = k.panes /\ n.tree = k.tree /\ n.windows = k.windows
      /\ SameRest(k, n) /\ n.unannounced = k.unannounced
    BY <1>6, RecountedIs DEF Sound
<1>9. Counted(n) /\ EmptyIsCounted(n)
    BY <1>6, RecountedRemoves
<1>. HIDE DEF n
<1>10. Sound(n) /\ TabsOf(n) = TabsOf(k) /\ PlacedPanes(n) = PlacedPanes(k)
    BY <1>6, <1>8, SameView
<1>11. SameRest(m, n)
    BY <1>6, <1>8 DEF SameRest
<1>12. n.windows[w] = u
    BY <1>6, <1>8
<1>13. QED
    BY <1>1, <1>4, <1>6, <1>7, <1>8, <1>9, <1>10, <1>11, <1>12 DEF v

LEMMA SpawnWindowKeepsInv ==
    ASSUME MuxInv, NEW w \in WindowIds, SpawnWindow(w) PROVE MuxInv'
<1>. DEFINE op == [kind |-> "window", home |-> w]
            n == AddWindow(mux, w)
            ops == spawns \cup {op}
<1>1. InvOf(mux, spawns) /\ Sound(mux)
    BY DEF MuxInv, InvOf
<1>2. op \in Spawn /\ op.kind = "window" /\ op.home = w
    BY DEF Spawn
<1>3. spawns' = ops /\ mux' = n /\ w \notin DOMAIN mux.windows
    BY DEF SpawnWindow, StartSpawn, FreeWindows
<1>4. /\ Sound(n) /\ SameRest(mux, n)
      /\ n.tabs = mux.tabs /\ n.panes = mux.panes /\ n.tree = mux.tree
      /\ n.vacant = mux.vacant /\ n.unannounced = mux.unannounced
      /\ DOMAIN n.windows = DOMAIN mux.windows \cup {w}
      /\ TabsOf(n) = TabsOf(mux) /\ PlacedPanes(n) = PlacedPanes(mux)
    BY <1>1, <1>3, AddWindowIs
<1>. HIDE DEF n, op
<1>5. IsFiniteSet(ops) /\ ops \subseteq Spawn
    BY <1>1, <1>2, FS_AddElement DEF InvOf
<1>6. Building(ops)
    BY <1>2 DEF Building
<1>7. HomesKept(n, ops)
    BY <1>1, <1>2, <1>4 DEF InvOf, HomesKept
<1>8. HeldBut(n, {}) /\ Counted(n) /\ LastIsGone(n)
    BY <1>1, <1>4 DEF InvOf, HeldBut, Counted, LastIsGone, SameRest
<1>9. InvOf(n, ops)
    BY <1>4, <1>5, <1>6, <1>7, <1>8 DEF InvOf, HeldUp, Due
<1>10. QED
    BY <1>3, <1>9 DEF MuxInv

\* A pane that is placed by the action owes a prune only if one was owed.
LEMMA NothingNewOwed ==
    ASSUME NEW m, NEW n, NEW p, NothingOwed(m), p \in m.panes \/ p \notin m.dead,
           p \notin m.dead \/ p \notin m.panes \/ p \in PlacedPanes(m),
           n.dead = m.dead, m.panes \subseteq n.panes,
           PlacedPanes(n) \subseteq PlacedPanes(m) \cup {p},
           EmptyIsCounted(n), ~ n.unannounced
    PROVE  NothingOwed(n)
    BY DEF NothingOwed, Doomed

LEMMA FinishSpawnKeepsInv ==
    ASSUME MuxInv, NEW op \in spawns, NEW p \in PaneIds, NEW t \in TabIds,
           FinishSpawn(op, p, t)
    PROVE  MuxInv'
<1>. DEFINE w == op.home
            a == AddTab(mux, t, p)
            b == AddTabToWindow(a, t, w)
            n == IF w \in DOMAIN mux.windows
                 THEN [b EXCEPT !.windows[w] = Activated(@, Len(@.tabs))]
                 ELSE Stranded(b, p)
<1>1. InvOf(mux, spawns) /\ Sound(mux) /\ mux \in MuxRecord
    BY DEF MuxInv, InvOf, Sound
<1>2. p \in FreePanes /\ t \in FreeTabs /\ spawns' = spawns \ {op} /\ mux' = Dropped(n, op)
    BY DEF FinishSpawn
<1>3. /\ p \notin mux.panes /\ p \notin mux.removals
      /\ \A u \in TabIds : p \notin mux.tree[u]
      /\ t \notin mux.tabs /\ t \notin TabsOf(mux)
      /\ \A x \in spawns : x.kind = "split" => x.home # t
    BY <1>2 DEF FreePanes, FreeTabs
<1>4. /\ Sound(a) /\ SameRest(mux, a)
      /\ a.tabs = mux.tabs \cup {t} /\ a.panes = mux.panes \cup {p}
      /\ a.windows = mux.windows /\ a.tree[t] = {p}
      /\ \A u \in TabIds : u # t => a.tree[u] = mux.tree[u]
      /\ ~ a.unannounced
      /\ TabsOf(a) = TabsOf(mux) /\ PlacedPanes(a) = PlacedPanes(mux)
      /\ Counted(a) /\ (EmptyIsCounted(mux) => EmptyIsCounted(a))
    BY <1>1, <1>3, AddTabIs DEF InvOf
<1>. HIDE DEF a
<1>5. NothingOwed(mux) => p \notin mux.dead
    BY <1>3 DEF NothingOwed, Doomed
<1>6. CASE w \in DOMAIN mux.windows
    <2>1. /\ Sound(b) /\ SameRest(a, b)
          /\ b.tabs = a.tabs /\ b.panes = a.panes /\ b.tree = a.tree
          /\ b.unannounced = a.unannounced
          /\ DOMAIN b.windows = DOMAIN a.windows
          /\ b.windows[w].tabs # <<>>
          /\ \A u \in DOMAIN a.windows : u # w => b.windows[u] = a.windows[u]
          /\ TabsOf(b) = TabsOf(a) \cup {t}
          /\ PlacedPanes(b) = PlacedPanes(a) \cup a.tree[t]
          /\ Counted(b) /\ EmptyIsCounted(b)
        BY <1>3, <1>4, <1>6, AddTabToWindowIs
    <2>. HIDE DEF b, w
    <2>2. PlacedPanes(b) = PlacedPanes(mux) \cup {p} /\ SameRest(mux, b)
          /\ TabsOf(b) = TabsOf(mux) \cup {t}
        BY <1>4, <2>1 DEF SameRest
    <2>3. HeldBut(b, {}) /\ LastIsGone(b)
        BY <1>1, <1>4, <2>1, <2>2 DEF InvOf, HeldBut, LastIsGone, SameRest
    <2>4. HomesKept(b, spawns)
        BY <1>1, <1>3, <1>4, <2>1, <2>2 DEF InvOf, HomesKept
    <2>5. NoEmptyWindow(mux) => NoEmptyWindow(b)
        BY <1>4, <2>1 DEF NoEmptyWindow
    <2>6. NothingOwed(mux) => NothingOwed(b)
        BY <1>4, <1>5, <2>1, <2>2, NothingNewOwed DEF SameRest
    <2>7. InvOf(b, spawns)
        BY <1>1, <2>1, <2>2, <2>3, <2>4, <2>5, <2>6 DEF InvOf, HeldUp, Due, SameRest
    <2>. DEFINE v == b.windows[w]
                z == Activated(v, Len(v.tabs))
    <2>8. w \in DOMAIN b.windows
        BY <1>4, <1>6, <2>1
    <2>9. v \in Window /\ WindowOK(v)
        BY <2>1, <2>8, WindowsOfSound
    <2>10. Len(v.tabs) \in 1..Len(v.tabs)
        <3>1. v.tabs \in Seq(TabIds)
            BY <2>9 DEF Window
        <3>2. QED
            BY <2>1, <3>1, ElementsOf
    <2>11. z \in Window /\ WindowOK(z) /\ z.tabs = v.tabs
        BY <2>9, <2>10, ActivatedIs
    <2>12. n = [b EXCEPT !.windows[w] = z]
        BY <1>6 DEF w
    <2>. HIDE DEF z
    <2>13. InvOf([b EXCEPT !.windows[w] = z], spawns)
        BY <2>7, <2>8, <2>11, SameTabsKeepInv
    <2>. HIDE DEF n
    <2>14. InvOf(Dropped(n, op), spawns \ {op})
        BY <2>12, <2>13, DroppedKeepsInv
    <2>15. QED
        BY <1>2, <2>14 DEF MuxInv
<1>7. CASE w \notin DOMAIN mux.windows
    <2>1. b = a
        BY <1>4, <1>7 DEF AddTabToWindow
    <2>. DEFINE st == a.stranded \cup {p}
                z == [a EXCEPT !.stranded = st]
    <2>2. n = z
        BY <1>7, <2>1 DEF Stranded
    <2>. HIDE DEF n, b
    <2>3. a \in MuxRecord /\ st \subseteq PaneIds
        BY <1>4 DEF Sound, MuxRecord
    <2>4. a.stranded \subseteq st /\ p \in st
        OBVIOUS
    <2>. HIDE DEF st
    <2>5. /\ z \in MuxRecord /\ z.stranded = st /\ z.tabs = a.tabs /\ z.tree = a.tree
          /\ z.windows = a.windows /\ z.panes = a.panes /\ z.dead = a.dead
          /\ z.vacant = a.vacant /\ z.removals = a.removals
          /\ z.prune_due = a.prune_due /\ z.unannounced = a.unannounced
        BY <2>3 DEF MuxRecord
    <2>. HIDE DEF z
    <2>6. Sound(z) /\ TabsOf(z) = TabsOf(a) /\ PlacedPanes(z) = PlacedPanes(a)
        BY <1>4, <2>5, SameView
    <2>7. HeldBut(z, {}) /\ LastIsGone(z)
        BY <1>1, <1>4, <2>4, <2>5, <2>6 DEF InvOf, HeldBut, LastIsGone, SameRest
    <2>8. Counted(z) /\ (EmptyIsCounted(mux) => EmptyIsCounted(z))
        BY <1>4, <2>5, <2>6 DEF Counted, EmptyIsCounted
    <2>9. HomesKept(z, spawns)
        BY <1>1, <1>3, <1>4, <2>5, <2>6 DEF InvOf, HomesKept
    <2>10. NoEmptyWindow(mux) => NoEmptyWindow(z)
        BY <1>4, <2>5 DEF NoEmptyWindow
    <2>11. NothingOwed(mux) => NothingOwed(z)
        <3>1. SUFFICES ASSUME NothingOwed(mux) PROVE NothingOwed(z)
            OBVIOUS
        <3>2. EmptyIsCounted(z) /\ ~ z.unannounced /\ z.dead = mux.dead
              /\ mux.panes \subseteq z.panes /\ PlacedPanes(z) = PlacedPanes(mux)
            BY <1>4, <2>5, <2>6, <2>8, <3>1 DEF SameRest, NothingOwed
        <3>3. QED
            BY <3>1, <3>2 DEF NothingOwed, Doomed
    <2>12. z.prune_due = mux.prune_due /\ z.removals = mux.removals
        BY <1>4, <2>5 DEF SameRest
    <2>13. InvOf(z, spawns)
        BY <1>1, <2>6, <2>7, <2>8, <2>9, <2>10, <2>11, <2>12 DEF InvOf, HeldUp, Due
    <2>14. InvOf(Dropped(n, op), spawns \ {op})
        BY <2>2, <2>13, DroppedKeepsInv
    <2>15. QED
        BY <1>2, <2>14 DEF MuxInv
<1>8. QED
    BY <1>6, <1>7

\* A pane that is in no tree is inserted in that of a tab in a window.
LEMMA InsertIs ==
    ASSUME NEW m, Sound(m), NEW t \in TabsOf(m), NEW p \in PaneIds,
           \A u \in TabIds : p \notin m.tree[u]
    PROVE  LET n == [m EXCEPT !.tree[t] = @ \cup {p}]
           IN  /\ Sound(n) /\ SameRest(m, n)
               /\ n.tabs = m.tabs /\ n.panes = m.panes /\ n.windows = m.windows
               /\ n.vacant = m.vacant /\ n.unannounced = m.unannounced
               /\ \A u \in TabIds : u # t => n.tree[u] = m.tree[u]
               /\ TabsOf(n) = TabsOf(m) /\ PlacedPanes(n) = PlacedPanes(m) \cup {p}
<1>. DEFINE tr == [m.tree EXCEPT ![t] = @ \cup {p}]
            n == [m EXCEPT !.tree = tr]
<1>1. m \in MuxRecord /\ TabsOf(m) \subseteq TabIds
    BY TabsOfAreTabs DEF Sound
<1>2. tr \in [TabIds -> SUBSET PaneIds]
      /\ tr[t] = m.tree[t] \cup {p} /\ \A u \in TabIds : u # t => tr[u] = m.tree[u]
    BY <1>1 DEF MuxRecord
<1>3. [m EXCEPT !.tree[t] = @ \cup {p}] = n
    OBVIOUS
<1>. HIDE DEF tr
<1>4. /\ n \in MuxRecord /\ n.tree = tr /\ SameRest(m, n)
      /\ n.tabs = m.tabs /\ n.panes = m.panes /\ n.windows = m.windows
      /\ n.vacant = m.vacant /\ n.unannounced = m.unannounced
    BY <1>1, <1>2 DEF MuxRecord, SameRest
<1>. HIDE DEF n
<1>5. TabsOf(n) = TabsOf(m)
    BY <1>4, SameTabs
<1>6. n.tree[t] = m.tree[t] \cup {p} /\ \A u \in TabIds : u # t => n.tree[u] = m.tree[u]
    BY <1>2, <1>4
<1>7. \A u, v \in TabIds : u # v => n.tree[u] \cap n.tree[v] = {}
    <2>1. ASSUME NEW u \in TabIds, NEW v \in TabIds, u # v
          PROVE  n.tree[u] \cap n.tree[v] = {}
        <3>1. m.tree[u] \cap m.tree[v] = {} /\ p \notin m.tree[u] /\ p \notin m.tree[v]
            BY <2>1 DEF Sound
        <3>2. CASE u = t
            BY <3>1, <3>2, <1>6, <2>1
        <3>3. CASE v = t
            BY <3>1, <3>3, <1>6, <2>1
        <3>4. CASE u # t /\ v # t
            BY <3>1, <3>4, <1>6
        <3>5. QED
            BY <3>2, <3>3, <3>4
    <2>2. QED
        BY <2>1
<1>8. Sound(n)
    BY <1>4, <1>5, <1>7 DEF Sound
<1>9. PlacedPanes(n) = PlacedPanes(m) \cup {p}
    <2>1. ASSUME NEW q PROVE q \in PlacedPanes(n) <=> q \in PlacedPanes(m) \/ q = p
        <3>1. q \in PlacedPanes(n) <=> \E u \in TabsOf(m) : q \in n.tree[u]
            BY <1>5, PlacedIs
        <3>2. q \in PlacedPanes(m) <=> \E u \in TabsOf(m) : q \in m.tree[u]
            BY PlacedIs
        <3>3. \A u \in TabsOf(m) : u # t => n.tree[u] = m.tree[u]
            BY <1>1, <1>6
        <3>4. q \in n.tree[t] <=> q \in m.tree[t] \/ q = p
            BY <1>6
        <3>5. QED
            BY <3>1, <3>2, <3>3, <3>4
    <2>2. QED
        BY <2>1
<1>10. QED
    BY <1>3, <1>4, <1>5, <1>6, <1>8, <1>9

LEMMA StrandedIs ==
    ASSUME NEW m, Sound(m), NEW p \in PaneIds
    PROVE  LET n == Stranded(m, p)
           IN  /\ Sound(n)
               /\ n.tabs = m.tabs /\ n.panes = m.panes /\ n.windows = m.windows
               /\ n.tree = m.tree /\ n.dead = m.dead
               /\ n.vacant = m.vacant /\ n.unannounced = m.unannounced
               /\ n.removals = m.removals /\ n.prune_due = m.prune_due
               /\ n.stranded = m.stranded \cup {p}
               /\ TabsOf(n) = TabsOf(m) /\ PlacedPanes(n) = PlacedPanes(m)
<1>. DEFINE st == m.stranded \cup {p}
            n == [m EXCEPT !.stranded = st]
<1>1. m \in MuxRecord
    BY DEF Sound
<1>2. st \subseteq PaneIds
    BY <1>1 DEF MuxRecord
<1>3. Stranded(m, p) = n
    BY DEF Stranded
<1>. HIDE DEF st
<1>4. /\ n \in MuxRecord /\ n.stranded = st
      /\ n.tabs = m.tabs /\ n.panes = m.panes /\ n.windows = m.windows
      /\ n.tree = m.tree /\ n.dead = m.dead
      /\ n.vacant = m.vacant /\ n.unannounced = m.unannounced
      /\ n.removals = m.removals /\ n.prune_due = m.prune_due
    BY <1>1, <1>2 DEF MuxRecord
<1>. HIDE DEF n
<1>5. Sound(n) /\ TabsOf(n) = TabsOf(m) /\ PlacedPanes(n) = PlacedPanes(m)
    BY <1>4, SameView
<1>6. QED
    BY <1>3, <1>4, <1>5 DEF st

\* The invariant while the panes ps are in the hands of the caller
InvBut(m, ops, ps) ==
    /\ IsFiniteSet(ops) /\ ops \subseteq Spawn
    /\ Sound(m)
    /\ HeldBut(m, ps)
    /\ Counted(m)
    /\ LastIsGone(m)
    /\ HomesKept(m, ops)
    /\ NoEmptyWindow(m) \/ HeldUp(m, ops)
    /\ NothingOwed(m) \/ Due(m, ops)

\* The caller inserts its pane in a tab that has panes.
LEMMA InsertKeepsInv ==
    ASSUME NEW m, NEW ops, NEW p \in PaneIds, InvBut(m, ops, {p}),
           \A u \in TabIds : p \notin m.tree[u],
           NEW t \in TabsOf(m), m.tree[t] # {},
           p \notin m.dead \/ Due(m, ops)
    PROVE  InvOf([m EXCEPT !.tree[t] = @ \cup {p}], ops)
<1>. DEFINE n == [m EXCEPT !.tree[t] = @ \cup {p}]
<1>1. /\ Sound(n) /\ SameRest(m, n)
      /\ n.tabs = m.tabs /\ n.panes = m.panes /\ n.windows = m.windows
      /\ n.vacant = m.vacant /\ n.unannounced = m.unannounced
      /\ \A u \in TabIds : u # t => n.tree[u] = m.tree[u]
      /\ TabsOf(n) = TabsOf(m) /\ PlacedPanes(n) = PlacedPanes(m) \cup {p}
    BY InsertIs DEF InvBut
<1>. HIDE DEF n
<1>2. HeldBut(n, {})
    BY <1>1 DEF InvBut, HeldBut, SameRest
<1>3. PlacedPanes(m) # {}
    BY PlacedIs
<1>4. Counted(n) /\ EmptyIsCounted(n) /\ LastIsGone(n)
    BY <1>1, <1>3 DEF InvBut, Counted, EmptyIsCounted, LastIsGone
<1>5. HomesKept(n, ops)
    BY <1>1 DEF InvBut, HomesKept
<1>6. NoEmptyWindow(n) \/ HeldUp(n, ops)
    BY <1>1 DEF InvBut, NoEmptyWindow, HeldUp, SameRest
<1>7. Due(m, ops) => Due(n, ops)
    BY <1>1 DEF Due, HeldUp, SameRest
<1>8. NothingOwed(m) /\ p \notin m.dead => NothingOwed(n)
    BY <1>1, <1>4 DEF NothingOwed, Doomed, SameRest
<1>9. InvOf(n, ops)
    BY <1>1, <1>2, <1>4, <1>5, <1>6, <1>7, <1>8 DEF InvOf, InvBut
<1>10. QED
    BY <1>9 DEF n

\* The caller gives up.
LEMMA StrandedKeepsInv ==
    ASSUME NEW m, NEW ops, NEW p \in PaneIds, InvBut(m, ops, {p})
    PROVE  InvOf(Stranded(m, p), ops)
<1>. DEFINE n == Stranded(m, p)
<1>1. /\ Sound(n)
      /\ n.tabs = m.tabs /\ n.panes = m.panes /\ n.windows = m.windows
      /\ n.tree = m.tree /\ n.dead = m.dead
      /\ n.vacant = m.vacant /\ n.unannounced = m.unannounced
      /\ n.removals = m.removals /\ n.prune_due = m.prune_due
      /\ n.stranded = m.stranded \cup {p}
      /\ TabsOf(n) = TabsOf(m) /\ PlacedPanes(n) = PlacedPanes(m)
    BY StrandedIs DEF InvBut
<1>. HIDE DEF n
<1>2. HeldBut(n, {})
    BY <1>1 DEF InvBut, HeldBut
<1>3. Counted(n) /\ LastIsGone(n) /\ HomesKept(n, ops)
    BY <1>1 DEF InvBut, Counted, LastIsGone, HomesKept
<1>4. NoEmptyWindow(n) \/ HeldUp(n, ops)
    BY <1>1 DEF InvBut, NoEmptyWindow, HeldUp
<1>5. NothingOwed(n) \/ Due(n, ops)
    BY <1>1 DEF InvBut, NothingOwed, EmptyIsCounted, Doomed, Due, HeldUp
<1>6. InvOf(n, ops)
    BY <1>1, <1>2, <1>3, <1>4, <1>5 DEF InvOf, InvBut
<1>7. QED
    BY <1>6 DEF n

LEMMA FinishSplitKeepsInv ==
    ASSUME MuxInv, NEW op \in spawns, NEW p \in PaneIds, FinishSplit(op, p)
    PROVE  MuxInv'
<1>. DEFINE t == op.home
            a == AddPane(mux, p)
<1>1. InvOf(mux, spawns) /\ Sound(mux)
    BY DEF MuxInv, InvOf
<1>2. p \in FreePanes /\ op.kind = "split" /\ spawns' = spawns \ {op}
    BY DEF FinishSplit
<1>3. /\ p \notin mux.panes /\ \A u \in TabIds : p \notin mux.tree[u]
      /\ t \in TabIds /\ (mux.tree[t] # {} => t \in TabsOf(mux))
    BY <1>1, <1>2 DEF FreePanes, InvOf, HomesKept
<1>4. /\ Sound(a) /\ SameRest(mux, a)
      /\ a.tabs = mux.tabs /\ a.tree = mux.tree /\ a.windows = mux.windows
      /\ a.panes = mux.panes \cup {p} /\ ~ a.unannounced
      /\ TabsOf(a) = TabsOf(mux) /\ PlacedPanes(a) = PlacedPanes(mux)
      /\ Counted(a) /\ (EmptyIsCounted(mux) => EmptyIsCounted(a))
    BY <1>1, AddPaneIs DEF InvOf
<1>5. \/ mux.tree[t] # {} /\ mux' = [a EXCEPT !.tree[t] = @ \cup {p}]
      \/ mux' = Stranded(a, p)
    BY DEF FinishSplit
<1>. HIDE DEF a, t
<1>6. HeldBut(a, {p}) /\ LastIsGone(a) /\ HomesKept(a, spawns)
    BY <1>1, <1>4 DEF InvOf, HeldBut, LastIsGone, HomesKept, SameRest
<1>7. NoEmptyWindow(a) \/ HeldUp(a, spawns)
    BY <1>1, <1>4 DEF InvOf, NoEmptyWindow, HeldUp, SameRest
<1>8. Due(mux, spawns) => Due(a, spawns)
    BY <1>4 DEF Due, HeldUp, SameRest
<1>9. NothingOwed(mux) => NothingOwed(a) /\ p \notin a.dead
    BY <1>3, <1>4 DEF NothingOwed, Doomed, SameRest
<1>10. InvBut(a, spawns, {p}) /\ (p \notin a.dead \/ Due(a, spawns))
    BY <1>1, <1>4, <1>6, <1>7, <1>8, <1>9 DEF InvOf, InvBut
<1>11. InvOf(mux', spawns)
    <2>1. CASE mux.tree[t] # {} /\ mux' = [a EXCEPT !.tree[t] = @ \cup {p}]
        <3>1. t \in TabsOf(a) /\ a.tree[t] # {} /\ \A u \in TabIds : p \notin a.tree[u]
            BY <1>3, <1>4, <2>1
        <3>2. InvOf([a EXCEPT !.tree[t] = @ \cup {p}], spawns)
            BY <3>1, <1>10, InsertKeepsInv
        <3>3. QED
            BY <2>1, <3>2
    <2>2. CASE mux' = Stranded(a, p)
        BY <2>2, <1>10, StrandedKeepsInv
    <2>3. QED
        BY <1>5, <2>1, <2>2
<1>12. Dropped(mux', op) = mux'
    BY <1>2 DEF Dropped
<1>13. InvOf(mux', spawns \ {op})
    <2>. DEFINE n == mux'
    <2>1. InvOf(n, spawns) /\ Dropped(n, op) = n
        BY <1>11, <1>12
    <2>. HIDE DEF n
    <2>2. InvOf(n, spawns \ {op})
        <3>1. InvOf(Dropped(n, op), spawns \ {op})
            BY <2>1, DroppedKeepsInv
        <3>2. QED
            BY <2>1, <3>1
    <2>3. QED
        BY <2>2 DEF n
<1>14. QED
    BY <1>2, <1>13 DEF MuxInv

-------------------------------------------------------------------------------
\* Moves.

\* A tab that a window shows, and still has, it still shows.
Follows(m, n) ==
    \A w \in DOMAIN m.windows \cap DOMAIN n.windows :
        /\ ActiveTab(m.windows[w]) # NoTab
        /\ ActiveTab(m.windows[w]) \in ToSet(n.windows[w].tabs)
        => ActiveTab(n.windows[w]) = ActiveTab(m.windows[w])

LEMMA HomeIs ==
    ASSUME NEW m, NEW p \in ReachablePanes(m)
    PROVE  LET s == HomeOf(m, p)
           IN  s \in m.tabs /\ s \in TabsOf(m) /\ p \in m.tree[s]
    BY DEF ReachablePanes, HomeOf

\* The part of a move that follows: with its last live pane the tab goes.
LEMMA AfterMoveIs ==
    ASSUME NEW m, Sound(m), Counted(m), LastIsGone(m), NEW s, NEW act \in Nat, NEW skipped,
           act = 0 => skipped \in SkipsAfterMove(m, s)
    PROVE  LET n == AfterMove(m, s, skipped, act)
           IN  /\ Removes(m, n)
               /\ \A ps : HeldBut(m, ps) => HeldBut(n, ps)
               /\ Counted(n)
               /\ act > 0 => DOMAIN n.windows = DOMAIN m.windows
               /\ act = 0 /\ TabIsDead(m, s) =>
                    /\ NoEmptyWindow(n)
                    /\ NothingOwed(n) \/ n.removals # {}
               /\ ~ TabIsDead(m, s) => n = m
<1>1. CASE ~ TabIsDead(m, s)
    <2>1. AfterMove(m, s, skipped, act) = m
        BY <1>1 DEF AfterMove
    <2>2. QED
        BY <1>1, <2>1, RemovesSelf
<1>2. CASE TabIsDead(m, s)
    <2>. DEFINE k == RemoveTabInternal(m, s)
                n == Tidy(PruneDeadWindows(k, skipped, act))
    <2>1. AfterMove(m, s, skipped, act) = n /\ (act = 0 => skipped \in Skips(k))
        BY <1>2 DEF AfterMove, SkipsAfterMove
    <2>2. /\ Removes(m, k) /\ DOMAIN k.windows = DOMAIN m.windows
          /\ Counted(k)
          /\ \A ps : HeldBut(m, ps) => HeldBut(k, ps)
        BY RemoveTabRemoves
    <2>. HIDE DEF k
    <2>3. Sound(k) /\ LastIsGone(k)
        BY <2>2, LastRemoved DEF Removes
    <2>4. /\ Removes(k, n)
          /\ \A ps : HeldBut(k, ps) => HeldBut(n, ps)
          /\ Counted(n)
          /\ act > 0 => DOMAIN n.windows = DOMAIN k.windows
          /\ act = 0 => /\ NoEmptyWindow(n)
                        /\ NothingOwed(n) \/ n.removals # {}
        BY <2>1, <2>2, <2>3, PruneSettles
    <2>. HIDE DEF n
    <2>5. Removes(m, n)
        BY <2>2, <2>4, RemovesTwice
    <2>6. QED
        BY <1>2, <2>1, <2>2, <2>4, <2>5
<1>3. QED
    BY <1>1, <1>2

LEMMA AfterMoveKeepsInv ==
    ASSUME NEW m, NEW ops, InvOf(m, ops), NEW s, NEW skipped \in SkipsAfterMove(m, s)
    PROVE  InvOf(AfterMove(m, s, skipped, ActivitiesOf(ops)), ops)
<1>. DEFINE act == ActivitiesOf(ops)
            n == AfterMove(m, s, skipped, act)
<1>1. act \in Nat /\ (act > 0 <=> Building(ops)) /\ (act = 0 <=> ~ Building(ops))
    BY CountActivities DEF InvOf
<1>. HIDE DEF act
<1>2. /\ Removes(m, n)
      /\ \A ps : HeldBut(m, ps) => HeldBut(n, ps)
      /\ Counted(n)
      /\ act > 0 => DOMAIN n.windows = DOMAIN m.windows
      /\ act = 0 /\ TabIsDead(m, s) =>
           /\ NoEmptyWindow(n)
           /\ NothingOwed(n) \/ n.removals # {}
      /\ ~ TabIsDead(m, s) => n = m
    BY <1>1, AfterMoveIs DEF InvOf
<1>. HIDE DEF n
<1>3. CASE ~ TabIsDead(m, s)
    BY <1>2, <1>3 DEF n, act
<1>4. CASE TabIsDead(m, s)
    <2>1. \A op \in ops : op.kind = "window" => op.home \in DOMAIN n.windows
        BY <1>1, <1>2 DEF InvOf, HomesKept, Building
    <2>2. HomesKept(n, ops) /\ LastIsGone(n)
        BY <1>2, <2>1, HomesRemoved, LastRemoved DEF InvOf
    <2>3. Sound(n) /\ HeldBut(n, {})
        BY <1>2 DEF InvOf, Removes
    <2>4. NoEmptyWindow(n) \/ HeldUp(n, ops)
        BY <1>1, <1>2, <1>4 DEF HeldUp
    <2>5. NothingOwed(n) \/ Due(n, ops)
        BY <1>1, <1>2, <1>4 DEF Due, HeldUp
    <2>6. InvOf(n, ops)
        BY <1>2, <2>2, <2>3, <2>4, <2>5 DEF InvOf
    <2>7. QED
        BY <2>6 DEF n, act
<1>5. QED
    BY <1>3, <1>4

\* The pane goes from its tab s to a new tab t in the window w.
LEMMA MovedIs ==
    ASSUME NEW m, NEW ops, Prunes(m, ops), NEW s \in TabsOf(m), NEW p \in m.tree[s],
           NEW t \in TabIds, t \notin m.tabs, t \notin TabsOf(m),
           \A op \in ops : op.kind = "split" => op.home # t,
           NEW w \in DOMAIN m.windows
    PROVE  LET n == AddTabToWindow(AddTab(TakenFrom(m, p, s), t, p), t, w)
           IN  /\ Prunes(n, ops)
               /\ SameRest(m, n) /\ DOMAIN n.windows = DOMAIN m.windows
               /\ NoEmptyWindow(m) => NoEmptyWindow(n)
               /\ NothingOwed(m) => NothingOwed(n)
               /\ Follows(m, n)
<1>. DEFINE a == TakenFrom(m, p, s)
            b == AddTab(a, t, p)
            n == AddTabToWindow(b, t, w)
<1>1. Sound(m) /\ s \in TabIds /\ p \in PaneIds
    BY TabsOfAreTabs DEF Prunes, Sound, MuxRecord
<1>2. /\ Removes(m, a) /\ SameRest(m, a)
      /\ a.tabs = m.tabs /\ a.panes = m.panes /\ a.windows = m.windows
      /\ a.unannounced = m.unannounced
      /\ TabsOf(a) = TabsOf(m)
      /\ \A u \in TabIds : p \notin a.tree[u]
      /\ \A ps : HeldBut(m, ps) => HeldBut(a, ps \cup {p})
      /\ Counted(m) => Counted(a)
    BY <1>1, TakenFromRemoves
<1>. HIDE DEF a
<1>3. Sound(a) /\ PlacedPanes(a) \subseteq PlacedPanes(m) /\ HeldBut(a, {} \cup {p})
      /\ \A u \in TabIds : a.tree[u] \subseteq m.tree[u]
    BY <1>2, RemovesPlaced DEF Removes, Prunes
<1>4. Counted(a) /\ LastIsGone(a)
    BY <1>2 DEF Prunes, LastIsGone
<1>5. /\ Sound(b) /\ SameRest(a, b)
      /\ b.tabs = a.tabs \cup {t} /\ b.panes = a.panes \cup {p}
      /\ b.windows = a.windows /\ b.tree[t] = {p}
      /\ \A u \in TabIds : u # t => b.tree[u] = a.tree[u]
      /\ ~ b.unannounced
      /\ TabsOf(b) = TabsOf(a) /\ PlacedPanes(b) = PlacedPanes(a)
    BY <1>1, <1>2, <1>3, <1>4, AddTabIs
<1>. HIDE DEF b
<1>6. /\ Sound(n) /\ SameRest(b, n)
      /\ n.tabs = b.tabs /\ n.panes = b.panes /\ n.tree = b.tree
      /\ n.unannounced = b.unannounced
      /\ DOMAIN n.windows = DOMAIN b.windows
      /\ n.windows[w].tabs # <<>>
      /\ ActiveTab(b.windows[w]) # NoTab =>
            ActiveTab(n.windows[w]) = ActiveTab(b.windows[w])
      /\ \A u \in DOMAIN b.windows : u # w => n.windows[u] = b.windows[u]
      /\ TabsOf(n) = TabsOf(b) \cup {t}
      /\ PlacedPanes(n) = PlacedPanes(b) \cup b.tree[t]
      /\ Counted(n) /\ EmptyIsCounted(n)
    BY <1>2, <1>5, AddTabToWindowIs
<1>. HIDE DEF n
<1>7. /\ SameRest(m, n) /\ ~ n.unannounced
      /\ n.panes = m.panes \cup {p} /\ DOMAIN n.windows = DOMAIN m.windows
      /\ TabsOf(n) = TabsOf(m) \cup {t}
    BY <1>2, <1>5, <1>6 DEF SameRest
<1>8. PlacedPanes(n) = PlacedPanes(a) \cup {p}
    BY <1>5, <1>6
<1>9. HeldBut(n, {})
    BY <1>2, <1>3, <1>7, <1>8 DEF HeldBut, SameRest
<1>10. HomesKept(n, ops)
    <2>1. ASSUME NEW op \in ops, op.kind = "split"
          PROVE  op.home \in TabIds /\ (n.tree[op.home] # {} => op.home \in TabsOf(n))
        <3>1. op.home \in TabIds /\ op.home # t
              /\ (m.tree[op.home] # {} => op.home \in TabsOf(m))
            BY <2>1 DEF Prunes, HomesKept
        <3>2. n.tree[op.home] \subseteq m.tree[op.home]
            BY <3>1, <1>3, <1>5, <1>6
        <3>3. QED
            BY <3>1, <3>2, <1>7
    <2>2. QED
        BY <2>1, <1>7 DEF Prunes, HomesKept
<1>11. NoEmptyWindow(m) => NoEmptyWindow(n)
    BY <1>2, <1>5, <1>6 DEF NoEmptyWindow
<1>12. NothingOwed(m) => NothingOwed(n)
    <2>1. p \in PlacedPanes(m)
        BY PlacedIs
    <2>2. SUFFICES ASSUME NothingOwed(m) PROVE NothingOwed(n)
        OBVIOUS
    <2>3. p \notin m.dead
        BY <2>1, <2>2 DEF NothingOwed, Doomed
    <2>4. m.panes \subseteq n.panes /\ PlacedPanes(n) \subseteq PlacedPanes(m) \cup {p}
        BY <1>3, <1>7, <1>8
    <2>5. n.dead = m.dead /\ EmptyIsCounted(n) /\ ~ n.unannounced
        BY <1>6, <1>7 DEF SameRest
    <2>6. QED
        BY <2>2, <2>3, <2>4, <2>5, NothingNewOwed
<1>13. LastIsGone(n)
    BY <1>7 DEF LastIsGone
<1>14. Prunes(n, ops)
    BY <1>6, <1>9, <1>10, <1>13 DEF Prunes
<1>15. Follows(m, n)
    BY <1>2, <1>5, <1>6 DEF Follows
<1>16. QED
    BY <1>7, <1>11, <1>12, <1>14, <1>15 DEF n, b, a

LEMMA MoveToTabKeepsInv ==
    ASSUME MuxInv, NEW p \in PaneIds, NEW w \in WindowIds, NEW t \in TabIds,
           MoveToTab(p, w, t)
    PROVE  MuxInv'
<1>. DEFINE s == HomeOf(mux, p)
            n == AddTabToWindow(AddTab(TakenFrom(mux, p, s), t, p), t, w)
<1>1. InvOf(mux, spawns)
    BY DEF MuxInv
<1>2. /\ p \in ReachablePanes(mux) /\ w \in DOMAIN mux.windows /\ spawns' = spawns
      /\ t \notin mux.tabs /\ t \notin TabsOf(mux)
      /\ \A op \in spawns : op.kind = "split" => op.home # t
    BY DEF MoveToTab, FreeTabs
<1>3. s \in TabsOf(mux) /\ p \in mux.tree[s]
    BY <1>2, HomeIs
<1>4. PICK skipped \in SkipsAfterMove(n, s) :
        mux' = AfterMove(n, s, skipped, Activities)
    BY DEF MoveToTab
<1>. HIDE DEF s
<1>5. InvOf(n, spawns)
    <2>1. /\ Prunes(n, spawns) /\ SameRest(mux, n)
          /\ NoEmptyWindow(mux) => NoEmptyWindow(n)
          /\ NothingOwed(mux) => NothingOwed(n)
        BY <1>1, <1>2, <1>3, InvPrunes, MovedIs
    <2>. HIDE DEF n
    <2>2. (HeldUp(mux, spawns) => HeldUp(n, spawns)) /\ (Due(mux, spawns) => Due(n, spawns))
        BY <2>1 DEF HeldUp, Due, SameRest
    <2>3. QED
        BY <1>1, <2>1, <2>2 DEF InvOf, Prunes
<1>. HIDE DEF n
<1>6. InvOf(AfterMove(n, s, skipped, ActivitiesOf(spawns)), spawns)
    BY <1>4, <1>5, AfterMoveKeepsInv
<1>7. QED
    BY <1>2, <1>4, <1>6, ActivitiesAre DEF MuxInv

LEMMA MoveToWindowKeepsInv ==
    ASSUME MuxInv, NEW p \in PaneIds, NEW w \in WindowIds, NEW t \in TabIds,
           MoveToWindow(p, w, t)
    PROVE  MuxInv'
<1>. DEFINE s == HomeOf(mux, p)
            a == AddWindow(mux, w)
            n == AddTabToWindow(AddTab(TakenFrom(a, p, s), t, p), t, w)
            k == [n EXCEPT !.prune_due = TRUE]
            act == Activities + 1
            none == {}
            z == AfterMove(k, s, none, act)
<1>1. Prunes(mux, spawns) /\ Sound(mux) /\ w \notin DOMAIN mux.windows
    BY InvPrunes DEF MuxInv, Prunes, MoveToWindow, FreeWindows
<1>2. /\ p \in ReachablePanes(mux) /\ spawns' = spawns
      /\ t \notin mux.tabs /\ t \notin TabsOf(mux)
      /\ \A op \in spawns : op.kind = "split" => op.home # t
    BY DEF MoveToWindow, FreeTabs
<1>3. s \in TabsOf(mux) /\ p \in mux.tree[s]
    BY <1>2, HomeIs
<1>4. mux' = z
    BY DEF MoveToWindow
<1>. HIDE DEF s
<1>5. /\ Sound(a) /\ SameRest(mux, a)
      /\ a.tabs = mux.tabs /\ a.panes = mux.panes /\ a.tree = mux.tree
      /\ a.vacant = mux.vacant /\ a.unannounced = mux.unannounced
      /\ DOMAIN a.windows = DOMAIN mux.windows \cup {w}
      /\ TabsOf(a) = TabsOf(mux) /\ PlacedPanes(a) = PlacedPanes(mux)
    BY <1>1, AddWindowIs
<1>. HIDE DEF a
<1>6. /\ HeldBut(a, {}) /\ Counted(a) /\ LastIsGone(a) /\ HomesKept(a, spawns)
    BY <1>1, <1>5 DEF Prunes, HeldBut, Counted, LastIsGone, HomesKept, SameRest
<1>7. Prunes(a, spawns)
    BY <1>1, <1>5, <1>6 DEF Prunes
<1>8. s \in TabsOf(a) /\ p \in a.tree[s] /\ t \notin a.tabs /\ t \notin TabsOf(a)
      /\ w \in DOMAIN a.windows
    BY <1>2, <1>3, <1>5
<1>9. Prunes(n, spawns)
    BY <1>2, <1>7, <1>8, MovedIs
<1>. HIDE DEF n
<1>10. n \in MuxRecord /\ Sound(n)
    BY <1>9 DEF Prunes, Sound
<1>11. /\ k \in MuxRecord /\ k.prune_due = TRUE /\ k.removals = n.removals
       /\ k.tabs = n.tabs /\ k.tree = n.tree /\ k.windows = n.windows
       /\ k.panes = n.panes /\ k.stranded = n.stranded /\ k.vacant = n.vacant
       /\ k.unannounced = n.unannounced
    BY <1>10 DEF MuxRecord
<1>. HIDE DEF k
<1>12. Sound(k) /\ TabsOf(k) = TabsOf(n) /\ PlacedPanes(k) = PlacedPanes(n)
    BY <1>10, <1>11, SameView
<1>13. Counted(k) /\ LastIsGone(k) /\ HomesKept(k, spawns) /\ HeldBut(k, {})
    BY <1>9, <1>11, <1>12 DEF Prunes, Counted, LastIsGone, HomesKept, HeldBut
<1>14. act \in Nat /\ act > 0 /\ act # 0
    <2>1. Activities \in Nat
        BY <1>1, ActivitiesAre, CountActivities DEF Prunes
    <2>2. QED
        BY <2>1
<1>. HIDE DEF act, none
<1>15. /\ Removes(k, z)
       /\ \A ps : HeldBut(k, ps) => HeldBut(z, ps)
       /\ Counted(z) /\ DOMAIN z.windows = DOMAIN k.windows
    BY <1>12, <1>13, <1>14, AfterMoveIs
<1>. HIDE DEF z
<1>16. HomesKept(z, spawns) /\ LastIsGone(z)
    BY <1>13, <1>15, HomesRemoved, LastRemoved DEF HomesKept
<1>17. Sound(z) /\ HeldBut(z, {}) /\ z.prune_due
    BY <1>11, <1>13, <1>15 DEF Removes
<1>18. InvOf(z, spawns)
    BY <1>1, <1>15, <1>16, <1>17 DEF InvOf, Prunes, HeldUp, Due
<1>19. QED
    BY <1>2, <1>4, <1>18 DEF MuxInv

LEMMA MoveIntoSplitKeepsInv ==
    ASSUME MuxInv, NEW p \in PaneIds, NEW t \in TabIds, MoveIntoSplit(p, t)
    PROVE  MuxInv'
<1>. DEFINE s == HomeOf(mux, p)
            a == TakenFrom(mux, p, s)
            act == ActivitiesOf(spawns)
<1>1. InvOf(mux, spawns) /\ Sound(mux)
    BY DEF MuxInv, InvOf
<1>2. p \in ReachablePanes(mux) /\ t \in TabsOf(mux) /\ spawns' = spawns
    BY DEF MoveIntoSplit
<1>3. s \in TabsOf(mux) /\ p \in mux.tree[s] /\ s \in TabIds
    BY <1>1, <1>2, HomeIs, TabsOfAreTabs DEF Sound
<1>4. PICK skipped \in SkipsAfterMove(a, s) :
        LET m == AfterMove(a, s, skipped, act)
        IN  \/ /\ m.tree[t] # {}
               /\ mux' = [m EXCEPT !.tree[t] = @ \cup {p}]
            \/ mux' = Stranded(m, p)
    BY ActivitiesAre DEF MoveIntoSplit
<1>. DEFINE m == AfterMove(a, s, skipped, act)
<1>5. act \in Nat /\ (act > 0 <=> Building(spawns)) /\ (act = 0 <=> ~ Building(spawns))
    BY <1>1, CountActivities DEF InvOf
<1>. HIDE DEF act, s
<1>6. /\ Removes(mux, a) /\ SameRest(mux, a)
      /\ a.panes = mux.panes /\ a.windows = mux.windows
      /\ a.vacant = mux.vacant /\ a.unannounced = mux.unannounced
      /\ TabsOf(a) = TabsOf(mux)
      /\ \A u \in TabIds : p \notin a.tree[u]
      /\ \A ps : HeldBut(mux, ps) => HeldBut(a, ps \cup {p})
      /\ Counted(mux) => Counted(a)
    BY <1>1, <1>3, TakenFromRemoves
<1>. HIDE DEF a
<1>7. Sound(a) /\ Counted(a) /\ LastIsGone(a) /\ HeldBut(a, {} \cup {p})
    BY <1>1, <1>6 DEF InvOf, Removes, LastIsGone
<1>8. HeldBut(a, {p})
    BY <1>7 DEF HeldBut
<1>9. /\ Removes(a, m)
      /\ \A ps : HeldBut(a, ps) => HeldBut(m, ps)
      /\ Counted(m)
      /\ act > 0 => DOMAIN m.windows = DOMAIN a.windows
      /\ act = 0 /\ TabIsDead(a, s) =>
           /\ NoEmptyWindow(m)
           /\ NothingOwed(m) \/ m.removals # {}
      /\ ~ TabIsDead(a, s) => m = a
    BY <1>4, <1>5, <1>7, AfterMoveIs
<1>10. Removes(mux, m)
    BY <1>1, <1>6, <1>9, RemovesTwice
<1>11. \/ m.tree[t] # {} /\ mux' = [m EXCEPT !.tree[t] = @ \cup {p}]
       \/ mux' = Stranded(m, p)
    BY <1>4
<1>. HIDE DEF m
<1>12. \A op \in spawns : op.kind = "window" => op.home \in DOMAIN m.windows
    BY <1>1, <1>5, <1>6, <1>9 DEF InvOf, HomesKept, Building
<1>13. HomesKept(m, spawns) /\ LastIsGone(m)
    BY <1>1, <1>10, <1>12, HomesRemoved, LastRemoved DEF InvOf
<1>14. Sound(m) /\ HeldBut(m, {p})
    BY <1>8, <1>9 DEF Removes
<1>15. (HeldUp(mux, spawns) => HeldUp(m, spawns)) /\ (Due(mux, spawns) => Due(m, spawns))
    BY <1>10 DEF Removes, HeldUp, Due
<1>16. ASSUME ~ TabIsDead(a, s)
       PROVE  /\ NoEmptyWindow(mux) => NoEmptyWindow(m)
              /\ NothingOwed(mux) => NothingOwed(m)
    <2>1. m = a
        BY <1>9, <1>16
    <2>2. PlacedPanes(a) # {}
        BY <1>3, <1>6, <1>16, PlacedIs DEF TabIsDead
    <2>3. PlacedPanes(a) \subseteq PlacedPanes(mux)
        BY <1>6, RemovesPlaced
    <2>4. NothingOwed(mux) => NothingOwed(a)
        BY <1>6, <2>2, <2>3 DEF NothingOwed, EmptyIsCounted, Doomed, SameRest
    <2>5. NoEmptyWindow(mux) => NoEmptyWindow(a)
        BY <1>6 DEF NoEmptyWindow
    <2>6. QED
        BY <2>1, <2>4, <2>5
<1>17. NoEmptyWindow(m) \/ HeldUp(m, spawns)
    BY <1>1, <1>5, <1>9, <1>15, <1>16 DEF InvOf, HeldUp
<1>18. NothingOwed(m) \/ Due(m, spawns)
    BY <1>1, <1>5, <1>9, <1>15, <1>16 DEF InvOf, HeldUp, Due
<1>19. InvBut(m, spawns, {p})
    BY <1>1, <1>9, <1>13, <1>14, <1>17, <1>18 DEF InvOf, InvBut
<1>20. InvOf(mux', spawns)
    <2>1. CASE m.tree[t] # {} /\ mux' = [m EXCEPT !.tree[t] = @ \cup {p}]
        <3>1. t \in TabsOf(m)
            BY <1>2, <1>10, <2>1 DEF Removes
        <3>2. \A u \in TabIds : p \notin m.tree[u]
            BY <1>6, <1>9 DEF Removes
        <3>3. p \notin m.dead \/ Due(m, spawns)
            <4>1. p \in PlacedPanes(mux)
                BY <1>3, PlacedIs
            <4>2. NothingOwed(mux) => p \notin mux.dead
                BY <4>1 DEF NothingOwed, Doomed
            <4>3. QED
                BY <1>1, <1>10, <1>15, <4>2 DEF InvOf, Removes
        <3>4. InvOf([m EXCEPT !.tree[t] = @ \cup {p}], spawns)
            BY <1>19, <2>1, <3>1, <3>2, <3>3, InsertKeepsInv
        <3>5. QED
            BY <2>1, <3>4
    <2>2. CASE mux' = Stranded(m, p)
        BY <2>2, <1>19, StrandedKeepsInv
    <2>3. QED
        BY <1>11, <2>1, <2>2
<1>21. QED
    BY <1>2, <1>20 DEF MuxInv

-------------------------------------------------------------------------------
\* The invariant.

LEMMA InitInv == Init => MuxInv
<1>. SUFFICES ASSUME Init PROVE InvOf(mux, spawns)
    BY DEF MuxInv
<1>. DEFINE ws == mux.windows
<1>1. /\ mux.tabs = {} /\ mux.panes = {} /\ mux.dead = {} /\ ws = <<>>
      /\ mux.tree = [t \in TabIds |-> {}] /\ mux.vacant = TRUE /\ mux.removals = {}
      /\ mux.stranded = {} /\ mux.prune_due = FALSE /\ mux.unannounced = FALSE
      /\ spawns = {}
    BY DEF Init
<1>2. ws \in [{} -> Window]
    BY <1>1
<1>3. DOMAIN ws = {} /\ ws \in Windows
    BY <1>2 DEF Windows
<1>4. mux = [tabs |-> mux.tabs, panes |-> mux.panes, dead |-> mux.dead, tree |-> mux.tree,
             windows |-> ws, vacant |-> mux.vacant, removals |-> mux.removals,
             stranded |-> mux.stranded, prune_due |-> mux.prune_due,
             unannounced |-> mux.unannounced]
    BY DEF Init
<1>. HIDE DEF ws
<1>5. mux \in MuxRecord
    <2>1. mux.tree \in [TabIds -> SUBSET PaneIds]
        BY <1>1
    <2>2. /\ mux.tabs \in SUBSET TabIds /\ mux.panes \in SUBSET PaneIds
          /\ mux.dead \in SUBSET PaneIds /\ mux.vacant \in BOOLEAN
          /\ mux.removals \in SUBSET PaneIds /\ mux.stranded \in SUBSET PaneIds
          /\ mux.prune_due \in BOOLEAN /\ mux.unannounced \in BOOLEAN
        BY <1>1
    <2>3. QED
        BY <1>3, <1>4, <2>1, <2>2 DEF MuxRecord
<1>6. DOMAIN mux.windows = {}
    BY <1>3 DEF ws
<1>7. TabsOf(mux) = {}
    BY <1>6, TabsOfIs
<1>8. PlacedPanes(mux) = {}
    BY <1>7, PlacedIs
<1>9. \A t, u \in TabIds : mux.tree[t] \cap mux.tree[u] = {}
    BY <1>1
<1>10. Sound(mux)
    BY <1>5, <1>6, <1>7, <1>9 DEF Sound
<1>11. IsFiniteSet(spawns)
    BY <1>1, FS_EmptySet
<1>12. HeldBut(mux, {}) /\ Counted(mux) /\ LastIsGone(mux)
    BY <1>1, <1>8 DEF HeldBut, Counted, LastIsGone
<1>13. HomesKept(mux, spawns) /\ NoEmptyWindow(mux)
    BY <1>1, <1>6 DEF HomesKept, NoEmptyWindow
<1>14. NothingOwed(mux)
    BY <1>1 DEF NothingOwed, EmptyIsCounted, Doomed
<1>15. QED
    BY <1>1, <1>10, <1>11, <1>12, <1>13, <1>14 DEF InvOf

LEMMA UserKeepsInv == ASSUME MuxInv, User PROVE MuxInv'
<1>1. ASSUME NEW w \in WindowIds, SpawnWindow(w) PROVE MuxInv'
    BY <1>1, SpawnWindowKeepsInv
<1>2. ASSUME NEW w \in WindowIds, SpawnTab(w) PROVE MuxInv'
    BY <1>2, SpawnTabKeepsInv
<1>3. ASSUME NEW w \in WindowIds, CloseWindow(w) PROVE MuxInv'
    BY <1>3, CloseWindowKeepsInv
<1>4. ASSUME NEW w \in WindowIds, NEW p \in PaneIds, NEW t \in TabIds, MoveToTab(p, w, t)
      PROVE  MuxInv'
    BY <1>4, MoveToTabKeepsInv
<1>5. ASSUME NEW w \in WindowIds, NEW p \in PaneIds, NEW t \in TabIds, MoveToWindow(p, w, t)
      PROVE  MuxInv'
    BY <1>5, MoveToWindowKeepsInv
<1>6. ASSUME NEW w \in WindowIds, NEW i, ActivateTab(w, i) PROVE MuxInv'
    BY <1>6, ActivateTabKeepsInv
<1>7. ASSUME NEW w \in WindowIds, NEW i, MoveTab(w, i) PROVE MuxInv'
    BY <1>7, MoveTabKeepsInv
<1>8. ASSUME NEW t \in TabIds, SplitPane(t) PROVE MuxInv'
    BY <1>8, SplitPaneKeepsInv
<1>9. ASSUME NEW t \in TabIds, CloseTab(t) PROVE MuxInv'
    BY <1>9, CloseTabKeepsInv
<1>10. ASSUME NEW t \in TabIds, NEW p \in PaneIds, KillPaneInTab(t, p) PROVE MuxInv'
    BY <1>10, KillPaneInTabKeepsInv
<1>11. ASSUME NEW t \in TabIds, NEW p \in PaneIds, MoveIntoSplit(p, t) PROVE MuxInv'
    BY <1>11, MoveIntoSplitKeepsInv
<1>12. ASSUME NEW p \in PaneIds, ClosePane(p) PROVE MuxInv'
    BY <1>12, ClosePaneKeepsInv
<1>13. QED
    BY <1>1, <1>2, <1>3, <1>4, <1>5, <1>6, <1>7, <1>8, <1>9, <1>10, <1>11, <1>12 DEF User

LEMMA NextKeepsInv == ASSUME MuxInv, [Next]_muxVars PROVE MuxInv'
<1>1. ASSUME NEW op \in spawns, EndSpawn(op) PROVE MuxInv'
    <2>1. ASSUME NEW p \in PaneIds, FinishSplit(op, p) PROVE MuxInv'
        BY <2>1, FinishSplitKeepsInv
    <2>2. ASSUME NEW p \in PaneIds, NEW t \in TabIds, FinishSpawn(op, p, t) PROVE MuxInv'
        BY <2>2, FinishSpawnKeepsInv
    <2>3. ASSUME FailSpawn(op) PROVE MuxInv'
        BY <2>3, FailSpawnKeepsInv
    <2>4. QED
        BY <1>1, <2>1, <2>2, <2>3 DEF EndSpawn
<1>2. ASSUME NEW p \in PaneIds, ProcessExits(p) PROVE MuxInv'
    BY <1>2, ProcessExitsKeepsInv
<1>3. ASSUME NEW p \in PaneIds, RunRemoval(p) PROVE MuxInv'
    BY <1>3, RunRemovalKeepsInv
<1>4. CASE RunPrune
    BY <1>4, RunPruneKeepsInv
<1>5. CASE UNCHANGED muxVars
    BY <1>5 DEF muxVars, MuxInv
<1>6. CASE User
    BY <1>6, UserKeepsInv
<1>7. QED
    BY <1>1, <1>2, <1>3, <1>4, <1>5, <1>6 DEF Next

\* Every state of the mux satisfies the inductive invariant, whatever tasks,
\* spawns and processes interleave.
THEOREM MuxInvariant == Spec => []MuxInv
    BY InitInv, NextKeepsInv, PTL DEF Spec

-------------------------------------------------------------------------------
\* What follows from it.

LEMMA ActivitiesHold ==
    ASSUME MuxInv PROVE Activities > 0 <=> Building(spawns)
    BY ActivitiesAre, CountActivities DEF MuxInv, InvOf

\* The tables of the mux hold what they are declared to hold.
THEOREM MuxTypeCorrect == Spec => []MuxTypeOK
<1>1. ASSUME MuxInv PROVE MuxTypeOK
    <2>1. Sound(mux) /\ mux \in MuxRecord /\ spawns \subseteq Spawn
        BY <1>1 DEF MuxInv, InvOf, Sound
    <2>2. [mux EXCEPT !.windows = <<>>] \in MuxState
        BY <2>1 DEF MuxRecord, MuxState
    <2>3. \A w \in DOMAIN mux.windows : mux.windows[w] \in Window /\ w \in WindowIds
        BY <2>1, WindowsOfSound
    <2>4. QED
        BY <2>1, <2>2, <2>3 DEF MuxTypeOK
<1>2. QED
    BY <1>1, MuxInvariant, PTL

\* However panes are moved while other tabs are pruned, no pane is in two tabs
\* and no tab in two windows.
THEOREM OneHomeCorrect == Spec => []OneHome
<1>1. ASSUME MuxInv PROVE OneHome
    <2>1. Sound(mux)
        BY <1>1 DEF MuxInv, InvOf
    <2>2. TabsOf(mux) \subseteq TabIds
        BY <2>1, TabsOfAreTabs DEF Sound
    <2>3. QED
        BY <2>1, <2>2 DEF OneHome, Sound, WindowOK
<1>2. QED
    BY <1>1, MuxInvariant, PTL

\* No pane is left in the mux that is shown nowhere and that no queued task will
\* remove, but one whose spawn or move has failed half way.
THEOREM RegisteredPaneCorrect == Spec => []RegisteredPaneIsHeld
<1>1. ASSUME MuxInv PROVE RegisteredPaneIsHeld
    BY <1>1 DEF MuxInv, InvOf, HeldBut, RegisteredPaneIsHeld
<1>2. QED
    BY <1>1, MuxInvariant, PTL

\* No prune takes the window of a spawn under way for a dead one.
THEOREM SpawningWindowCorrect == Spec => []SpawningWindowStays
<1>1. ASSUME MuxInv PROVE SpawningWindowStays
    BY <1>1 DEF MuxInv, InvOf, HomesKept, SpawningWindowStays
<1>2. QED
    BY <1>1, MuxInvariant, PTL

\* A window without tabs is closed by a prune that is due, or by the one that
\* the end of an activity queues.
THEOREM EmptyWindowCorrect == Spec => []EmptyWindowWillClose
<1>1. ASSUME MuxInv PROVE EmptyWindowWillClose
    BY <1>1, ActivitiesHold
    DEF MuxInv, InvOf, NoEmptyWindow, HeldUp, EmptyWindowWillClose
<1>2. QED
    BY <1>1, MuxInvariant, PTL

\* The active position of a window that has tabs is that of one of them, after
\* every removal, insertion and move.
THEOREM ActiveTabCorrect == Spec => []ActiveTabExists
<1>1. ASSUME MuxInv PROVE ActiveTabExists
    <2>1. ASSUME NEW w \in DOMAIN mux.windows, mux.windows[w].tabs # <<>>
          PROVE  ActiveTab(mux.windows[w]) # NoTab
        <3>1. mux.windows[w] \in Window /\ WindowOK(mux.windows[w])
            BY <1>1, WindowsOfSound DEF MuxInv, InvOf
        <3>2. QED
            BY <2>1, <3>1, ActiveTabIs
    <2>2. QED
        BY <2>1 DEF ActiveTabExists
<1>2. QED
    BY <1>1, MuxInvariant, PTL

\* The count of panes says that a workspace is empty only when it is, and says so
\* of every empty one when nothing is queued.
THEOREM VacantCorrect == Spec => []VacantWhenEmpty
<1>1. ASSUME MuxInv PROVE VacantWhenEmpty
    <2>1. Counted(mux) /\ (NothingOwed(mux) \/ Due(mux, spawns))
        BY <1>1 DEF MuxInv, InvOf
    <2>2. QED
        BY <2>1 DEF Counted, NothingOwed, EmptyIsCounted, Due, HeldUp, Building,
                    VacantWhenEmpty
<1>2. QED
    BY <1>1, MuxInvariant, PTL

\* As long as a pane whose process has ended is in a tab, a prune is to come.
THEOREM DeadPaneCorrect == Spec => []DeadPaneIsPruned
<1>1. ASSUME MuxInv PROVE DeadPaneIsPruned
    <2>1. NothingOwed(mux) \/ Due(mux, spawns)
        BY <1>1 DEF MuxInv, InvOf
    <2>2. Activities > 0 <=> Building(spawns)
        BY <1>1, ActivitiesHold
    <2>3. QED
        BY <2>1, <2>2 DEF NothingOwed, Doomed, Due, HeldUp, DeadPaneIsPruned
<1>2. QED
    BY <1>1, MuxInvariant, PTL

\* When the last pane has gone, the subscribers have been told so or a prune that
\* will tell them is to come.
THEOREM EmptyCorrect == Spec => []EmptyIsAnnounced
<1>1. ASSUME MuxInv PROVE EmptyIsAnnounced
    <2>1. NothingOwed(mux) \/ Due(mux, spawns)
        BY <1>1 DEF MuxInv, InvOf
    <2>2. Activities > 0 <=> Building(spawns)
        BY <1>1, ActivitiesHold
    <2>3. QED
        BY <2>1, <2>2 DEF NothingOwed, Due, HeldUp, EmptyIsAnnounced
<1>2. QED
    BY <1>1, MuxInvariant, PTL

-------------------------------------------------------------------------------
\* What a window shows, from step to step.

LEMMA FollowsSame ==
    ASSUME NEW m, NEW n, n.windows = m.windows PROVE Follows(m, n)
    BY DEF Follows

LEMMA FollowsRemoves ==
    ASSUME NEW k, NEW m, NEW n, Follows(k, m), Removes(m, n) PROVE Follows(k, n)
<1>1. DOMAIN n.windows \subseteq DOMAIN m.windows
      /\ \A w \in DOMAIN n.windows : Shrunk(m.windows[w], n.windows[w])
    BY DEF Removes
<1>2. QED
    BY <1>1 DEF Follows, Shrunk

LEMMA FollowsPrune ==
    ASSUME MuxInv, NEW k, NEW m, Follows(k, m),
           Sound(m), Counted(m), LastIsGone(m), ThenPrune(m)
    PROVE  Follows(k, mux')
<1>. DEFINE act == Activities
<1>1. PICK skipped \in Skips(m) : mux' = Tidy(PruneDeadWindows(m, skipped, act))
    BY DEF ThenPrune
<1>2. act \in Nat
    BY ActivitiesAre, CountActivities DEF MuxInv, InvOf
<1>. HIDE DEF act
<1>. DEFINE n == Tidy(PruneDeadWindows(m, skipped, act))
<1>3. Removes(m, n)
    BY <1>1, <1>2, PruneSettles
<1>. HIDE DEF n
<1>4. Follows(k, n)
    BY <1>3, FollowsRemoves
<1>5. QED
    BY <1>1, <1>4 DEF n

\* The actions that remove and then prune
LEMMA RemovedFollows ==
    ASSUME MuxInv, NEW m, Removes(mux, m), Counted(m), ThenPrune(m)
    PROVE  Follows(mux, mux')
<1>1. Sound(m) /\ LastIsGone(m)
    BY LastRemoved DEF MuxInv, InvOf, Removes
<1>2. Follows(mux, m)
    BY FollowsSame, FollowsRemoves
<1>3. QED
    BY <1>1, <1>2, FollowsPrune

LEMMA CloseFollows ==
    ASSUME MuxInv, NEW x, ClosePane(x) \/ CloseTab(x) \/ CloseWindow(x)
    PROVE  Follows(mux, mux')
<1>1. Sound(mux) /\ Counted(mux)
    BY DEF MuxInv, InvOf
<1>2. CASE ClosePane(x)
    <2>. DEFINE n == RemovePanes(mux, {x})
    <2>1. Removes(mux, n) /\ Counted(n)
        BY <1>1, RemovePanesRemoves
    <2>2. ThenPrune(n)
        BY <1>2 DEF ClosePane
    <2>. HIDE DEF n
    <2>3. QED
        BY <2>1, <2>2, RemovedFollows
<1>3. CASE CloseTab(x)
    <2>. DEFINE n == RemoveTabInternal(mux, x)
    <2>1. Removes(mux, n) /\ Counted(n)
        BY <1>1, RemoveTabRemoves
    <2>2. ThenPrune(n)
        BY <1>3 DEF CloseTab
    <2>. HIDE DEF n
    <2>3. QED
        BY <2>1, <2>2, RemovedFollows
<1>4. CASE CloseWindow(x)
    <2>. DEFINE n == RemoveWindowInternal(mux, x)
    <2>1. Removes(mux, n) /\ Counted(n)
        BY <1>1, RemoveWindowRemoves DEF RemovesWindows
    <2>2. ThenPrune(n)
        BY <1>4 DEF CloseWindow
    <2>. HIDE DEF n
    <2>3. QED
        BY <2>1, <2>2, RemovedFollows
<1>5. QED
    BY <1>2, <1>3, <1>4

LEMMA RunPruneFollows ==
    ASSUME MuxInv, RunPrune PROVE Follows(mux, mux')
<1>. DEFINE n == [mux EXCEPT !.prune_due = FALSE]
<1>1. Sound(mux) /\ mux \in MuxRecord
    BY DEF MuxInv, InvOf, Sound
<1>2. /\ n \in MuxRecord
      /\ n.tabs = mux.tabs /\ n.tree = mux.tree /\ n.windows = mux.windows
      /\ n.panes = mux.panes /\ n.vacant = mux.vacant /\ n.unannounced = mux.unannounced
    BY <1>1 DEF MuxRecord
<1>3. ThenPrune(n)
    BY DEF RunPrune
<1>. HIDE DEF n
<1>4. Sound(n) /\ PlacedPanes(n) = PlacedPanes(mux)
    BY <1>1, <1>2, SameView
<1>5. Counted(n) /\ LastIsGone(n)
    BY <1>2, <1>4 DEF MuxInv, InvOf, Counted, LastIsGone
<1>6. Follows(mux, n)
    BY <1>2, FollowsSame
<1>7. QED
    BY <1>3, <1>4, <1>5, <1>6, FollowsPrune

LEMMA RunRemovalFollows ==
    ASSUME MuxInv, NEW p, RunRemoval(p) PROVE Follows(mux, mux')
<1>. DEFINE rm == mux.removals \ {p}
            k == [mux EXCEPT !.removals = rm]
            n == RemovePanes(k, {p})
<1>1. Sound(mux) /\ mux \in MuxRecord
    BY DEF MuxInv, InvOf, Sound
<1>2. rm \subseteq PaneIds
    BY <1>1 DEF MuxRecord
<1>. HIDE DEF rm
<1>3. /\ k \in MuxRecord
      /\ k.tabs = mux.tabs /\ k.tree = mux.tree /\ k.windows = mux.windows
      /\ k.panes = mux.panes /\ k.vacant = mux.vacant /\ k.unannounced = mux.unannounced
    BY <1>1, <1>2 DEF MuxRecord
<1>4. ThenPrune(n)
    BY DEF RunRemoval, rm
<1>. HIDE DEF k
<1>5. Sound(k) /\ PlacedPanes(k) = PlacedPanes(mux)
    BY <1>1, <1>3, SameView
<1>6. Counted(k) /\ LastIsGone(k)
    BY <1>3, <1>5 DEF MuxInv, InvOf, Counted, LastIsGone
<1>7. Removes(k, n) /\ Counted(n)
    BY <1>5, <1>6, RemovePanesRemoves
<1>. HIDE DEF n
<1>8. Sound(n) /\ LastIsGone(n) /\ Follows(mux, n)
    BY <1>3, <1>6, <1>7, LastRemoved, FollowsSame, FollowsRemoves DEF Removes
<1>9. QED
    BY <1>4, <1>7, <1>8, FollowsPrune

LEMMA MoveToTabFollows ==
    ASSUME MuxInv, NEW p \in PaneIds, NEW w \in WindowIds, NEW t \in TabIds,
           MoveToTab(p, w, t)
    PROVE  Follows(mux, mux')
<1>. DEFINE s == HomeOf(mux, p)
            n == AddTabToWindow(AddTab(TakenFrom(mux, p, s), t, p), t, w)
            act == Activities
<1>1. Prunes(mux, spawns) /\ act \in Nat
    BY InvPrunes, ActivitiesAre, CountActivities DEF MuxInv, InvOf
<1>2. /\ p \in ReachablePanes(mux) /\ w \in DOMAIN mux.windows
      /\ t \notin mux.tabs /\ t \notin TabsOf(mux)
      /\ \A op \in spawns : op.kind = "split" => op.home # t
    BY DEF MoveToTab, FreeTabs
<1>3. s \in TabsOf(mux) /\ p \in mux.tree[s]
    BY <1>2, HomeIs
<1>4. PICK skipped \in SkipsAfterMove(n, s) : mux' = AfterMove(n, s, skipped, act)
    BY DEF MoveToTab
<1>. HIDE DEF s, act
<1>5. Prunes(n, spawns) /\ Follows(mux, n)
    BY <1>1, <1>2, <1>3, MovedIs
<1>. HIDE DEF n
<1>. DEFINE z == AfterMove(n, s, skipped, act)
<1>6. Removes(n, z)
    BY <1>1, <1>4, <1>5, AfterMoveIs DEF Prunes
<1>. HIDE DEF z
<1>7. Follows(mux, z)
    BY <1>5, <1>6, FollowsRemoves
<1>8. QED
    BY <1>4, <1>7 DEF z

LEMMA MoveToWindowFollows ==
    ASSUME MuxInv, NEW p \in PaneIds, NEW w \in WindowIds, NEW t \in TabIds,
           MoveToWindow(p, w, t)
    PROVE  Follows(mux, mux')
<1>. DEFINE s == HomeOf(mux, p)
            a == AddWindow(mux, w)
            n == AddTabToWindow(AddTab(TakenFrom(a, p, s), t, p), t, w)
            k == [n EXCEPT !.prune_due = TRUE]
            act == Activities + 1
            none == {}
            z == AfterMove(k, s, none, act)
<1>1. Prunes(mux, spawns) /\ Sound(mux) /\ w \notin DOMAIN mux.windows
    BY InvPrunes DEF MuxInv, Prunes, MoveToWindow, FreeWindows
<1>2. /\ p \in ReachablePanes(mux)
      /\ t \notin mux.tabs /\ t \notin TabsOf(mux)
      /\ \A op \in spawns : op.kind = "split" => op.home # t
    BY DEF MoveToWindow, FreeTabs
<1>3. s \in TabsOf(mux) /\ p \in mux.tree[s]
    BY <1>2, HomeIs
<1>4. mux' = z
    BY DEF MoveToWindow
<1>. HIDE DEF s
<1>5. /\ Sound(a) /\ SameRest(mux, a)
      /\ a.tabs = mux.tabs /\ a.panes = mux.panes /\ a.tree = mux.tree
      /\ a.vacant = mux.vacant /\ a.unannounced = mux.unannounced
      /\ DOMAIN a.windows = DOMAIN mux.windows \cup {w}
      /\ \A v \in DOMAIN mux.windows : a.windows[v] = mux.windows[v]
      /\ TabsOf(a) = TabsOf(mux) /\ PlacedPanes(a) = PlacedPanes(mux)
    BY <1>1, AddWindowIs
<1>. HIDE DEF a
<1>6. /\ HeldBut(a, {}) /\ Counted(a) /\ LastIsGone(a) /\ HomesKept(a, spawns)
    BY <1>1, <1>5 DEF Prunes, HeldBut, Counted, LastIsGone, HomesKept, SameRest
<1>7. Prunes(a, spawns)
    BY <1>1, <1>5, <1>6 DEF Prunes
<1>8. s \in TabsOf(a) /\ p \in a.tree[s] /\ t \notin a.tabs /\ t \notin TabsOf(a)
      /\ w \in DOMAIN a.windows
    BY <1>2, <1>3, <1>5
<1>9. Prunes(n, spawns) /\ Follows(a, n) /\ DOMAIN n.windows = DOMAIN a.windows
    BY <1>2, <1>7, <1>8, MovedIs
<1>. HIDE DEF n
<1>10. Follows(mux, n)
    BY <1>5, <1>9 DEF Follows
<1>11. n \in MuxRecord /\ Sound(n)
    BY <1>9 DEF Prunes, Sound
<1>12. /\ k \in MuxRecord
       /\ k.tabs = n.tabs /\ k.tree = n.tree /\ k.windows = n.windows
       /\ k.panes = n.panes /\ k.vacant = n.vacant /\ k.unannounced = n.unannounced
    BY <1>11 DEF MuxRecord
<1>. HIDE DEF k
<1>13. Sound(k) /\ PlacedPanes(k) = PlacedPanes(n)
    BY <1>11, <1>12, SameView
<1>14. Counted(k) /\ LastIsGone(k) /\ Follows(mux, k)
    BY <1>9, <1>10, <1>12, <1>13 DEF Prunes, Counted, LastIsGone, Follows
<1>15. act \in Nat /\ act # 0
    <2>1. Activities \in Nat
        BY <1>1, ActivitiesAre, CountActivities DEF Prunes
    <2>2. QED
        BY <2>1
<1>. HIDE DEF act, none
<1>16. Removes(k, z)
    BY <1>13, <1>14, <1>15, AfterMoveIs
<1>. HIDE DEF z
<1>17. QED
    BY <1>4, <1>14, <1>16, FollowsRemoves

LEMMA MoveIntoSplitFollows ==
    ASSUME MuxInv, NEW p \in PaneIds, NEW t \in TabIds, MoveIntoSplit(p, t)
    PROVE  Follows(mux, mux')
<1>. DEFINE s == HomeOf(mux, p)
            a == TakenFrom(mux, p, s)
            act == Activities
<1>1. Sound(mux) /\ Counted(mux) /\ LastIsGone(mux) /\ act \in Nat
    BY ActivitiesAre, CountActivities DEF MuxInv, InvOf
<1>2. p \in ReachablePanes(mux)
    BY DEF MoveIntoSplit
<1>3. p \in mux.tree[s] /\ s \in TabIds
    BY <1>1, <1>2, HomeIs, TabsOfAreTabs DEF Sound
<1>4. PICK skipped \in SkipsAfterMove(a, s) :
        LET m == AfterMove(a, s, skipped, act)
        IN  \/ mux' = [m EXCEPT !.tree[t] = @ \cup {p}]
            \/ mux' = Stranded(m, p)
    BY DEF MoveIntoSplit
<1>. DEFINE m == AfterMove(a, s, skipped, act)
<1>. HIDE DEF act, s
<1>5. /\ Removes(mux, a) /\ Counted(a) /\ a.panes = mux.panes
      /\ a.unannounced = mux.unannounced
    BY <1>1, <1>3, TakenFromRemoves
<1>. HIDE DEF a
<1>6. Sound(a) /\ LastIsGone(a)
    BY <1>1, <1>5 DEF Removes, LastIsGone
<1>7. Removes(a, m)
    BY <1>1, <1>4, <1>5, <1>6, AfterMoveIs
<1>8. mux' = [m EXCEPT !.tree[t] = @ \cup {p}] \/ mux' = Stranded(m, p)
    BY <1>4
<1>. HIDE DEF m
<1>9. Follows(mux, m) /\ m \in MuxRecord
    <2>1. Follows(mux, mux)
        BY FollowsSame
    <2>2. Follows(mux, a)
        BY <2>1, <1>5, FollowsRemoves
    <2>3. Follows(mux, m)
        BY <2>2, <1>7, FollowsRemoves
    <2>4. m \in MuxRecord
        BY <1>7 DEF Removes, Sound
    <2>5. QED
        BY <2>3, <2>4
<1>10. mux'.windows = m.windows
    BY <1>8, <1>9 DEF Stranded, MuxRecord
<1>11. QED
    BY <1>9, <1>10 DEF Follows

LEMMA SpawnWindowFollows ==
    ASSUME MuxInv, NEW w \in WindowIds, SpawnWindow(w) PROVE Follows(mux, mux')
<1>. DEFINE n == AddWindow(mux, w)
<1>1. \A v \in DOMAIN mux.windows : n.windows[v] = mux.windows[v]
    BY AddWindowIs DEF MuxInv, InvOf, SpawnWindow, FreeWindows
<1>2. mux' = n
    BY DEF SpawnWindow
<1>. HIDE DEF n
<1>3. QED
    BY <1>1, <1>2 DEF Follows

\* What windows lose their tabs: those that a step makes shorter.
Shorter(m, n) ==
    {w \in DOMAIN m.windows \cap DOMAIN n.windows :
        Len(n.windows[w].tabs) < Len(m.windows[w].tabs)}

\* The tabs of a window are another sequence of the same length: none is lost.
LEMMA SameLength ==
    ASSUME NEW m, Sound(m), NEW w \in DOMAIN m.windows, NEW u \in Window,
           Len(u.tabs) = Len(m.windows[w].tabs)
    PROVE  Shorter(m, [m EXCEPT !.windows[w] = u]) = {}
<1>. DEFINE n == [m EXCEPT !.windows[w] = u]
<1>1. m \in MuxRecord
    BY DEF Sound
<1>2. n.windows = [m.windows EXCEPT ![w] = u]
    BY <1>1 DEF MuxRecord
<1>. HIDE DEF n
<1>3. ASSUME NEW x \in DOMAIN m.windows
      PROVE  Len(n.windows[x].tabs) = Len(m.windows[x].tabs)
    BY <1>2
<1>4. \A x \in DOMAIN m.windows : Len(m.windows[x].tabs) \in Nat
    <2>1. ASSUME NEW x \in DOMAIN m.windows PROVE Len(m.windows[x].tabs) \in Nat
        <3>1. m.windows[x].tabs \in Seq(TabIds)
            BY WindowsOfSound DEF Window
        <3>2. QED
            BY <3>1, ElementsOf
    <2>2. QED
        BY <2>1
<1>5. \A x \in DOMAIN m.windows : ~ (Len(n.windows[x].tabs) < Len(m.windows[x].tabs))
    BY <1>3, <1>4
<1>6. QED
    BY <1>5 DEF Shorter, n

LEMMA ActivateTabShortens ==
    ASSUME MuxInv, NEW w, NEW i, ActivateTab(w, i) PROVE Shorter(mux, mux') = {}
<1>. DEFINE v == mux.windows[w]
            u == Activated(v, i)
<1>1. w \in DOMAIN mux.windows /\ i \in 1..Len(v.tabs) /\ Sound(mux)
    BY DEF ActivateTab, MuxInv, InvOf
<1>2. mux' = [mux EXCEPT !.windows[w] = u]
    BY DEF ActivateTab
<1>3. u \in Window /\ u.tabs = v.tabs
    BY <1>1, WindowsOfSound, ActivatedIs
<1>. HIDE DEF u
<1>4. QED
    BY <1>1, <1>2, <1>3, SameLength

LEMMA MoveTabShortens ==
    ASSUME MuxInv, NEW w, NEW i, MoveTab(w, i) PROVE Shorter(mux, mux') = {}
<1>1. w \in DOMAIN mux.windows /\ Sound(mux)
    BY MoveTabIs DEF MuxInv, InvOf
<1>2. PICK u \in Window :
        Len(u.tabs) = Len(mux.windows[w].tabs) /\ mux' = [mux EXCEPT !.windows[w] = u]
    BY MoveTabIs
<1>3. QED
    BY <1>1, <1>2, SameLength

LEMMA FinishSpawnShortens ==
    ASSUME MuxInv, NEW op \in spawns, NEW p \in PaneIds, NEW t \in TabIds,
           FinishSpawn(op, p, t)
    PROVE  Shorter(mux, mux') = {}
<1>. DEFINE w == op.home
            a == AddTab(mux, t, p)
            b == AddTabToWindow(a, t, w)
            n == IF w \in DOMAIN mux.windows
                 THEN [b EXCEPT !.windows[w] = Activated(@, Len(@.tabs))]
                 ELSE Stranded(b, p)
<1>1. InvOf(mux, spawns) /\ Sound(mux)
    BY DEF MuxInv, InvOf
<1>2. p \in FreePanes /\ t \in FreeTabs /\ mux' = Dropped(n, op)
    BY DEF FinishSpawn
<1>3. /\ t \notin TabsOf(mux) /\ \A u \in TabIds : p \notin mux.tree[u]
    BY <1>2 DEF FreePanes, FreeTabs
<1>4. /\ Sound(a) /\ a.tabs = mux.tabs \cup {t} /\ a.windows = mux.windows
      /\ TabsOf(a) = TabsOf(mux)
    BY <1>1, <1>3, AddTabIs DEF InvOf
<1>. HIDE DEF a
<1>5. \A x \in DOMAIN mux.windows : Len(mux.windows[x].tabs) \in Nat
    <2>1. ASSUME NEW x \in DOMAIN mux.windows PROVE Len(mux.windows[x].tabs) \in Nat
        <3>1. mux.windows[x].tabs \in Seq(TabIds)
            BY <1>1, WindowsOfSound DEF Window
        <3>2. QED
            BY <3>1, ElementsOf
    <2>2. QED
        BY <2>1
<1>6. n \in MuxRecord => mux'.windows = n.windows
    <2>. HIDE DEF n
    <2>1. QED
        BY <1>2 DEF Dropped, MuxRecord
<1>7. CASE w \in DOMAIN mux.windows
    <2>1. /\ Sound(b) /\ DOMAIN b.windows = DOMAIN a.windows
          /\ b.windows[w].tabs # <<>>
          /\ Len(b.windows[w].tabs) = Len(a.windows[w].tabs) + 1
          /\ \A u \in DOMAIN a.windows : u # w => b.windows[u] = a.windows[u]
        <3>1. t \in a.tabs /\ t \notin TabsOf(a) /\ w \in DOMAIN a.windows
            BY <1>3, <1>4, <1>7
        <3>. HIDE DEF w
        <3>2. QED
            BY <1>4, <3>1, AddTabToWindowIs
    <2>. HIDE DEF b, w
    <2>. DEFINE v == b.windows[w]
                z == Activated(v, Len(v.tabs))
                none == {}
    <2>2. v \in Window /\ WindowOK(v) /\ w \in DOMAIN b.windows
        BY <1>4, <1>7, <2>1, WindowsOfSound
    <2>3. Len(v.tabs) \in 1..Len(v.tabs)
        <3>1. v.tabs \in Seq(TabIds)
            BY <2>2 DEF Window
        <3>2. QED
            BY <2>1, <3>1, ElementsOf
    <2>4. z \in Window /\ WindowOK(z) /\ z.tabs = v.tabs
        BY <2>2, <2>3, ActivatedIs
    <2>5. n = [b EXCEPT !.windows[w] = z]
        BY <1>7 DEF w
    <2>. HIDE DEF z
    <2>6. none \in SUBSET b.tabs /\ none \cap TabsOf(b) = {}
          /\ ToSet(z.tabs) = ToSet(v.tabs) \cup none
        BY <2>4
    <2>. HIDE DEF n, none
    <2>7. /\ Sound(n) /\ DOMAIN n.windows = DOMAIN b.windows /\ n.windows[w] = z
          /\ \A u \in DOMAIN b.windows : u # w => n.windows[u] = b.windows[u]
        <3>1. ToSet(z.tabs) = ToSet(b.windows[w].tabs) \cup none
            BY <2>6
        <3>2. Sound(b) /\ w \in DOMAIN b.windows /\ z \in Window /\ WindowOK(z)
            BY <2>1, <2>2, <2>4
        <3>. HIDE DEF v
        <3>3. QED
            BY <2>5, <2>6, <3>1, <3>2, WindowReplaced
    <2>8. mux'.windows = n.windows
        BY <1>6, <2>7 DEF Sound
    <2>9. \A u \in DOMAIN mux.windows : u # w => mux'.windows[u] = mux.windows[u]
        BY <1>4, <2>1, <2>7, <2>8
    <2>10. Len(mux'.windows[w].tabs) = Len(mux.windows[w].tabs) + 1
        BY <1>4, <2>1, <2>4, <2>7, <2>8
    <2>11. \A u \in DOMAIN mux.windows :
             ~ (Len(mux'.windows[u].tabs) < Len(mux.windows[u].tabs))
        BY <1>5, <1>7, <2>9, <2>10
    <2>12. QED
        BY <2>11 DEF Shorter
<1>8. CASE w \notin DOMAIN mux.windows
    <2>1. b = a
        BY <1>4, <1>8 DEF AddTabToWindow
    <2>2. n = Stranded(a, p)
        BY <1>8, <2>1
    <2>. HIDE DEF n, b, w
    <2>3. Sound(n) /\ n.windows = mux.windows
        BY <1>4, <2>2, StrandedIs
    <2>4. mux'.windows = mux.windows
        BY <1>6, <2>3 DEF Sound
    <2>5. \A u \in DOMAIN mux.windows :
             ~ (Len(mux'.windows[u].tabs) < Len(mux.windows[u].tabs))
        BY <1>5, <2>4
    <2>6. QED
        BY <2>5 DEF Shorter
<1>9. QED
    BY <1>7, <1>8

LEMMA UserFollows == ASSUME MuxInv, User PROVE Follows(mux, mux') \/ Shorter(mux, mux') = {}
<1>. DEFINE Kept == Follows(mux, mux') \/ Shorter(mux, mux') = {}
<1>1. ASSUME NEW w \in WindowIds, SpawnWindow(w) PROVE Kept
    BY <1>1, SpawnWindowFollows
<1>2. ASSUME NEW w, SpawnTab(w) PROVE Kept
    BY <1>2, FollowsSame DEF SpawnTab
<1>3. ASSUME NEW w, CloseWindow(w) PROVE Kept
    BY <1>3, CloseFollows
<1>4. ASSUME NEW w \in WindowIds, NEW p \in PaneIds, NEW t \in TabIds, MoveToTab(p, w, t)
      PROVE  Kept
    BY <1>4, MoveToTabFollows
<1>5. ASSUME NEW w \in WindowIds, NEW p \in PaneIds, NEW t \in TabIds, MoveToWindow(p, w, t)
      PROVE  Kept
    BY <1>5, MoveToWindowFollows
<1>6. ASSUME NEW w, NEW i, ActivateTab(w, i) PROVE Kept
    BY <1>6, ActivateTabShortens
<1>7. ASSUME NEW w, NEW i, MoveTab(w, i) PROVE Kept
    BY <1>7, MoveTabShortens
<1>8. ASSUME NEW t, SplitPane(t) PROVE Kept
    BY <1>8, FollowsSame DEF SplitPane
<1>9. ASSUME NEW t, CloseTab(t) PROVE Kept
    BY <1>9, CloseFollows
<1>10. ASSUME NEW t \in TabIds, NEW p \in PaneIds, KillPaneInTab(t, p) PROVE Kept
    <2>1. mux'.windows = mux.windows
        BY <1>10 DEF KillPaneInTab, TakenFrom, MuxInv, InvOf, Sound, MuxRecord
    <2>2. QED
        BY <2>1 DEF Follows
<1>11. ASSUME NEW t \in TabIds, NEW p \in PaneIds, MoveIntoSplit(p, t) PROVE Kept
    BY <1>11, MoveIntoSplitFollows
<1>12. ASSUME NEW p, ClosePane(p) PROVE Kept
    BY <1>12, CloseFollows
<1>13. Kept
    BY <1>1, <1>2, <1>3, <1>4, <1>5, <1>6, <1>7, <1>8, <1>9, <1>10, <1>11, <1>12 DEF User
<1>14. QED
    BY <1>13 DEF Kept

LEMMA NextFollows ==
    ASSUME MuxInv, [Next]_muxVars PROVE Follows(mux, mux') \/ Shorter(mux, mux') = {}
<1>. DEFINE Kept == Follows(mux, mux') \/ Shorter(mux, mux') = {}
<1>1. ASSUME NEW op \in spawns, EndSpawn(op) PROVE Kept
    <2>1. ASSUME NEW p \in PaneIds, NEW t \in TabIds, FinishSpawn(op, p, t) PROVE Kept
        BY <2>1, FinishSpawnShortens
    <2>2. ASSUME NEW p \in PaneIds, FinishSplit(op, p) PROVE Kept
        <3>1. FinishSplit(op, p) => mux'.windows = mux.windows
            <4>. DEFINE a == AddPane(mux, p)
            <4>1. Sound(a) /\ a.windows = mux.windows
                BY AddPaneIs DEF MuxInv, InvOf
            <4>2. mux' = [a EXCEPT !.tree[op.home] = @ \cup {p}] \/ mux' = Stranded(a, p)
                BY <2>2 DEF FinishSplit
            <4>. HIDE DEF a
            <4>3. QED
                BY <4>1, <4>2 DEF Stranded, Sound, MuxRecord
        <3>2. QED
            BY <2>2, <3>1 DEF Follows
    <2>3. ASSUME FailSpawn(op) PROVE Kept
        <3>1. mux'.windows = mux.windows
            BY <2>3 DEF FailSpawn, Dropped, MuxInv, InvOf, Sound, MuxRecord
        <3>2. QED
            BY <3>1 DEF Follows
    <2>4. QED
        BY <1>1, <2>1, <2>2, <2>3 DEF EndSpawn
<1>2. ASSUME NEW p \in PaneIds, ProcessExits(p) PROVE Kept
    <2>1. mux'.windows = mux.windows
        BY <1>2 DEF ProcessExits, MuxInv, InvOf, Sound, MuxRecord
    <2>2. QED
        BY <2>1 DEF Follows
<1>3. ASSUME NEW p \in PaneIds, RunRemoval(p) PROVE Kept
    BY <1>3, RunRemovalFollows
<1>4. CASE RunPrune
    BY <1>4, RunPruneFollows
<1>5. CASE UNCHANGED muxVars
    BY <1>5 DEF muxVars, Follows
<1>6. CASE User
    BY <1>6, UserFollows
<1>7. ASSUME Next PROVE Kept
    <2>1. (\E op \in spawns : EndSpawn(op)) => Kept
        BY <1>1
    <2>2. (\E p \in PaneIds : ProcessExits(p) \/ RunRemoval(p)) => Kept
        BY <1>2, <1>3
    <2>3. QED
        BY <1>4, <1>6, <1>7, <2>1, <2>2 DEF Next
<1>8. QED
    BY <1>5, <1>7 DEF Kept

\* When tabs leave a window, by pruning, closing or moving panes, and the active
\* tab is not one of them, it stays active: in every step.
THEOREM ActiveTabKeptCorrect == Spec => ActiveTabKept
<1>1. MuxInv /\ [Next]_muxVars => [ActiveTabStays]_muxVars
    <2>. SUFFICES ASSUME MuxInv, [Next]_muxVars
                  PROVE  \A w \in DOMAIN mux.windows \cap DOMAIN mux'.windows :
                            LET before == mux.windows[w]
                                after == mux'.windows[w]
                            IN  /\ Len(after.tabs) < Len(before.tabs)
                                /\ ActiveTab(before) \in ToSet(after.tabs)
                                => ActiveTab(after) = ActiveTab(before)
        BY DEF ActiveTabStays
    <2>1. Follows(mux, mux') \/ Shorter(mux, mux') = {}
        BY NextFollows
    <2>2. \A w \in DOMAIN mux.windows : mux.windows[w].tabs # <<>> =>
              ActiveTab(mux.windows[w]) # NoTab
        <3>1. ASSUME NEW w \in DOMAIN mux.windows, mux.windows[w].tabs # <<>>
              PROVE  ActiveTab(mux.windows[w]) # NoTab
            <4>1. mux.windows[w] \in Window /\ WindowOK(mux.windows[w])
                BY WindowsOfSound DEF MuxInv, InvOf
            <4>2. QED
                BY <3>1, <4>1, ActiveTabIs
        <3>2. QED
            BY <3>1
    <2>3. ASSUME NEW w \in DOMAIN mux.windows \cap DOMAIN mux'.windows,
                 Len(mux'.windows[w].tabs) < Len(mux.windows[w].tabs),
                 ActiveTab(mux.windows[w]) \in ToSet(mux'.windows[w].tabs)
          PROVE  ActiveTab(mux'.windows[w]) = ActiveTab(mux.windows[w])
        <3>1. Shorter(mux, mux') # {}
            BY <2>3 DEF Shorter
        <3>2. mux.windows[w].tabs # <<>>
            <4>1. MuxInv'
                BY NextKeepsInv
            <4>2. Sound(mux')
                BY <4>1 DEF MuxInv, InvOf
            <4>3. mux'.windows[w].tabs \in Seq(TabIds)
                BY <2>3, <4>2, WindowsOfSound DEF Window
            <4>4. Len(mux'.windows[w].tabs) \in Nat
                BY <4>3, ElementsOf
            <4>5. mux.windows[w].tabs \in Seq(TabIds)
                BY <2>3, WindowsOfSound DEF Window, MuxInv, InvOf
            <4>6. Len(mux.windows[w].tabs) \in Nat
                  /\ (mux.windows[w].tabs = <<>> <=> Len(mux.windows[w].tabs) = 0)
                BY <4>5, ElementsOf
            <4>7. QED
                BY <2>3, <4>4, <4>6
        <3>3. QED
            BY <2>1, <2>2, <2>3, <3>1, <3>2 DEF Follows
    <2>4. QED
        BY <2>3
<1>2. QED
    BY <1>1, MuxInvariant, PTL DEF Spec, ActiveTabKept

===============================================================================
