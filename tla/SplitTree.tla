----------------------------- MODULE SplitTree -----------------------------
(***************************************************************************)
(* One tab: the binary tree of its panes, the split sizes, the active      *)
(* index, zoom, and the size each pane's pty was last given                *)
(* (src/mux/src/tab.rs, on the zipper of src/bintree/src/lib.rs).          *)
(*                                                                         *)
(* The cursor of the zipper is a path from the root: 1 goes to the left    *)
(* child, 2 to the right one.  A leaf path holds a pane, every other path  *)
(* of the tree a split.  The code divides columns (Horizontal) or rows     *)
(* (Vertical) in mirrored functions; here both are one, over an axis.      *)
(***************************************************************************)
EXTENDS Integers, FiniteSets, Sequences, SequencesExt, FiniteSetsExt

CONSTANTS
    Panes,         \* panes, in this tab or about to be
    NoPane,        \* no pane
    InitialSize,   \* the size a tab is made with
    WindowSizes,   \* the sizes the window asks its tabs to take
    Deltas,        \* how far a split is dragged at once
    MaxExtent,     \* bound: the widest and highest a split may become
    Deaths,        \* how many panes may be dead when a tab is pruned
    Ops            \* the operations of this instance

VARIABLE tab

vars == <<tab>>

ASSUME SplitTreeAssumption ==
    /\ NoPane \notin Panes
    /\ Deaths \in Nat
    /\ WindowSizes \cup {InitialSize} \subseteq [cols : Nat \ {0}, rows : Nat \ {0}]
    /\ Deltas \subseteq Int

Axes == {"cols", "rows"}
Across(axis) == IF axis = "cols" THEN "rows" ELSE "cols"
AtLeast(m, n) == IF m > n THEN m ELSE n
Monus(m, n) == AtLeast(m - n, 0)

(***************************************************************************)
(* The tree and its traversals.                                            *)
(***************************************************************************)

PanesOf(t) == {t.leaf[p] : p \in DOMAIN t.leaf}
Precedes(p, q) ==
    \E i \in DOMAIN p \cap DOMAIN q :
        SubSeq(p, 1, i - 1) = SubSeq(q, 1, i - 1) /\ p[i] < q[i]

\* The order in which iter_panes gives the leaves; indices count from 0.
LeafIndex(t, p) == Cardinality({q \in DOMAIN t.leaf : Precedes(q, p)})
LeafAt(t, i) == CHOOSE p \in DOMAIN t.leaf : LeafIndex(t, p) = i
PaneAt(t, i) == t.leaf[LeafAt(t, i)]
PathOf(t, pane) == CHOOSE p \in DOMAIN t.leaf : t.leaf[p] = pane
IndexOf(t, pane) == LeafIndex(t, PathOf(t, pane))
LeafCount(t) == Cardinality(DOMAIN t.leaf)
HasIndex(t, i) == i \in 0..(LeafCount(t) - 1)

\* preorder_next: past the last leaf there is no next position.
Done == <<0>>
PreorderNext(t, p) ==
    IF p \in DOMAIN t.split THEN Append(p, 1)
    ELSE LET lefts == {i \in DOMAIN p : p[i] = 1}
         IN  IF lefts = {} THEN Done ELSE Append(SubSeq(p, 1, Max(lefts) - 1), 2)

\* The room a position has: what its parent says, or the tab's size.
Room(t, p) == IF p = <<>> THEN t.size ELSE t.split[Front(p)].part[Last(p)]

\* The position q below `from', seen from `to'.
Rebased(q, from, to) == to \o SubSeq(q, Len(from) + 1, Len(q))

\* unsplit_leaf: the sibling's subtree takes the parent's place.
Lifted(t, p) ==
    LET up == Front(p)
        sibling == Append(up, 3 - Last(p))
        Old(q) == IF IsPrefix(up, q) THEN Rebased(q, up, sibling) ELSE q
        Kept(f) == {q \in DOMAIN f : ~IsPrefix(up, q)}
                     \cup {Rebased(q, sibling, up) : q \in {r \in DOMAIN f : IsPrefix(sibling, r)}}
        Moved(f) == [q \in Kept(f) |-> f[Old(q)]]
    IN  [t EXCEPT !.leaf = Moved(t.leaf), !.split = Moved(t.split),
                  !.pty = [x \in DOMAIN @ \ {t.leaf[p]} |-> @[x]]]

\* split_leaf_and_insert_right and split_node_and_insert_*: what is at path
\* `at' moves down to side `side', the new pane takes the other side.
Inserted(t, at, side, pane, split, size) ==
    LET below == Append(at, side)
        new == Append(at, 3 - side)
        Down(q) == IF IsPrefix(at, q) THEN Rebased(q, at, below) ELSE q
        Old(q) == IF IsPrefix(below, q) THEN Rebased(q, below, at) ELSE q
    IN  [t EXCEPT
          !.leaf = [q \in {Down(r) : r \in DOMAIN @} \cup {new} |-> IF q = new THEN pane ELSE @[Old(q)]],
          !.split = [q \in {Down(r) : r \in DOMAIN @} \cup {at} |-> IF q = at THEN split ELSE @[Old(q)]],
          !.pty = [x \in DOMAIN @ \cup {pane} |-> IF x = pane THEN size ELSE @[x]]]

(***************************************************************************)
(* Sizes.                                                                  *)
(***************************************************************************)

Whole(split) ==
    [split.part[1] EXCEPT ![split.axis] = split.part[1][split.axis] + split.part[2][split.axis] + 1]

\* Mutant: the line between the halves is not counted.
FitWithoutLine(t, p, room) ==
    LET split == t.split[p]
        kept == split.part[1][split.axis]
    IN  [t EXCEPT !.split[p].part =
            <<[room EXCEPT ![split.axis] = kept],
              [room EXCEPT ![split.axis] = Monus(room[split.axis], kept)]>>]

\* apply_pane_size: the first half keeps its extent, the second takes the rest.
Fit(t, p, room) ==
    LET split == t.split[p]
        kept == split.part[1][split.axis]
    IN  [t EXCEPT !.split[p].part =
            <<[room EXCEPT ![split.axis] = kept],
              [room EXCEPT ![split.axis] = Monus(room[split.axis], 1 + kept)]>>]

\* apply_sizes_from_splits: every pane's pty is given the room of its leaf.
SizesApplied(t) ==
    [t EXCEPT !.pty = [x \in DOMAIN @ |-> Room(t, PathOf(t, x))]]

\* compute_min_size along one axis.  A tree is lower than it has leaves.
MinExtent(t, p, axis) ==
    LET least[h \in 0..LeafCount(t)] ==
            [q \in DOMAIN t.leaf \cup DOMAIN t.split |->
                IF h = 0 \/ q \notin DOMAIN t.split THEN 1
                ELSE LET left == least[h - 1][Append(q, 1)]
                         right == least[h - 1][Append(q, 2)]
                     IN  IF t.split[q].axis = axis THEN left + right + 1 ELSE AtLeast(left, right)]
    IN  least[LeafCount(t)][p]

\* The loop of adjust_x_size and adjust_y_size for n cells along the axis of a
\* split: grow by turns; shrink by turns whatever half is longer than one cell.
Shares(extent, n) ==
    LET half == (AtLeast(n, -n) + 1) \div 2
        most == Monus(extent[1], 1)
        less == AtLeast(-n - Monus(extent[2], 1), IF half > most THEN most ELSE half)
    IN  IF n > 0 THEN <<half, n - half>> ELSE <<-less, n + less>>

\* When neither half is, the loop makes no progress and never ends.
Loops(extent, n) == n < 0 /\ -n > Monus(extent[1], 1) + Monus(extent[2], 1)

\* One call for the split at p: the extents of its halves, and the calls it
\* makes for each half, one for all or, along the axis, one for every cell.
CalledAcross(u, new) ==
    LET more == new - u.extent[1]
    IN  IF more = 0 THEN u
        ELSE [u EXCEPT !.extent = <<new, new>>,
                       !.calls = <<Append(u.calls[1], more), Append(u.calls[2], more)>>]
CalledAlong(u, share) ==
    LET Cells(m) == [k \in 1..AtLeast(m, -m) |-> IF m > 0 THEN 1 ELSE -1]
    IN  [u EXCEPT !.extent = <<u.extent[1] + share[1], u.extent[2] + share[2]>>,
                  !.calls = <<u.calls[1] \o Cells(share[1]), u.calls[2] \o Cells(share[2])>>]
Called(t, p, axis, u, n) ==
    IF t.split[p].axis # axis THEN CalledAcross(u, AtLeast(u.extent[1] + n, MinExtent(t, p, axis)))
    ELSE IF Loops(u.extent, n) THEN [u EXCEPT !.loops = TRUE]
    ELSE CalledAlong(u, Shares(u.extent, n))

\* The calls for one split, one after the other.
AllCalled(t, p, axis, calls) ==
    LET part == t.split[p].part
        called[i \in 0..Len(calls)] ==
            IF i = 0 THEN [extent |-> <<part[1][axis], part[2][axis]>>, calls |-> <<<<>>, <<>>>>, loops |-> FALSE]
            ELSE Called(t, p, axis, called[i - 1], calls[i])
    IN  called[Len(calls)]

\* The calls that reach the position p when the root is called for n cells.
CallsFor(t, p, axis, n) ==
    LET down[i \in 0..Len(p)] ==
            IF i = 0 THEN <<n>>
            ELSE AllCalled(t, SubSeq(p, 1, i - 1), axis, down[i - 1]).calls[p[i]]
    IN  down[Len(p)]

\* adjust_x_size and adjust_y_size.  A call changes the split it is for and
\* calls for the halves, so what becomes of a split (`after') depends on its
\* calls alone.
Adopted(t, axis, after) ==
    IF \E p \in DOMAIN t.split : after[p].loops THEN [t EXCEPT !.fault = "loops"]
    ELSE [t EXCEPT !.split = [p \in DOMAIN t.split |->
             LET extent == after[p].extent
             IN  [t.split[p] EXCEPT !.part[1][axis] = extent[1], !.part[2][axis] = extent[2]]]]
Adjusted(t, axis, n) ==
    IF n = 0 THEN t
    ELSE Adopted(t, axis, [p \in DOMAIN t.split |-> AllCalled(t, p, axis, CallsFor(t, p, axis, n))])

Resized(t, size) ==
    IF t.zoomed # NoPane THEN [t EXCEPT !.size = size, !.pty[t.zoomed] = size]
    ELSE LET cols == AtLeast(size.cols, MinExtent(t, <<>>, "cols"))
             rows == AtLeast(size.rows, MinExtent(t, <<>>, "rows"))
             wide == Adjusted(t, "cols", cols - t.size.cols)
             both == Adjusted(wide, "rows", rows - t.size.rows)
         IN  IF both.fault # "none" THEN [t EXCEPT !.fault = "loops"]
             ELSE SizesApplied([both EXCEPT !.size = [cols |-> cols, rows |-> rows]])

(***************************************************************************)
(* Zoom.                                                                   *)
(***************************************************************************)

Unzoomed(t) ==
    IF t.zoomed = NoPane THEN t
    ELSE Resized([t EXCEPT !.zoomed = NoPane, !.size = t.before, !.before = InitialSize], t.size)

Zoomed(t) ==
    IF ~HasIndex(t, t.active) THEN [t EXCEPT !.before = t.size]
    ELSE [t EXCEPT !.before = t.size, !.zoomed = PaneAt(t, t.active), !.pty[PaneAt(t, t.active)] = t.size]

(***************************************************************************)
(* Removal: one preorder walk that unsplits each doomed leaf it meets.     *)
(***************************************************************************)

\* The tree without the leaf at p, which is not the root: the tab is no longer
\* zoomed on its pane, and what took the place of the split gets its size.
Unsplit(t, p) ==
    LET up == Front(p)
        lifted == [Lifted(t, p) EXCEPT !.zoomed = IF @ = t.leaf[p] THEN NoPane ELSE @,
                                       !.before = IF t.zoomed = t.leaf[p] THEN InitialSize ELSE @]
        whole == Whole(t.split[up])
    IN  IF up \in DOMAIN lifted.leaf THEN [lifted EXCEPT !.pty[lifted.leaf[up]] = whole]
        ELSE Fit(lifted, up, whole)

Emptied(t) == [t EXCEPT !.leaf = [q \in {} |-> NoPane], !.pty = [x \in {} |-> t.size], !.zoomed = NoPane]

\* One position of the walk: the cursor `at', the index of the next leaf and the
\* indices of the removed ones.  After a removal it goes on from the position
\* that was lifted, and through the leaves below it, counted before or not.
WalkStep(walk, doomed) ==
    LET t == walk.tree
        p == walk.at
        Onward(u, q) == [walk EXCEPT !.tree = u, !.at = PreorderNext(u, q)]
        Leaf(w) == [w EXCEPT !.index = @ + 1]
        Removal(w) == [w EXCEPT !.removed = @ \cup {walk.index}]
    IN  IF p = Done THEN walk
        ELSE IF p \in DOMAIN t.split
        THEN Onward(IF walk.removed = {} THEN t ELSE Fit(t, p, Room(t, p)), p)
        ELSE IF t.leaf[p] \notin doomed
        THEN Leaf(Onward(IF walk.removed = {} THEN t ELSE [t EXCEPT !.pty[t.leaf[p]] = Room(t, p)], p))
        ELSE IF p = <<>>
        THEN Removal([walk EXCEPT !.tree = Emptied(t), !.at = Done])
        ELSE Leaf(Removal(Onward(Unsplit(t, p), Front(p))))

\* Before and after every removal the walk visits a position at most once.
Walk(t, doomed) ==
    LET n == 2 * LeafCount(t) * (Cardinality({p \in DOMAIN t.leaf : t.leaf[p] \in doomed}) + 1)
        walk[i \in 0..n] ==
            IF i = 0 THEN [tree |-> t, at |-> <<>>, index |-> 0, removed |-> {}]
            ELSE WalkStep(walk[i - 1], doomed)
    IN  walk[n]

\* Mutants: the active index stays; only indices below it count; the tab
\* stays zoomed on the pane it lost.
WithoutShift(t, doomed) ==
    LET walked == Walk(t, doomed)
    IN  [walked.tree EXCEPT !.dead = @ \cap PanesOf(walked.tree)]
WithoutEqual(t, doomed) ==
    LET walked == Walk(t, doomed)
        before == {i \in walked.removed : i < t.active}
    IN  [walked.tree EXCEPT !.active = Monus(@, Cardinality(before)), !.dead = @ \cap PanesOf(walked.tree)]
WithoutUnzoom(t, doomed) ==
    LET walked == Walk(t, doomed)
        before == {i \in walked.removed : i <= t.active}
    IN  [walked.tree EXCEPT !.active = Monus(@, Cardinality(before)), !.dead = @ \cap PanesOf(walked.tree),
                            !.zoomed = t.zoomed]

\* remove_pane_if: the active index moves down by the removed indices up to it.
Without(t, doomed) ==
    LET walked == Walk(t, doomed)
        before == {i \in walked.removed : i <= t.active}
    IN  [walked.tree EXCEPT !.active = Monus(@, Cardinality(before)), !.dead = @ \cap PanesOf(walked.tree)]

(***************************************************************************)
(* Splitting.  The domain reads the index of the pane to split and the     *)
(* size of the new one before it spawns the program; the program may take  *)
(* its time, and the split is made afterwards, at that index.              *)
(***************************************************************************)

\* compute_split_size: half of what there is, at least one cell.
SplitSize(room, axis, second) ==
    LET target == AtLeast(room[axis] \div 2, 1)
        remain == Monus(room[axis], target + 1)
        Part(n) == [room EXCEPT ![axis] = n]
    IN  [axis |-> axis, part |-> IF second THEN <<Part(remain), Part(target)>>
                                 ELSE <<Part(target), Part(remain)>>]

HasRoom(t, split) ==
    /\ \A s \in {1, 2} : split.part[s].cols > 0 /\ split.part[s].rows > 0
    /\ split.part[1][split.axis] + 1 + split.part[2][split.axis] <= t.size[split.axis]
    /\ split.part[2][Across(split.axis)] <= t.size[Across(split.axis)]

\* split_and_insert, with its early returns: zoomed, no such index, no room.
SplitAndInserted(t, i, axis, second, top, pane, size) ==
    LET old == IF second THEN 1 ELSE 2
        split == SplitSize(IF top THEN t.size ELSE Room(t, LeafAt(t, i)), axis, second)
        shrunk == Resized(t, split.part[old])
        at == LeafAt(t, i)
        rooted == [Inserted(shrunk, <<>>, old, pane, split, size) EXCEPT
                     !.active = IF second THEN LeafCount(t) ELSE 0]
        halved == [Inserted(t, at, old, pane, split, split.part[3 - old]) EXCEPT
                     !.pty[t.leaf[at]] = split.part[old],
                     !.active = IF second THEN i + 1 ELSE @]
    IN  IF t.zoomed # NoPane THEN t
        ELSE IF ~top /\ ~HasIndex(t, i) THEN t
        ELSE IF ~HasRoom(t, split) THEN t
        ELSE IF top /\ LeafCount(t) > 1
        THEN IF shrunk.fault # "none" THEN shrunk ELSE rooted
        ELSE IF ~HasIndex(t, i) THEN t
        ELSE halved

(***************************************************************************)
(* The operations.                                                         *)
(***************************************************************************)

NoRequest == [index |-> 0, axis |-> "cols", second |-> FALSE, top |-> FALSE, size |-> InitialSize]

Init ==
    \E pane \in Panes :
        tab = [leaf |-> [p \in {<<>>} |-> pane], split |-> [p \in {} |-> NoPane], active |-> 0, zoomed |-> NoPane,
               size |-> InitialSize, before |-> InitialSize, pty |-> [x \in {pane} |-> InitialSize],
               dead |-> {}, asked |-> NoRequest, fault |-> "none"]

Usable(op) == op \in Ops /\ tab.fault = "none" /\ DOMAIN tab.leaf # {}

\* domain.split_pane up to the spawn: a pane split other than at the top
\* level is unzoomed first.
AskSplit(pane, axis, second, top) ==
    LET t == IF top THEN tab ELSE Unzoomed(tab)
        i == IndexOf(tab, pane)
    IN  /\ Usable(IF top THEN "top" ELSE "split")
        /\ tab.asked = NoRequest
        /\ PanesOf(tab) # Panes
        /\ tab' = [t EXCEPT !.asked = [index |-> i, axis |-> axis, second |-> second, top |-> top,
                                       size |-> IF top THEN SplitSize(t.size, axis, second).part[2] ELSE @.size]]

\* The program of the new pane has started.
FinishSplit(new) ==
    LET r == tab.asked
    IN  /\ tab.fault = "none" /\ DOMAIN tab.leaf # {}
        /\ r # NoRequest
        /\ new \notin PanesOf(tab)
        /\ tab' = [SplitAndInserted(tab, r.index, r.axis, r.second, r.top, new, r.size) EXCEPT
                     !.asked = NoRequest]

\* Mutant: the pane is put at its new place before it leaves the old one.
MovePaneCopied(pane, target, axis, second) ==
    LET t == Unzoomed(tab)
    IN  /\ Usable("move")
        /\ tab' = IF t.fault # "none" THEN t
                  ELSE SplitAndInserted(t, IndexOf(t, target), axis, second, FALSE, pane, t.pty[pane])

\* domain.split_pane with a pane of this tab to move: the index of the pane
\* to split is read, then the moved pane leaves the tree, then the split is
\* made at that index.  When it cannot be made the pane is in no tab; when
\* the pane is not found there is no split.
Moved(t, left, pane, target, axis, second) ==
    LET placed == IF pane \in PanesOf(left) THEN left
                  ELSE SplitAndInserted(left, IndexOf(t, target), axis, second, FALSE, pane, t.pty[pane])
    IN  IF t.fault # "none" THEN t ELSE [placed EXCEPT !.dead = t.dead \cap PanesOf(placed)]

MovePane(pane, target, axis, second) ==
    LET t == Unzoomed(tab)
    IN  /\ Usable("move")
        /\ tab' = Moved(t, Without(t, {pane}), pane, target, axis, second)

\* set_active_idx, for an index of iter_panes: a zoomed tab has only index 0.
ActivateIndex(i) ==
    /\ Usable("focus")
    /\ HasIndex(tab, i)
    /\ tab.zoomed # NoPane => i = 0
    /\ tab' = [tab EXCEPT !.active = i]

\* activate_pane_direction, with unzoom_on_switch_pane (the default); which
\* pane lies in that direction is left open.
ActivateDirection(i) ==
    LET t == Unzoomed(tab)
    IN  /\ Usable("focus")
        /\ HasIndex(tab, i)
        /\ tab' = IF t.fault # "none" THEN t ELSE [t EXCEPT !.active = i]

\* set_active_pane (focus_pane_and_containing_tab, wezterm cli, Lua).
ActivatePane(pane) ==
    /\ Usable("focus")
    /\ tab' = [tab EXCEPT !.active = IndexOf(tab, pane)]

ToggleZoom ==
    /\ Usable("zoom")
    /\ tab' = IF tab.zoomed # NoPane THEN Unzoomed(tab) ELSE Zoomed(tab)

ResizeTab(size) ==
    /\ Usable("resize")
    /\ tab' = Resized(tab, size)

\* cascade_size_from_cursor: every later position of the preorder walk is fitted
\* into its room.
Cascaded(t, from) ==
    LET n == 2 * LeafCount(t)
        Given(u, p) == IF p \in DOMAIN u.split THEN Fit(u, p, Room(u, p))
                       ELSE [u EXCEPT !.pty[u.leaf[p]] = Room(u, p)]
        walk[i \in 0..n] ==
            IF i = 0 THEN [tree |-> t, at |-> PreorderNext(t, from)]
            ELSE LET w == walk[i - 1]
                 IN  IF w.at = Done THEN w
                     ELSE [tree |-> Given(w.tree, w.at), at |-> PreorderNext(w.tree, w.at)]
    IN  walk[n].tree

\* adjust_node_at_cursor: in a split one cell wide the upper limit of the
\* first half is -1, and the cast to usize wraps around.
SplitMoved(t, p, delta) ==
    LET split == t.split[p]
        axis == split.axis
        whole == Whole(split)[axis]
        wanted == AtLeast(split.part[1][axis] + delta, 1)
        first == IF wanted > whole - 2 THEN whole - 2 ELSE wanted
        moved == [t EXCEPT !.split[p].part[1][axis] = first,
                           !.split[p].part[2][axis] = Monus(whole, first + 1)]
    IN  IF first < 0 THEN [t EXCEPT !.fault = "wraps"]
        ELSE Cascaded(moved, p)

\* resize_split_by and adjust_pane_size: a split is dragged.
DragSplit(p, delta) ==
    /\ Usable("drag")
    /\ tab.zoomed = NoPane
    /\ p \in DOMAIN tab.split
    /\ tab' = SplitMoved(tab, p, delta)

\* rotate_clockwise and rotate_counter_clockwise.
RotatePanes(clockwise) ==
    LET n == LeafCount(tab)
        From(p) == LeafAt(tab, (LeafIndex(tab, p) + (IF clockwise THEN n - 1 ELSE 1)) % n)
    IN  /\ Usable("rotate")
        /\ n > 1
        /\ tab' = SizesApplied([tab EXCEPT !.leaf = [p \in DOMAIN @ |-> @[From(p)]]])

\* swap_active_with_index, from the pane selector, which unzooms the tab when
\* it opens.
SwapActive(i, keep_focus) ==
    LET active == PaneAt(tab, tab.active)
        there == PaneAt(tab, i)
    IN  /\ Usable("swap")
        /\ tab.zoomed = NoPane
        /\ HasIndex(tab, i)
        /\ HasIndex(tab, tab.active)
        /\ tab' = [SizesApplied([tab EXCEPT !.leaf = [@ EXCEPT ![LeafAt(tab, i)] = active,
                                                              ![LeafAt(tab, tab.active)] =
                                                                 IF i = tab.active THEN active ELSE there]])
                     EXCEPT !.active = IF keep_focus THEN i ELSE @]

\* A program ends.  The tab is not told; prune_dead_panes finds out.
Die(pane) ==
    /\ "die" \in Ops /\ tab.fault = "none"
    /\ pane \in PanesOf(tab) \ tab.dead
    /\ Cardinality(tab.dead) < Deaths
    /\ tab' = [tab EXCEPT !.dead = @ \cup {pane}]

PruneDeadPanes ==
    /\ Usable("die")
    /\ tab.dead # {}
    /\ tab' = Without(tab, tab.dead)

\* kill_pane, and remove_pane for a pane that moves to another tab.
RemovePane(pane) ==
    /\ Usable("remove")
    /\ tab' = Without(tab, {pane})

Step ==
    \/ \E pane \in PanesOf(tab), axis \in Axes, second, top \in BOOLEAN : AskSplit(pane, axis, second, top)
    \/ \E new \in Panes : FinishSplit(new)
    \/ \E pane, target \in PanesOf(tab), axis \in Axes, second \in BOOLEAN : MovePane(pane, target, axis, second)
    \/ \E i \in 0..(Cardinality(Panes) - 1) : ActivateIndex(i)
    \/ \E i \in 0..(Cardinality(Panes) - 1) : ActivateDirection(i)
    \/ \E pane \in PanesOf(tab) : ActivatePane(pane)
    \/ ToggleZoom
    \/ \E size \in WindowSizes : ResizeTab(size)
    \/ \E p \in DOMAIN tab.split, delta \in Deltas : DragSplit(p, delta)
    \/ \E clockwise \in BOOLEAN : RotatePanes(clockwise)
    \/ \E i \in 0..(Cardinality(Panes) - 1), keep_focus \in BOOLEAN : SwapActive(i, keep_focus)
    \/ \E pane \in Panes : Die(pane)
    \/ PruneDeadPanes
    \/ \E pane \in PanesOf(tab) : RemovePane(pane)

\* The bound: splits no wider or higher than MaxExtent.
WithinBounds ==
    \A split \in {tab.split[p] : p \in DOMAIN tab.split} :
        \A whole \in {Whole(split)} : whole.cols <= MaxExtent /\ whole.rows <= MaxExtent

Next == Step /\ WithinBounds'

Spec == Init /\ [][Next]_vars

(***************************************************************************)
(* What a tab promises.                                                    *)
(***************************************************************************)

\* The tree is proper (every position but the root has a split above it,
\* every split both halves), no pane is at two leaves, and exactly the panes
\* of the tree have a size: what the zipper of bintree and its callers keep.
SplitTypeOK ==
    /\ \A p \in DOMAIN tab.leaf \cup DOMAIN tab.split : p # <<>> => Front(p) \in DOMAIN tab.split
    /\ \A p \in DOMAIN tab.split, s \in {1, 2} : Append(p, s) \in DOMAIN tab.leaf \cup DOMAIN tab.split
    /\ DOMAIN tab.leaf \cap DOMAIN tab.split = {}
    /\ DOMAIN tab.pty = PanesOf(tab)
    /\ Cardinality(PanesOf(tab)) = LeafCount(tab)
    /\ \A p \in DOMAIN tab.split, s \in {1, 2}, axis \in Axes : tab.split[p].part[s][axis] \in Nat

\* The active index is the index of a pane whatever was closed, moved or
\* split: get_active_pane finds one, and keys have somewhere to go.
ActiveInRange == DOMAIN tab.leaf # {} => HasIndex(tab, tab.active)

\* A zoomed tab shows a pane it holds: closing, moving and rotating never
\* leave `zoomed' on a pane that has gone.
ZoomedHeld == tab.zoomed # NoPane => tab.zoomed \in PanesOf(tab)

ActivePane(t) == IF HasIndex(t, t.active) THEN PaneAt(t, t.active) ELSE NoPane

\* When panes leave the tab and the active one is not among them, it stays
\* the active one, although its index may change (remove_pane_if; "If panes
\* earlier than the active pane were closed, then we need to shift the active
\* pane down").
ActivePaneKept ==
    [][/\ PanesOf(tab') \subseteq PanesOf(tab)
       /\ PanesOf(tab') # PanesOf(tab)
       /\ ActivePane(tab) \in PanesOf(tab')
       => ActivePane(tab') = ActivePane(tab)]_vars

\* The halves of every split fill the room of the split, line included.
Tiled(t) ==
    \A p \in DOMAIN t.split :
        LET split == t.split[p]
            room == IF p = <<>> /\ t.zoomed # NoPane THEN t.before ELSE Room(t, p)
        IN  /\ Whole(split) = room
            /\ split.part[2][Across(split.axis)] = room[Across(split.axis)]

\* Every pane but the zoomed one has been given the room of its leaf.
Follows(t) == \A p \in DOMAIN t.leaf : t.leaf[p] # t.zoomed => t.pty[t.leaf[p]] = Room(t, p)

Laid(t) == t.fault # "none" \/ (Tiled(t) /\ Follows(t))

\* The steps that do spoil a layout: the zoomed pane goes after the tab was
\* resized under it, a split is dragged onto a split inside it, and a split
\* at the top level leaves the tab the size it shrank the old panes to.
ZoomedGone == tab.zoomed # NoPane /\ tab.zoomed \notin PanesOf(tab') /\ tab.before # tab.size
Squeezes ==
    \E p \in DOMAIN tab.split, delta \in Deltas :
        DragSplit(p, delta) /\ \E s \in {1, 2} : Append(p, s) \in DOMAIN tab.split

\* Every other step leaves a tab whose panes tile it and whose programs know
\* the size of their pane: splits, removals, swaps, rotations, resizes, zoom
\* on and off, in any order (resize, apply_pane_size, apply_sizes_from_splits,
\* cascade_size_from_cursor).
LayoutKept == [][Laid(tab) => Laid(tab') \/ ZoomedGone \/ Squeezes \/ tab.asked.top]_vars

\* A resize ends ("the delta between the current and the new size is computed,
\* and is distributed between the splits", Tab::resize): the loops of
\* adjust_x_size and adjust_y_size always use it up.
ResizeEnds == tab.fault # "loops"
=============================================================================
