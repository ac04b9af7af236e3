---------------------------------- MODULE Mux ----------------------------------
(***************************************************************************)
(* The registry of the mux: windows hold tabs, tabs hold panes, and the    *)
(* Mux holds all three in tables of their own.  User actions, spawns that  *)
(* wait for a domain, processes that exit and tasks queued for the main    *)
(* thread change them in any order; each of them is one callback of the    *)
(* main thread and one action.  The tree of splits inside a tab is         *)
(* modelled in SplitTree: here a tab is the set of its panes.              *)
(***************************************************************************)
EXTENDS Naturals, FiniteSets, SequencesExt

CONSTANTS
    PaneIds, TabIds, WindowIds,
    NoTab,
    MaxSpawns,      \* bound: spawns under way at one time
    SwitchToLast    \* switch_to_last_active_tab_when_closing_tab

ASSUME MuxIdAssumption ==
    /\ NoTab \notin TabIds
    /\ IsFiniteSet(PaneIds) /\ IsFiniteSet(TabIds) /\ IsFiniteSet(WindowIds)
ASSUME MuxSwitchAssumption == MaxSpawns \in Nat /\ SwitchToLast \in BOOLEAN

VARIABLES
    mux,          \* the record MuxState, all that a callback passes on
    spawns        \* spawn_tab_or_window and split_pane waiting for a domain

muxVars == <<mux, spawns>>

Window == [tabs : Seq(TabIds), active : Nat \ {0}, last_active : TabIds \cup {NoTab}]

\* The windows are a function from the WindowIds in use to Window.
MuxState ==
    [tabs : SUBSET TabIds,                  \* Mux::tabs
     panes : SUBSET PaneIds,                \* Mux::panes
     dead : SUBSET PaneIds,                 \* Pane::is_dead says yes
     tree : [TabIds -> SUBSET PaneIds],     \* the panes in the tree of a tab
     windows : {<<>>},                      \* Mux::windows, see MuxTypeOK
     vacant : BOOLEAN,                      \* num_panes_by_workspace is 0, for the
                                            \* one workspace there is
     removals : SUBSET PaneIds,             \* queued tasks: remove_pane of these
     stranded : SUBSET PaneIds,             \* history: their spawn or move failed
                                            \* half way
     prune_due : BOOLEAN,                   \* queued tasks: prune_dead_windows
     unannounced : BOOLEAN]                 \* history: the last pane has gone
                                            \* and no notice of it was sent

\* A spawn holds the id of its window, or of the tab to split.  The builder of
\* a new window holds an Activity until the spawn has ended.
Spawn == [kind : {"window", "tab", "split"}, home : TabIds \cup WindowIds]

-------------------------------------------------------------------------------
\* Reading.

TabsOf(m) == UNION {ToSet(m.windows[w].tabs) : w \in DOMAIN m.windows}
PlacedPanes(m) == UNION {m.tree[t] : t \in TabsOf(m)}

\* resolve_pane_id finds these: a registered tab in a window.
ReachablePanes(m) == UNION {m.tree[t] : t \in m.tabs \cap TabsOf(m)}
HomeOf(m, p) == CHOOSE t \in m.tabs \cap TabsOf(m) : p \in m.tree[t]

\* The code counts ids up and never uses one again.  The model uses an id again
\* when nothing refers to it any more.
FreePanes == PaneIds \ (mux.panes \cup mux.removals \cup UNION {mux.tree[t] : t \in TabIds})
FreeTabs == TabIds \ (mux.tabs \cup TabsOf(mux) \cup
                {op.home : op \in {s \in spawns : s.kind = "split"}})
FreeWindows == WindowIds \ (DOMAIN mux.windows \cup
                {op.home : op \in {s \in spawns : s.kind # "split"}})

\* What nothing reads any more: the end of a pane that is known nowhere, a last
\* active tab that has left its window, the history of a pane removed since.
Tidy(m) ==
    [m EXCEPT
        !.dead = @ \cap (m.panes \cup PlacedPanes(m)),
        !.stranded = (@ \cap m.panes) \ (m.removals \cup PlacedPanes(m)),
        !.windows = [w \in DOMAIN @ |->
            IF @[w].last_active \in ToSet(@[w].tabs) THEN @[w]
            ELSE [@[w] EXCEPT !.last_active = NoTab]]]

\* recompute_pane_count.  Only whether the number is 0 is ever asked.
Recounted(m) == [m EXCEPT !.vacant = PlacedPanes(m) = {}]

Activities == Cardinality({op \in spawns : op.kind = "window"})

ActiveTab(w) ==
    IF w.active \in 1..Len(w.tabs) THEN w.tabs[w.active] ELSE NoTab

TabIsDead(m, t) == m.tree[t] \subseteq m.dead

-------------------------------------------------------------------------------
\* Window.

\* idx_by_id, of a tab that is in the window.  No tab is in it twice.
Position(tabs, t) == CHOOSE i \in 1..Len(tabs) : tabs[i] = t

EmptyWindow == [tabs |-> <<>>, active |-> 1, last_active |-> NoTab]

\* save_and_then_set_active.  (Without SwitchToLast the last active tab is only a
\* target for ActivateTab, and not kept.)
Activated(w, i) ==
    IF i = w.active THEN w
    ELSE [w EXCEPT !.active = i,
                   !.last_active = IF SwitchToLast THEN ActiveTab(w) ELSE NoTab]

\* Mutant of WithoutTab: the active position is only kept in range.
WithoutTabClamped(w, t) ==
    LET rest == RemoveAt(w.tabs, Position(w.tabs, t))
    IN  IF t \notin ToSet(w.tabs) THEN w
        ELSE [w EXCEPT !.tabs = rest,
                       !.active = IF rest # <<>> /\ @ > Len(rest)
                                  THEN Len(rest) ELSE @]

\* Mutant of WithoutTab: the position is not kept in range.
WithoutTabUnclamped(w, t) ==
    LET rest == RemoveAt(w.tabs, Position(w.tabs, t))
    IN  IF t \notin ToSet(w.tabs) THEN w
        ELSE [w EXCEPT !.tabs = rest,
                       !.active = IF ActiveTab(w) \in ToSet(rest)
                                  THEN Position(rest, ActiveTab(w)) ELSE @]

\* Mutant of WithoutTab: the tab on the left follows the active one, the first
\* one too.
WithoutTabLeft(w, t) ==
    LET rest == RemoveAt(w.tabs, Position(w.tabs, t))
    IN  IF t \notin ToSet(w.tabs) THEN w
        ELSE [w EXCEPT !.tabs = rest,
                       !.active = IF ActiveTab(w) \in ToSet(rest)
                                  THEN Position(rest, ActiveTab(w)) ELSE @ - 1]

\* remove_by_id, do_remove_idx and fixup_active_tab_after_removal: the active
\* tab stays active; when it is the one removed, its position does, or that of
\* the last active tab as it was before the removal.
WithoutTab(w, t) ==
    LET rest == RemoveAt(w.tabs, Position(w.tabs, t))
        position ==
            IF /\ ActiveTab(w) = t /\ SwitchToLast
               /\ w.last_active \in ToSet(w.tabs)
            THEN Position(w.tabs, w.last_active) ELSE w.active
        active ==
            IF ActiveTab(w) \in ToSet(rest)
            THEN Position(rest, ActiveTab(w))
            ELSE IF rest # <<>> /\ position > Len(rest) THEN Len(rest)
            ELSE position
    IN  IF t \notin ToSet(w.tabs) THEN w
        ELSE [w EXCEPT !.tabs = rest, !.active = active]

\* Repeated for some of its tabs, one after the other.
WithoutTabs(w, gone) ==
    LET left[i \in 0..Len(w.tabs)] ==
            IF i = 0 THEN w
            ELSE IF w.tabs[i] \in gone THEN WithoutTab(left[i - 1], w.tabs[i])
            ELSE left[i - 1]
    IN  left[Len(w.tabs)]

-------------------------------------------------------------------------------
\* Removal.  Each of these is one call; mux is passed on as the record m.

\* remove_pane_internal, of several panes.  It kills their processes, which then
\* end some time: see ProcessExits.
RemovePanes(m, ps) ==
    IF ps \cap m.panes = {} THEN m
    ELSE Recounted([m EXCEPT
            !.panes = @ \ ps,
            !.unannounced = @ \/ m.panes \subseteq ps])

\* The tree of a tab that has left the mux is not kept: a split under way may
\* still insert a pane into it, which nobody will see.
RemoveTabInternal(m, t) ==
    IF t \notin m.tabs THEN m
    ELSE Recounted(RemovePanes(
            [m EXCEPT !.tabs = @ \ {t}, !.tree[t] = {},
                      !.windows = [w \in DOMAIN @ |-> WithoutTab(@[w], t)]],
            m.tree[t]))

\* Repeated for several tabs, one after the other.
RemoveTabs(m, tabs) ==
    LET left[i \in 0..Len(tabs)] ==
            IF i = 0 THEN m ELSE RemoveTabInternal(left[i - 1], tabs[i])
    IN  left[Len(tabs)]

RemoveWindowInternal(m, w) ==
    IF w \notin DOMAIN m.windows THEN Recounted(m)
    ELSE Recounted(RemoveTabs(
            [m EXCEPT !.windows = [v \in DOMAIN @ \ {w} |-> @[v]]],
            m.windows[w].tabs))

\* Repeated for several windows.
RemoveWindows(m, windows) ==
    LET left[i \in 0..Len(windows)] ==
            IF i = 0 THEN m ELSE RemoveWindowInternal(left[i - 1], windows[i])
    IN  left[Len(windows)]

\* prune_dead_panes of every tab in a window: a pane is pruned when it is dead
\* or unknown to the mux.
Prunable(m, t) ==
    {p \in m.tree[t] : p \notin m.panes \/ p \in m.dead}

\* Mutant of PrunePanes: no task is queued to remove the panes from the mux.
PrunePanesSilently(m, skipped) ==
    LET pruned == [t \in TabIds |-> IF t \in TabsOf(m)
                                    THEN Prunable(m, t) \ skipped ELSE {}]
    IN  [m EXCEPT !.tree = [t \in TabIds |-> @[t] \ pruned[t]]]

\* The walk over the tree passes over some of them when it removes several, but
\* never over all (see SplitTree).
PrunePanes(m, skipped) ==
    LET pruned == [t \in TabIds |-> IF t \in TabsOf(m)
                                    THEN Prunable(m, t) \ skipped ELSE {}]
    IN  [m EXCEPT !.tree = [t \in TabIds |-> @[t] \ pruned[t]],
                  !.removals = @ \cup UNION {pruned[t] : t \in TabIds}]

\* The rest of Window::prune_dead_tabs: first the dead tabs of the window leave
\* it, then those that are not registered.
PruneTabs(m) ==
    [m EXCEPT !.windows = [w \in DOMAIN @ |->
        WithoutTabs(WithoutTabs(@[w], {t \in TabIds : TabIsDead(m, t)}),
                    TabIds \ m.tabs)]]

\* Mutant of Announce: the empty mux is announced only when a window has gone.
AnnounceWithWindow(m, gone) ==
    IF m.panes = {} /\ gone # {} THEN [m EXCEPT !.unannounced = FALSE] ELSE m

Announce(m, gone) ==
    IF m.panes = {} THEN [m EXCEPT !.unannounced = FALSE] ELSE m

\* prune_dead_windows, when nothing holds it back
PruneNow(m, skipped) ==
    LET pruned == PruneTabs(PrunePanes(m, skipped))
        dead_windows == {w \in DOMAIN pruned.windows : pruned.windows[w].tabs = <<>>}
        dead_tabs == {t \in pruned.tabs : TabIsDead(pruned, t)}
    IN  Announce(RemoveWindows(RemoveTabs(pruned, SetToSeq(dead_tabs)),
                               SetToSeq(dead_windows)), dead_windows)

\* Mutant of PruneDeadWindows: the count of activities is not looked at.
PruneInActivity(m, skipped, activities) == PruneNow(m, skipped)

PruneDeadWindows(m, skipped, activities) ==
    IF activities > 0 THEN m ELSE PruneNow(m, skipped)

\* What one walk may pass over
Skips(m) ==
    {s \in SUBSET UNION {Prunable(m, t) : t \in TabsOf(m)} :
        \A t \in TabsOf(m) : Prunable(m, t) \subseteq s => Prunable(m, t) = {}}

\* The action that ends with a call of prune_dead_windows
ThenPrune(m) ==
    \E skipped \in Skips(m) : mux' = Tidy(PruneDeadWindows(m, skipped, Activities))

-------------------------------------------------------------------------------
\* Adding.

\* add_pane
AddPane(m, p) ==
    IF p \in m.panes THEN m
    ELSE Recounted([m EXCEPT !.panes = @ \cup {p}, !.unannounced = FALSE])

\* Tab::new, assign_pane and add_tab_and_active_pane
AddTab(m, t, p) ==
    AddPane([m EXCEPT !.tabs = @ \cup {t}, !.tree[t] = {p}], p)

\* Mutant of AddTabToWindow: the panes are not counted again.
AddTabUncounted(m, t, w) ==
    IF w \notin DOMAIN m.windows THEN m
    ELSE [m EXCEPT !.windows[w].tabs = Append(@, t)]

\* add_tab_to_window
AddTabToWindow(m, t, w) ==
    IF w \notin DOMAIN m.windows THEN m
    ELSE Recounted([m EXCEPT !.windows[w].tabs = Append(@, t)])

\* new_empty_window
AddWindow(m, w) ==
    [m EXCEPT !.windows = [v \in DOMAIN @ \cup {w} |->
                              IF v = w THEN EmptyWindow ELSE @[v]]]

\* A window whose active tab has an active pane: there a spawn or a move gets
\* its size from.
Sized(w) ==
    /\ w \in DOMAIN mux.windows
    /\ ActiveTab(mux.windows[w]) # NoTab
    /\ mux.tree[ActiveTab(mux.windows[w])] # {}

-------------------------------------------------------------------------------
\* Spawning.  The domain is asked in the middle of it, and anything may happen
\* before it answers.

StartSpawn(op) ==
    /\ Cardinality(spawns) < MaxSpawns
    /\ spawns' = spawns \cup {op}

SpawnWindow(w) ==
    /\ w \in FreeWindows
    /\ StartSpawn([kind |-> "window", home |-> w])
    /\ mux' = AddWindow(mux, w)

SpawnTab(w) ==
    /\ Sized(w)
    /\ StartSpawn([kind |-> "tab", home |-> w])
    /\ UNCHANGED mux

\* Mux::split_pane with a command, as far as its tab is found
SplitPane(t) ==
    /\ t \in mux.tabs \cap TabsOf(mux) /\ mux.tree[t] # {}
    /\ StartSpawn([kind |-> "split", home |-> t])
    /\ UNCHANGED mux

Stranded(m, p) == [m EXCEPT !.stranded = @ \cup {p}]

\* Mutant of Dropped: the Activity ends and nothing is queued.
DroppedQuietly(m, op) == m

\* The builder of the window is dropped, its Activity with it, and that queues
\* a prune.
Dropped(m, op) ==
    IF op.kind = "window" THEN [m EXCEPT !.prune_due = TRUE] ELSE m

\* The new tab is pushed to its window and activated; when the window has gone
\* meanwhile, the spawn fails and leaves the pane in a tab without a window.
FinishSpawn(op, p, t) ==
    LET w == op.home
        added == AddTabToWindow(AddTab(mux, t, p), t, w)
    IN  /\ op \in spawns /\ op.kind # "split"
        /\ p \in FreePanes /\ t \in FreeTabs
        /\ spawns' = spawns \ {op}
        /\ mux' = Dropped(IF w \in DOMAIN mux.windows
                          THEN [added EXCEPT !.windows[w] = Activated(@, Len(@.tabs))]
                          ELSE Stranded(added, p), op)

\* The pane is inserted at an index taken before the wait.  The tab may have
\* lost panes, been zoomed or unregistered since: the insertion fails, or takes
\* place in a tab that nobody will look at.
FinishSplit(op, p) ==
    LET t == op.home
    IN  /\ op \in spawns /\ op.kind = "split"
        /\ p \in FreePanes
        /\ spawns' = spawns \ {op}
        /\ \/ /\ mux.tree[t] # {}
              /\ mux' = [AddPane(mux, p) EXCEPT !.tree[t] = @ \cup {p}]
           \/ mux' = Stranded(AddPane(mux, p), p)

FailSpawn(op) ==
    /\ op \in spawns
    /\ spawns' = spawns \ {op}
    /\ mux' = Dropped(mux, op)

-------------------------------------------------------------------------------
\* Moving a pane.  Nothing is waited for: a local domain leaves it to the mux.

\* Mutant of TakenFrom: the pane stays where it was.
LeftIn(m, p, t) == m

\* The part of the source tab: its last live pane takes the tab with it.
TakenFrom(m, p, t) == [m EXCEPT !.tree[t] = @ \ {p}]

\* if src_tab.is_dead() { remove_tab }
AfterMove(m, t, skipped, activities) ==
    IF TabIsDead(m, t)
    THEN Tidy(PruneDeadWindows(RemoveTabInternal(m, t), skipped, activities))
    ELSE m

SkipsAfterMove(m, t) == IF TabIsDead(m, t) THEN Skips(RemoveTabInternal(m, t)) ELSE {{}}

\* move_pane_to_new_tab into a window that exists
MoveToTab(p, w, t) ==
    LET s == HomeOf(mux, p)
        moved == AddTabToWindow(AddTab(TakenFrom(mux, p, s), t, p), t, w)
    IN  /\ p \in ReachablePanes(mux) /\ t \in FreeTabs
        /\ w \in DOMAIN mux.windows /\ ActiveTab(mux.windows[w]) # NoTab
        /\ \E skipped \in SkipsAfterMove(moved, s) :
              mux' = AfterMove(moved, s, skipped, Activities)
        /\ UNCHANGED spawns

\* move_pane_to_new_tab into a new window, whose builder lives until the end
MoveToWindow(p, w, t) ==
    LET s == HomeOf(mux, p)
        taken == AddTab(TakenFrom(AddWindow(mux, w), p, s), t, p)
        moved == [AddTabToWindow(taken, t, w) EXCEPT !.prune_due = TRUE]
    IN  /\ p \in ReachablePanes(mux) /\ t \in FreeTabs /\ w \in FreeWindows
        /\ mux' = AfterMove(moved, s, {}, Activities + 1)
        /\ UNCHANGED spawns

\* Mux::split_pane with SplitSource::MovePane: the pane is taken from its tab
\* before split_and_insert may fail.
MoveIntoSplit(p, t) ==
    LET s == HomeOf(mux, p)
    IN  /\ p \in ReachablePanes(mux)
        /\ t \in mux.tabs \cap TabsOf(mux) /\ mux.tree[t] # {}
        /\ \E skipped \in SkipsAfterMove(TakenFrom(mux, p, s), s) :
            LET m == AfterMove(TakenFrom(mux, p, s), s, skipped, Activities)
            IN  \/ /\ m.tree[t] # {}
                   /\ mux' = [m EXCEPT !.tree[t] = @ \cup {p}]
                \/ mux' = Stranded(m, p)
        /\ UNCHANGED spawns

-------------------------------------------------------------------------------
\* Closing.

\* remove_pane, called by the user or by the task that the reader thread of a
\* pane with ExitBehavior::Close queues at the end of its output
ClosePane(p) ==
    /\ p \in mux.panes
    /\ ThenPrune(RemovePanes(mux, {p}))
    /\ UNCHANGED spawns

\* Tab::kill_pane, of the pane a confirmation was shown for
KillPaneInTab(t, p) ==
    /\ t \in mux.tabs /\ p \in mux.tree[t]
    /\ mux' = [TakenFrom(mux, p, t) EXCEPT !.removals = @ \cup {p}]
    /\ UNCHANGED spawns

\* remove_tab
CloseTab(t) ==
    /\ t \in mux.tabs
    /\ ThenPrune(RemoveTabInternal(mux, t))
    /\ UNCHANGED spawns

\* kill_window.  A window is shown, and can be closed, when its builder has been
\* dropped.
CloseWindow(w) ==
    /\ w \in DOMAIN mux.windows
    /\ [kind |-> "window", home |-> w] \notin spawns
    /\ ThenPrune(RemoveWindowInternal(mux, w))
    /\ UNCHANGED spawns

-------------------------------------------------------------------------------
\* Processes and tasks.

\* The process of a pane ends, by itself or because it was killed, and the
\* thread of split_child queues a prune.  A pane that its exit_behavior holds open
\* is not dead and, to the mux, as before; it is dead when it is killed then.
\* (The exit of a process whose pane is known nowhere any more does nothing.)
ProcessExits(p) ==
    /\ p \in (mux.panes \cup PlacedPanes(mux)) \ mux.dead
    /\ mux' = [mux EXCEPT !.dead = @ \cup {p}, !.prune_due = TRUE]
    /\ UNCHANGED spawns

RunPrune ==
    /\ mux.prune_due
    /\ ThenPrune([mux EXCEPT !.prune_due = FALSE])
    /\ UNCHANGED spawns

\* One pane of a queued task that calls remove_pane
RunRemoval(p) ==
    /\ p \in mux.removals
    /\ ThenPrune(RemovePanes([mux EXCEPT !.removals = @ \ {p}], {p}))
    /\ UNCHANGED spawns

-------------------------------------------------------------------------------
\* The tabs of a window.

ActivateTab(w, i) ==
    /\ w \in DOMAIN mux.windows /\ i \in 1..Len(mux.windows[w].tabs)
    /\ i # mux.windows[w].active
    /\ mux' = [mux EXCEPT !.windows[w] = Activated(@, i)]
    /\ UNCHANGED spawns

\* move_tab: the active tab is removed and inserted again.
MoveTab(w, i) ==
    LET v == mux.windows[w]
    IN  /\ w \in DOMAIN mux.windows
        /\ i \in 1..Len(v.tabs) /\ v.active \in 1..Len(v.tabs) /\ i # v.active
        /\ mux' = [mux EXCEPT !.windows[w].tabs =
                      InsertAt(RemoveAt(@, v.active), i, ActiveTab(v)),
                   !.windows[w].active = i]
            /\ UNCHANGED spawns

-------------------------------------------------------------------------------
Init ==
    /\ mux = [tabs |-> {}, panes |-> {}, dead |-> {}, tree |-> [t \in TabIds |-> {}],
              windows |-> <<>>, vacant |-> TRUE, removals |-> {}, stranded |-> {},
              prune_due |-> FALSE, unannounced |-> FALSE]
    /\ spawns = {}

User ==
    \/ \E w \in WindowIds :
        \/ SpawnWindow(w)
        \/ SpawnTab(w)
        \/ CloseWindow(w)
        \/ \E p \in PaneIds, t \in TabIds : MoveToTab(p, w, t) \/ MoveToWindow(p, w, t)
        \/ \E i \in 1..Cardinality(TabIds) : ActivateTab(w, i) \/ MoveTab(w, i)
    \/ \E t \in TabIds :
        \/ SplitPane(t)
        \/ CloseTab(t)
        \/ \E p \in PaneIds : KillPaneInTab(t, p) \/ MoveIntoSplit(p, t)
    \/ \E p \in PaneIds : ClosePane(p)

EndSpawn(op) ==
    \/ \E p \in PaneIds :
        \/ FinishSplit(op, p)
        \/ \E t \in TabIds : FinishSpawn(op, p, t)
    \/ FailSpawn(op)

Next ==
    \/ User
    \/ \E op \in spawns : EndSpawn(op)
    \/ \E p \in PaneIds : ProcessExits(p) \/ RunRemoval(p)
    \/ RunPrune

Spec == Init /\ [][Next]_muxVars

-------------------------------------------------------------------------------
\* Properties.

MuxTypeOK ==
    /\ DOMAIN mux.windows \subseteq WindowIds
    /\ \A w \in DOMAIN mux.windows : mux.windows[w] \in Window
    /\ [mux EXCEPT !.windows = <<>>] \in MuxState
    /\ spawns \subseteq Spawn

\* A pane is shown in one place only: whatever is moved while other tabs are
\* pruned, no pane is in the trees of two tabs, no tab in two windows.
OneHome ==
    /\ \A t, u \in TabsOf(mux) : t # u => mux.tree[t] \cap mux.tree[u] = {}
    /\ \A v, w \in DOMAIN mux.windows :
        v # w => ToSet(mux.windows[v].tabs) \cap ToSet(mux.windows[w].tabs) = {}
    /\ \A w \in DOMAIN mux.windows : IsInjective(mux.windows[w].tabs)

\* A registered pane, whose process may still run, is shown in a tab, or a task
\* that removes it is queued, or the spawn or move that brought it has failed half
\* way: what pruning takes from the tabs, it does not leave in the mux.
RegisteredPaneIsHeld ==
    mux.panes \subseteq PlacedPanes(mux) \cup mux.removals \cup mux.stranded

\* The window a spawn was started for is there when the spawn ends: no prune
\* takes it for a dead one while it has no tab.
SpawningWindowStays ==
    \A op \in spawns : op.kind = "window" => op.home \in DOMAIN mux.windows

\* A window without tabs, in which nothing is about to open, will be pruned.
EmptyWindowWillClose ==
    \A w \in DOMAIN mux.windows :
        mux.windows[w].tabs = <<>> => mux.prune_due \/ Activities > 0

\* A window that has tabs shows one of them.
ActiveTabExists ==
    \A w \in DOMAIN mux.windows :
        mux.windows[w].tabs # <<>> => ActiveTab(mux.windows[w]) # NoTab

\* A workspace is not reported empty while a pane is in it (the front end would
\* leave the workspace), and, when nothing is queued, not full without one.
VacantWhenEmpty ==
    /\ mux.vacant => PlacedPanes(mux) = {}
    /\ PlacedPanes(mux) = {} /\ mux.removals = {} /\ ~mux.prune_due /\ spawns = {}
        => mux.vacant

ActiveTabStays ==
    \A w \in DOMAIN mux.windows \cap DOMAIN mux'.windows :
        LET before == mux.windows[w]
            after == mux'.windows[w]
        IN  Len(after.tabs) < Len(before.tabs) /\ ActiveTab(before) \in ToSet(after.tabs)
            => ActiveTab(after) = ActiveTab(before)

\* When tabs leave a window, by pruning, closing or moving panes, and the active
\* tab is not one of them, it stays active.
ActiveTabKept == [][ActiveTabStays]_muxVars

\* With switch_to_last_active_tab_when_closing_tab, closing the active tab goes
\* back to the tab that was active before it.
LastActiveShown ==
    [][\A w \in DOMAIN mux.windows \cap DOMAIN mux'.windows :
        LET before == mux.windows[w]
            after == mux'.windows[w]
        IN  /\ Len(after.tabs) = Len(before.tabs) - 1
            /\ ActiveTab(before) \notin ToSet(after.tabs)
            /\ before.last_active \in ToSet(after.tabs)
            => ActiveTab(after) = before.last_active]_muxVars

\* A pane whose process has ended is not shown for ever: as long as it is in a
\* tab a prune is due, or an activity holds prunes back and queues one when it
\* ends, or the task for another pane that the same walk removed will prune.
DeadPaneIsPruned ==
    mux.dead \cap PlacedPanes(mux) # {} =>
        mux.prune_due \/ Activities > 0 \/ mux.removals # {}

\* When the last pane has gone, the subscribers are told so (the program ends
\* then), or a prune that will tell them is on its way in one of those ways.
EmptyIsAnnounced ==
    mux.unannounced => mux.prune_due \/ Activities > 0 \/ mux.removals # {}
===============================================================================
