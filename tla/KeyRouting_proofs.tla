---------------------------- MODULE KeyRouting_proofs ----------------------------
(***************************************************************************)
(* Proofs about KeyRouting, for every set of panes: the types, the         *)
(* Explorer's keyboard mode, and the command after a buffered prefix.      *)
(***************************************************************************)
EXTENDS KeyRouting, SequenceTheorems, TLAPS

-------------------------------------------------------------------------------
\* Types.

\* What a handler leaves in the surface and in the Explorer.
Typed == surface' \in Surfaces /\ focused' \in BOOLEAN /\ region' \in BOOLEAN

LEMMA UnmovedTyped ==
    ASSUME KeysTypeOK, Unmoved PROVE Typed
BY DEF KeysTypeOK, Unmoved, Unblurred, Typed

LEMMA ReturnTyped ==
    ASSUME KeysTypeOK, ReturnToTerminal PROVE Typed
<1>1. surface' \in Surfaces
    BY DEF KeysTypeOK, ReturnToTerminal, Surfaces, Visible
<1> QED BY <1>1 DEF ReturnToTerminal, Blurred, Typed

LEMMA ResetTyped ==
    ASSUME KeysTypeOK, NEW spot \in Spots \cup {NoSpot}, ResetForContext(spot)
    PROVE  Typed
<1>1. surface' \in Surfaces
    BY DEF ResetForContext, Surfaces
<1> QED BY <1>1 DEF KeysTypeOK, ResetForContext, Typed

\* The forms in which the surface changes.
LEMMA SurfaceForms ==
    ASSUME KeysTypeOK,
           \/ surface' = surface
           \/ surface' = [surface EXCEPT !.mode = "View"]
           \/ surface' = [surface EXCEPT !.mode = surface.resume]
           \/ surface' = [surface EXCEPT !.dirty = TRUE]
           \/ surface' = [surface EXCEPT !.dirty = FALSE]
           \/ surface' = [surface EXCEPT !.mode = "Edit", !.resume = "Edit"]
           \/ surface' = [surface EXCEPT !.mode = "View", !.resume = "View"]
           \/ surface' = [surface EXCEPT !.mode = "View", !.resume = "View",
                             !.dirty = FALSE]
           \/ surface' = [mode |-> "View", resume |-> "View", owner |-> context,
                          path |-> TRUE, dirty |-> FALSE]
    PROVE  surface' \in Surfaces
<1>1. CASE surface' = surface
    BY <1>1 DEF KeysTypeOK
<1>2. CASE surface' = [surface EXCEPT !.mode = "View"]
    BY <1>2 DEF KeysTypeOK, Surfaces
<1>3. CASE surface' = [surface EXCEPT !.mode = surface.resume]
    BY <1>3 DEF KeysTypeOK, Surfaces
<1>4. CASE surface' = [surface EXCEPT !.dirty = TRUE]
    BY <1>4 DEF KeysTypeOK, Surfaces
<1>5. CASE surface' = [surface EXCEPT !.dirty = FALSE]
    BY <1>5 DEF KeysTypeOK, Surfaces
<1>6. CASE surface' = [surface EXCEPT !.mode = "Edit", !.resume = "Edit"]
    BY <1>6 DEF KeysTypeOK, Surfaces
<1>7. CASE surface' = [surface EXCEPT !.mode = "View", !.resume = "View"]
    BY <1>7 DEF KeysTypeOK, Surfaces
<1>8. CASE surface' = [surface EXCEPT !.mode = "View", !.resume = "View",
                          !.dirty = FALSE]
    BY <1>8 DEF KeysTypeOK, Surfaces
<1>9. CASE surface' = [mode |-> "View", resume |-> "View", owner |-> context,
                       path |-> TRUE, dirty |-> FALSE]
    BY <1>9 DEF KeysTypeOK, Surfaces
<1> QED BY <1>1, <1>2, <1>3, <1>4, <1>5, <1>6, <1>7, <1>8, <1>9, Zenon

LEMMA OpenTyped ==
    ASSUME KeysTypeOK, NEW same, OpenFile(same) PROVE Typed
<1>1. surface' \in Surfaces
    BY SurfaceForms DEF OpenFile
<1>2. focused' \in BOOLEAN /\ region' \in BOOLEAN
    BY DEF KeysTypeOK, OpenFile, Blurred, Unblurred
<1> QED BY <1>1, <1>2 DEF Typed

LEMMA RowTyped ==
    ASSUME KeysTypeOK, ActivateRow PROVE Typed
<1>1. CASE \E same \in {surface.path, FALSE} : OpenFile(same)
    BY <1>1, OpenTyped
<1>2. CASE UNCHANGED surface /\ Unblurred
    BY <1>2, UnmovedTyped DEF Unmoved
<1> QED BY <1>1, <1>2 DEF ActivateRow

LEMMA CommandTyped ==
    ASSUME KeysTypeOK, NEW k \in CommandKeys, SurfaceTakes(k), SurfaceCommand(k)
    PROVE  Typed
<1>1. CASE Show
    <2>1. CASE ResetForContext(context)
        BY <2>1, ResetTyped DEF KeysTypeOK
    <2>2. CASE ~ResetForContext(context)
        <3>1. surface' \in Surfaces
            BY <1>1, <2>2, SurfaceForms DEF Show
        <3> QED BY <1>1, <2>2, <3>1 DEF KeysTypeOK, Show, Unblurred, Typed
    <2> QED BY <2>1, <2>2
<1>2. CASE ToggleEdit
    <2>1. surface' \in Surfaces
        BY <1>2, SurfaceForms DEF ToggleEdit
    <2> QED BY <1>2, <2>1 DEF KeysTypeOK, ToggleEdit, Blurred, Unblurred, Typed
<1>3. CASE Discard /\ Visible
    <2>1. CASE ResetForContext(context)
        BY <2>1, ResetTyped DEF KeysTypeOK
    <2>2. CASE surface.path /\ Blurred
               /\ surface' = [surface EXCEPT !.mode = "View", !.resume = "View",
                                 !.dirty = FALSE]
        <3>1. surface' \in Surfaces
            BY <2>2, SurfaceForms
        <3> QED BY <2>2, <3>1 DEF Blurred, Typed
    <2>3. CASE ~surface.path /\ Visible /\ Blurred
               /\ surface' = [surface EXCEPT !.mode = "Terminal",
                                 !.resume = surface.mode, !.dirty = FALSE]
        <3>1. surface' \in Surfaces
            BY <2>3 DEF KeysTypeOK, Surfaces, Visible
        <3> QED BY <2>3, <3>1 DEF Blurred, Typed
    <2> QED BY <1>3, <2>1, <2>2, <2>3 DEF Discard
<1>4. k = "cmd_shift_d" => Visible
    BY DEF SurfaceTakes, CommandKeys, TypedKeys
<1> QED BY <1>1, <1>2, <1>3, <1>4, ReturnTyped, UnmovedTyped DEF SurfaceCommand

LEMMA KeyDownTyped ==
    ASSUME KeysTypeOK, NEW k \in Keys, SurfaceTakes(k), SurfaceKeyDown(k)
    PROVE  Typed
<1>1. CASE RegionKey(k)
    <2>1. CASE UNCHANGED surface /\ Blurred
        BY <2>1 DEF KeysTypeOK, Blurred, Typed
    <2> QED BY <1>1, <2>1, RowTyped, UnmovedTyped DEF RegionKey
<1>2. CASE PreviewKey(k)
    BY <1>2, ReturnTyped, UnmovedTyped DEF PreviewKey
<1>3. CASE EditKey(k)
    <2>1. CASE Unmoved
        BY <2>1, UnmovedTyped
    <2>2. CASE ~Unmoved
        <3>1. CASE surface' = [surface EXCEPT !.dirty = TRUE] /\ Unblurred
            BY <3>1, SurfaceForms DEF KeysTypeOK, Unblurred, Typed
        <3>2. CASE /\ surface' = [surface EXCEPT !.mode = "View", !.resume = "View"]
                   /\ Unblurred
            BY <3>2, SurfaceForms DEF KeysTypeOK, Unblurred, Typed
        <3> QED BY <1>3, <2>2, <3>1, <3>2 DEF EditKey
    <2> QED BY <2>1, <2>2
<1> QED BY <1>1, <1>2, <1>3, CommandTyped DEF SurfaceKeyDown

LEMMA PromptsTyped ==
    ASSUME KeysTypeOK, NEW k \in Keys,
           ExplorerKeyDown(k) \/ Deliver(<<k>>) \/ Deliver(<<"prefix", k>>)
    PROVE  prompts' \subseteq {Outer[s] : s \in Spots}
<1>1. CASE ExplorerKeyDown(k)
    BY <1>1 DEF KeysTypeOK, ExplorerKeyDown
<1>2. CASE Deliver(<<k>>) \/ Deliver(<<"prefix", k>>)
    BY <1>2 DEF KeysTypeOK, Deliver
<1> QED BY <1>1, <1>2

LEMMA ExplorerTyped ==
    ASSUME KeysTypeOK, NEW k \in Keys, ExplorerKeyDown(k) PROVE Typed
<1>1. CASE focused' = FALSE /\ UNCHANGED <<surface, region, prompts>>
    BY <1>1 DEF KeysTypeOK, Typed
<1> QED BY <1>1, RowTyped, UnmovedTyped DEF ExplorerKeyDown

LEMMA SentTyped ==
    ASSUME NEW k \in Keys,
           \/ sent' = <<>> \/ sent' = <<"prefix">> \/ sent' = <<k>>
           \/ sent' = <<"prefix", k>>
    PROVE  sent' \in Seq(Keys)
<1>1. "prefix" \in Keys
    BY DEF Keys, TypedKeys
<1>2. CASE sent' = <<>>
    <2>1. <<>> \in Seq(Keys)
        BY EmptySeq
    <2> QED BY <1>2, <2>1
<1>3. CASE sent' = <<k>>
    BY <1>3
<1>4. CASE sent' = <<"prefix">>
    BY <1>1, <1>4
<1>5. CASE sent' = <<"prefix", k>>
    BY <1>1, <1>5
<1> QED BY <1>2, <1>3, <1>4, <1>5

LEMMA PlainKeyTyped ==
    ASSUME KeysTypeOK, NEW k \in Keys, PlainKey(k)
    PROVE  Typed /\ sent' \in Seq(Keys) /\ prompts' \subseteq {Outer[s] : s \in Spots}
<1>1. CASE SurfaceTakes(k) /\ SurfaceKeyDown(k) /\ sent' = <<>> /\ UNCHANGED prompts
    BY <1>1, KeyDownTyped, SentTyped DEF KeysTypeOK
<1>2. CASE ExplorerKeyDown(k) /\ sent' = <<>>
    BY <1>2, ExplorerTyped, SentTyped, PromptsTyped
<1>3. CASE Unmoved /\ Deliver(<<k>>)
    BY <1>3, UnmovedTyped, SentTyped, PromptsTyped DEF Deliver
<1> QED BY <1>1, <1>2, <1>3 DEF PlainKey

LEMMA TmuxCommandTyped ==
    ASSUME KeysTypeOK, NEW k \in Keys, TmuxCommand(k)
    PROVE  Typed /\ sent' \in Seq(Keys) /\ prompts' \subseteq {Outer[s] : s \in Spots}
<1>1. CASE UNCHANGED surface /\ Blurred /\ Deliver(<<"prefix", k>>)
    <2>1. Typed
        BY <1>1 DEF KeysTypeOK, Blurred, Typed
    <2> QED BY <1>1, <2>1, SentTyped, PromptsTyped DEF Deliver
<1>2. CASE ExplorerKeyDown(k) /\ sent' = <<"prefix">>
    BY <1>2, ExplorerTyped, SentTyped, PromptsTyped
<1>3. CASE Unmoved /\ Deliver(<<"prefix", k>>)
    BY <1>3, UnmovedTyped, SentTyped, PromptsTyped DEF Deliver
<1> QED BY <1>1, <1>2, <1>3 DEF TmuxCommand

LEMMA PressTyped ==
    ASSUME KeysTypeOK, NEW k \in Keys, Press(k) PROVE KeysTypeOK'
<1>1. armed' \in BOOLEAN /\ context' \in Spots \cup {NoSpot}
    BY DEF KeysTypeOK, Press
<1>2. CASE BufferPrefix(k)
    BY <1>1, <1>2, UnmovedTyped, SentTyped DEF BufferPrefix, KeysTypeOK, Typed
<1>3. CASE Shortcut(k)
    <2>1. focus' \in Spots /\ prompts' \subseteq {Outer[s] : s \in Spots}
        BY <1>3 DEF Shortcut, KeysTypeOK
    <2> QED BY <1>1, <1>3, <2>1, UnmovedTyped, SentTyped DEF Shortcut, KeysTypeOK, Typed
<1>4. CASE ChangeMode(k)
    BY <1>1, <1>4, UnmovedTyped DEF ChangeMode, KeysTypeOK, Typed
<1>5. CASE EnterOrLeaveRegion(k)
    <2>1. Typed
        BY <1>5 DEF EnterOrLeaveRegion, ToggleRegion, KeysTypeOK, Typed
    <2> QED BY <1>1, <1>5, <2>1, SentTyped DEF EnterOrLeaveRegion, KeysTypeOK, Typed
<1>6. CASE TmuxCommand(k)
    BY <1>1, <1>6, TmuxCommandTyped DEF TmuxCommand, KeysTypeOK, Typed
<1>7. CASE PlainKey(k)
    BY <1>1, <1>7, PlainKeyTyped DEF PlainKey, KeysTypeOK, Typed
<1> QED BY <1>2, <1>3, <1>4, <1>5, <1>6, <1>7 DEF Press

\* What happens between presses keeps the types too.
LEMMA OtherTyped ==
    ASSUME KeysTypeOK,
           \/ Poll \/ ChangePane \/ FocusExplorer \/ ClickFile \/ ClickElsewhere
           \/ ClickTerminalTab \/ ClickEditToggle \/ Saved
    PROVE  KeysTypeOK'
<1>1. CASE Poll
    <2>1. Typed
        <3>1. CASE ReturnToTerminal
            BY <3>1, ReturnTyped
        <3>2. CASE ResetForContext(focus)
            BY <3>2, ResetTyped DEF KeysTypeOK
        <3> QED BY <1>1, <3>1, <3>2, UnmovedTyped DEF Poll
    <2>2. pending' \in BOOLEAN
        BY <1>1 DEF Poll, KeysTypeOK, ReturnToTerminal, ResetForContext
    <2> QED BY <1>1, <2>1, <2>2 DEF Poll, KeysTypeOK, Typed, history
<1>2. CASE ChangePane
    BY <1>2 DEF ChangePane, KeysTypeOK, Blurred, Unblurred
<1>3. CASE FocusExplorer
    BY <1>3 DEF FocusExplorer, KeysTypeOK, history
<1>4. CASE ClickFile
    <2>1. Typed
        <3>1. PICK same \in {surface.path, FALSE} :
                 \/ OpenFile(same)
                 \/ /\ surface' = [surface EXCEPT !.mode = "View"]
                    /\ focused' = TRUE /\ UNCHANGED region
            BY <1>4, Zenon DEF ClickFile
        <3>2. CASE OpenFile(same)
            BY <3>2, OpenTyped
        <3>3. CASE /\ surface' = [surface EXCEPT !.mode = "View"]
                   /\ focused' = TRUE /\ UNCHANGED region
            <4>1. surface' \in Surfaces
                BY <3>3, SurfaceForms
            <4> QED BY <3>3, <4>1 DEF KeysTypeOK, Typed
        <3> QED BY <3>1, <3>2, <3>3
    <2> QED BY <1>4, <2>1 DEF ClickFile, KeysTypeOK, Typed, history
<1>5. CASE ClickElsewhere
    BY <1>5 DEF ClickElsewhere, KeysTypeOK, Blurred, history
<1>6. CASE ClickTerminalTab
    <2>1. Typed
        BY <1>6, ReturnTyped DEF ClickTerminalTab
    <2>2. pending' = FALSE
        BY <1>6 DEF ClickTerminalTab, ReturnToTerminal
    <2> QED BY <1>6, <2>1, <2>2 DEF ClickTerminalTab, KeysTypeOK, Typed, history
<1>7. CASE ClickEditToggle
    <2>1. surface' \in Surfaces
        BY <1>7, SurfaceForms DEF ClickEditToggle
    <2> QED BY <1>7, <2>1 DEF ClickEditToggle, KeysTypeOK, history
<1>8. CASE Saved
    <2>1. surface' \in Surfaces
        BY <1>8, SurfaceForms DEF Saved
    <2> QED BY <1>8, <2>1 DEF Saved, KeysTypeOK, history
<1> QED BY <1>1, <1>2, <1>3, <1>4, <1>5, <1>6, <1>7, <1>8

LEMMA StutterTyped ==
    ASSUME KeysTypeOK, UNCHANGED vars PROVE KeysTypeOK'
BY DEF KeysTypeOK, vars, history

LEMMA InitTyped ==
    ASSUME KeysInit PROVE KeysTypeOK
<1>1. surface \in Surfaces
    BY DEF KeysInit, Surfaces
<1>2. sent \in Seq(Keys)
    BY EmptySeq DEF KeysInit
<1> QED BY <1>1, <1>2 DEF KeysInit, KeysTypeOK

\* The surface, the Explorer and the held prefix are of their types, whatever is
\* pressed, clicked and polled.
THEOREM KeysTyped == KeysSpec => []KeysTypeOK
<1>1. KeysTypeOK /\ [KeysNext]_vars => KeysTypeOK'
    BY PressTyped, OtherTyped, StutterTyped DEF KeysNext
<1> QED BY InitTyped, <1>1, PTL DEF KeysSpec

-------------------------------------------------------------------------------
\* The region of the Explorer.

LEMMA RowKeepsFocus ==
    ASSUME RegionIsFocused, ActivateRow \/ Unmoved PROVE RegionIsFocused'
<1>1. Blurred \/ Unblurred
    BY DEF ActivateRow, OpenFile, Unmoved
<1> QED BY <1>1 DEF RegionIsFocused, Blurred, Unblurred

LEMMA ReturnKeepsFocus ==
    ASSUME ReturnToTerminal PROVE RegionIsFocused'
BY DEF ReturnToTerminal, Blurred, RegionIsFocused

LEMMA ResetKeepsFocus ==
    ASSUME NEW spot, ResetForContext(spot) PROVE RegionIsFocused'
BY DEF ResetForContext, RegionIsFocused

LEMMA KeyDownKeepsFocus ==
    ASSUME RegionIsFocused, NEW k, SurfaceKeyDown(k) PROVE RegionIsFocused'
<1>1. CASE Blurred \/ Unblurred
    BY <1>1 DEF RegionIsFocused, Blurred, Unblurred
<1>2. CASE SurfaceCommand(k)
    <2>1. CASE Show
        BY <1>1, <2>1, ResetKeepsFocus DEF Show
    <2>2. CASE ToggleEdit
        BY <1>1, <2>2 DEF ToggleEdit
    <2>3. CASE Discard
        BY <1>1, <2>3, ResetKeepsFocus DEF Discard
    <2> QED BY <1>2, <2>1, <2>2, <2>3, ReturnKeepsFocus, RowKeepsFocus
            DEF SurfaceCommand
<1>3. CASE RegionKey(k)
    BY <1>1, <1>3, RowKeepsFocus DEF RegionKey
<1>4. CASE PreviewKey(k)
    BY <1>4, ReturnKeepsFocus, RowKeepsFocus DEF PreviewKey
<1>5. CASE EditKey(k)
    BY <1>1, <1>5, RowKeepsFocus DEF EditKey
<1> QED BY <1>2, <1>3, <1>4, <1>5 DEF SurfaceKeyDown

\* The Escape of explorer_key_down takes the focus alone: the keys of the region
\* have been offered it before, so the region is not on.
LEMMA ExplorerKeepsFocus ==
    ASSUME RegionIsFocused, NEW k, ExplorerKeyDown(k), k = "escape" => ~region
    PROVE  RegionIsFocused'
<1>1. CASE k = "escape" /\ focused' = FALSE /\ UNCHANGED <<surface, region, prompts>>
    BY <1>1 DEF RegionIsFocused
<1> QED BY <1>1, RowKeepsFocus DEF ExplorerKeyDown

LEMMA PressKeepsFocus ==
    ASSUME RegionIsFocused, NEW k \in Keys, Press(k) PROVE RegionIsFocused'
<1>1. CASE BufferPrefix(k) \/ Shortcut(k) \/ ChangeMode(k)
    BY <1>1, RowKeepsFocus DEF BufferPrefix, Shortcut, ChangeMode
<1>2. CASE EnterOrLeaveRegion(k)
    BY <1>2 DEF EnterOrLeaveRegion, ToggleRegion, RegionIsFocused
<1>3. CASE TmuxCommand(k)
    <2>1. CASE Blurred
        BY <2>1 DEF Blurred, RegionIsFocused
    <2> QED BY <1>3, <2>1, ExplorerKeepsFocus, RowKeepsFocus DEF TmuxCommand
<1>4. CASE PlainKey(k)
    <2>1. ~SurfaceTakes(k) /\ k = "escape" => ~region
        BY DEF SurfaceTakes
    <2> QED BY <1>4, <2>1, KeyDownKeepsFocus, ExplorerKeepsFocus, RowKeepsFocus
            DEF PlainKey
<1> QED BY <1>1, <1>2, <1>3, <1>4 DEF Press

LEMMA OtherKeepsFocus ==
    ASSUME RegionIsFocused,
           \/ Poll \/ ChangePane \/ FocusExplorer \/ ClickFile \/ ClickElsewhere
           \/ ClickTerminalTab \/ ClickEditToggle \/ Saved
    PROVE  RegionIsFocused'
<1>1. CASE Poll
    BY <1>1, ReturnKeepsFocus, ResetKeepsFocus, RowKeepsFocus DEF Poll
<1>2. CASE ChangePane \/ ClickElsewhere
    BY <1>2 DEF ChangePane, ClickElsewhere, Blurred, Unblurred, RegionIsFocused
<1>3. CASE FocusExplorer \/ ClickEditToggle \/ Saved
    BY <1>3 DEF FocusExplorer, ClickEditToggle, Saved, RegionIsFocused
<1>4. CASE ClickFile
    BY <1>4 DEF ClickFile, OpenFile, Blurred, Unblurred, RegionIsFocused
<1>5. CASE ClickTerminalTab
    BY <1>5, ReturnKeepsFocus DEF ClickTerminalTab
<1> QED BY <1>1, <1>2, <1>3, <1>4, <1>5

\* The keyboard mode of the Explorer is on only while the Explorer has the focus.
THEOREM RegionFocused == KeysSpec => []RegionIsFocused
<1>1. KeysInit => RegionIsFocused
    BY DEF KeysInit, RegionIsFocused
<1>2. RegionIsFocused /\ UNCHANGED vars => RegionIsFocused'
    BY DEF RegionIsFocused, vars
<1>3. RegionIsFocused /\ [KeysNext]_vars => RegionIsFocused'
    BY <1>2, PressKeepsFocus, OtherKeepsFocus DEF KeysNext
<1> QED BY <1>1, <1>3, PTL DEF KeysSpec

-------------------------------------------------------------------------------
\* The command after a prefix.

\* While the prefix that was pressed last is held back, nothing of it was sent.
Held == armed /\ pending => sent = <<>>

LEMMA PressHolds ==
    ASSUME Held, NEW k \in Keys, Press(k) PROVE Held'
<1>1. CASE BufferPrefix(k) \/ EnterOrLeaveRegion(k)
    BY <1>1 DEF BufferPrefix, EnterOrLeaveRegion, Held
<1>2. CASE Shortcut(k)
    BY <1>2 DEF Shortcut, Press, Held
<1>3. CASE ChangeMode(k)
    BY <1>3 DEF ChangeMode, Press, Held
<1>4. CASE TmuxCommand(k) \/ PlainKey(k)
    <2>1. pending' = FALSE
        BY <1>4 DEF TmuxCommand, PlainKey
    <2> QED BY <2>1 DEF Held
<1> QED BY <1>1, <1>2, <1>3, <1>4 DEF Press

LEMMA OtherHolds ==
    ASSUME Held,
           \/ Poll \/ ChangePane \/ FocusExplorer \/ ClickFile \/ ClickElsewhere
           \/ ClickTerminalTab \/ ClickEditToggle \/ Saved
    PROVE  Held'
<1>1. CASE Poll
    BY <1>1 DEF Poll, ReturnToTerminal, ResetForContext, Held, history
<1>2. CASE ChangePane
    BY <1>2 DEF ChangePane, Held
<1>3. CASE ClickTerminalTab
    BY <1>3 DEF ClickTerminalTab, ReturnToTerminal, Held
<1>4. CASE FocusExplorer \/ ClickFile \/ ClickElsewhere \/ ClickEditToggle \/ Saved
    BY <1>4 DEF FocusExplorer, ClickFile, ClickElsewhere, ClickEditToggle, Saved,
                Held, history
<1> QED BY <1>1, <1>2, <1>3, <1>4

LEMMA CommandReaches ==
    ASSUME Held, NEW k \in TypedKeys \cup CommandKeys, Press(k), armed, pending,
           k # "0", k # "prefix", focused => region \/ TmuxPreview
    PROVE  Reached(k) /\ ~region'
<1>1. TmuxCommand(k)
    BY DEF Press, BufferPrefix, Shortcut, ChangeMode, EnterOrLeaveRegion, PlainKey,
           TypedKeys, CommandKeys
<1>2. sent' = <<"prefix", k>> /\ ~region'
    <2>1. CASE region
        BY <1>1, <2>1 DEF TmuxCommand, Blurred, Deliver
    <2>2. CASE ~region
        BY <1>1, <2>2 DEF TmuxCommand, ExplorerTakes, Unmoved, Unblurred, Deliver
    <2> QED BY <2>1, <2>2
<1> QED BY <1>2 DEF Held, Reached

\* A key after a buffered prefix reaches tmux behind the prefix and leaves the
\* region, whatever the file surface would do with it.
THEOREM BufferedCommand == KeysSpec => BufferedCommandReachesTmux
<1>1. KeysInit => Held
    BY DEF KeysInit, Held
<1>2. Held /\ UNCHANGED vars => Held'
    BY DEF Held, vars, history
<1>3. Held /\ [KeysNext]_vars => Held'
    BY <1>2, PressHolds, OtherHolds DEF KeysNext
<1>4. KeysSpec => []Held
    BY <1>1, <1>3, PTL DEF KeysSpec
<1>5. Held => \A k \in TypedKeys \cup CommandKeys :
                  /\ armed /\ pending /\ Press(k) /\ k \notin {"0", "prefix"}
                  /\ focused => region \/ TmuxPreview
                  => Reached(k) /\ ~region'
    BY CommandReaches
<1> QED BY <1>4, <1>5, PTL DEF KeysSpec, BufferedCommandReachesTmux

===============================================================================
