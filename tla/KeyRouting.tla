------------------------------- MODULE KeyRouting -------------------------------
(***************************************************************************)
(* What one key press does in a Cosmos window: TermWindow::process_key and *)
(* the handlers it asks in turn.  A press goes through the pass of the key *)
(* bindings (OnlyKeyBindings::Yes) and, when nothing takes it there,       *)
(* through the pass of plain input (No).  A tmux prefix is held back until *)
(* the next key says whether it is <prefix> 0, the Explorer region, or a   *)
(* command for tmux.  Which pane is active is polled and may be old; a     *)
(* prompt may cover a tab; clicks move the focus of the Explorer.          *)
(***************************************************************************)
EXTENDS Naturals, Sequences

CONSTANTS
    Spots,         \* panes the poll tells apart: native panes, panes of tmux
    TmuxSpots,     \* those that are panes of a tmux session
    Outer,         \* Outer[s]: the native pane that shows s
    NoSpot

ASSUME SpotsAssumption == TmuxSpots \subseteq Spots /\ NoSpot \notin Spots

\* Keys by what the handlers do with them.  "bound" is any key with a binding,
\* which the pass of the bindings finds; "mode" is Command+Option+P; "a" and "up"
\* move in the tree and in the preview, and "a" also asks for a root; "x" and "0"
\* are other characters, "prefix" is the prefix of tmux.
CommandKeys == {"cmd_s", "cmd_e", "cmd_return", "cmd_shift_d"}
ShortcutKeys == {"bound", "mode"}
TypedKeys == {"prefix", "0", "a", "x", "up", "return", "escape"}
Keys == CommandKeys \cup ShortcutKeys \cup TypedKeys

VARIABLES
    focus,         \* the pane that is active
    context,       \* explorer.active_context: the pane of the last answer
    surface,       \* file_workspace: mode, resume_mode, owner, path, dirty
    focused,       \* explorer.focused
    region,        \* explorer_keyboard_mode
    pending,       \* tmux_prefix_pending
    prompts,       \* native panes whose tab an input prompt covers
    sent,          \* history: the keys the last press sent to the pane
    armed          \* history: it was the prefix of tmux, and nothing but a
                   \* change of mode was pressed since, in the same pane

history == <<sent, armed>>
vars == <<focus, context, surface, focused, region, pending, prompts, history>>

Surfaces ==
    [mode : {"Terminal", "View", "Edit"}, resume : {"View", "Edit"},
     owner : Spots \cup {NoSpot}, path : BOOLEAN, dirty : BOOLEAN]

KeysTypeOK ==
    /\ focus \in Spots /\ context \in Spots \cup {NoSpot}
    /\ surface \in Surfaces
    /\ focused \in BOOLEAN /\ region \in BOOLEAN /\ pending \in BOOLEAN
    /\ prompts \subseteq {Outer[s] : s \in Spots}
    /\ sent \in Seq(Keys) /\ armed \in BOOLEAN

KeysInit ==
    /\ focus \in Spots /\ context = NoSpot
    /\ surface = [mode |-> "Terminal", resume |-> "View", owner |-> NoSpot,
                  path |-> FALSE, dirty |-> FALSE]
    /\ focused = FALSE /\ region = FALSE /\ pending = FALSE
    /\ prompts = {}
    /\ sent = <<>> /\ armed = FALSE

-------------------------------------------------------------------------------
\* The file surface and the Explorer, as the handlers read them.

Visible == surface.mode # "Terminal"
OwnsContext == context # NoSpot /\ surface.owner = context
Prompted == Outer[focus] \in prompts
TmuxPreview == surface.mode = "View" /\ context \in TmuxSpots

Blurred == focused' = FALSE /\ region' = FALSE
Unblurred == UNCHANGED <<focused, region>>

\* A mutant of ReturnToTerminal that leaves the Explorer's keyboard mode on.
ReturnToTerminalInRegion ==
    /\ surface' = [surface EXCEPT !.mode = "Terminal",
                      !.resume = IF Visible THEN surface.mode ELSE @]
    /\ pending' = FALSE /\ focused' = FALSE /\ UNCHANGED region

\* return_to_terminal_workspace.
ReturnToTerminal ==
    /\ surface' = [surface EXCEPT !.mode = "Terminal",
                      !.resume = IF Visible THEN surface.mode ELSE @]
    /\ pending' = FALSE /\ Blurred

\* reset_for_context: an empty surface for a pane.
ResetForContext(spot) ==
    /\ surface' = [mode |-> "View", resume |-> "View", owner |-> spot,
                   path |-> FALSE, dirty |-> FALSE]
    /\ pending' = FALSE /\ region' = FALSE /\ UNCHANGED focused

\* open_file_workspace_path, for the file that is open or for another one.
Blocked(same) == surface.dirty /\ ~same

OpenFile(same) ==
    \/ /\ Blocked(same)
       /\ surface' = [surface EXCEPT !.mode = "View"]
       /\ Unblurred
    \/ /\ ~Blocked(same) /\ context # NoSpot
       /\ surface' = [mode |-> "View", resume |-> "View", owner |-> context,
                      path |-> TRUE, dirty |-> FALSE]
       /\ Blurred
    \/ /\ ~Blocked(same) /\ context = NoSpot
       /\ UNCHANGED surface /\ Unblurred

\* activate_selected_explorer_row: the row is a file, or a folder or nothing.
ActivateRow ==
    \/ \E same \in {surface.path, FALSE} : OpenFile(same)
    \/ UNCHANGED surface /\ Unblurred

\* toggle_tmux_explorer_keyboard_mode.
ToggleRegion == region' = ~region /\ focused' = ~region

\* A mutant of Show that keeps the mode it leaves as the one to resume.
ShowSwapped ==
    /\ context # NoSpot
    /\ surface' = [surface EXCEPT !.mode = surface.resume, !.resume = surface.mode]
    /\ Unblurred

\* show_file_workspace: a surface for this pane and its directory, or the one
\* that was left when its text is not saved.
Show ==
    \/ /\ context = NoSpot
       /\ surface' = [surface EXCEPT !.mode = "View"]
       /\ Unblurred
    \/ /\ context # NoSpot /\ ~surface.dirty
       /\ ResetForContext(context)
    \/ /\ context # NoSpot /\ (surface.dirty \/ OwnsContext)
       /\ surface' = [surface EXCEPT !.mode = surface.resume]
       /\ Unblurred

\* The user discards the text; reconcile_file_workspace_context may first find
\* that the directory of the pane changed.
Discard ==
    \/ ResetForContext(context)
    \/ /\ surface.path
       /\ surface' = [surface EXCEPT !.mode = "View", !.resume = "View",
                         !.dirty = FALSE]
       /\ Blurred
    \/ /\ ~surface.path
       /\ surface' = [surface EXCEPT !.mode = "Terminal", !.resume = surface.mode,
                         !.dirty = FALSE]
       /\ Blurred

-------------------------------------------------------------------------------
\* file_workspace_key_down: which keys it answers true for, and what it does.

Unmoved == UNCHANGED surface /\ Unblurred

SurfaceTakes(k) ==
    \/ k = "cmd_s"
    \/ k \in CommandKeys /\ Visible
    \/ k \in {"a", "up", "return", "escape"} /\ region
    \/ k \in {"a", "up", "escape"} /\ ~region /\ OwnsContext /\ surface.mode = "View"
    \/ k \in TypedKeys /\ ~region /\ OwnsContext /\ surface.mode = "Edit"

ToggleEdit ==
    \/ /\ surface.mode = "View"
       /\ surface' = [surface EXCEPT !.mode = "Edit", !.resume = "Edit"]
       /\ Blurred
    \/ /\ surface.mode = "Edit"
       /\ surface' = [surface EXCEPT !.mode = "View", !.resume = "View"]
       /\ Unblurred

SurfaceCommand(k) ==
    \/ k = "cmd_s" /\ IF Visible /\ OwnsContext THEN ReturnToTerminal ELSE Show
    \/ k = "cmd_return" /\ Unmoved
    \/ k = "cmd_e" /\ IF OwnsContext THEN ToggleEdit ELSE Unmoved
    \/ k = "cmd_shift_d" /\ IF OwnsContext THEN Discard ELSE Unmoved

RegionKey(k) ==
    \/ k \in {"a", "up"} /\ Unmoved
    \/ k = "return" /\ ActivateRow
    \/ k = "escape" /\ UNCHANGED surface /\ Blurred

PreviewKey(k) == IF k = "escape" THEN ReturnToTerminal ELSE Unmoved

EditKey(k) ==
    \/ /\ k \in {"a", "x", "0", "return"}
       /\ surface' = [surface EXCEPT !.dirty = TRUE]
       /\ Unblurred
    \/ k \in {"up", "prefix"} /\ Unmoved
    \/ /\ k = "escape"
       /\ surface' = [surface EXCEPT !.mode = "View", !.resume = "View"]
       /\ Unblurred

SurfaceKeyDown(k) ==
    \/ k \in CommandKeys /\ SurfaceCommand(k)
    \/ k \in TypedKeys /\ region /\ RegionKey(k)
    \/ k \in TypedKeys /\ ~region /\ surface.mode = "View" /\ PreviewKey(k)
    \/ k \in TypedKeys /\ ~region /\ surface.mode = "Edit" /\ EditKey(k)

-------------------------------------------------------------------------------
\* explorer_key_down: the Explorer has the focus, and no tmux pane is previewed.
\* Command+Return starts a shell, whose tab becomes the active one later.
ExplorerTakes(k) ==
    focused /\ ~TmuxPreview /\ k \in {"up", "return", "cmd_return", "escape", "a"}

ExplorerKeyDown(k) ==
    \/ k \in {"up", "cmd_return"} /\ Unmoved /\ UNCHANGED prompts
    \/ k = "return" /\ ActivateRow /\ UNCHANGED prompts
    \/ k = "escape" /\ focused' = FALSE /\ UNCHANGED <<surface, region, prompts>>
    \/ k = "a" /\ Unmoved /\ prompts' = prompts \cup {Outer[focus]}

\* The pane, or the prompt over it, gets the keys; Return and Escape end a prompt.
Deliver(keys) ==
    /\ sent' = keys
    /\ prompts' = IF Prompted /\ keys[Len(keys)] \in {"return", "escape"}
                  THEN prompts \ {Outer[focus]} ELSE prompts

-------------------------------------------------------------------------------
\* One press.

\* A mutant of BufferPrefix that passes the prefix on at once, as well as keeping it.
BufferPrefixSent(k) ==
    /\ k = "prefix" /\ context \in TmuxSpots
    /\ pending' = TRUE
    /\ sent' = <<"prefix">>
    /\ Unmoved /\ UNCHANGED <<focus, prompts>>

\* file_workspace_tmux_prefix_key_down, in the pass of the bindings.
BufferPrefix(k) ==
    /\ k = "prefix" /\ context \in TmuxSpots
    /\ pending' = TRUE
    /\ sent' = <<>>
    /\ Unmoved /\ UNCHANGED <<focus, prompts>>

\* A binding: it may change the pane or ask something over the tab.
Shortcut(k) ==
    /\ k = "bound"
    /\ sent' = <<>>
    /\ \/ focus' \in Spots /\ UNCHANGED prompts
       \/ prompts' = prompts \cup {Outer[focus]} /\ UNCHANGED focus
    /\ Unmoved /\ UNCHANGED pending

\* codex_prompt_automation_key_down, before the prefix is taken.
ChangeMode(k) ==
    /\ k = "mode"
    /\ Unmoved /\ UNCHANGED <<focus, pending, prompts, sent>>

\* <prefix> 0.
EnterOrLeaveRegion(k) ==
    /\ pending /\ k = "0"
    /\ pending' = FALSE
    /\ ToggleRegion
    /\ sent' = <<>>
    /\ UNCHANGED <<focus, surface, prompts>>

\* A key reaches the pass of plain input.
Plain(k) ==
    /\ k \notin ShortcutKeys
    /\ k = "prefix" => context \notin TmuxSpots

\* A mutant of TmuxCommand that does not leave the region, whose focus then takes the key.
TmuxCommandInRegion(k) ==
    /\ pending /\ Plain(k) /\ k # "0"
    /\ pending' = FALSE
    /\ \/ ExplorerTakes(k) /\ ExplorerKeyDown(k) /\ sent' = <<"prefix">>
       \/ ~ExplorerTakes(k) /\ Unmoved /\ Deliver(<<"prefix", k>>)
    /\ UNCHANGED focus

\* Another key after a prefix: the region is left, the prefix goes to the pane,
\* and the key passes by the file surface.
TmuxCommand(k) ==
    /\ pending /\ Plain(k) /\ k # "0"
    /\ pending' = FALSE
    /\ \/ region /\ UNCHANGED surface /\ Blurred /\ Deliver(<<"prefix", k>>)
       \/ ~region /\ ExplorerTakes(k) /\ ExplorerKeyDown(k) /\ sent' = <<"prefix">>
       \/ ~region /\ ~ExplorerTakes(k) /\ Unmoved /\ Deliver(<<"prefix", k>>)
    /\ UNCHANGED focus

PlainKey(k) ==
    /\ ~pending /\ Plain(k)
    /\ \/ /\ SurfaceTakes(k)
          /\ SurfaceKeyDown(k) /\ sent' = <<>> /\ UNCHANGED prompts
       \/ /\ ~SurfaceTakes(k) /\ ExplorerTakes(k)
          /\ ExplorerKeyDown(k) /\ sent' = <<>>
       \/ /\ ~SurfaceTakes(k) /\ ~ExplorerTakes(k)
          /\ Unmoved /\ Deliver(<<k>>)
    /\ pending' = FALSE /\ UNCHANGED focus

Press(k) ==
    /\ \/ BufferPrefix(k) \/ Shortcut(k) \/ ChangeMode(k)
       \/ EnterOrLeaveRegion(k) \/ TmuxCommand(k) \/ PlainKey(k)
    /\ armed' = IF k = "mode" THEN armed
                ELSE k = "prefix" /\ ~armed /\ focus \in TmuxSpots /\ ~Prompted
    /\ UNCHANGED context

-------------------------------------------------------------------------------
\* What happens between presses.

\* explorer_tick takes the answer to its last question which pane is active, and
\* reconcile_file_workspace_context looks for the pane of the surface.
Poll ==
    /\ context' = focus
    /\ \/ Unmoved /\ UNCHANGED pending
       \/ /\ Visible /\ surface.owner \in TmuxSpots \ {focus}
          /\ Outer[surface.owner] = Outer[focus]
          /\ ReturnToTerminal
       \/ /\ Visible /\ surface.owner = focus /\ ~surface.dirty
          /\ ResetForContext(focus)
    /\ UNCHANGED <<focus, prompts, history>>

\* tmux selects another pane, or a click does.
ChangePane ==
    /\ focus' \in Spots \ {focus}
    /\ Blurred \/ (Outer[focus'] = Outer[focus] /\ Unblurred)
    /\ armed' = FALSE
    /\ UNCHANGED <<context, surface, pending, prompts, sent>>

\* A click on the Explorer, or the FocusFileExplorer binding.
FocusExplorer ==
    /\ focused' = TRUE
    /\ UNCHANGED <<focus, context, surface, region, pending, prompts, history>>

\* A click on a file of the tree.
ClickFile ==
    /\ \E same \in {surface.path, FALSE} :
        \/ ~Blocked(same) /\ context # NoSpot /\ OpenFile(same)
        \/ /\ Blocked(same)
           /\ surface' = [surface EXCEPT !.mode = "View"]
           /\ focused' = TRUE /\ UNCHANGED region
    /\ UNCHANGED <<focus, context, pending, prompts, history>>

ClickElsewhere ==
    /\ Blurred
    /\ UNCHANGED <<focus, context, surface, pending, prompts, history>>

ClickTerminalTab ==
    /\ Visible /\ ReturnToTerminal
    /\ UNCHANGED <<focus, context, prompts, history>>

\* The button of the surface asks neither for its pane nor for the focus.
ClickEditToggle ==
    /\ Visible
    /\ surface' = LET mode == IF surface.mode = "View" THEN "Edit" ELSE "View"
                  IN  [surface EXCEPT !.mode = mode, !.resume = mode]
    /\ UNCHANGED <<focus, context, focused, region, pending, prompts, history>>

\* The file service answers a save.
Saved ==
    /\ surface.dirty
    /\ surface' = [surface EXCEPT !.dirty = FALSE]
    /\ UNCHANGED <<focus, context, focused, region, pending, prompts, history>>

KeysNext ==
    \/ \E k \in Keys : Press(k)
    \/ Poll \/ ChangePane \/ FocusExplorer \/ ClickFile \/ ClickElsewhere
    \/ ClickTerminalTab \/ ClickEditToggle \/ Saved

KeysSpec == KeysInit /\ [][KeysNext]_vars

-------------------------------------------------------------------------------
\* Properties.

\* The Explorer's keyboard mode is on only while the Explorer has the focus that
\* the screen shows: no way out of the Explorer, by key, by click or by an answer
\* to a question, leaves its keys to the invisible region.
RegionIsFocused == region => focused

\* What tmux should get of a prefix and the key after it.
Reached(k) == sent \o sent' = <<"prefix", k>>

\* A key after a buffered prefix reaches tmux, with the prefix before it and
\* nothing between, whatever the file surface would do with the key, and leaves
\* the region when that is on; polls, clicks and a change of mode may come between
\* the two.  Not so when a click put the focus in the Explorer, see
\* CommandReachesTmux.
BufferedCommandReachesTmux ==
    [][\A k \in TypedKeys \cup CommandKeys :
        /\ armed /\ pending /\ Press(k) /\ k \notin {"0", "prefix"}
        /\ focused => region \/ TmuxPreview
        => Reached(k) /\ ~region']_vars

\* keyevent.rs:274: "For every other command we replay the exact configured
\* prefix first and then let the command key continue".
CommandReachesTmux ==
    [][\A k \in TypedKeys : armed /\ pending /\ Press(k) /\ k # "0" => Reached(k)]_vars
===============================================================================
