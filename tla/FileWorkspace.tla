----------------------------- MODULE FileWorkspace -----------------------------
(***************************************************************************)
(* The file workspace of one window: the FileWorkspaceUi that shows, edits *)
(* and saves one file, the pane context the Explorer polls for it, and the *)
(* thread of FileService that loads and saves.  The user types, opens      *)
(* files, moves the focus between native and tmux panes and closes panes;  *)
(* shells change directory.  The GUI thread handles one key, click or      *)
(* response at a time, so each is one action.                              *)
(***************************************************************************)
EXTENDS FileService

CONSTANTS
    Spots,         \* where input can go: a native pane, or a tmux pane in one
    OuterPane,     \* OuterPane[s]: the native pane of a spot
    TmuxSpots,     \* the spots that are tmux panes
    TmuxWindows,   \* tmux window ids
    NoSpot, NoRoot, NoPath, NoWindow,
    MaxRequests,   \* bound: values of request_id
    MaxMoves,      \* bound: moves of the focus, shells, panes and the window
    PatientUser,   \* assumption: nobody types or saves while a request pends
    KeepsRoots     \* assumption: nobody removes the displayed Explorer root

ASSUME SpotAssumption == TmuxSpots \subseteq Spots /\ NoSpot \notin Spots
ASSUME NoneAssumption ==
    /\ NoRoot \notin Roots /\ NoPath \notin Paths /\ NoWindow \notin TmuxWindows
ASSUME BoundAssumption == MaxRequests \in Nat /\ MaxMoves \in Nat
ASSUME UserAssumption == PatientUser \in BOOLEAN /\ KeepsRoots \in BOOLEAN

Modes == {"Terminal", "View", "Edit"}
Windows == TmuxWindows \cup {NoWindow}

\* PaneContext: where the focus was, its working directory, its tmux window
\* and the tmux panes listed with it.
Contexts == [spot : Spots, cwd : Roots \cup {NoRoot}, window : Windows,
             panes : SUBSET TmuxSpots]
NoContext == [spot |-> NoSpot, cwd |-> NoRoot, window |-> NoWindow, panes |-> {}]

VARIABLES
    fw,                \* FileWorkspaceUi
    active_context,    \* ExplorerUi.active_context
    display_root,      \* ExplorerUi.display_root
    context_response,  \* the ContextResolved in flight
    focused,           \* the spot that has the keyboard
    live,              \* the spots that exist
    place,             \* the working directory and tmux window of each spot
    closing,           \* "open", "confirming" or "closed"
    moves              \* number of moves so far

explorerVars == <<active_context, display_root, context_response>>
paneVars == <<focused, live, place>>
windowVars == <<paneVars, closing, moves>>
vars == <<serviceVars, fw, explorerVars, windowVars>>

WorkspaceUi ==
    [mode : Modes, resume_mode : {"View", "Edit"},
     owner : Spots \cup {NoSpot}, owner_window : Windows,
     owner_root : Roots \cup {NoRoot}, active_path : Paths \cup {NoPath},
     content : Texts, dirty : BOOLEAN, revision : Revisions,
     request_id : Nat, pending_request : Nat]

Places == [cwd : Roots \cup {NoRoot}, window : TmuxWindows]

Init ==
    /\ ServiceInit
    /\ fw = [mode |-> "Terminal", resume_mode |-> "View", owner |-> NoSpot,
             owner_window |-> NoWindow, owner_root |-> NoRoot,
             active_path |-> NoPath, content |-> Empty, dirty |-> FALSE,
             revision |-> NoRevision, request_id |-> 0,
             pending_request |-> NoRequest]
    /\ active_context = NoContext
    /\ display_root = NoRoot
    /\ context_response = NoContext
    /\ focused \in Spots /\ live = Spots
    /\ place \in [Spots -> Places]
    /\ closing = "open" /\ moves = 0

-------------------------------------------------------------------------------
\* Reading the state.

Visible == fw.mode # "Terminal"

\* file_workspace_owns_active_context
OwnsActiveContext ==
    active_context # NoContext /\ fw.owner = active_context.spot

Pending == fw.pending_request # NoRequest

\* next_request_id and reset_for_context take a new number; the bound.
NumbersLeft == fw.request_id < MaxRequests

Patience == PatientUser => ~Pending

-------------------------------------------------------------------------------
\* Updates of the FileWorkspaceUi.

NextRequest(f) ==
    [f EXCEPT !.request_id = @ + 1, !.pending_request = f.request_id + 1]

\* Mutant of Reset: the surface keeps waiting for the answer it gave up.
ResetKeepsPending(f, context, root) ==
    [mode |-> "View", resume_mode |-> "View", owner |-> context.spot,
     owner_window |-> context.window, owner_root |-> root,
     active_path |-> NoPath, content |-> Empty, dirty |-> FALSE,
     revision |-> NoRevision, request_id |-> f.request_id + 1,
     pending_request |-> f.pending_request]

\* reset_for_context
Reset(f, context, root) ==
    [mode |-> "View", resume_mode |-> "View", owner |-> context.spot,
     owner_window |-> context.window, owner_root |-> root,
     active_path |-> NoPath, content |-> Empty, dirty |-> FALSE,
     revision |-> NoRevision, request_id |-> f.request_id + 1,
     pending_request |-> NoRequest]

\* return_to_terminal_workspace
Hidden(f) ==
    [f EXCEPT !.mode = "Terminal",
              !.resume_mode = IF f.mode = "Terminal" THEN @ ELSE f.mode]

\* The fields open_file_workspace_path sets before it sends the request.
Opened(f, path) ==
    LET mine == IF active_context = NoContext THEN f
                ELSE [f EXCEPT !.owner = active_context.spot,
                               !.owner_window = active_context.window]
    IN  [NextRequest(mine) EXCEPT
            !.owner_root = display_root, !.mode = "View",
            !.resume_mode = "View", !.active_path = path, !.content = Empty,
            !.dirty = FALSE, !.revision = NoRevision]

\* The owner is a tmux pane of the focused native pane and is not listed.
OwnerGone(f, context) ==
    /\ f.owner \in TmuxSpots
    /\ OuterPane[f.owner] = OuterPane[context.spot]
    /\ context.panes # {} /\ f.owner \notin context.panes

RootMoved(f, context, root) ==
    f.owner = context.spot /\ root # NoRoot /\ f.owner_root # root

\* Mutant of Reconciled: a moved root resets unsaved text too.
ReconciledDirty(f, context, root) ==
    CASE f.mode = "Terminal" -> f
      [] f.mode # "Terminal" /\ OwnerGone(f, context) -> Hidden(f)
      [] f.mode # "Terminal" /\ ~OwnerGone(f, context) ->
            IF RootMoved(f, context, root) THEN Reset(f, context, root) ELSE f

\* reconcile_file_workspace_context
Reconciled(f, context, root) ==
    CASE f.mode = "Terminal" -> f
      [] f.mode # "Terminal" /\ OwnerGone(f, context) -> Hidden(f)
      [] f.mode # "Terminal" /\ ~OwnerGone(f, context) ->
            IF RootMoved(f, context, root) /\ ~f.dirty
            THEN Reset(f, context, root) ELSE f

-------------------------------------------------------------------------------
\* Keys and clicks.

Ui(f) ==
    /\ closing # "closed"
    /\ fw' = f
    /\ UNCHANGED <<disk, writes, worker, response_rx, explorerVars, windowVars>>

\* Command+S on the surface of the focused pane, the TERMINAL tab, a terminal
\* tab, or Escape in a native preview.
HideSurface ==
    /\ Visible
    /\ Ui(Hidden(fw)) /\ UNCHANGED file_tx

\* Command+S otherwise: show_file_workspace.
ShowSurface ==
    /\ ~(Visible /\ OwnsActiveContext)
    /\ LET moved ==
            \/ fw.owner # active_context.spot
            \/ fw.owner_window # active_context.window
            \/ fw.owner_root # display_root
       IN \/ /\ active_context = NoContext
             /\ Ui([fw EXCEPT !.mode = "View"])
          \/ /\ active_context # NoContext /\ display_root # NoRoot
             /\ moved /\ ~fw.dirty /\ NumbersLeft
             /\ Ui([Reset(fw, active_context, display_root)
                        EXCEPT !.mode = "View"])
          \/ /\ active_context # NoContext /\ display_root # NoRoot
             /\ ~moved \/ fw.dirty
             /\ Ui([fw EXCEPT !.mode = fw.resume_mode])
    /\ UNCHANGED file_tx

LoadRequest(f) ==
    [op |-> "Load", request_id |-> f.request_id, root |-> f.owner_root,
     path |-> f.active_path, content |-> Empty,
     expected_revision |-> NoRevision]

\* A file picked in the Explorer, or named by a shell through COSMOS_FILE_OPEN.
OpenFile(path) ==
    /\ ~(fw.dirty /\ fw.active_path # path)
    /\ display_root # NoRoot /\ NumbersLeft
    /\ Ui(Opened(fw, path)) /\ Send(LoadRequest(Opened(fw, path)))

OpenBlocked(path) ==
    /\ fw.dirty /\ fw.active_path # path
    /\ Ui([fw EXCEPT !.mode = "View"]) /\ UNCHANGED file_tx

\* Command+E and Escape on the surface of the focused pane, or a click on the
\* toggle of any visible surface.
ToggleEdit ==
    /\ Visible
    /\ LET other == IF fw.mode = "View" THEN "Edit" ELSE "View" IN
        Ui([fw EXCEPT !.mode = other, !.resume_mode = other])
    /\ UNCHANGED file_tx

\* Keys that change the text of an edit surface.
Type(text) ==
    /\ fw.mode = "Edit" /\ OwnsActiveContext /\ Patience
    /\ text # fw.content
    /\ Ui([fw EXCEPT !.content = text, !.dirty = TRUE]) /\ UNCHANGED file_tx

\* Command+Return: save_file_workspace.
SaveFile ==
    /\ Visible /\ OwnsActiveContext /\ Patience
    /\ LET root == IF fw.owner_root = NoRoot THEN display_root
                   ELSE fw.owner_root
       IN /\ fw.dirty /\ root # NoRoot /\ fw.active_path # NoPath /\ NumbersLeft
          /\ Ui(NextRequest(fw))
          /\ Send([op |-> "Save", request_id |-> fw.request_id + 1,
                   root |-> root, path |-> fw.active_path,
                   content |-> fw.content, expected_revision |-> fw.revision])

\* Command+Shift+D: dirty is reset, reconcile_file_workspace_context runs, and
\* if it changed nothing the file is opened again.
DiscardEdits ==
    /\ Visible /\ OwnsActiveContext /\ NumbersLeft
    /\ LET clean == [fw EXCEPT !.dirty = FALSE]
           reconciled == Reconciled(clean, active_context, display_root)
       IN \/ reconciled # clean /\ Ui(reconciled) /\ UNCHANGED file_tx
          \/ /\ reconciled = clean
             /\ clean.active_path # NoPath /\ display_root # NoRoot
             /\ Ui(Opened(clean, clean.active_path))
             /\ Send(LoadRequest(Opened(clean, clean.active_path)))
          \/ /\ reconciled = clean
             /\ clean.active_path # NoPath /\ display_root = NoRoot
             /\ Ui(clean) /\ UNCHANGED file_tx
          \/ /\ reconciled = clean /\ clean.active_path = NoPath
             /\ Ui(Hidden(clean)) /\ UNCHANGED file_tx

-------------------------------------------------------------------------------
\* Responses, drained by explorer_tick.

Take ==
    /\ closing # "closed" /\ response_rx # <<>>
    /\ response_rx' = Tail(response_rx)
    /\ UNCHANGED <<disk, writes, file_tx, worker, explorerVars, windowVars>>

\* Mutant of Current: answers are matched by path alone.
CurrentByPath(response) ==
    Pending /\ fw.active_path = response.path

Current(response) ==
    /\ fw.pending_request = response.request_id
    /\ fw.active_path = response.path

Settled(f) == [f EXCEPT !.pending_request = NoRequest]

\* Mutant of ApplyFileLoaded: a failed load leaves the request pending.
ApplyOnlyLoadedText ==
    /\ Take /\ Head(response_rx).op = "Load"
    /\ LET response == Head(response_rx) IN
        IF Current(response) /\ response.error = "none"
        THEN fw' = [Settled(fw) EXCEPT !.content = response.content,
                                       !.revision = response.revision,
                                       !.dirty = FALSE]
        ELSE UNCHANGED fw

ApplyFileLoaded ==
    /\ Take /\ Head(response_rx).op = "Load"
    /\ LET response == Head(response_rx) IN
        \/ /\ Current(response) /\ response.error = "none"
           /\ fw' = [Settled(fw) EXCEPT !.content = response.content,
                                        !.revision = response.revision,
                                        !.dirty = FALSE]
        \/ /\ Current(response) /\ response.error # "none"
           /\ fw' = Settled(fw)
        \/ ~Current(response) /\ UNCHANGED fw

ApplyFileSaved ==
    /\ Take /\ Head(response_rx).op = "Save"
    /\ LET response == Head(response_rx) IN
        \/ /\ Current(response) /\ response.error = "none"
           /\ fw' = [Settled(fw) EXCEPT !.revision = response.revision,
                                        !.dirty = FALSE]
        \/ /\ Current(response) /\ response.error # "none"
           /\ fw' = Settled(fw)
        \/ ~Current(response) /\ UNCHANGED fw

ApplyFileResponse == ApplyFileLoaded \/ ApplyFileSaved

\* A poll: request_explorer_context and the PaneContext::resolve it leads to.
\* The working directory falls back to the last one known.
ResolveContext ==
    /\ closing # "closed" /\ context_response = NoContext
    /\ context_response' =
        [spot |-> focused,
         cwd |-> IF place[focused].cwd # NoRoot THEN place[focused].cwd
                 ELSE active_context.cwd,
         window |-> IF focused \in TmuxSpots THEN place[focused].window
                    ELSE NoWindow,
         panes |-> IF focused \in TmuxSpots
                   THEN {spot \in live \cap TmuxSpots :
                            OuterPane[spot] = OuterPane[focused]}
                   ELSE {}]
    /\ UNCHANGED <<serviceVars, fw, active_context, display_root, windowVars>>

\* ContextResolved: applied when its native pane is still the active one, with
\* the reconcile_file_workspace_context that follows.
ApplyContext ==
    /\ closing # "closed" /\ context_response # NoContext /\ NumbersLeft
    /\ context_response' = NoContext
    /\ IF OuterPane[context_response.spot] = OuterPane[focused]
       THEN /\ active_context' = context_response
            /\ display_root' = IF context_response.cwd = NoRoot
                               THEN display_root ELSE context_response.cwd
            /\ fw' = Reconciled(fw, context_response, display_root')
       ELSE UNCHANGED <<active_context, display_root, fw>>
    /\ UNCHANGED <<serviceVars, windowVars>>

-------------------------------------------------------------------------------
\* The rest of the window and its shells.

Move ==
    /\ closing # "closed" /\ moves < MaxMoves
    /\ moves' = moves + 1
    /\ UNCHANGED <<serviceVars, fw, active_context, context_response>>

\* remove_selected_workspace_root of the displayed root: the first root left.
RemoveDisplayRoot ==
    /\ Move /\ ~KeepsRoots /\ display_root # NoRoot
    /\ display_root' \in (Roots \cup {NoRoot}) \ {display_root}
    /\ UNCHANGED <<paneVars, closing>>

FocusSpot(spot) ==
    /\ Move /\ spot \in live \ {focused}
    /\ focused' = spot
    /\ UNCHANGED <<display_root, live, place, closing>>

ChangePlace(spot, new) ==
    /\ Move /\ spot \in live /\ new # place[spot]
    /\ place' = [place EXCEPT ![spot] = new]
    /\ UNCHANGED <<display_root, focused, live, closing>>

\* A pane exits and the focus moves on; the window goes with its last pane.
PaneDies(spot) ==
    /\ Move /\ spot \in live
    /\ live' = live \ {spot}
    /\ IF live' = {}
       THEN focused' = focused /\ closing' = "closed"
       ELSE /\ focused' \in IF spot = focused THEN live' ELSE {focused}
            /\ UNCHANGED closing
    /\ UNCHANGED <<display_root, place>>

\* Command+W, Command+Q and the window's close button, which ask first unless
\* nothing in the window needs it.
RequestClose ==
    /\ Move /\ closing = "open" /\ ~fw.dirty
    /\ closing' \in {"confirming", "closed"}
    /\ UNCHANGED <<display_root, paneVars>>

ConfirmClose ==
    /\ Move /\ closing = "confirming" /\ closing' = "closed"
    /\ UNCHANGED <<display_root, paneVars>>

CancelClose ==
    /\ Move /\ closing = "confirming" /\ closing' = "open"
    /\ UNCHANGED <<display_root, paneVars>>

-------------------------------------------------------------------------------
User ==
    \/ HideSurface \/ ShowSurface \/ ToggleEdit \/ SaveFile \/ DiscardEdits
    \/ \E path \in Paths : OpenFile(path) \/ OpenBlocked(path)
    \/ \E text \in Texts : Type(text)
    \/ RemoveDisplayRoot
    \/ RequestClose \/ ConfirmClose \/ CancelClose

Shells ==
    \/ \E spot \in Spots : FocusSpot(spot) \/ PaneDies(spot)
    \/ \E spot \in Spots, new \in Places : ChangePlace(spot, new)

Service ==
    /\ Worker \/ OtherPrograms
    /\ UNCHANGED <<fw, explorerVars, windowVars>>

Next ==
    \/ User \/ Shells \/ Service
    \/ ApplyFileResponse \/ ResolveContext \/ ApplyContext

\* The thread serves its queue for ever, and explorer_tick reschedules itself.
Fairness ==
    /\ WF_vars(Worker /\ UNCHANGED <<fw, explorerVars, windowVars>>)
    /\ WF_vars(ApplyFileResponse)

Spec == Init /\ [][Next]_vars /\ Fairness

-------------------------------------------------------------------------------
(* Properties *)

WindowTypeOK ==
    /\ fw \in WorkspaceUi
    /\ active_context \in Contexts \cup {NoContext}
    /\ context_response \in Contexts \cup {NoContext}
    /\ display_root \in Roots \cup {NoRoot}
    /\ focused \in Spots /\ live \subseteq Spots
    /\ place \in [Spots -> Places]
    /\ closing \in {"open", "confirming", "closed"} /\ moves \in Nat

\* Every variable keeps its type; in particular the thread has a request
\* exactly while it is busy, and the queues hold whole requests and responses.
TypeOK == ServiceTypeOK /\ WindowTypeOK

\* The request, answer or job that entered the service last.
InService == file_tx # <<>> \/ step # "Idle" \/ response_rx # <<>>
Newest ==
    IF file_tx # <<>> THEN file_tx[Len(file_tx)]
    ELSE IF step # "Idle" THEN job ELSE response_rx[Len(response_rx)]

\* pending_request always names a request that is still on its way, for the
\* file on the surface: no sequence of opens, discards, surface resets and
\* late answers leaves the surface waiting for an answer that cannot come.
PendingIsOutstanding ==
    Pending => /\ InService
               /\ Newest.request_id = fw.pending_request
               /\ Newest.path = fw.active_path

\* Numbers grow from the answers through the job to the requests not received,
\* and the surface has handed out every one of them.
Ascending(queue) ==
    \A i, j \in 1..Len(queue) :
        i < j => queue[i].request_id < queue[j].request_id
Below(queue, number) ==
    \A i \in 1..Len(queue) : queue[i].request_id < number
Above(queue, number) ==
    \A i \in 1..Len(queue) : number < queue[i].request_id

InOrder ==
    /\ Ascending(file_tx) /\ Ascending(response_rx)
    /\ \A i \in 1..Len(file_tx) : Below(response_rx, file_tx[i].request_id)
    /\ step # "Idle" => /\ Below(response_rx, job.request_id)
                        /\ Above(file_tx, job.request_id)
                        /\ job.request_id <= fw.request_id
    /\ Below(file_tx, fw.request_id + 1)
    /\ Below(response_rx, fw.request_id + 1)

\* Answers arrive in the order of the requests and only the answer to the last
\* request is applied: a load of the file opened before, or a save of the text
\* before, never reaches the surface.
OnlyNewestAnswerApplied ==
    [][ApplyFileResponse /\ Current(Head(response_rx)) =>
            file_tx = <<>> /\ step = "Idle" /\ Len(response_rx) = 1]_vars

\* Text that has a revision was read from, or saved to, a file inside the root
\* the surface belongs to, whatever the surface's owner did meanwhile.
OpenFileInsideOwnerRoot ==
    fw.revision # NoRevision => fw.active_path \in Under[fw.owner_root]

\* A clean surface whose revision is the file's shows the file's text: neither
\* a late answer nor a write by another program makes unsaved or foreign text
\* pass for the file's.
CleanCopyIsTheFile ==
    /\ fw.active_path # NoPath /\ fw.revision # NoRevision /\ ~fw.dirty
    /\ disk[fw.active_path].revision = fw.revision
    => fw.content = disk[fw.active_path].text

\* "refuse to overwrite a file changed externally after it was opened": the
\* rename of a save replaces the very revision that was loaded.
NoLostUpdate ==
    [][SaveRename /\ job.expected_revision # NoRevision =>
            disk[job.path].revision = job.expected_revision]_vars

\* A save is refused as "changed on disk" only when another program was the
\* last to write the file: the window never conflicts with itself.
ConflictOnlyFromOthers ==
    [][SaveConflict => disk[Head(file_tx).path].by = "other"]_vars

\* Unsaved text leaves the surface only when the user edits it, discards it or
\* opens the same file again: context changes, answers and other files do not
\* take it.
DirtyTextKept ==
    [][fw.dirty /\ fw'.content # fw.content =>
            \/ \E text \in Texts : Type(text)
            \/ DiscardEdits \/ OpenFile(fw.active_path)]_vars

\* The abstract service: a request is in its queue until it is answered, and a
\* save has committed once its file is renamed.
Store == INSTANCE FileStore WITH
    files <- disk, clock <- writes,
    queue <- IF step = "Idle" THEN file_tx ELSE <<job>> \o file_tx,
    committed <- step = "Stat", answers <- response_rx

\* The system calls of the thread implement the promise: each save is one
\* compare-and-swap of the file or nothing, each request is answered once and in
\* order, an answer says what happened, whatever fails and whatever other
\* programs write meanwhile (outside the quiet saves).
ImplementsStore == Store!Spec

\* Every request is answered: the surface does not stay pending for ever.
PendingResolves == Pending ~> (~Pending \/ closing = "closed")

\* "retain dirty buffers until the user saves or discards them": an answer to a
\* save makes the surface clean only if the text on it is what was saved, when
\* no other program has written the file since.
CleanOnlyWhenSaved ==
    [][ApplyFileSaved /\ fw.dirty /\ ~fw'.dirty
            /\ disk[fw.active_path].by = "save"
        => disk[fw.active_path].text = fw.content]_vars

\* "Press Command+Return to save or Command+Shift+D to discard": both work only
\* on the surface of the focused pane, so a dirty surface needs a living owner.
DirtyHasLiveOwner == fw.dirty => fw.owner \in live
===============================================================================
