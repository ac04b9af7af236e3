-------------------------- MODULE FileWorkspace_proofs --------------------------
(***************************************************************************)
(* Theorems about FileWorkspace, for every set of files, roots, panes and  *)
(* every bound: its types, that a pending request is always on its way,    *)
(* that only the newest answer is applied, that the text of a loaded file  *)
(* is inside the root of its owner, and that unsaved text stays on the     *)
(* surface until it is saved or discarded.                                 *)
(***************************************************************************)
EXTENDS FileWorkspace, SequenceTheorems, TLAPS

\* A number is a positive natural number, here and below.
USE DEF Numbers

-------------------------------------------------------------------------------
(* The service *)

\* The ends of a queue are elements of it.
LEMMA QueueEnds ==
    ASSUME NEW S, NEW q \in Seq(S), q # <<>>
    PROVE  Head(q) \in S /\ Tail(q) \in Seq(S)
BY HeadTailProperties

\* A reply is a well-formed response that joins the end of response_rx.
LEMMA ReplyType ==
    ASSUME NEW request \in Requests, NEW content \in Texts,
           NEW revision \in Nat, NEW error \in Errors,
           response_rx \in Seq(Responses),
           Reply(request, content, revision, error)
    PROVE  response_rx' \in Seq(Responses)
<1>1. request.op \in {"Load", "Save"} /\ request.request_id \in Numbers
      /\ request.path \in Paths
    BY DEF Requests
<1>2. [op |-> request.op, request_id |-> request.request_id,
       path |-> request.path, content |-> content,
       revision |-> revision, error |-> error] \in Responses
    BY <1>1 DEF Responses, Revisions
<1> QED BY <1>2 DEF Reply

\* A write leaves every path with a content and a revision.
LEMMA WriteType ==
    ASSUME NEW path, NEW text \in Contents, NEW writer \in {"save", "other"},
           disk \in [Paths -> [revision : Revisions, text : Contents,
                               by : {"save", "other"}]],
           writes \in Nat, Write(path, text, writer)
    PROVE  /\ disk' \in [Paths -> [revision : Revisions, text : Contents,
                                   by : {"save", "other"}]]
           /\ writes' \in Nat
<1>1. writes' \in Nat BY DEF Write
<1> DEFINE new == [revision |-> writes + 1, text |-> text, by |-> writer]
<1>2. new \in [revision : Revisions, text : Contents, by : {"save", "other"}]
    BY DEF Revisions
<1>3. disk' = [disk EXCEPT ![path] = new] BY DEF Write
<1> HIDE DEF new
<1> QED BY <1>1, <1>2, <1>3

\* Every step of the thread, and every write of another program, keeps the
\* types of the service.
LEMMA ServiceTypeStep ==
    ASSUME ServiceTypeOK, Worker \/ OtherPrograms
    PROVE  ServiceTypeOK'
<1> USE TextAssumption
<1> USE DEF ServiceTypeOK, Steps
<1>0. ASSUME NEW op, Receive(op)
      PROVE  /\ Head(file_tx) \in Requests /\ file_tx' \in Seq(Requests)
             /\ step = "Idle" /\ job = NoJob
    BY <1>0, QueueEnds DEF Receive
<1>a. "failed" \in Errors /\ "none" \in Errors /\ "conflict" \in Errors
      /\ NoRevision \in Nat
    BY DEF Errors, NoRevision
<1>b. ASSUME step # "Idle", NEW content \in Texts, NEW revision \in Nat,
             NEW error \in Errors, Finish(content, revision, error),
             UNCHANGED <<disk, writes, file_tx>>
      PROVE  ServiceTypeOK'
    <2>1. job \in Requests BY <1>b
    <2>2. response_rx' \in Seq(Responses) BY <1>b, <2>1, ReplyType DEF Finish
    <2> QED BY <1>b, <2>2 DEF Finish, Revisions, NoRevision
<1>c. ASSUME NEW op, NEW error \in Errors, Receive(op),
             Reply(Head(file_tx), Empty, NoRevision, error),
             UNCHANGED <<disk, writes, worker>>
      PROVE  ServiceTypeOK'
    <2>1. response_rx' \in Seq(Responses) BY <1>c, <1>0, <1>a, ReplyType
    <2> QED BY <1>c, <1>0, <2>1 DEF worker
<1>d. ASSUME NEW p \in Paths PROVE disk[p].revision \in Nat
    BY DEF Revisions
<1>e. step # "Idle" => job.path \in Paths /\ job.content \in Texts
    BY DEF Requests
<1>1. CASE LoadMetadata
    <2>1. Head(file_tx).path \in Paths BY <1>1, <1>0 DEF LoadMetadata, Requests
    <2> QED BY <1>1, <1>0, <1>d, <2>1 DEF LoadMetadata, Continue, Revisions
<1>2. CASE LoadRefused BY <1>2, <1>c, <1>a DEF LoadRefused
<1>3. CASE LoadRead BY <1>3, <1>b, <1>a DEF LoadRead, Revisions
<1>4. CASE LoadUnreadable BY <1>4, <1>b, <1>a DEF LoadUnreadable
<1>5. CASE SaveChecked
    <2>1. Head(file_tx).path \in Paths BY <1>5, <1>0 DEF SaveChecked, Requests
    <2> QED BY <1>5, <1>0, <1>d, <2>1 DEF SaveChecked, Continue, Revisions
<1>6. CASE SaveConflict BY <1>6, <1>c, <1>a DEF SaveConflict
<1>7. CASE SaveRefused BY <1>7, <1>c, <1>a DEF SaveRefused
<1>8. CASE SaveRename
    <2>1. job.content \in Contents BY <1>8, <1>e DEF SaveRename, Contents
    <2>2. /\ disk' \in [Paths -> [revision : Revisions, text : Contents,
                                  by : {"save", "other"}]]
          /\ writes' \in Nat
        BY <1>8, <2>1, WriteType DEF SaveRename
    <2> QED BY <1>8, <2>2 DEF SaveRename, Continue
<1>9. CASE SaveAbandoned BY <1>9, <1>b, <1>a DEF SaveAbandoned
<1>10. CASE SaveStat BY <1>10, <1>a, <1>b, <1>d, <1>e DEF SaveStat
<1>11. CASE OtherPrograms
    <2>1. PICK path \in Paths, text \in Contents : OtherWrites(path, text)
        BY <1>11 DEF OtherPrograms
    <2>2. /\ disk' \in [Paths -> [revision : Revisions, text : Contents,
                                  by : {"save", "other"}]]
          /\ writes' \in Nat
        BY <2>1, WriteType DEF OtherWrites
    <2> QED BY <2>1, <2>2 DEF OtherWrites, worker
<1> QED BY <1>1, <1>2, <1>3, <1>4, <1>5, <1>6, <1>7, <1>8, <1>9, <1>10, <1>11
        DEF Worker

-------------------------------------------------------------------------------
(* The window *)

\* The updates of the surface produce surfaces.
LEMMA ResetType ==
    ASSUME NEW f \in WorkspaceUi, NEW context \in Contexts,
           NEW root \in Roots
    PROVE  Reset(f, context, root) \in WorkspaceUi
BY TextAssumption
   DEF Reset, WorkspaceUi, Contexts, Modes, Revisions, NoRevision, NoRequest

LEMMA HiddenType ==
    ASSUME NEW f \in WorkspaceUi
    PROVE  Hidden(f) \in WorkspaceUi
BY DEF Hidden, WorkspaceUi, Modes

LEMMA ReconciledType ==
    ASSUME NEW f \in WorkspaceUi, NEW context \in Contexts,
           NEW root \in Roots \cup {NoRoot}
    PROVE  Reconciled(f, context, root) \in WorkspaceUi
<1>1. RootMoved(f, context, root) => root \in Roots BY DEF RootMoved
<1> QED BY <1>1, ResetType, HiddenType DEF Reconciled

LEMMA NextRequestType ==
    ASSUME NEW f \in WorkspaceUi
    PROVE  NextRequest(f) \in WorkspaceUi
<1>1. f.request_id + 1 \in Nat BY DEF WorkspaceUi
<1>2. NextRequest(f) = [f EXCEPT !.request_id = f.request_id + 1,
                                 !.pending_request = f.request_id + 1]
    BY DEF NextRequest, WorkspaceUi
<1> DEFINE id == f.request_id + 1
<1> HIDE DEF id
<1>3. [f EXCEPT !.request_id = id, !.pending_request = id] \in WorkspaceUi
    BY <1>1 DEF WorkspaceUi, id
<1> QED BY <1>2, <1>3 DEF id

\* The surface numbers its requests upwards.
LEMMA OpenedNumber ==
    ASSUME NEW f \in WorkspaceUi, NEW path
    PROVE  Opened(f, path).request_id = f.request_id + 1
<1> DEFINE mine == IF active_context = NoContext THEN f
                   ELSE [f EXCEPT !.owner = active_context.spot,
                                  !.owner_window = active_context.window]
<1>1. /\ mine.request_id = f.request_id
      /\ "request_id" \in DOMAIN mine /\ "pending_request" \in DOMAIN mine
    BY DEF WorkspaceUi
<1>2. Opened(f, path) =
        [NextRequest(mine) EXCEPT
            !.owner_root = display_root, !.mode = "View",
            !.resume_mode = "View", !.active_path = path, !.content = Empty,
            !.dirty = FALSE, !.revision = NoRevision]
    BY DEF Opened
<1> HIDE DEF mine
<1>3. NextRequest(mine).request_id = f.request_id + 1 BY <1>1 DEF NextRequest
<1> QED BY <1>2, <1>3

\* Opening a file leaves a surface whose load request is well formed.
LEMMA OpenedType ==
    ASSUME NEW f \in WorkspaceUi, NEW path \in Paths,
           WindowTypeOK, display_root # NoRoot
    PROVE  /\ Opened(f, path) \in WorkspaceUi
           /\ LoadRequest(Opened(f, path)) \in Requests
<1> DEFINE mine == IF active_context = NoContext THEN f
                   ELSE [f EXCEPT !.owner = active_context.spot,
                                  !.owner_window = active_context.window]
<1>1. mine \in WorkspaceUi
    BY DEF WindowTypeOK, WorkspaceUi, Contexts
<1>2. NextRequest(mine) \in WorkspaceUi BY <1>1, NextRequestType
<1>3. Opened(f, path) =
        [NextRequest(mine) EXCEPT
            !.owner_root = display_root, !.mode = "View",
            !.resume_mode = "View", !.active_path = path, !.content = Empty,
            !.dirty = FALSE, !.revision = NoRevision]
    BY DEF Opened
<1> HIDE DEF mine
<1>4. display_root \in Roots BY DEF WindowTypeOK
<1>a. Empty \in Texts /\ NoRevision \in Revisions /\ "View" \in Modes
    BY TextAssumption DEF Revisions, NoRevision, Modes
<1>b. ASSUME NEW g \in WorkspaceUi
      PROVE  [g EXCEPT !.owner_root = display_root, !.mode = "View",
                       !.resume_mode = "View", !.active_path = path,
                       !.content = Empty, !.dirty = FALSE,
                       !.revision = NoRevision] \in WorkspaceUi
    BY <1>4, <1>a DEF WorkspaceUi
<1>5. Opened(f, path) \in WorkspaceUi BY <1>2, <1>3, <1>b
<1>6. Opened(f, path).owner_root = display_root
      /\ Opened(f, path).active_path = path
    BY <1>2, <1>3 DEF WorkspaceUi
<1>7. Opened(f, path).request_id = f.request_id + 1 BY OpenedNumber
<1>8. f.request_id \in Nat BY DEF WorkspaceUi
<1> QED BY <1>4, <1>5, <1>6, <1>7, <1>8, TextAssumption
        DEF LoadRequest, Requests, WorkspaceUi, Revisions, NoRevision

\* A key or click that gives the surface a well-formed state, and sends
\* nothing or a well-formed request, keeps every type.
LEMMA UiTypeStep ==
    ASSUME TypeOK, NEW f \in WorkspaceUi, Ui(f),
           UNCHANGED file_tx \/ \E request \in Requests : Send(request)
    PROVE  TypeOK'
<1>1. file_tx' \in Seq(Requests)
    BY AppendProperties DEF TypeOK, ServiceTypeOK, Send
<1> QED BY <1>1 DEF TypeOK, ServiceTypeOK, WindowTypeOK, Ui, worker,
                     explorerVars, windowVars, paneVars

LEMMA UserTypeStep ==
    ASSUME TypeOK, User PROVE TypeOK'
<1>0. fw \in WorkspaceUi /\ WindowTypeOK BY DEF TypeOK, WindowTypeOK
<1>a. ASSUME active_context # NoContext PROVE active_context \in Contexts
    BY <1>0, <1>a DEF WindowTypeOK
<1>1. CASE HideSurface
    BY <1>1, <1>0, HiddenType, UiTypeStep DEF HideSurface
<1>2. CASE ShowSurface
    <2>1. \A mode \in Modes : [fw EXCEPT !.mode = mode] \in WorkspaceUi
        BY <1>0 DEF WorkspaceUi
    <2>2. "View" \in Modes /\ fw.resume_mode \in Modes
        BY <1>0 DEF WorkspaceUi, Modes
    <2>3. ASSUME active_context # NoContext, display_root # NoRoot
          PROVE  [Reset(fw, active_context, display_root)
                    EXCEPT !.mode = "View"] \in WorkspaceUi
        <3>1. display_root \in Roots BY <2>3, <1>0 DEF WindowTypeOK
        <3>2. Reset(fw, active_context, display_root) \in WorkspaceUi
            BY <3>1, <2>3, <1>a, <1>0, ResetType
        <3> QED BY <3>2 DEF WorkspaceUi, Modes
    <2> QED BY <1>2, <2>1, <2>2, <2>3, UiTypeStep DEF ShowSurface
<1>3. CASE ToggleEdit
    <2>1. \A mode \in {"View", "Edit"} :
            [fw EXCEPT !.mode = mode, !.resume_mode = mode] \in WorkspaceUi
        BY <1>0 DEF WorkspaceUi, Modes
    <2> QED BY <1>3, <2>1, UiTypeStep DEF ToggleEdit
<1>4. CASE SaveFile
    <2>1. NextRequest(fw) \in WorkspaceUi BY <1>0, NextRequestType
    <2>2. ASSUME NEW root \in Roots \cup {NoRoot}, root # NoRoot,
                 fw.active_path # NoPath
          PROVE  [op |-> "Save", request_id |-> fw.request_id + 1,
                  root |-> root, path |-> fw.active_path,
                  content |-> fw.content,
                  expected_revision |-> fw.revision] \in Requests
        BY <1>0, <2>2 DEF WorkspaceUi, Requests
    <2>3. (IF fw.owner_root = NoRoot THEN display_root ELSE fw.owner_root)
            \in Roots \cup {NoRoot}
        BY <1>0 DEF WindowTypeOK, WorkspaceUi
    <2> QED BY <1>4, <2>1, <2>2, <2>3, UiTypeStep DEF SaveFile
<1>5. CASE DiscardEdits
    <2> DEFINE clean == [fw EXCEPT !.dirty = FALSE]
    <2>1. clean \in WorkspaceUi BY <1>0 DEF WorkspaceUi
    <2>2. Reconciled(clean, active_context, display_root) \in WorkspaceUi
        BY <1>5, <1>0, <1>a, <2>1, ReconciledType
           DEF DiscardEdits, OwnsActiveContext, WindowTypeOK
    <2>3. Hidden(clean) \in WorkspaceUi BY <2>1, HiddenType
    <2>4. clean.active_path # NoPath => clean.active_path \in Paths
        BY <2>1 DEF WorkspaceUi
    <2> HIDE DEF clean
    <2>5. ASSUME clean.active_path # NoPath, display_root # NoRoot
          PROVE  /\ Opened(clean, clean.active_path) \in WorkspaceUi
                 /\ LoadRequest(Opened(clean, clean.active_path)) \in Requests
        BY <2>1, <2>4, <2>5, <1>0, OpenedType
    <2> QED BY <1>5, <2>1, <2>2, <2>3, <2>5, UiTypeStep
            DEF DiscardEdits, clean
<1>6. CASE \E path \in Paths : OpenFile(path)
    BY <1>6, <1>0, OpenedType, UiTypeStep DEF OpenFile
<1>7. CASE \E path \in Paths : OpenBlocked(path)
    <2>1. [fw EXCEPT !.mode = "View"] \in WorkspaceUi
        BY <1>0 DEF WorkspaceUi, Modes
    <2> QED BY <1>7, <2>1, UiTypeStep DEF OpenBlocked
<1>8. CASE \E text \in Texts : Type(text)
    <2>1. \A text \in Texts :
            [fw EXCEPT !.content = text, !.dirty = TRUE] \in WorkspaceUi
        BY <1>0 DEF WorkspaceUi
    <2> QED BY <1>8, <2>1, UiTypeStep DEF Type
<1>9. CASE RemoveDisplayRoot \/ RequestClose \/ ConfirmClose \/ CancelClose
    BY <1>9 DEF TypeOK, ServiceTypeOK, WindowTypeOK, RemoveDisplayRoot,
                RequestClose, ConfirmClose, CancelClose, Move, serviceVars,
                worker, paneVars
<1> QED BY <1>1, <1>2, <1>3, <1>4, <1>5, <1>6, <1>7, <1>8, <1>9 DEF User

LEMMA ShellsTypeStep ==
    ASSUME TypeOK, Shells PROVE TypeOK'
BY DEF TypeOK, ServiceTypeOK, WindowTypeOK, Shells, FocusSpot, PaneDies,
       ChangePlace, Move, serviceVars, worker

LEMMA ResponseTypeStep ==
    ASSUME TypeOK, ApplyFileResponse PROVE TypeOK'
<1>1. fw \in WorkspaceUi /\ response_rx \in Seq(Responses)
    BY DEF TypeOK, WindowTypeOK, ServiceTypeOK
<1>2. Take BY DEF ApplyFileResponse, ApplyFileLoaded, ApplyFileSaved
<1>3. Head(response_rx) \in Responses /\ response_rx' \in Seq(Responses)
    BY <1>1, <1>2, QueueEnds DEF Take
<1>4. Settled(fw) \in WorkspaceUi BY <1>1 DEF Settled, WorkspaceUi, NoRequest
<1>5. [Settled(fw) EXCEPT !.content = Head(response_rx).content,
                          !.revision = Head(response_rx).revision,
                          !.dirty = FALSE] \in WorkspaceUi
    BY <1>3, <1>4 DEF WorkspaceUi, Responses
<1>6. [Settled(fw) EXCEPT !.revision = Head(response_rx).revision,
                          !.dirty = FALSE] \in WorkspaceUi
    BY <1>3, <1>4 DEF WorkspaceUi, Responses
<1>7. fw' \in WorkspaceUi
    BY <1>1, <1>4, <1>5, <1>6
       DEF ApplyFileResponse, ApplyFileLoaded, ApplyFileSaved
<1> QED BY <1>2, <1>3, <1>7
        DEF Take, TypeOK, ServiceTypeOK, WindowTypeOK, worker, explorerVars,
            windowVars, paneVars

LEMMA ContextTypeStep ==
    ASSUME TypeOK, ResolveContext \/ ApplyContext PROVE TypeOK'
<1>0. WindowTypeOK BY DEF TypeOK
<1>1. CASE ResolveContext
    <2>1. active_context.cwd \in Roots \cup {NoRoot}
        BY <1>0 DEF WindowTypeOK, Contexts, NoContext
    <2>2. place[focused] \in Places BY <1>0 DEF WindowTypeOK
    <2>3. context_response' \in Contexts
        BY <1>0, <1>1, <2>1, <2>2
           DEF ResolveContext, WindowTypeOK, Contexts, Places, Windows
    <2> QED BY <1>1, <2>3
            DEF ResolveContext, TypeOK, ServiceTypeOK, WindowTypeOK,
                serviceVars, worker, windowVars, paneVars
<1>2. CASE ApplyContext
    <2>1. context_response \in Contexts
        BY <1>0, <1>2 DEF ApplyContext, WindowTypeOK
    <2>2. display_root' \in Roots \cup {NoRoot}
        BY <1>0, <1>2, <2>1 DEF ApplyContext, WindowTypeOK, Contexts
    <2>3. Reconciled(fw, context_response, display_root') \in WorkspaceUi
        BY <1>0, <2>1, <2>2, ReconciledType DEF WindowTypeOK
    <2> QED BY <1>2, <2>1, <2>2, <2>3
            DEF ApplyContext, TypeOK, ServiceTypeOK, WindowTypeOK,
                serviceVars, worker, windowVars, paneVars
<1> QED BY <1>1, <1>2

\* TypeOK is an invariant of every instance: no sequence of keys, answers,
\* context changes and foreign writes breaks the shape of the surface, of the
\* queues or of the thread's job.
THEOREM TypeCorrect == Spec => []TypeOK
<1>1. Init => TypeOK
    BY TextAssumption
       DEF Init, ServiceInit, TypeOK, ServiceTypeOK, WindowTypeOK, Steps,
           WorkspaceUi, Modes, Windows, Revisions, NoRevision, NoRequest
<1>2. TypeOK /\ [Next]_vars => TypeOK'
    <2> SUFFICES ASSUME TypeOK, [Next]_vars PROVE TypeOK'
        OBVIOUS
    <2>1. CASE User BY <2>1, UserTypeStep
    <2>2. CASE Shells BY <2>2, ShellsTypeStep
    <2>3. CASE Service
        BY <2>3, ServiceTypeStep
           DEF Service, TypeOK, WindowTypeOK, explorerVars, windowVars, paneVars
    <2>4. CASE ApplyFileResponse BY <2>4, ResponseTypeStep
    <2>5. CASE ResolveContext \/ ApplyContext BY <2>5, ContextTypeStep
    <2>6. CASE UNCHANGED vars
        BY <2>6 DEF vars, TypeOK, ServiceTypeOK, WindowTypeOK, serviceVars,
                    worker, explorerVars, windowVars, paneVars
    <2> QED BY <2>1, <2>2, <2>3, <2>4, <2>5, <2>6 DEF Next
<1> QED BY <1>1, <1>2, PTL DEF Spec

-------------------------------------------------------------------------------
(* Requests on their way *)

\* What is sent, being served and answered, seen by its number and its file.
\* Reset, NextRequest and Opened are the only ones to touch the pending number.

\* The surface is not waiting, or waits for what it waited for before.
KeepsWaiting(f) ==
    \/ f.pending_request = NoRequest
    \/ f.pending_request = fw.pending_request /\ f.active_path = fw.active_path

LEMMA HiddenKeepsWaiting ==
    ASSUME fw \in WorkspaceUi PROVE KeepsWaiting(Hidden(fw))
BY DEF Hidden, KeepsWaiting, WorkspaceUi

LEMMA ReconciledKeepsWaiting ==
    ASSUME NEW f \in WorkspaceUi, KeepsWaiting(f), NEW context, NEW root
    PROVE  KeepsWaiting(Reconciled(f, context, root))
<1>1. KeepsWaiting(Hidden(f)) BY DEF Hidden, KeepsWaiting, WorkspaceUi
<1>2. KeepsWaiting(Reset(f, context, root)) BY DEF Reset, KeepsWaiting
<1> QED BY <1>1, <1>2 DEF Reconciled

\* A step that leaves the service alone keeps the pending request on its way.
LEMMA PendingQuietStep ==
    ASSUME PendingIsOutstanding, KeepsWaiting(fw'),
           UNCHANGED <<file_tx, step, job, response_rx>>
    PROVE  PendingIsOutstanding'
BY DEF PendingIsOutstanding, KeepsWaiting, Pending, InService, Newest

\* A request that is sent is the newest.
LEMMA PendingSend ==
    ASSUME file_tx \in Seq(Requests), NEW request \in Requests, Send(request),
           fw'.pending_request = request.request_id,
           fw'.active_path = request.path
    PROVE  PendingIsOutstanding'
<1>1. file_tx' # <<>> /\ file_tx'[Len(file_tx')] = request
    BY AppendProperties DEF Send
<1> QED BY <1>1 DEF PendingIsOutstanding, InService, Newest

\* Receiving leaves the newest request in place; a reply becomes the newest.
LEMMA ReceiveNewest ==
    ASSUME TypeOK, NEW op, Receive(op)
    PROVE  /\ file_tx # <<>> /\ step = "Idle" /\ file_tx' = Tail(file_tx)
           /\ Head(file_tx) \in Requests
           /\ file_tx' = <<>> => file_tx[Len(file_tx)] = Head(file_tx)
           /\ file_tx' # <<>> =>
                  file_tx'[Len(file_tx')] = file_tx[Len(file_tx)]
<1>1. file_tx \in Seq(Requests) BY DEF TypeOK, ServiceTypeOK
<1>2. file_tx # <<>> /\ step = "Idle" /\ file_tx' = Tail(file_tx)
    BY DEF Receive
<1>3. /\ Len(file_tx) \in Nat \ {0}
      /\ Len(file_tx') = Len(file_tx) - 1
      /\ \A i \in 1..Len(file_tx') : file_tx'[i] = file_tx[i + 1]
      /\ Head(file_tx) = file_tx[1]
    BY <1>1, <1>2, HeadTailProperties
<1>4. file_tx' = <<>> => Len(file_tx) = 1 BY <1>3
<1>5. file_tx' # <<>> => Len(file_tx') \in 1..Len(file_tx')
    BY <1>1, <1>2, <1>3, QueueEnds, EmptySeq
<1>6. Head(file_tx) \in Requests BY <1>1, <1>2, QueueEnds
<1> QED BY <1>2, <1>3, <1>4, <1>5, <1>6

LEMMA ReplyNewest ==
    ASSUME TypeOK, NEW request, NEW content, NEW revision, NEW error,
           Reply(request, content, revision, error)
    PROVE  /\ response_rx' # <<>>
           /\ response_rx'[Len(response_rx')].request_id = request.request_id
           /\ response_rx'[Len(response_rx')].path = request.path
           /\ response_rx'[Len(response_rx')].error = error
<1> DEFINE new == [op |-> request.op, request_id |-> request.request_id,
                   path |-> request.path, content |-> content,
                   revision |-> revision, error |-> error]
<1>1. response_rx' = Append(response_rx, new) BY DEF Reply
<1>2. /\ new.request_id = request.request_id /\ new.path = request.path
      /\ new.error = error
    OBVIOUS
<1> HIDE DEF new
<1>3. response_rx \in Seq(Responses \cup {new})
    BY SeqDef DEF TypeOK, ServiceTypeOK
<1>4. /\ Len(response_rx') = Len(response_rx) + 1
      /\ response_rx'[Len(response_rx) + 1] = new
      /\ response_rx' # <<>>
    BY <1>1, <1>3, AppendProperties
<1> QED BY <1>2, <1>4

\* The thread hands the newest request on without losing or changing it.
LEMMA PendingWorkerStep ==
    ASSUME TypeOK, PendingIsOutstanding, Worker, UNCHANGED fw
    PROVE  PendingIsOutstanding'
<1>1. ASSUME NEW op, NEW error, Receive(op), UNCHANGED worker,
             Reply(Head(file_tx), Empty, NoRevision, error)
      PROVE  PendingIsOutstanding'
    BY <1>1, ReceiveNewest, ReplyNewest
       DEF PendingIsOutstanding, Pending, InService, Newest, worker
<1>2. ASSUME NEW content, NEW revision, NEW error, step # "Idle",
             Finish(content, revision, error), UNCHANGED file_tx
      PROVE  PendingIsOutstanding'
    <2>1. Reply(job, content, revision, error) /\ step' = "Idle"
        BY <1>2 DEF Finish
    <2> QED BY <1>2, <2>1, ReplyNewest
            DEF PendingIsOutstanding, Pending, InService, Newest
<1>3. ASSUME NEW op, NEW next_step, NEW revision, Receive(op),
             Continue(next_step, Head(file_tx), revision),
             next_step # "Idle", UNCHANGED response_rx
      PROVE  PendingIsOutstanding'
    BY <1>3, ReceiveNewest
       DEF PendingIsOutstanding, Pending, InService, Newest, Continue
<1>4. CASE SaveRename
    BY <1>4 DEF SaveRename, Continue, PendingIsOutstanding, Pending, InService,
                Newest
<1>5. CASE LoadMetadata BY <1>5, <1>3 DEF LoadMetadata
<1>6. CASE SaveChecked BY <1>6, <1>3 DEF SaveChecked
<1>7. CASE LoadRefused \/ SaveConflict \/ SaveRefused
    BY <1>7, <1>1 DEF LoadRefused, SaveConflict, SaveRefused
<1>8. CASE LoadRead \/ LoadUnreadable \/ SaveAbandoned \/ SaveStat
    BY <1>8, <1>2 DEF LoadRead, LoadUnreadable, SaveAbandoned, SaveStat
<1> QED BY <1>4, <1>5, <1>6, <1>7, <1>8 DEF Worker

\* An answer that is taken was not the newest, or settles the request.
LEMMA PendingResponseStep ==
    ASSUME TypeOK, PendingIsOutstanding, ApplyFileResponse
    PROVE  PendingIsOutstanding'
<1>1. Take BY DEF ApplyFileResponse, ApplyFileLoaded, ApplyFileSaved
<1>2. fw \in WorkspaceUi /\ response_rx \in Seq(Responses)
    BY DEF TypeOK, ServiceTypeOK, WindowTypeOK
<1>3. CASE Current(Head(response_rx))
    <2>1. fw'.pending_request = NoRequest
        BY <1>2, <1>3 DEF ApplyFileResponse, ApplyFileLoaded, ApplyFileSaved,
                          Settled, WorkspaceUi
    <2> QED BY <2>1 DEF PendingIsOutstanding, Pending
<1>4. CASE ~Current(Head(response_rx))
    <2>1. fw' = fw /\ UNCHANGED <<file_tx, step, job>>
        BY <1>1, <1>4 DEF ApplyFileResponse, ApplyFileLoaded, ApplyFileSaved,
                          Take, worker
    <2>2. /\ Len(response_rx) \in Nat \ {0}
          /\ Len(response_rx') = Len(response_rx) - 1
          /\ \A i \in 1..Len(response_rx') :
                response_rx'[i] = response_rx[i + 1]
          /\ Head(response_rx) = response_rx[1]
          /\ response_rx' \in Seq(Responses)
        BY <1>1, <1>2, HeadTailProperties DEF Take
    <2>3. CASE response_rx' = <<>>
        <3>0. Len(response_rx') = 0 BY <2>3, EmptySeq
        <3>a. Len(response_rx) = 1 BY <2>2, <3>0
        <3>1. Head(response_rx) = response_rx[Len(response_rx)] BY <2>2, <3>a
        <3> QED BY <1>4, <2>1, <2>3, <3>1
                DEF PendingIsOutstanding, Pending, InService, Newest, Current
    <2>4. CASE response_rx' # <<>>
        <3>1. Len(response_rx') \in 1..Len(response_rx') BY <2>2, <2>4, EmptySeq
        <3>2. response_rx'[Len(response_rx')] = response_rx[Len(response_rx)]
            BY <2>2, <3>1
        <3> QED BY <2>1, <2>4, <3>2
                DEF PendingIsOutstanding, Pending, InService, Newest
    <2> QED BY <2>3, <2>4
<1> QED BY <1>3, <1>4

LEMMA PendingUserStep ==
    ASSUME TypeOK, PendingIsOutstanding, User
    PROVE  PendingIsOutstanding'
<1>0. fw \in WorkspaceUi /\ file_tx \in Seq(Requests) /\ WindowTypeOK
    BY DEF TypeOK, WindowTypeOK, ServiceTypeOK
<1>a. ASSUME NEW f, Ui(f), KeepsWaiting(f), UNCHANGED file_tx
      PROVE  PendingIsOutstanding'
    BY <1>a, PendingQuietStep DEF Ui, worker
<1>b. ASSUME NEW f \in WorkspaceUi, NEW path \in Paths, Ui(Opened(f, path)),
             display_root # NoRoot, Send(LoadRequest(Opened(f, path)))
      PROVE  PendingIsOutstanding'
    <2>1. LoadRequest(Opened(f, path)) \in Requests BY <1>b, <1>0, OpenedType
    <2>2. /\ Opened(f, path).pending_request = Opened(f, path).request_id
          /\ Opened(f, path) = fw'
        BY <1>b DEF Ui, Opened, NextRequest, WorkspaceUi
    <2> QED BY <1>0, <1>b, <2>1, <2>2, PendingSend DEF LoadRequest
<1>1. CASE HideSurface
    BY <1>1, <1>0, <1>a, HiddenKeepsWaiting DEF HideSurface
<1>2. CASE ShowSurface
    <2>1. \A mode : KeepsWaiting([fw EXCEPT !.mode = mode])
        BY <1>0 DEF KeepsWaiting, WorkspaceUi
    <2>2. KeepsWaiting([Reset(fw, active_context, display_root)
                            EXCEPT !.mode = "View"])
        BY DEF KeepsWaiting, Reset
    <2> QED BY <1>2, <2>1, <2>2, <1>a DEF ShowSurface
<1>3. CASE ToggleEdit
    <2>1. \A mode : KeepsWaiting([fw EXCEPT !.mode = mode,
                                            !.resume_mode = mode])
        BY <1>0 DEF KeepsWaiting, WorkspaceUi
    <2> QED BY <1>3, <2>1, <1>a DEF ToggleEdit
<1>4. CASE SaveFile
    <2>1. PICK root \in Roots :
            Send([op |-> "Save", request_id |-> fw.request_id + 1,
                  root |-> root, path |-> fw.active_path,
                  content |-> fw.content,
                  expected_revision |-> fw.revision])
        BY <1>4, <1>0 DEF SaveFile, WorkspaceUi, WindowTypeOK
    <2>2. [op |-> "Save", request_id |-> fw.request_id + 1,
           root |-> root, path |-> fw.active_path, content |-> fw.content,
           expected_revision |-> fw.revision] \in Requests
        BY <1>4, <1>0 DEF SaveFile, WorkspaceUi, Requests
    <2>3. /\ fw'.pending_request = fw.request_id + 1
          /\ fw'.active_path = fw.active_path
        BY <1>4, <1>0 DEF SaveFile, Ui, NextRequest, WorkspaceUi
    <2> QED BY <1>0, <2>1, <2>2, <2>3, PendingSend
<1>5. CASE DiscardEdits
    <2> DEFINE clean == [fw EXCEPT !.dirty = FALSE]
    <2>1. clean \in WorkspaceUi /\ KeepsWaiting(clean)
        BY <1>0 DEF WorkspaceUi, KeepsWaiting
    <2>2. KeepsWaiting(Hidden(clean))
        BY <2>1 DEF Hidden, KeepsWaiting, WorkspaceUi
    <2>3. KeepsWaiting(Reconciled(clean, active_context, display_root))
        BY <2>1, ReconciledKeepsWaiting
    <2>4. clean.active_path # NoPath => clean.active_path \in Paths
        BY <2>1 DEF WorkspaceUi
    <2> HIDE DEF clean
    <2> QED BY <1>5, <1>a, <1>b, <2>1, <2>2, <2>3, <2>4
            DEF DiscardEdits, clean
<1>6. CASE \E path \in Paths : OpenFile(path)
    BY <1>6, <1>0, <1>b DEF OpenFile
<1>7. CASE \E path \in Paths : OpenBlocked(path)
    <2>1. KeepsWaiting([fw EXCEPT !.mode = "View"])
        BY <1>0 DEF KeepsWaiting, WorkspaceUi
    <2> QED BY <1>7, <2>1, <1>a DEF OpenBlocked
<1>8. CASE \E text \in Texts : Type(text)
    <2>1. \A text : KeepsWaiting([fw EXCEPT !.content = text, !.dirty = TRUE])
        BY <1>0 DEF KeepsWaiting, WorkspaceUi
    <2> QED BY <1>8, <2>1, <1>a DEF Type
<1>9. CASE RemoveDisplayRoot \/ RequestClose \/ ConfirmClose \/ CancelClose
    BY <1>9, PendingQuietStep
       DEF RemoveDisplayRoot, RequestClose, ConfirmClose, CancelClose, Move,
           serviceVars, worker, KeepsWaiting
<1> QED BY <1>1, <1>2, <1>3, <1>4, <1>5, <1>6, <1>7, <1>8, <1>9 DEF User

\* PendingIsOutstanding is an invariant of every instance: the surface never
\* waits for an answer that is no longer on its way.
THEOREM PendingCorrect == Spec => []PendingIsOutstanding
<1>1. Init => PendingIsOutstanding
    BY DEF Init, PendingIsOutstanding, Pending
<1>2. TypeOK /\ PendingIsOutstanding /\ [Next]_vars => PendingIsOutstanding'
    <2> SUFFICES ASSUME TypeOK, PendingIsOutstanding, [Next]_vars
                 PROVE  PendingIsOutstanding'
        OBVIOUS
    <2>1. CASE User BY <2>1, PendingUserStep
    <2>2. CASE Shells \/ ResolveContext
        BY <2>2, PendingQuietStep
           DEF Shells, FocusSpot, PaneDies, ChangePlace, Move, ResolveContext,
               serviceVars, worker, KeepsWaiting
    <2>3. CASE Service /\ Worker BY <2>3, PendingWorkerStep DEF Service
    <2>4. CASE Service /\ OtherPrograms
        BY <2>4, PendingQuietStep
           DEF Service, OtherPrograms, OtherWrites, worker, KeepsWaiting
    <2>5. CASE ApplyFileResponse BY <2>5, PendingResponseStep
    <2>6. CASE ApplyContext
        <3>1. fw \in WorkspaceUi /\ KeepsWaiting(fw)
            BY DEF TypeOK, WindowTypeOK, KeepsWaiting
        <3>2. KeepsWaiting(Reconciled(fw, context_response, display_root'))
            BY <3>1, ReconciledKeepsWaiting
        <3>3. KeepsWaiting(fw') BY <2>6, <3>1, <3>2 DEF ApplyContext
        <3> QED BY <2>6, <3>3, PendingQuietStep
                DEF ApplyContext, serviceVars, worker
    <2>7. CASE UNCHANGED vars
        BY <2>7, PendingQuietStep DEF vars, serviceVars, worker, KeepsWaiting
    <2> QED BY <2>1, <2>2, <2>3, <2>4, <2>5, <2>6, <2>7 DEF Next, Service
<1> QED BY <1>1, <1>2, TypeCorrect, PTL DEF Spec

-------------------------------------------------------------------------------
(* The order of requests and answers *)

\* Taking the first element of a queue and adding a larger last one keep it
\* ascending, and keep its bounds.
LEMMA TailOrder ==
    ASSUME NEW S, NEW q \in Seq(S), q # <<>>
    PROVE  /\ \A n : Below(q, n) => Below(Tail(q), n)
           /\ \A n : Above(q, n) => Above(Tail(q), n)
           /\ Ascending(q) => /\ Ascending(Tail(q))
                              /\ Above(Tail(q), Head(q).request_id)
           /\ \A i \in 1..Len(Tail(q)) : i + 1 \in 1..Len(q)
           /\ 1 \in 1..Len(q)
           /\ \A i \in 1..Len(Tail(q)) : Tail(q)[i] = q[i + 1]
           /\ Head(q) = q[1]
<1>1. /\ Len(q) \in Nat \ {0} /\ Len(Tail(q)) = Len(q) - 1
      /\ \A i \in 1..Len(Tail(q)) : Tail(q)[i] = q[i + 1]
      /\ Head(q) = q[1]
    BY HeadTailProperties
<1>2. /\ \A i \in 1..Len(Tail(q)) : i + 1 \in 1..Len(q) /\ 1 < i + 1
      /\ 1 \in 1..Len(q)
    BY <1>1
<1> QED BY <1>1, <1>2 DEF Below, Above, Ascending

LEMMA AppendOrder ==
    ASSUME NEW S, NEW q \in Seq(S), NEW e, e.request_id \in Nat
    PROVE  /\ Ascending(q) /\ Below(q, e.request_id)
                => Ascending(Append(q, e))
           /\ \A n : Below(q, n) /\ e.request_id < n => Below(Append(q, e), n)
           /\ \A n : Above(q, n) /\ n < e.request_id => Above(Append(q, e), n)
           /\ Len(Append(q, e)) = Len(q) + 1
           /\ \A i \in 1..Len(q) : Append(q, e)[i] = q[i]
           /\ Append(q, e)[Len(q) + 1] = e
<1>1. q \in Seq(S \cup {e}) BY SeqDef
<1>2. /\ Len(q) \in Nat /\ Len(Append(q, e)) = Len(q) + 1
      /\ \A i \in 1..Len(q) : Append(q, e)[i] = q[i]
      /\ Append(q, e)[Len(q) + 1] = e
    BY <1>1, AppendProperties, LenProperties
<1>3. \A i \in 1..Len(Append(q, e)) : i \in 1..Len(q) \/ i = Len(q) + 1
    BY <1>2
<1>4. ASSUME Ascending(q), Below(q, e.request_id),
             NEW i \in 1..Len(Append(q, e)), NEW j \in 1..Len(Append(q, e)),
             i < j
      PROVE  Append(q, e)[i].request_id < Append(q, e)[j].request_id
    <2>1. i \in 1..Len(q) BY <1>2, <1>3, <1>4
    <2>2. CASE j \in 1..Len(q) BY <1>2, <1>4, <2>1, <2>2 DEF Ascending
    <2>3. CASE j = Len(q) + 1 BY <1>2, <1>4, <2>1, <2>3 DEF Below
    <2> QED BY <1>3, <2>2, <2>3
<1>5. Ascending(q) /\ Below(q, e.request_id) => Ascending(Append(q, e))
    BY <1>4 DEF Ascending
<1> QED BY <1>2, <1>3, <1>5 DEF Below, Above

\* Numbers do not move when the service does not and the surface only counts up.
LEMMA OrderQuietStep ==
    ASSUME TypeOK, InOrder, UNCHANGED <<file_tx, step, job, response_rx>>,
           fw'.request_id \in Nat, fw.request_id <= fw'.request_id
    PROVE  InOrder'
<1>1. /\ \A i \in 1..Len(file_tx) : file_tx[i].request_id \in Nat
      /\ \A i \in 1..Len(response_rx) : response_rx[i].request_id \in Nat
      /\ step # "Idle" => job.request_id \in Nat
      /\ fw.request_id \in Nat
    <2>1. file_tx \in Seq(Requests) /\ response_rx \in Seq(Responses)
        BY DEF TypeOK, ServiceTypeOK
    <2>2. /\ \A i \in 1..Len(file_tx) : file_tx[i] \in Requests
          /\ \A i \in 1..Len(response_rx) : response_rx[i] \in Responses
        BY <2>1, ElementOfSeq
    <2>3. (step # "Idle" => job \in Requests) /\ fw \in WorkspaceUi
        BY DEF TypeOK, ServiceTypeOK, WindowTypeOK
    <2> QED BY <2>2, <2>3 DEF Requests, Responses, WorkspaceUi
<1> QED BY <1>1 DEF InOrder, Below, Above, Ascending

LEMMA OrderWorkerStep ==
    ASSUME TypeOK, InOrder, Worker, UNCHANGED fw
    PROVE  InOrder'
<1>1. /\ file_tx \in Seq(Requests) /\ response_rx \in Seq(Responses)
      /\ step # "Idle" => job.request_id \in Nat
      /\ fw.request_id \in Nat
    BY DEF TypeOK, ServiceTypeOK, WindowTypeOK, Requests, WorkspaceUi
<1>2. ASSUME NEW op, Receive(op)
      PROVE  /\ file_tx # <<>> /\ file_tx' = Tail(file_tx) /\ step = "Idle"
             /\ Head(file_tx).request_id \in Nat
             /\ Below(response_rx, Head(file_tx).request_id)
             /\ Head(file_tx).request_id < fw.request_id + 1
             /\ Ascending(file_tx')
             /\ Above(file_tx', Head(file_tx).request_id)
             /\ Below(file_tx', fw.request_id + 1)
             /\ \A i \in 1..Len(file_tx') :
                    Below(response_rx, file_tx'[i].request_id)
    <2>1. file_tx # <<>> /\ file_tx' = Tail(file_tx) /\ step = "Idle"
        BY <1>2 DEF Receive
    <2>2. Head(file_tx).request_id \in Nat
        <3>1. Head(file_tx) \in Requests BY <1>1, <2>1, QueueEnds
        <3> QED BY <3>1 DEF Requests
    <2>3. Below(response_rx, Head(file_tx).request_id)
          /\ Head(file_tx).request_id < fw.request_id + 1
        BY <1>1, <2>1, TailOrder DEF InOrder, Below
    <2>4. /\ Ascending(file_tx')
          /\ Above(file_tx', Head(file_tx).request_id)
          /\ Below(file_tx', fw.request_id + 1)
          /\ \A i \in 1..Len(file_tx') :
                Below(response_rx, file_tx'[i].request_id)
        BY <1>1, <2>1, TailOrder DEF InOrder
    <2> QED BY <2>1, <2>2, <2>3, <2>4
<1>3. ASSUME NEW request, request.request_id \in Nat, NEW content,
             NEW revision, NEW error,
             Reply(request, content, revision, error),
             Below(response_rx, request.request_id),
             request.request_id < fw.request_id + 1,
             Above(file_tx', request.request_id)
      PROVE  /\ Ascending(response_rx')
             /\ Below(response_rx', fw.request_id + 1)
             /\ (\A i \in 1..Len(file_tx') :
                    Below(response_rx, file_tx'[i].request_id))
                => \A i \in 1..Len(file_tx') :
                    Below(response_rx', file_tx'[i].request_id)
    <2> DEFINE new == [op |-> request.op, request_id |-> request.request_id,
                       path |-> request.path, content |-> content,
                       revision |-> revision, error |-> error]
    <2>1. response_rx' = Append(response_rx, new) BY <1>3 DEF Reply
    <2>2. new.request_id = request.request_id OBVIOUS
    <2> HIDE DEF new
    <2>3. /\ Ascending(response_rx')
          /\ Below(response_rx', fw.request_id + 1)
        BY <1>1, <1>3, <2>1, <2>2, AppendOrder DEF InOrder
    <2>4. ASSUME NEW i \in 1..Len(file_tx'),
                 Below(response_rx, file_tx'[i].request_id)
          PROVE  Below(response_rx', file_tx'[i].request_id)
        <3>1. new.request_id < file_tx'[i].request_id BY <1>3, <2>2 DEF Above
        <3> QED BY <1>1, <1>3, <2>1, <2>2, <2>4, <3>1, AppendOrder
    <2> QED BY <2>3, <2>4
<1>4. ASSUME NEW op, NEW error, Receive(op), UNCHANGED worker,
             Reply(Head(file_tx), Empty, NoRevision, error)
      PROVE  InOrder'
    <2>1. step' = "Idle" BY <1>4, <1>2 DEF worker
    <2> QED BY <1>2, <1>3, <1>4, <2>1 DEF InOrder
<1>5. ASSUME NEW content, NEW revision, NEW error, step # "Idle",
             Finish(content, revision, error), UNCHANGED file_tx
      PROVE  InOrder'
    <2>1. Reply(job, content, revision, error) /\ step' = "Idle"
        BY <1>5 DEF Finish
    <2>2. /\ Below(response_rx, job.request_id)
          /\ Above(file_tx', job.request_id)
          /\ job.request_id < fw.request_id + 1
        BY <1>1, <1>5 DEF InOrder
    <2> QED BY <1>1, <1>3, <1>5, <2>1, <2>2 DEF InOrder
<1>6. ASSUME NEW op, NEW next_step, NEW revision, Receive(op),
             Continue(next_step, Head(file_tx), revision),
             UNCHANGED response_rx
      PROVE  InOrder'
    <2>1. job' = Head(file_tx) BY <1>6 DEF Continue
    <2>2. job'.request_id <= fw.request_id BY <1>1, <1>2, <1>6, <2>1
    <2> QED BY <1>2, <1>6, <2>1, <2>2 DEF InOrder
<1>7. CASE SaveRename
    <2>1. UNCHANGED <<file_tx, job, response_rx>> /\ step # "Idle"
        BY <1>7 DEF SaveRename, Continue
    <2> QED BY <2>1 DEF InOrder
<1>8. CASE LoadMetadata \/ SaveChecked
    BY <1>8, <1>6 DEF LoadMetadata, SaveChecked
<1>9. CASE LoadRefused \/ SaveConflict \/ SaveRefused
    BY <1>9, <1>4 DEF LoadRefused, SaveConflict, SaveRefused
<1>10. CASE LoadRead \/ LoadUnreadable \/ SaveAbandoned \/ SaveStat
    BY <1>10, <1>5 DEF LoadRead, LoadUnreadable, SaveAbandoned, SaveStat
<1> QED BY <1>7, <1>8, <1>9, <1>10 DEF Worker

\* Reconciling never counts down.
LEMMA ReconciledNumber ==
    ASSUME NEW f \in WorkspaceUi, NEW context, NEW root
    PROVE  /\ Reconciled(f, context, root).request_id \in Nat
           /\ f.request_id <= Reconciled(f, context, root).request_id
<1>1. f.request_id \in Nat BY DEF WorkspaceUi
<1>2. Hidden(f).request_id = f.request_id BY DEF Hidden, WorkspaceUi
<1>3. Reset(f, context, root).request_id = f.request_id + 1 BY DEF Reset
<1>4. Reconciled(f, context, root) \in
        {f, Hidden(f), Reset(f, context, root)}
    BY DEF Reconciled
<1> QED BY <1>1, <1>2, <1>3, <1>4

\* A request that takes the next number goes to the end of the queue in order.
LEMMA OrderSend ==
    ASSUME TypeOK, InOrder, NEW request \in Requests, Send(request),
           request.request_id = fw.request_id + 1,
           fw'.request_id = fw.request_id + 1,
           UNCHANGED <<step, job, response_rx>>
    PROVE  InOrder'
<1>1. /\ file_tx \in Seq(Requests) /\ response_rx \in Seq(Responses)
      /\ fw.request_id \in Nat
      /\ file_tx' = Append(file_tx, request)
    BY DEF TypeOK, ServiceTypeOK, WindowTypeOK, WorkspaceUi, Send
<1>2. /\ \A i \in 1..Len(file_tx) : file_tx[i].request_id \in Nat
      /\ \A i \in 1..Len(response_rx) : response_rx[i].request_id \in Nat
    <2>1. /\ \A i \in 1..Len(file_tx) : file_tx[i] \in Requests
          /\ \A i \in 1..Len(response_rx) : response_rx[i] \in Responses
        BY <1>1, ElementOfSeq
    <2> QED BY <2>1 DEF Requests, Responses
<1>3. step # "Idle" => job.request_id \in Nat
    BY DEF TypeOK, ServiceTypeOK, Requests
<1>4. request.request_id \in Nat BY <1>1
<1>5. /\ Below(file_tx, fw'.request_id + 1)
      /\ Below(response_rx, fw'.request_id + 1)
    BY <1>1, <1>2 DEF InOrder, Below
<1>6. Ascending(file_tx') /\ Below(file_tx', fw'.request_id + 1)
    BY <1>1, <1>4, <1>5, AppendOrder DEF InOrder
<1>7. step # "Idle" => /\ Above(file_tx', job.request_id)
                       /\ job.request_id <= fw'.request_id
    BY <1>1, <1>3, <1>4, AppendOrder DEF InOrder
<1>8. \A i \in 1..Len(file_tx') : Below(response_rx, file_tx'[i].request_id)
    <2>1. /\ Len(file_tx) \in Nat /\ Len(file_tx') = Len(file_tx) + 1
          /\ \A i \in 1..Len(file_tx) : file_tx'[i] = file_tx[i]
          /\ file_tx'[Len(file_tx) + 1] = request
        BY <1>1, <1>4, AppendOrder, LenProperties
    <2>2. \A i \in 1..Len(file_tx') : i \in 1..Len(file_tx)
                                      \/ i = Len(file_tx) + 1
        BY <2>1
    <2>3. Below(response_rx, request.request_id) BY DEF InOrder
    <2> QED BY <2>1, <2>2, <2>3 DEF InOrder
<1> QED BY <1>5, <1>6, <1>7, <1>8 DEF InOrder

\* The surface keeps or raises its number.
CountsUp(f) == f.request_id \in Nat /\ fw.request_id <= f.request_id

LEMMA OrderUserStep ==
    ASSUME TypeOK, InOrder, User
    PROVE  InOrder'
<1>0. fw \in WorkspaceUi /\ fw.request_id \in Nat /\ WindowTypeOK
    BY DEF TypeOK, WindowTypeOK, WorkspaceUi
<1>a. ASSUME NEW f, Ui(f), CountsUp(f), UNCHANGED file_tx
      PROVE  InOrder'
    BY <1>a, OrderQuietStep DEF Ui, worker, CountsUp
<1>b. ASSUME NEW f \in WorkspaceUi, f.request_id = fw.request_id,
             NEW path \in Paths, Ui(Opened(f, path)),
             display_root # NoRoot, Send(LoadRequest(Opened(f, path)))
      PROVE  InOrder'
    <2>1. LoadRequest(Opened(f, path)) \in Requests BY <1>b, <1>0, OpenedType
    <2>2. /\ Opened(f, path).request_id = fw.request_id + 1
          /\ LoadRequest(Opened(f, path)).request_id = fw.request_id + 1
        BY <1>b, OpenedNumber DEF LoadRequest
    <2> QED BY <1>b, <2>1, <2>2, OrderSend DEF Ui, worker
<1>1. CASE HideSurface
    <2>1. CountsUp(Hidden(fw)) BY <1>0 DEF Hidden, WorkspaceUi, CountsUp
    <2> QED BY <1>1, <1>0, <1>a, <2>1 DEF HideSurface
<1>2. CASE ShowSurface
    <2>1. \A mode : CountsUp([fw EXCEPT !.mode = mode])
        BY <1>0 DEF WorkspaceUi, CountsUp
    <2>2. CountsUp([Reset(fw, active_context, display_root)
                        EXCEPT !.mode = "View"])
        BY <1>0 DEF Reset, CountsUp
    <2> QED BY <1>2, <1>0, <2>1, <2>2, <1>a DEF ShowSurface
<1>3. CASE ToggleEdit
    <2>1. \A mode : CountsUp([fw EXCEPT !.mode = mode, !.resume_mode = mode])
        BY <1>0 DEF WorkspaceUi, CountsUp
    <2> QED BY <1>3, <1>0, <2>1, <1>a DEF ToggleEdit
<1>4. CASE SaveFile
    <2>1. PICK root \in Roots :
            Send([op |-> "Save", request_id |-> fw.request_id + 1,
                  root |-> root, path |-> fw.active_path,
                  content |-> fw.content,
                  expected_revision |-> fw.revision])
        BY <1>4, <1>0 DEF SaveFile, WorkspaceUi, WindowTypeOK
    <2>2. [op |-> "Save", request_id |-> fw.request_id + 1,
           root |-> root, path |-> fw.active_path, content |-> fw.content,
           expected_revision |-> fw.revision] \in Requests
        BY <1>4, <1>0 DEF SaveFile, WorkspaceUi, Requests
    <2>3. fw'.request_id = fw.request_id + 1
        BY <1>4, <1>0 DEF SaveFile, Ui, NextRequest, WorkspaceUi
    <2> QED BY <1>4, <2>1, <2>2, <2>3, OrderSend DEF SaveFile, Ui, worker
<1>5. CASE DiscardEdits
    <2> DEFINE clean == [fw EXCEPT !.dirty = FALSE]
    <2>1. clean \in WorkspaceUi /\ clean.request_id = fw.request_id
        BY <1>0 DEF WorkspaceUi
    <2>2. CountsUp(clean) /\ CountsUp(Hidden(clean))
        BY <1>0, <2>1 DEF Hidden, WorkspaceUi, CountsUp
    <2>3. clean.active_path # NoPath => clean.active_path \in Paths
        BY <2>1 DEF WorkspaceUi
    <2> HIDE DEF clean
    <2>4. CountsUp(Reconciled(clean, active_context, display_root))
        BY <2>1, ReconciledNumber DEF CountsUp
    <2> QED BY <1>5, <1>0, <1>a, <1>b, <2>1, <2>2, <2>3, <2>4
            DEF DiscardEdits, clean
<1>6. CASE \E path \in Paths : OpenFile(path)
    BY <1>6, <1>0, <1>b DEF OpenFile
<1>7. CASE \E path \in Paths : OpenBlocked(path)
    <2>1. CountsUp([fw EXCEPT !.mode = "View"])
        BY <1>0 DEF WorkspaceUi, CountsUp
    <2> QED BY <1>7, <1>0, <2>1, <1>a DEF OpenBlocked
<1>8. CASE \E text \in Texts : Type(text)
    <2>1. \A text : CountsUp([fw EXCEPT !.content = text, !.dirty = TRUE])
        BY <1>0 DEF WorkspaceUi, CountsUp
    <2> QED BY <1>8, <1>0, <2>1, <1>a DEF Type
<1>9. CASE RemoveDisplayRoot \/ RequestClose \/ ConfirmClose \/ CancelClose
    BY <1>9, <1>0, OrderQuietStep
       DEF RemoveDisplayRoot, RequestClose, ConfirmClose, CancelClose, Move,
           serviceVars, worker
<1> QED BY <1>1, <1>2, <1>3, <1>4, <1>5, <1>6, <1>7, <1>8, <1>9 DEF User

LEMMA OrderResponseStep ==
    ASSUME TypeOK, InOrder, ApplyFileResponse
    PROVE  InOrder'
<1>1. Take BY DEF ApplyFileResponse, ApplyFileLoaded, ApplyFileSaved
<1>2. fw \in WorkspaceUi /\ response_rx \in Seq(Responses)
    BY DEF TypeOK, ServiceTypeOK, WindowTypeOK
<1>3. fw'.request_id = fw.request_id
    BY <1>2 DEF ApplyFileResponse, ApplyFileLoaded, ApplyFileSaved, Settled,
                WorkspaceUi
<1>4. UNCHANGED <<file_tx, step, job>> /\ response_rx # <<>>
      /\ response_rx' = Tail(response_rx)
    BY <1>1 DEF Take, worker
<1> QED BY <1>2, <1>3, <1>4, TailOrder DEF InOrder

LEMMA OrderStep ==
    ASSUME TypeOK, InOrder, [Next]_vars
    PROVE  InOrder'
<1>0. fw \in WorkspaceUi /\ fw.request_id \in Nat
    BY DEF TypeOK, WindowTypeOK, WorkspaceUi
<1>1. CASE User BY <1>1, OrderUserStep
<1>2. CASE Shells \/ ResolveContext
    BY <1>0, <1>2, OrderQuietStep
       DEF Shells, FocusSpot, PaneDies, ChangePlace, Move, ResolveContext,
           serviceVars, worker
<1>3. CASE Service /\ Worker BY <1>3, OrderWorkerStep DEF Service
<1>4. CASE Service /\ OtherPrograms
    BY <1>0, <1>4, OrderQuietStep
       DEF Service, OtherPrograms, OtherWrites, worker
<1>5. CASE ApplyFileResponse BY <1>5, OrderResponseStep
<1>6. CASE ApplyContext
    <2>1. fw'.request_id \in Nat /\ fw.request_id <= fw'.request_id
        BY <1>0, <1>6, ReconciledNumber DEF ApplyContext
    <2> QED BY <1>6, <2>1, OrderQuietStep DEF ApplyContext, serviceVars, worker
<1>7. CASE UNCHANGED vars
    BY <1>0, <1>7, OrderQuietStep DEF vars, serviceVars, worker
<1> QED BY <1>1, <1>2, <1>3, <1>4, <1>5, <1>6, <1>7 DEF Next, Service

\* The answer that is applied carries the newest number, so nothing follows it.
LEMMA NewestStep ==
    ASSUME TypeOK, PendingIsOutstanding, InOrder
    PROVE  ApplyFileResponse /\ Current(Head(response_rx)) =>
                file_tx = <<>> /\ step = "Idle" /\ Len(response_rx) = 1
<1> SUFFICES ASSUME ApplyFileResponse, Current(Head(response_rx))
             PROVE  file_tx = <<>> /\ step = "Idle" /\ Len(response_rx) = 1
    OBVIOUS
<1>1. response_rx # <<>>
    BY DEF ApplyFileResponse, ApplyFileLoaded, ApplyFileSaved, Take
<1>2. response_rx \in Seq(Responses) /\ file_tx \in Seq(Requests)
      /\ (step # "Idle" => job \in Requests) /\ fw.pending_request \in Nat
    BY DEF TypeOK, ServiceTypeOK, WindowTypeOK, WorkspaceUi
<1>3. /\ 1 \in 1..Len(response_rx) /\ Len(response_rx) \in 1..Len(response_rx)
      /\ Len(response_rx) \in Nat
      /\ Head(response_rx) = response_rx[1]
    BY <1>1, <1>2, HeadTailProperties
<1>4. response_rx[1].request_id = fw.pending_request BY <1>3 DEF Current
<1>5. CASE fw.pending_request = NoRequest
    <2>1. response_rx[1].request_id \in Numbers
        <3>1. response_rx[1] \in Responses BY <1>2, <1>3, ElementOfSeq
        <3> QED BY <3>1 DEF Responses
    <2> QED BY <1>4, <1>5, <2>1 DEF Numbers, NoRequest
<1>6. CASE fw.pending_request # NoRequest
    <2>1. Newest.request_id = fw.pending_request
        BY <1>6 DEF PendingIsOutstanding, Pending
    <2>2. file_tx = <<>>
        <3>1. ASSUME file_tx # <<>> PROVE FALSE
            <4>1. Len(file_tx) \in 1..Len(file_tx)
                BY <1>2, <3>1, HeadTailProperties
            <4>2. response_rx[1].request_id < file_tx[Len(file_tx)].request_id
                BY <1>3, <4>1 DEF InOrder, Below
            <4> QED BY <1>2, <1>4, <2>1, <3>1, <4>2 DEF Newest
        <3> QED BY <3>1
    <2>3. step = "Idle"
        <3>1. ASSUME step # "Idle" PROVE FALSE
            <4>1. response_rx[1].request_id < job.request_id
                BY <1>3, <3>1 DEF InOrder, Below
            <4> QED BY <1>2, <1>4, <2>1, <2>2, <3>1, <4>1 DEF Newest
        <3> QED BY <3>1
    <2>4. Len(response_rx) = 1
        <3>1. ASSUME 1 < Len(response_rx) PROVE FALSE
            <4>1. response_rx[1].request_id
                    < response_rx[Len(response_rx)].request_id
                BY <1>3, <3>1 DEF InOrder, Ascending
            <4> QED BY <1>2, <1>4, <2>1, <2>2, <2>3, <4>1 DEF Newest
        <3> QED BY <1>3, <3>1
    <2> QED BY <2>2, <2>3, <2>4
<1> QED BY <1>5, <1>6

\* InOrder is an invariant: numbers never overtake one another on their way
\* through the service.
THEOREM OrderCorrect == Spec => []InOrder
<1>1. Init => InOrder
    BY EmptySeq
       DEF Init, ServiceInit, InOrder, Ascending, Below, Above
<1>2. TypeOK /\ InOrder /\ [Next]_vars => InOrder' BY OrderStep
<1> QED BY <1>1, <1>2, TypeCorrect, PTL DEF Spec

\* OnlyNewestAnswerApplied holds of every instance: what the surface shows is
\* never the answer to a request it has since replaced.
THEOREM NewestCorrect == Spec => OnlyNewestAnswerApplied
<1>1. TypeOK /\ PendingIsOutstanding /\ InOrder /\ [Next]_vars
        => [ApplyFileResponse /\ Current(Head(response_rx)) =>
                file_tx = <<>> /\ step = "Idle" /\ Len(response_rx) = 1]_vars
    BY NewestStep
<1> QED BY <1>1, TypeCorrect, PendingCorrect, OrderCorrect, PTL
        DEF Spec, OnlyNewestAnswerApplied

-------------------------------------------------------------------------------
(* The root of an open file *)

\* What has been checked of the file on the surface: while its request is on
\* its way it carries the root of the owner, and once it is answered without
\* an error the file is inside that root.
InsideOnTheWay ==
    /\ fw.active_path # NoPath => fw.owner_root \in Roots
    /\ step \in {"Read", "Rename", "Stat"} => job.path \in Under[job.root]
    /\ Pending /\ (file_tx # <<>> \/ step # "Idle")
            => Newest.root = fw.owner_root
    /\ Pending /\ file_tx = <<>> /\ step = "Idle" /\ Newest.error = "none"
            => fw.active_path \in Under[fw.owner_root]
    /\ OpenFileInsideOwnerRoot

\* The file and the root of the surface stay, or its request and text go.
KeepsFile(f) ==
    /\ KeepsWaiting(f)
    /\ \/ /\ f.active_path = fw.active_path /\ f.owner_root = fw.owner_root
          /\ f.revision = fw.revision
       \/ /\ f.pending_request = NoRequest /\ f.active_path = NoPath
          /\ f.revision = NoRevision

LEMMA InsideQuietStep ==
    ASSUME InsideOnTheWay, KeepsFile(fw'),
           UNCHANGED <<file_tx, step, job, response_rx>>
    PROVE  InsideOnTheWay'
BY DEF InsideOnTheWay, KeepsFile, KeepsWaiting, Pending, Newest,
       OpenFileInsideOwnerRoot

LEMMA ReconciledKeepsFile ==
    ASSUME NEW f \in WorkspaceUi, KeepsFile(f), NEW context, NEW root
    PROVE  KeepsFile(Reconciled(f, context, root)) /\ KeepsFile(Hidden(f))
<1>1. KeepsFile(Hidden(f))
    BY DEF Hidden, KeepsFile, KeepsWaiting, WorkspaceUi
<1>2. KeepsFile(Reset(f, context, root))
    BY DEF Reset, KeepsFile, KeepsWaiting
<1> QED BY <1>1, <1>2 DEF Reconciled

\* The thread checks the newest request against the root it carries.
LEMMA InsideWorkerStep ==
    ASSUME TypeOK, PendingIsOutstanding, InsideOnTheWay, Worker, UNCHANGED fw
    PROVE  InsideOnTheWay'
<1> USE DEF InsideOnTheWay
<1>0. job.path \in Under[job.root] \/ step = "Idle"
    BY DEF TypeOK, ServiceTypeOK, Steps
<1>1. ASSUME NEW op, NEW error, error # "none", Receive(op),
             UNCHANGED worker, Reply(Head(file_tx), Empty, NoRevision, error)
      PROVE  InsideOnTheWay'
    BY <1>1, ReceiveNewest, ReplyNewest
       DEF Pending, Newest, OpenFileInsideOwnerRoot, worker
<1>2. ASSUME NEW content, NEW revision, NEW error, step # "Idle",
             Finish(content, revision, error), UNCHANGED file_tx
      PROVE  InsideOnTheWay'
    <2>1. Reply(job, content, revision, error) /\ step' = "Idle"
        BY <1>2 DEF Finish
    <2>2. Pending /\ file_tx = <<>> =>
            job.root = fw.owner_root /\ job.path = fw.active_path
        BY <1>2 DEF PendingIsOutstanding, Newest
    <2> QED BY <1>0, <1>2, <2>1, <2>2, ReplyNewest
            DEF Pending, Newest, OpenFileInsideOwnerRoot
<1>3. ASSUME NEW op, NEW next_step, NEW revision, Receive(op),
             Continue(next_step, Head(file_tx), revision),
             next_step # "Idle", Reachable(Head(file_tx)),
             UNCHANGED response_rx
      PROVE  InsideOnTheWay'
    BY <1>3, ReceiveNewest
       DEF Pending, Newest, OpenFileInsideOwnerRoot, Continue, Reachable
<1>4. CASE SaveRename
    BY <1>0, <1>4
       DEF SaveRename, Continue, Pending, Newest, OpenFileInsideOwnerRoot
<1>5. CASE LoadMetadata BY <1>5, <1>3 DEF LoadMetadata
<1>6. CASE SaveChecked BY <1>6, <1>3 DEF SaveChecked
<1>7. CASE LoadRefused \/ SaveConflict \/ SaveRefused
    BY <1>7, <1>1 DEF LoadRefused, SaveConflict, SaveRefused
<1>8. CASE LoadRead \/ LoadUnreadable \/ SaveAbandoned \/ SaveStat
    BY <1>8, <1>2 DEF LoadRead, LoadUnreadable, SaveAbandoned, SaveStat
<1> QED BY <1>4, <1>5, <1>6, <1>7, <1>8 DEF Worker

\* An answer that is applied is the newest, and an accepted one is inside.
LEMMA InsideResponseStep ==
    ASSUME TypeOK, PendingIsOutstanding, InOrder, InsideOnTheWay,
           ApplyFileResponse
    PROVE  InsideOnTheWay'
<1>1. Take BY DEF ApplyFileResponse, ApplyFileLoaded, ApplyFileSaved
<1>2. fw \in WorkspaceUi /\ response_rx \in Seq(Responses)
    BY DEF TypeOK, ServiceTypeOK, WindowTypeOK
<1>3. UNCHANGED <<file_tx, step, job>> BY <1>1 DEF Take, worker
<1>4. /\ Len(response_rx) \in Nat \ {0}
      /\ Len(response_rx') = Len(response_rx) - 1
      /\ \A i \in 1..Len(response_rx') : response_rx'[i] = response_rx[i + 1]
      /\ Head(response_rx) = response_rx[1]
      /\ response_rx' \in Seq(Responses)
    BY <1>1, <1>2, HeadTailProperties DEF Take
<1>5. CASE Current(Head(response_rx))
    <2>1. file_tx = <<>> /\ step = "Idle" /\ Len(response_rx) = 1
        BY <1>5, NewestStep
    <2>2. Newest = Head(response_rx) BY <1>4, <2>1 DEF Newest
    <2>3. Pending
        <3>1. Head(response_rx) \in Responses BY <1>1, <1>2, QueueEnds DEF Take
        <3>2. Head(response_rx).request_id \in Numbers BY <3>1 DEF Responses
        <3> QED BY <1>5, <3>2 DEF Current, Pending, NoRequest
    <2>4. Head(response_rx).error = "none"
            => fw.active_path \in Under[fw.owner_root]
        BY <2>1, <2>2, <2>3 DEF InsideOnTheWay
    <2>5. /\ fw'.pending_request = NoRequest
          /\ fw'.active_path = fw.active_path
          /\ fw'.owner_root = fw.owner_root
          /\ Head(response_rx).error # "none" => fw'.revision = fw.revision
        BY <1>2, <1>5 DEF ApplyFileResponse, ApplyFileLoaded, ApplyFileSaved,
                          Settled, WorkspaceUi
    <2> QED BY <1>3, <2>1, <2>4, <2>5
            DEF InsideOnTheWay, Pending, OpenFileInsideOwnerRoot
<1>6. CASE ~Current(Head(response_rx))
    <2>1. fw' = fw
        BY <1>6 DEF ApplyFileResponse, ApplyFileLoaded, ApplyFileSaved
    <2>2. CASE file_tx # <<>> \/ step # "Idle"
        BY <1>3, <2>1, <2>2
           DEF InsideOnTheWay, Pending, Newest, OpenFileInsideOwnerRoot
    <2>3. CASE file_tx = <<>> /\ step = "Idle" /\ response_rx' # <<>>
        <3>1. Len(response_rx') \in 1..Len(response_rx')
            BY <1>4, <2>3, EmptySeq
        <3>2. response_rx'[Len(response_rx')] = response_rx[Len(response_rx)]
            BY <1>4, <3>1
        <3> QED BY <1>3, <2>1, <2>3, <3>2
                DEF InsideOnTheWay, Pending, Newest, OpenFileInsideOwnerRoot
    <2>4. CASE file_tx = <<>> /\ step = "Idle" /\ response_rx' = <<>>
        <3>0. Len(response_rx') = 0 BY <2>4, EmptySeq
        <3>1. Len(response_rx) = 1 BY <1>4, <3>0
        <3>2. Newest = Head(response_rx) BY <1>4, <2>4, <3>1 DEF Newest
        <3>3. ~Pending
            BY <1>6, <3>2 DEF PendingIsOutstanding, Current
        <3> QED BY <1>3, <2>1, <2>4, <3>3
                DEF InsideOnTheWay, Pending, OpenFileInsideOwnerRoot
    <2> QED BY <2>2, <2>3, <2>4
<1> QED BY <1>5, <1>6

\* A request that is sent carries the root of the owner.
LEMMA InsideSend ==
    ASSUME file_tx \in Seq(Requests), NEW request \in Requests, Send(request),
           UNCHANGED <<step, job>>, InsideOnTheWay,
           fw'.owner_root = request.root,
           \/ fw'.revision = NoRevision
           \/ /\ fw'.revision = fw.revision /\ fw'.active_path = fw.active_path
              /\ fw'.owner_root = fw.owner_root
    PROVE  InsideOnTheWay'
<1>1. file_tx' # <<>> /\ file_tx'[Len(file_tx')] = request
    BY AppendProperties DEF Send
<1>2. request.root \in Roots BY DEF Requests
<1> QED BY <1>1, <1>2
        DEF InsideOnTheWay, Pending, Newest, OpenFileInsideOwnerRoot

LEMMA InsideUserStep ==
    ASSUME TypeOK, InsideOnTheWay, User
    PROVE  InsideOnTheWay'
<1>0. fw \in WorkspaceUi /\ file_tx \in Seq(Requests) /\ WindowTypeOK
    BY DEF TypeOK, WindowTypeOK, ServiceTypeOK
<1>a. ASSUME NEW f, Ui(f), KeepsFile(f), UNCHANGED file_tx
      PROVE  InsideOnTheWay'
    BY <1>a, InsideQuietStep DEF Ui, worker
<1>b. ASSUME NEW f \in WorkspaceUi, NEW path \in Paths, Ui(Opened(f, path)),
             display_root # NoRoot, Send(LoadRequest(Opened(f, path)))
      PROVE  InsideOnTheWay'
    <2>1. LoadRequest(Opened(f, path)) \in Requests BY <1>b, <1>0, OpenedType
    <2>2. LoadRequest(Opened(f, path)).root = fw'.owner_root
        BY <1>b DEF Ui, LoadRequest
    <2>3. fw'.revision = NoRevision
        <3>1. Opened(f, path) \in WorkspaceUi BY <1>b, <1>0, OpenedType
        <3>2. Opened(f, path).revision = NoRevision
            BY DEF Opened, NextRequest, WorkspaceUi
        <3> QED BY <1>b, <3>2 DEF Ui
    <2> QED BY <1>0, <1>b, <2>1, <2>2, <2>3, InsideSend DEF Ui, worker
<1>1. CASE HideSurface
    <2>1. KeepsFile(Hidden(fw))
        BY <1>0 DEF Hidden, KeepsFile, KeepsWaiting, WorkspaceUi
    <2> QED BY <1>1, <2>1, <1>a DEF HideSurface
<1>2. CASE ShowSurface
    <2>1. \A mode : KeepsFile([fw EXCEPT !.mode = mode])
        BY <1>0 DEF KeepsFile, KeepsWaiting, WorkspaceUi
    <2>2. KeepsFile([Reset(fw, active_context, display_root)
                        EXCEPT !.mode = "View"])
        BY DEF KeepsFile, KeepsWaiting, Reset
    <2> QED BY <1>2, <2>1, <2>2, <1>a DEF ShowSurface
<1>3. CASE ToggleEdit
    <2>1. \A mode : KeepsFile([fw EXCEPT !.mode = mode, !.resume_mode = mode])
        BY <1>0 DEF KeepsFile, KeepsWaiting, WorkspaceUi
    <2> QED BY <1>3, <2>1, <1>a DEF ToggleEdit
<1>4. CASE SaveFile
    <2>1. fw.owner_root \in Roots
        BY <1>4 DEF SaveFile, InsideOnTheWay
    <2> DEFINE request ==
            [op |-> "Save", request_id |-> fw.request_id + 1,
             root |-> fw.owner_root, path |-> fw.active_path,
             content |-> fw.content, expected_revision |-> fw.revision]
    <2>2. Send(request) BY <1>4, <2>1, NoneAssumption DEF SaveFile
    <2>3. request \in Requests
        BY <1>4, <1>0, <2>1 DEF SaveFile, WorkspaceUi, Requests
    <2>4. request.root = fw.owner_root OBVIOUS
    <2> HIDE DEF request
    <2>5. /\ fw'.owner_root = fw.owner_root
          /\ fw'.revision = fw.revision /\ fw'.active_path = fw.active_path
        BY <1>4, <1>0 DEF SaveFile, Ui, NextRequest, WorkspaceUi
    <2>6. UNCHANGED <<step, job>> BY <1>4 DEF SaveFile, Ui, worker
    <2> QED BY <1>0, <2>2, <2>3, <2>4, <2>5, <2>6, InsideSend
<1>5. CASE DiscardEdits
    <2> DEFINE clean == [fw EXCEPT !.dirty = FALSE]
    <2>1. clean \in WorkspaceUi /\ KeepsFile(clean)
        BY <1>0 DEF WorkspaceUi, KeepsFile, KeepsWaiting
    <2>2. /\ KeepsFile(Hidden(clean))
          /\ KeepsFile(Reconciled(clean, active_context, display_root))
        BY <2>1, ReconciledKeepsFile
    <2>3. clean.active_path # NoPath => clean.active_path \in Paths
        BY <2>1 DEF WorkspaceUi
    <2> HIDE DEF clean
    <2> QED BY <1>5, <1>a, <1>b, <2>1, <2>2, <2>3 DEF DiscardEdits, clean
<1>6. CASE \E path \in Paths : OpenFile(path)
    BY <1>6, <1>0, <1>b DEF OpenFile
<1>7. CASE \E path \in Paths : OpenBlocked(path)
    <2>1. KeepsFile([fw EXCEPT !.mode = "View"])
        BY <1>0 DEF KeepsFile, KeepsWaiting, WorkspaceUi
    <2> QED BY <1>7, <2>1, <1>a DEF OpenBlocked
<1>8. CASE \E text \in Texts : Type(text)
    <2>1. \A text : KeepsFile([fw EXCEPT !.content = text, !.dirty = TRUE])
        BY <1>0 DEF KeepsFile, KeepsWaiting, WorkspaceUi
    <2> QED BY <1>8, <2>1, <1>a DEF Type
<1>9. CASE RemoveDisplayRoot \/ RequestClose \/ ConfirmClose \/ CancelClose
    BY <1>9, InsideQuietStep
       DEF RemoveDisplayRoot, RequestClose, ConfirmClose, CancelClose, Move,
           serviceVars, worker, KeepsFile, KeepsWaiting
<1> QED BY <1>1, <1>2, <1>3, <1>4, <1>5, <1>6, <1>7, <1>8, <1>9 DEF User

\* OpenFileInsideOwnerRoot is an invariant of every instance: no order of
\* opens, saves, context changes and answers puts the text of a file outside
\* the owner's root on the surface.
THEOREM InsideCorrect == Spec => []OpenFileInsideOwnerRoot
<1>1. Init => InsideOnTheWay
    BY DEF Init, ServiceInit, InsideOnTheWay, Pending, OpenFileInsideOwnerRoot
<1>2. TypeOK /\ PendingIsOutstanding /\ InOrder /\ InsideOnTheWay
      /\ [Next]_vars => InsideOnTheWay'
    <2> SUFFICES ASSUME TypeOK, PendingIsOutstanding, InOrder, InsideOnTheWay,
                        [Next]_vars
                 PROVE  InsideOnTheWay'
        OBVIOUS
    <2>1. CASE User BY <2>1, InsideUserStep
    <2>2. CASE Shells \/ ResolveContext
        BY <2>2, InsideQuietStep
           DEF Shells, FocusSpot, PaneDies, ChangePlace, Move, ResolveContext,
               serviceVars, worker, KeepsFile, KeepsWaiting
    <2>3. CASE Service /\ Worker BY <2>3, InsideWorkerStep DEF Service
    <2>4. CASE Service /\ OtherPrograms
        BY <2>4, InsideQuietStep
           DEF Service, OtherPrograms, OtherWrites, worker, KeepsFile,
               KeepsWaiting
    <2>5. CASE ApplyFileResponse BY <2>5, InsideResponseStep
    <2>6. CASE ApplyContext
        <3>1. fw \in WorkspaceUi /\ KeepsFile(fw)
            BY DEF TypeOK, WindowTypeOK, KeepsFile, KeepsWaiting
        <3>2. KeepsFile(Reconciled(fw, context_response, display_root'))
            BY <3>1, ReconciledKeepsFile
        <3>3. KeepsFile(fw') BY <2>6, <3>1, <3>2 DEF ApplyContext
        <3> QED BY <2>6, <3>3, InsideQuietStep
                DEF ApplyContext, serviceVars, worker
    <2>7. CASE UNCHANGED vars
        BY <2>7, InsideQuietStep
           DEF vars, serviceVars, worker, KeepsFile, KeepsWaiting
    <2> QED BY <2>1, <2>2, <2>3, <2>4, <2>5, <2>6, <2>7 DEF Next, Service
<1>3. InsideOnTheWay => OpenFileInsideOwnerRoot BY DEF InsideOnTheWay
<1> QED BY <1>1, <1>2, <1>3, TypeCorrect, PendingCorrect, OrderCorrect, PTL
        DEF Spec

-------------------------------------------------------------------------------
(* The text on the surface *)

\* What a step does to the file on the surface, whatever it does to the rest.

\* Nothing.
SameFile(f) ==
    /\ f.active_path = fw.active_path /\ f.content = fw.content
    /\ f.dirty = fw.dirty /\ f.revision = fw.revision
    /\ f.pending_request = fw.pending_request

\* The file goes, and with it the request.
NoFile(f) ==
    /\ f.active_path = NoPath /\ f.content = Empty /\ ~f.dirty
    /\ f.revision = NoRevision /\ f.pending_request = NoRequest

\* Nothing, but that the text passes for saved: a discard that does not read the
\* file again.
LeftClean(f) ==
    /\ f.active_path = fw.active_path /\ f.content = fw.content
    /\ ~f.dirty /\ f.revision = fw.revision
    /\ f.pending_request = fw.pending_request
    /\ \/ fw.active_path = NoPath \/ display_root = NoRoot
       \/ OwnsActiveContext /\ OwnerGone(fw, active_context)

\* The user changes the text.
TextTyped(f) ==
    /\ Patience /\ fw.mode = "Edit"
    /\ f.active_path = fw.active_path /\ f.dirty /\ f.revision = fw.revision
    /\ f.pending_request = fw.pending_request

\* A file is asked for, or the text is sent to be saved.
FileAsked(f, request) ==
    /\ request \in Requests /\ Send(request) /\ request.op = "Load"
    /\ f.pending_request = request.request_id /\ f.active_path = request.path
    /\ f.content = Empty /\ ~f.dirty /\ f.revision = NoRevision
    /\ display_root # NoRoot

TextSent(f, request) ==
    /\ request \in Requests /\ Send(request) /\ request.op = "Save"
    /\ Patience /\ fw.dirty /\ fw.active_path # NoPath
    /\ f.pending_request = request.request_id /\ f.active_path = request.path
    /\ f.active_path = fw.active_path /\ f.content = fw.content /\ f.dirty
    /\ f.revision = fw.revision
    /\ request.content = fw.content /\ request.expected_revision = fw.revision

Quiet(f) == SameFile(f) \/ NoFile(f) \/ LeftClean(f) \/ TextTyped(f)

\* Reconciling keeps the file or lets it go.
LEMMA ReconciledFile ==
    ASSUME NEW f \in WorkspaceUi, NEW context, NEW root
    PROVE  \/ Reconciled(f, context, root) = f
           \/ Reconciled(f, context, root) = Hidden(f) /\ OwnerGone(f, context)
           \/ Reconciled(f, context, root) = Reset(f, context, root) /\ ~f.dirty
BY DEF Reconciled

LEMMA HiddenSameFile ==
    ASSUME NEW f \in WorkspaceUi
    PROVE  /\ Hidden(f).active_path = f.active_path
           /\ Hidden(f).content = f.content
           /\ Hidden(f).dirty = f.dirty /\ Hidden(f).revision = f.revision
           /\ Hidden(f).pending_request = f.pending_request
BY DEF Hidden, WorkspaceUi

LEMMA OpenedFile ==
    ASSUME TypeOK, NEW f \in WorkspaceUi, NEW path \in Paths,
           display_root # NoRoot, Send(LoadRequest(Opened(f, path)))
    PROVE  FileAsked(Opened(f, path), LoadRequest(Opened(f, path)))
<1>1. LoadRequest(Opened(f, path)) \in Requests /\ Opened(f, path) \in WorkspaceUi
    BY OpenedType DEF TypeOK
<1>2. /\ Opened(f, path).content = Empty /\ ~Opened(f, path).dirty
      /\ Opened(f, path).revision = NoRevision
      /\ Opened(f, path).pending_request = Opened(f, path).request_id
    BY DEF Opened, NextRequest, WorkspaceUi
<1> QED BY <1>1, <1>2 DEF FileAsked, LoadRequest

\* Every key and click does one of these things to the file.
LEMMA UserFile ==
    ASSUME TypeOK, User
    PROVE  /\ UNCHANGED <<disk, writes, step, job, stamp, response_rx>>
           /\ \/ Quiet(fw') /\ UNCHANGED file_tx
              \/ \E request : FileAsked(fw', request) \/ TextSent(fw', request)
<1>0. fw \in WorkspaceUi /\ file_tx \in Seq(Requests) /\ WindowTypeOK
    BY DEF TypeOK, WindowTypeOK, ServiceTypeOK
<1> USE DEF Quiet
<1>a. UNCHANGED <<disk, writes, step, job, stamp, response_rx>>
    BY DEF User, HideSurface, ShowSurface, ToggleEdit, SaveFile,
       DiscardEdits, OpenFile, OpenBlocked, Type, RemoveDisplayRoot,
       RequestClose, ConfirmClose, CancelClose, Ui, Move, serviceVars, worker
<1>1. CASE HideSurface
    <2>1. fw' = Hidden(fw) /\ UNCHANGED file_tx BY <1>1 DEF HideSurface, Ui
    <2> QED BY <1>0, <1>a, <2>1, HiddenSameFile DEF SameFile
<1>2. CASE ShowSurface
    <2>1. \A mode : SameFile([fw EXCEPT !.mode = mode])
        BY <1>0 DEF SameFile, WorkspaceUi
    <2>2. NoFile([Reset(fw, active_context, display_root)
                    EXCEPT !.mode = "View"])
        BY DEF NoFile, Reset
    <2> QED BY <1>2, <1>a, <2>1, <2>2 DEF ShowSurface, Ui
<1>3. CASE ToggleEdit
    <2>1. \A mode : SameFile([fw EXCEPT !.mode = mode, !.resume_mode = mode])
        BY <1>0 DEF SameFile, WorkspaceUi
    <2> QED BY <1>3, <1>a, <2>1 DEF ToggleEdit, Ui
<1>4. CASE SaveFile
    <2> DEFINE request(root) ==
            [op |-> "Save", request_id |-> fw.request_id + 1, root |-> root,
             path |-> fw.active_path, content |-> fw.content,
             expected_revision |-> fw.revision]
    <2>1. PICK root \in Roots : Send(request(root))
        BY <1>4, <1>0 DEF SaveFile, WorkspaceUi, WindowTypeOK
    <2>2. request(root) \in Requests
        BY <1>4, <1>0 DEF SaveFile, WorkspaceUi, Requests
    <2>3. /\ fw'.pending_request = fw.request_id + 1
          /\ fw'.active_path = fw.active_path /\ fw'.content = fw.content
          /\ fw'.dirty = fw.dirty /\ fw'.revision = fw.revision
        BY <1>4, <1>0 DEF SaveFile, Ui, NextRequest, WorkspaceUi
    <2>4. Patience /\ fw.dirty /\ fw.active_path # NoPath
        BY <1>4 DEF SaveFile
    <2>5. /\ request(root).op = "Save"
          /\ request(root).request_id = fw.request_id + 1
          /\ request(root).path = fw.active_path
          /\ request(root).content = fw.content
          /\ request(root).expected_revision = fw.revision
        OBVIOUS
    <2> HIDE DEF request
    <2>6. TextSent(fw', request(root))
        BY <2>1, <2>2, <2>3, <2>4, <2>5 DEF TextSent
    <2> QED BY <1>a, <2>6
<1>5. CASE DiscardEdits
    <2> DEFINE clean == [fw EXCEPT !.dirty = FALSE]
    <2>1. /\ clean \in WorkspaceUi /\ clean.active_path = fw.active_path
          /\ clean.content = fw.content /\ ~clean.dirty
          /\ clean.revision = fw.revision
          /\ clean.pending_request = fw.pending_request
          /\ clean.owner = fw.owner
        BY <1>0 DEF WorkspaceUi
    <2>2. clean.active_path # NoPath => clean.active_path \in Paths
        BY <2>1 DEF WorkspaceUi
    <2>3. OwnsActiveContext BY <1>5 DEF DiscardEdits
    <2>d. DiscardEdits =>
            \/ /\ Reconciled(clean, active_context, display_root) # clean
               /\ Ui(Reconciled(clean, active_context, display_root))
               /\ UNCHANGED file_tx
            \/ /\ clean.active_path # NoPath /\ display_root # NoRoot
               /\ Ui(Opened(clean, clean.active_path))
               /\ Send(LoadRequest(Opened(clean, clean.active_path)))
            \/ /\ clean.active_path # NoPath /\ display_root = NoRoot
               /\ Ui(clean) /\ UNCHANGED file_tx
            \/ /\ clean.active_path = NoPath
               /\ Ui(Hidden(clean)) /\ UNCHANGED file_tx
        BY DEF DiscardEdits
    <2> HIDE DEF clean
    <2>4. CASE /\ Reconciled(clean, active_context, display_root) # clean
               /\ Ui(Reconciled(clean, active_context, display_root))
               /\ UNCHANGED file_tx
        <3>1. \/ fw' = Hidden(clean) /\ OwnerGone(clean, active_context)
              \/ fw' = Reset(clean, active_context, display_root)
            BY <2>1, <2>4, ReconciledFile DEF Ui
        <3>2. CASE fw' = Hidden(clean) /\ OwnerGone(clean, active_context)
            <4>1. OwnerGone(fw, active_context) BY <2>1, <3>2 DEF OwnerGone
            <4> QED BY <1>a, <2>1, <2>3, <2>4, <3>2, <4>1, HiddenSameFile
                    DEF LeftClean
        <3>3. CASE fw' = Reset(clean, active_context, display_root)
            <4>1. NoFile(fw') BY <3>3 DEF NoFile, Reset
            <4> QED BY <1>a, <2>4, <4>1
        <3> QED BY <3>1, <3>2, <3>3
    <2>5. CASE /\ clean.active_path # NoPath /\ display_root # NoRoot
               /\ Ui(Opened(clean, clean.active_path))
               /\ Send(LoadRequest(Opened(clean, clean.active_path)))
        BY <1>a, <2>1, <2>2, <2>5, OpenedFile DEF Ui
    <2>6. CASE /\ clean.active_path # NoPath /\ display_root = NoRoot
               /\ Ui(clean) /\ UNCHANGED file_tx
        BY <1>a, <2>1, <2>6 DEF Ui, LeftClean
    <2>7. CASE /\ clean.active_path = NoPath
               /\ Ui(Hidden(clean)) /\ UNCHANGED file_tx
        BY <1>a, <2>1, <2>7, HiddenSameFile DEF Ui, LeftClean
    <2> QED BY <1>5, <2>d, <2>4, <2>5, <2>6, <2>7
<1>6. CASE \E path \in Paths : OpenFile(path)
    <2>1. PICK path \in Paths : OpenFile(path) BY <1>6
    <2>2. FileAsked(fw', LoadRequest(Opened(fw, path)))
        BY <1>0, <2>1, OpenedFile DEF OpenFile, Ui
    <2> QED BY <1>a, <2>2
<1>7. CASE \E path \in Paths : OpenBlocked(path)
    <2>1. SameFile([fw EXCEPT !.mode = "View"])
        BY <1>0 DEF SameFile, WorkspaceUi
    <2> QED BY <1>7, <1>a, <2>1 DEF OpenBlocked, Ui
<1>8. CASE \E text \in Texts : Type(text)
    <2>1. \A text : /\ [fw EXCEPT !.content = text, !.dirty = TRUE].dirty
                    /\ [fw EXCEPT !.content = text, !.dirty = TRUE].active_path
                            = fw.active_path
                    /\ [fw EXCEPT !.content = text, !.dirty = TRUE].revision
                            = fw.revision
                    /\ [fw EXCEPT !.content = text, !.dirty = TRUE].pending_request
                            = fw.pending_request
        BY <1>0 DEF WorkspaceUi
    <2> QED BY <1>8, <1>a, <2>1 DEF Type, Ui, TextTyped
<1>9. CASE RemoveDisplayRoot \/ RequestClose \/ ConfirmClose \/ CancelClose
    BY <1>9, <1>a
       DEF RemoveDisplayRoot, RequestClose, ConfirmClose, CancelClose, Move,
           serviceVars, SameFile
<1> QED BY <1>1, <1>2, <1>3, <1>4, <1>5, <1>6, <1>7, <1>8, <1>9 DEF User

\* Panes, shells and polls keep the file or let a clean one go.
LEMMA WindowFile ==
    ASSUME TypeOK, Shells \/ ResolveContext \/ ApplyContext \/ UNCHANGED vars
    PROVE  /\ UNCHANGED <<disk, writes, step, job, stamp, response_rx, file_tx>>
           /\ SameFile(fw') \/ (NoFile(fw') /\ ~fw.dirty)
<1>1. CASE Shells \/ ResolveContext \/ UNCHANGED vars
    BY <1>1 DEF Shells, FocusSpot, PaneDies, ChangePlace, Move, ResolveContext,
                vars, serviceVars, worker, SameFile
<1>2. CASE ApplyContext
    <2>1. UNCHANGED <<disk, writes, step, job, stamp, response_rx, file_tx>>
        BY <1>2 DEF ApplyContext, serviceVars, worker
    <2>2. fw' = fw \/ fw' = Reconciled(fw, context_response, display_root')
        BY <1>2 DEF ApplyContext
    <2>3. fw \in WorkspaceUi BY DEF TypeOK, WindowTypeOK
    <2>4. NoFile(Reset(fw, context_response, display_root'))
        BY DEF NoFile, Reset
    <2>5. SameFile(fw) /\ SameFile(Hidden(fw))
        BY <2>3, HiddenSameFile DEF SameFile
    <2> QED BY <2>1, <2>2, <2>3, <2>4, <2>5, ReconciledFile
<1> QED BY <1>1, <1>2

\* What a reply puts at the end of the answers, whole.
LEMMA ReplyRecord ==
    ASSUME TypeOK, NEW request, NEW content, NEW revision, NEW error,
           Reply(request, content, revision, error)
    PROVE  /\ Len(response_rx') = Len(response_rx) + 1
           /\ response_rx' # <<>>
           /\ response_rx'[Len(response_rx')].op = request.op
           /\ response_rx'[Len(response_rx')].content = content
           /\ response_rx'[Len(response_rx')].revision = revision
<1> DEFINE new == [op |-> request.op, request_id |-> request.request_id,
                   path |-> request.path, content |-> content,
                   revision |-> revision, error |-> error]
<1>1. response_rx' = Append(response_rx, new) BY DEF Reply
<1>2. new.op = request.op /\ new.content = content /\ new.revision = revision
    OBVIOUS
<1> HIDE DEF new
<1>3. response_rx \in Seq(Responses \cup {new})
    BY SeqDef DEF TypeOK, ServiceTypeOK
<1>4. /\ Len(response_rx') = Len(response_rx) + 1
      /\ response_rx'[Len(response_rx) + 1] = new
      /\ response_rx' # <<>>
    BY <1>1, <1>3, AppendProperties
<1> QED BY <1>2, <1>4

\* A request that is sent is the newest, behind the others.
LEMMA SentNewest ==
    ASSUME TypeOK, NEW request \in Requests, Send(request),
           UNCHANGED <<step, job, response_rx>>
    PROVE  /\ InService' /\ Newest' = request /\ file_tx' # <<>>
           /\ Len(file_tx') = Len(file_tx) + 1
           /\ \A i \in 1..Len(file_tx) : file_tx'[i] = file_tx[i]
           /\ file_tx'[Len(file_tx) + 1] = request
           /\ file_tx' \in Seq(Requests) /\ Len(file_tx) \in Nat
<1>1. file_tx \in Seq(Requests) BY DEF TypeOK, ServiceTypeOK
<1> QED BY <1>1, AppendProperties, LenProperties DEF Send, InService, Newest

\* An answer that is taken is the one waited for, and the last thing in the
\* service; or the surface and the newest in the service stay as they are.
LEMMA TakenAnswer ==
    ASSUME TypeOK, PendingIsOutstanding, InOrder, ApplyFileResponse
    PROVE  /\ Take /\ UNCHANGED <<disk, writes, file_tx, step, job, stamp>>
           /\ \/ /\ Pending /\ Newest = Head(response_rx)
                 /\ file_tx = <<>> /\ step = "Idle" /\ Len(response_rx) = 1
                 /\ ~InService' /\ response_rx' = <<>>
                 /\ fw'.pending_request = NoRequest
                 /\ fw'.active_path = fw.active_path
                 /\ Newest.path = fw.active_path
                 /\ \/ /\ Newest.error # "none" /\ fw'.content = fw.content
                       /\ fw'.dirty = fw.dirty /\ fw'.revision = fw.revision
                    \/ /\ Newest.error = "none" /\ ~fw'.dirty
                       /\ fw'.revision = Newest.revision
                       /\ fw'.content = IF Newest.op = "Load"
                                        THEN Newest.content ELSE fw.content
              \/ /\ fw' = fw
                 /\ Pending => InService' /\ Newest' = Newest
<1>1. Take BY DEF ApplyFileResponse, ApplyFileLoaded, ApplyFileSaved
<1>2. fw \in WorkspaceUi /\ response_rx \in Seq(Responses)
    BY DEF TypeOK, ServiceTypeOK, WindowTypeOK
<1>3. UNCHANGED <<disk, writes, file_tx, step, job, stamp>>
    BY <1>1 DEF Take, worker
<1>4. /\ Len(response_rx) \in Nat \ {0}
      /\ Len(response_rx') = Len(response_rx) - 1
      /\ \A i \in 1..Len(response_rx') : response_rx'[i] = response_rx[i + 1]
      /\ Head(response_rx) = response_rx[1]
      /\ response_rx' \in Seq(Responses)
    BY <1>1, <1>2, HeadTailProperties DEF Take
<1>5. CASE Current(Head(response_rx))
    <2>1. file_tx = <<>> /\ step = "Idle" /\ Len(response_rx) = 1
        BY <1>5, NewestStep
    <2>2. Newest = Head(response_rx) BY <1>4, <2>1 DEF Newest
    <2>3. Pending
        <3>1. Head(response_rx) \in Responses BY <1>1, <1>2, QueueEnds DEF Take
        <3>2. Head(response_rx).request_id \in Numbers BY <3>1 DEF Responses
        <3> QED BY <1>5, <3>2 DEF Current, Pending, NoRequest
    <2>4. response_rx' = <<>> BY <1>4, <2>1, EmptySeq
    <2>5. ~InService' BY <1>3, <2>1, <2>4 DEF InService
    <2>6. /\ fw'.pending_request = NoRequest
          /\ fw'.active_path = fw.active_path
          /\ Newest.path = fw.active_path
        BY <1>2, <1>5, <2>2
           DEF ApplyFileResponse, ApplyFileLoaded, ApplyFileSaved, Settled,
               WorkspaceUi, Current
    <2>7. \/ /\ Newest.error # "none" /\ fw'.content = fw.content
             /\ fw'.dirty = fw.dirty /\ fw'.revision = fw.revision
          \/ /\ Newest.error = "none" /\ ~fw'.dirty
             /\ fw'.revision = Newest.revision
             /\ fw'.content = IF Newest.op = "Load"
                              THEN Newest.content ELSE fw.content
        BY <1>2, <1>5, <2>2
           DEF ApplyFileResponse, ApplyFileLoaded, ApplyFileSaved, Settled,
               WorkspaceUi
    <2> QED BY <1>1, <1>3, <2>1, <2>2, <2>3, <2>4, <2>5, <2>6, <2>7
<1>6. CASE ~Current(Head(response_rx))
    <2>1. fw' = fw
        BY <1>6 DEF ApplyFileResponse, ApplyFileLoaded, ApplyFileSaved
    <2>2. ASSUME Pending PROVE InService' /\ Newest' = Newest
        <3>1. CASE file_tx # <<>> \/ step # "Idle"
            BY <1>3, <3>1 DEF InService, Newest
        <3>2. CASE file_tx = <<>> /\ step = "Idle" /\ response_rx' # <<>>
            <4>1. Len(response_rx') \in 1..Len(response_rx')
                BY <1>4, <3>2, EmptySeq
            <4>2. response_rx'[Len(response_rx')] = response_rx[Len(response_rx)]
                BY <1>4, <4>1
            <4> QED BY <1>3, <3>2, <4>2 DEF InService, Newest
        <3>3. CASE file_tx = <<>> /\ step = "Idle" /\ response_rx' = <<>>
            <4>0. Len(response_rx') = 0 BY <3>3, EmptySeq
            <4>1. Len(response_rx) = 1 BY <1>4, <4>0
            <4>2. Newest = Head(response_rx) BY <1>4, <3>3, <4>1 DEF Newest
            <4> QED BY <1>6, <2>2, <4>2 DEF PendingIsOutstanding, Current
        <3> QED BY <3>1, <3>2, <3>3
    <2> QED BY <1>1, <1>3, <2>1, <2>2
<1> QED BY <1>5, <1>6

\* A system call hands the newest on, with its operation and its path.
LEMMA WorkerNewest ==
    ASSUME TypeOK, Worker
    PROVE  /\ InService /\ InService'
           /\ Newest'.op = Newest.op
           /\ Newest'.path = Newest.path
           /\ Newest'.request_id = Newest.request_id
           /\ file_tx' # <<>> \/ step' # "Idle" => Newest' = Newest
<1>1. ASSUME NEW op, NEW error, Receive(op), UNCHANGED worker,
             Reply(Head(file_tx), Empty, NoRevision, error)
      PROVE  /\ InService /\ InService' /\ Newest'.op = Newest.op
             /\ Newest'.path = Newest.path
             /\ Newest'.request_id = Newest.request_id
             /\ file_tx' # <<>> \/ step' # "Idle" => Newest' = Newest
    BY <1>1, ReceiveNewest, ReplyNewest, ReplyRecord DEF InService, Newest, worker
<1>2. ASSUME NEW content, NEW revision, NEW error, step # "Idle",
             Finish(content, revision, error), UNCHANGED file_tx
      PROVE  /\ InService /\ InService' /\ Newest'.op = Newest.op
             /\ Newest'.path = Newest.path
             /\ Newest'.request_id = Newest.request_id
             /\ file_tx' # <<>> \/ step' # "Idle" => Newest' = Newest
    <2>1. Reply(job, content, revision, error) /\ step' = "Idle"
        BY <1>2 DEF Finish
    <2> QED BY <1>2, <2>1, ReplyNewest, ReplyRecord DEF InService, Newest
<1>3. ASSUME NEW op, NEW next_step, NEW revision, Receive(op),
             Continue(next_step, Head(file_tx), revision),
             next_step # "Idle", UNCHANGED response_rx
      PROVE  /\ InService /\ InService' /\ Newest' = Newest
    BY <1>3, ReceiveNewest DEF InService, Newest, Continue
<1>4. CASE SaveRename
    BY <1>4 DEF SaveRename, Continue, InService, Newest
<1>5. CASE LoadMetadata BY <1>5, <1>3 DEF LoadMetadata
<1>6. CASE SaveChecked BY <1>6, <1>3 DEF SaveChecked
<1>7. CASE LoadRefused \/ SaveConflict \/ SaveRefused
    BY <1>7, <1>1 DEF LoadRefused, SaveConflict, SaveRefused
<1>8. CASE LoadRead \/ LoadUnreadable \/ SaveAbandoned \/ SaveStat
    BY <1>8, <1>2 DEF LoadRead, LoadUnreadable, SaveAbandoned, SaveStat
<1> QED BY <1>4, <1>5, <1>6, <1>7, <1>8 DEF Worker

-------------------------------------------------------------------------------
\* A surface that shows a file and waits for nothing has nothing in the service.
SettledIsIdle == fw.active_path # NoPath /\ ~Pending => ~InService

\* Unsaved text waits for the answer to a save, if for any.
DirtyWaitsForSave == Pending /\ fw.dirty => Newest.op = "Save"

LEMMA SettledStep ==
    ASSUME TypeOK, PendingIsOutstanding, InOrder, SettledIsIdle, [Next]_vars
    PROVE  SettledIsIdle'
<1>1. CASE User
    <2>1. CASE Quiet(fw') /\ UNCHANGED <<step, job, response_rx, file_tx>>
        BY <2>1 DEF Quiet, SameFile, NoFile, LeftClean, TextTyped,
                    SettledIsIdle, Pending, InService
    <2>2. ASSUME NEW request, FileAsked(fw', request) \/ TextSent(fw', request)
          PROVE  SettledIsIdle'
        <3>1. request.request_id \in Numbers
              /\ fw'.pending_request = request.request_id
            BY <2>2 DEF FileAsked, TextSent, Requests
        <3> QED BY <3>1 DEF SettledIsIdle, Pending, NoRequest
    <2> QED BY <1>1, <2>1, <2>2, UserFile
<1>2. CASE Shells \/ ResolveContext \/ ApplyContext \/ UNCHANGED vars
    BY <1>2, WindowFile
       DEF SameFile, NoFile, SettledIsIdle, Pending, InService
<1>3. CASE Service /\ Worker
    BY <1>3, WorkerNewest DEF Service, SettledIsIdle, Pending
<1>4. CASE Service /\ OtherPrograms
    BY <1>4 DEF Service, OtherPrograms, OtherWrites, worker, SettledIsIdle,
                Pending, InService
<1>5. CASE ApplyFileResponse
    <2>1. response_rx # <<>> /\ UNCHANGED <<file_tx, step>>
          /\ (fw' = fw \/ ~InService')
        BY <1>5, TakenAnswer DEF Take
    <2>2. InService BY <2>1 DEF InService
    <2> QED BY <2>1, <2>2 DEF SettledIsIdle, Pending
<1> QED BY <1>1, <1>2, <1>3, <1>4, <1>5 DEF Next, Service

LEMMA DirtyWaitsStep ==
    ASSUME TypeOK, PendingIsOutstanding, InOrder, DirtyWaitsForSave,
           PatientUser, [Next]_vars
    PROVE  DirtyWaitsForSave'
<1>1. CASE User
    <2>1. CASE Quiet(fw') /\ UNCHANGED <<step, job, response_rx, file_tx>>
        BY <2>1 DEF Quiet, SameFile, NoFile, LeftClean, TextTyped, Patience,
                    DirtyWaitsForSave, Pending, Newest
    <2>2. ASSUME NEW request, FileAsked(fw', request) \/ TextSent(fw', request)
          PROVE  DirtyWaitsForSave'
        <3>1. CASE FileAsked(fw', request)
            BY <3>1 DEF FileAsked, DirtyWaitsForSave
        <3>2. CASE TextSent(fw', request)
            <4>1. Newest' = request BY <1>1, <3>2, SentNewest, UserFile DEF TextSent
            <4> QED BY <3>2, <4>1 DEF TextSent, DirtyWaitsForSave
        <3> QED BY <2>2, <3>1, <3>2
    <2> QED BY <1>1, <2>1, <2>2, UserFile
<1>2. CASE Shells \/ ResolveContext \/ ApplyContext \/ UNCHANGED vars
    BY <1>2, WindowFile
       DEF SameFile, NoFile, DirtyWaitsForSave, Pending, Newest
<1>3. CASE Service /\ Worker
    BY <1>3, WorkerNewest DEF Service, DirtyWaitsForSave, Pending
<1>4. CASE Service /\ OtherPrograms
    BY <1>4 DEF Service, OtherPrograms, OtherWrites, worker, DirtyWaitsForSave,
                Pending, Newest
<1>5. CASE ApplyFileResponse
    BY <1>5, TakenAnswer DEF DirtyWaitsForSave, Pending
<1> QED BY <1>1, <1>2, <1>3, <1>4, <1>5 DEF Next, Service

\* Every step that changes unsaved text is one of those the user asked for.
LEMMA DirtyKeptStep ==
    ASSUME TypeOK, PendingIsOutstanding, InOrder, DirtyWaitsForSave,
           [Next]_vars, fw.dirty, fw'.content # fw.content
    PROVE  \/ \E text \in Texts : Type(text)
           \/ DiscardEdits \/ OpenFile(fw.active_path)
<1>0. fw \in WorkspaceUi BY DEF TypeOK, WindowTypeOK
<1>1. CASE User
    <2>1. CASE HideSurface
        BY <1>0, <2>1, HiddenSameFile DEF HideSurface, Ui
    <2>2. CASE ShowSurface
        <3>1. \A mode : [fw EXCEPT !.mode = mode].content = fw.content
            BY <1>0 DEF WorkspaceUi
        <3>2. \E mode : fw' = [fw EXCEPT !.mode = mode]
            BY <2>2 DEF ShowSurface, Ui
        <3> QED BY <3>1, <3>2
    <2>3. CASE ToggleEdit
        <3>1. \A mode : [fw EXCEPT !.mode = mode, !.resume_mode = mode].content
                            = fw.content
            BY <1>0 DEF WorkspaceUi
        <3> QED BY <2>3, <3>1 DEF ToggleEdit, Ui
    <2>4. CASE SaveFile
        BY <1>0, <2>4 DEF SaveFile, Ui, NextRequest, WorkspaceUi
    <2>5. CASE \E path \in Paths : OpenFile(path)
        BY <2>5 DEF OpenFile
    <2>6. CASE \E path \in Paths : OpenBlocked(path)
        BY <1>0, <2>6 DEF OpenBlocked, Ui, WorkspaceUi
    <2>7. CASE RemoveDisplayRoot \/ RequestClose \/ ConfirmClose \/ CancelClose
        BY <2>7 DEF RemoveDisplayRoot, RequestClose, ConfirmClose, CancelClose,
                    Move
    <2> QED BY <1>1, <2>1, <2>2, <2>3, <2>4, <2>5, <2>6, <2>7 DEF User
<1>2. CASE Shells \/ ResolveContext \/ ApplyContext \/ UNCHANGED vars
    BY <1>2, WindowFile DEF SameFile
<1>3. CASE Service BY <1>3 DEF Service
<1>4. CASE ApplyFileResponse
    BY <1>4, TakenAnswer DEF DirtyWaitsForSave
<1> QED BY <1>1, <1>2, <1>3, <1>4 DEF Next

\* DirtyTextKept holds of every instance with a patient user: whatever answers
\* arrive and however the focus, the panes and the roots move, text that was
\* typed and not saved stays until the user edits, discards or reopens it.
THEOREM DirtyTextCorrect == ASSUME PatientUser PROVE Spec => DirtyTextKept
<1>1. Init => DirtyWaitsForSave
    BY DEF Init, DirtyWaitsForSave, Pending
<1>2. TypeOK /\ PendingIsOutstanding /\ InOrder /\ DirtyWaitsForSave
      /\ [Next]_vars => DirtyWaitsForSave'
    BY PatientUser, DirtyWaitsStep
<1>3. TypeOK /\ PendingIsOutstanding /\ InOrder /\ DirtyWaitsForSave
      /\ [Next]_vars
        => [fw.dirty /\ fw'.content # fw.content =>
                \/ \E text \in Texts : Type(text)
                \/ DiscardEdits \/ OpenFile(fw.active_path)]_vars
    BY DirtyKeptStep
<1> QED BY <1>1, <1>2, <1>3, TypeCorrect, PendingCorrect, OrderCorrect, PTL
        DEF Spec, DirtyTextKept
================================================================================
