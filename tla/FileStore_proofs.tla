---------------------------- MODULE FileStore_proofs ----------------------------
(***************************************************************************)
(* The thread of FileService implements FileStore: for every set of files, *)
(* roots, texts and panes, when no other program writes a file during a    *)
(* save of it (QuietSaves), every step of FileWorkspace is a step of the   *)
(* abstract service or leaves it unchanged. Then what the store and the    *)
(* surface owe each other: no save loses an update, a conflict is never    *)
(* with the window's own writes, and clean text is the text of the file.   *)
(***************************************************************************)
EXTENDS FileWorkspace_proofs

\* A number is a positive natural number, here and below.
USE DEF Numbers

\* What the thread knows of the file between two of its system calls.
CallsAgree ==
    /\ \A path \in Paths : disk[path].revision \in 1..writes
    /\ step = "Read" => /\ job.op = "Load" /\ job.path \in Under[job.root]
                        /\ stamp \in 1..disk[job.path].revision
    /\ step = "Rename" =>
        /\ job.op = "Save" /\ job.path \in Under[job.root]
        /\ disk[job.path].text # Absent
        /\ job.expected_revision \in {NoRevision, disk[job.path].revision}
    /\ step = "Stat" => job.op = "Save" /\ disk[job.path].text # Absent

-------------------------------------------------------------------------------
\* A write gives its file the newest revision and leaves the others theirs.
LEMMA WriteRevisions ==
    ASSUME TypeOK, CallsAgree, NEW path \in Paths, NEW text, NEW writer,
           Write(path, text, writer)
    PROVE  /\ disk'[path].revision = writes + 1 /\ disk'[path].text = text
           /\ \A p \in Paths : disk'[p].revision \in 1..writes'
           /\ \A p \in Paths : p # path => disk'[p] = disk[p]
           /\ disk[path].revision < disk'[path].revision
           /\ writes \in Nat /\ writes' = writes + 1
<1>1. writes \in Nat /\ writes' = writes + 1
    BY DEF Write, TypeOK, ServiceTypeOK
<1> DEFINE new == [revision |-> writes + 1, text |-> text, by |-> writer]
<1>2. disk' = [disk EXCEPT ![path] = new] BY DEF Write
<1>3. disk'[path] = new /\ \A p \in Paths : p # path => disk'[p] = disk[p]
    BY <1>2 DEF TypeOK, ServiceTypeOK
<1>4. \A p \in Paths : disk[p].revision \in 1..writes BY DEF CallsAgree
<1>5. new.revision = writes + 1 /\ new.text = text OBVIOUS
<1> HIDE DEF new
<1>6. \A p \in Paths : disk'[p].revision \in 1..writes'
    <2> TAKE p \in Paths
    <2>1. CASE p = path BY <2>1, <1>1, <1>3, <1>5
    <2>2. CASE p # path BY <2>2, <1>1, <1>3, <1>4
    <2> QED BY <2>1, <2>2
<1> QED BY <1>1, <1>3, <1>4, <1>5, <1>6

LEMMA CallsAgreeWorker ==
    ASSUME TypeOK, CallsAgree, Worker PROVE CallsAgree'
<1>0. \A op : Receive(op) =>
          /\ step = "Idle" /\ Head(file_tx) \in Requests /\ Head(file_tx).op = op
          /\ Head(file_tx).path \in Paths
    <2>1. file_tx \in Seq(Requests) BY DEF TypeOK, ServiceTypeOK
    <2>2. file_tx # <<>> => Head(file_tx) \in Requests BY <2>1, QueueEnds
    <2>3. \A request \in Requests : request.path \in Paths BY DEF Requests
    <2> QED BY <2>2, <2>3 DEF Receive
<1>1. CASE LoadMetadata
    <2>1. /\ disk' = disk /\ writes' = writes /\ step' = "Read"
          /\ job' = Head(file_tx) /\ job'.op = "Load"
          /\ job'.path \in Paths /\ job'.path \in Under[job'.root]
          /\ stamp' = disk[job'.path].revision
        BY <1>1, <1>0 DEF LoadMetadata, Continue, Reachable
    <2>2. stamp' \in 1..disk'[job'.path].revision BY <2>1 DEF CallsAgree
    <2> QED BY <2>1, <2>2 DEF CallsAgree
<1>2. CASE LoadRefused \/ SaveConflict \/ SaveRefused
    BY <1>2 DEF LoadRefused, SaveConflict, SaveRefused, worker, CallsAgree
<1>3. CASE LoadRead \/ LoadUnreadable \/ SaveAbandoned \/ SaveStat
    BY <1>3 DEF LoadRead, LoadUnreadable, SaveAbandoned, SaveStat, Finish,
                CallsAgree
<1>4. CASE SaveChecked
    <2>1. /\ disk' = disk /\ writes' = writes /\ step' = "Rename"
          /\ job' = Head(file_tx) /\ job'.op = "Save"
          /\ job'.path \in Under[job'.root] /\ disk[job'.path].text # Absent
          /\ ~Conflict(job')
        BY <1>4, <1>0 DEF SaveChecked, Continue, Reachable
    <2>2. job'.expected_revision \in {NoRevision, disk[job'.path].revision}
        BY <2>1 DEF Conflict
    <2> QED BY <2>1, <2>2 DEF CallsAgree
<1>5. CASE SaveRename
    <2>1. job \in Requests BY <1>5 DEF SaveRename, TypeOK, ServiceTypeOK
    <2>2. /\ job.path \in Paths /\ job.content # Absent /\ job.op = "Save"
          /\ job' = job /\ step' = "Stat"
        BY <1>5, <2>1, TextAssumption
           DEF SaveRename, Continue, Requests, CallsAgree
    <2>3. /\ disk'[job.path].text = job.content
          /\ \A p \in Paths : disk'[p].revision \in 1..writes'
        BY <1>5, <2>2, WriteRevisions DEF SaveRename
    <2> QED BY <2>2, <2>3 DEF CallsAgree
<1> QED BY <1>1, <1>2, <1>3, <1>4, <1>5 DEF Worker

LEMMA CallsAgreeOthers ==
    ASSUME TypeOK, CallsAgree, QuietSaves, OtherPrograms PROVE CallsAgree'
<1>1. PICK path \in Paths, text \in Contents : OtherWrites(path, text)
    BY DEF OtherPrograms
<1>2. /\ UNCHANGED <<step, job, stamp>> /\ Write(path, text, "other")
      /\ step \in {"Rename", "Stat"} => job.path # path
    BY <1>1 DEF OtherWrites, worker
<1>3. /\ \A p \in Paths : disk'[p].revision \in 1..writes'
      /\ \A p \in Paths : p # path => disk'[p] = disk[p]
      /\ disk[path].revision < disk'[path].revision
    BY <1>2, WriteRevisions
<1>4. step # "Idle" => job.path \in Paths
    BY DEF TypeOK, ServiceTypeOK, Requests
<1>5. step = "Read" => stamp' \in 1..disk'[job'.path].revision
    <2> SUFFICES ASSUME step = "Read" PROVE stamp \in 1..disk'[job.path].revision
        BY <1>2
    <2>1. stamp \in 1..disk[job.path].revision /\ job.path \in Paths
        BY <1>4 DEF CallsAgree
    <2>2. disk[job.path].revision \in Nat /\ disk'[job.path].revision \in Nat
        BY <1>3, <2>1 DEF CallsAgree
    <2>3. disk[job.path].revision <= disk'[job.path].revision
        BY <1>3, <2>1, <2>2
    <2> QED BY <2>1, <2>2, <2>3
<1> QED BY <1>2, <1>3, <1>4, <1>5 DEF CallsAgree

\* CallsAgree, whatever the rest of the window does: only the thread and other
\* programs touch these variables.
LEMMA CallsAgreeStep ==
    ASSUME TypeOK, CallsAgree, QuietSaves, [Next]_vars PROVE CallsAgree'
<1>1. CASE Service
    BY <1>1, CallsAgreeWorker, CallsAgreeOthers DEF Service
<1>2. CASE ~Service
    <2>1. UNCHANGED <<disk, writes, step, job, stamp>>
        BY <1>2
           DEF Next, User, Shells, HideSurface, ShowSurface, ToggleEdit,
               SaveFile, DiscardEdits, OpenFile, OpenBlocked, Type,
               RemoveDisplayRoot, RequestClose, ConfirmClose, CancelClose, Ui,
               Move, FocusSpot, PaneDies, ChangePlace, ApplyFileResponse,
               ApplyFileLoaded, ApplyFileSaved, Take, ResolveContext,
               ApplyContext, vars, serviceVars, worker
    <2> QED BY <2>1 DEF CallsAgree
<1> QED BY <1>1, <1>2
-------------------------------------------------------------------------------
\* The queue of the abstract service.
StoreQueue == IF step = "Idle" THEN file_tx ELSE <<job>> \o file_tx

\* The request that is served is the first of the abstract queue, and the rest
\* are those the thread has not received.
LEMMA StoreQueueEnds ==
    ASSUME TypeOK
    PROVE  /\ StoreQueue \in Seq(Requests)
           /\ step # "Idle" => /\ StoreQueue # <<>> /\ Head(StoreQueue) = job
                               /\ Tail(StoreQueue) = file_tx
                               /\ job \in Requests
<1>1. file_tx \in Seq(Requests) BY DEF TypeOK, ServiceTypeOK
<1>2. CASE step = "Idle" BY <1>1, <1>2 DEF StoreQueue
<1>3. CASE step # "Idle"
    <2>1. job \in Requests BY <1>3 DEF TypeOK, ServiceTypeOK
    <2>2. <<job>> \o file_tx \in Seq(Requests) BY <1>1, <2>1
    <2>3. <<job>> \o file_tx # <<>> BY <1>1, <2>1
    <2>4. Head(<<job>> \o file_tx) = job BY <1>1, <2>1
    <2>5. Tail(<<job>> \o file_tx) = file_tx BY <1>1, <2>1
    <2> QED BY <1>3, <2>1, <2>2, <2>3, <2>4, <2>5 DEF StoreQueue
<1> QED BY <1>2, <1>3

\* Receiving a request leaves the abstract queue as it was.
LEMMA ReceiveKeepsQueue ==
    ASSUME TypeOK, NEW op, Receive(op), step' # "Idle", job' = Head(file_tx)
    PROVE  StoreQueue' = StoreQueue
<1>1. /\ step = "Idle" /\ file_tx # <<>> /\ file_tx' = Tail(file_tx)
      /\ file_tx \in Seq(Requests)
    BY DEF Receive, TypeOK, ServiceTypeOK
<1>2. file_tx = <<Head(file_tx)>> \o Tail(file_tx) BY <1>1
<1> QED BY <1>1, <1>2 DEF StoreQueue

\* An answer to the request received, or to the job, is an abstract answer.
LEMMA ReplyAnswers ==
    ASSUME TypeOK, NEW request, NEW content, NEW revision, NEW error,
           Reply(request, content, revision, error),
           StoreQueue # <<>>, request = Head(StoreQueue),
           step' = "Idle", file_tx' = Tail(StoreQueue),
           UNCHANGED <<disk, writes>>
    PROVE  Store!Answer(content, revision, error)
<1>1. StoreQueue' = Tail(StoreQueue) BY DEF StoreQueue
<1> QED BY <1>1 DEF Store!Answer, Store!Request, Reply, StoreQueue

LEMMA FinishAnswers ==
    ASSUME TypeOK, NEW content, NEW revision, NEW error, step # "Idle",
           Finish(content, revision, error), UNCHANGED <<disk, writes, file_tx>>
    PROVE  Store!Answer(content, revision, error)
<1>1. StoreQueue # <<>> /\ Head(StoreQueue) = job /\ Tail(StoreQueue) = file_tx
    BY StoreQueueEnds
<1> QED BY <1>1, ReplyAnswers DEF Finish

LEMMA ReceivedAnswers ==
    ASSUME TypeOK, NEW op, NEW content, NEW revision, NEW error, Receive(op),
           Reply(Head(file_tx), content, revision, error),
           UNCHANGED <<disk, writes, worker>>
    PROVE  Store!Answer(content, revision, error)
<1>1. step = "Idle" /\ file_tx # <<>> /\ file_tx' = Tail(file_tx)
    BY DEF Receive
<1>2. StoreQueue = file_tx BY <1>1 DEF StoreQueue
<1> QED BY <1>1, <1>2, ReplyAnswers DEF worker

\* Every system call of the thread is a step of the abstract service, or none.
LEMMA StoreWorkerStep ==
    ASSUME TypeOK, CallsAgree, Worker
    PROVE  Store!Next \/ UNCHANGED Store!storeVars
<1> USE DEF Store!Next
<1>0. /\ step # "Idle" => Store!Request = job
      /\ step = "Idle" => Store!Request = Head(file_tx)
    BY StoreQueueEnds DEF Store!Request, StoreQueue
<1>q. step # "Idle" => StoreQueue # <<>> BY StoreQueueEnds
<1>1. CASE LoadMetadata \/ SaveChecked
    <2>1. \E op : Receive(op) BY <1>1 DEF LoadMetadata, SaveChecked
    <2>2. step' \in {"Read", "Rename"} /\ job' = Head(file_tx)
        BY <1>1 DEF LoadMetadata, SaveChecked, Continue
    <2>3. StoreQueue' = StoreQueue BY <2>1, <2>2, ReceiveKeepsQueue
    <2>4. step # "Stat" /\ step' # "Stat" BY <2>1, <2>2 DEF Receive
    <2>5. UNCHANGED <<disk, writes, response_rx>>
        BY <1>1 DEF LoadMetadata, SaveChecked
    <2> QED BY <2>3, <2>4, <2>5 DEF Store!storeVars, StoreQueue
<1>2. CASE LoadRefused \/ SaveRefused
    <2>1. Store!Answer(Empty, NoRevision, "failed") /\ step = "Idle"
        BY <1>2, ReceivedAnswers DEF LoadRefused, SaveRefused, Receive
    <2> QED BY <2>1 DEF Store!AnswerFailed
<1>3. CASE SaveConflict
    <2>1. Store!Answer(Empty, NoRevision, "conflict") /\ step = "Idle"
        BY <1>3, ReceivedAnswers DEF SaveConflict, Receive
    <2>2. /\ Head(file_tx).op = "Save" /\ file_tx # <<>>
          /\ Reachable(Head(file_tx)) /\ Conflict(Head(file_tx))
        BY <1>3 DEF SaveConflict, Receive
    <2> QED BY <2>1, <2>2, <1>0
            DEF Store!AnswerConflict, Store!Inside, Store!File, Reachable,
                Conflict
<1>4. CASE LoadRead
    <2>1. Store!Answer(disk[job.path].text, stamp, "none") /\ step = "Read"
        BY <1>4, FinishAnswers DEF LoadRead
    <2>2. /\ job.op = "Load" /\ job.path \in Under[job.root]
          /\ stamp \in 1..disk[job.path].revision
          /\ disk[job.path].text \in Texts
        BY <1>4 DEF LoadRead, CallsAgree
    <2>3. disk[job.path].text # Absent BY <2>2, TextAssumption
    <2> QED BY <2>1, <2>2, <2>3, <1>0, <1>q
            DEF Store!AnswerLoaded, Store!Inside, Store!File, StoreQueue
<1>5. CASE LoadUnreadable \/ SaveAbandoned
    <2>1. Store!Answer(Empty, NoRevision, "failed") /\ step # "Stat"
        BY <1>5, FinishAnswers DEF LoadUnreadable, SaveAbandoned
    <2> QED BY <2>1 DEF Store!AnswerFailed
<1>6. CASE SaveRename
    <2>1. /\ step = "Rename" /\ Write(job.path, job.content, "save")
          /\ job' = job /\ step' = "Stat"
          /\ UNCHANGED <<file_tx, response_rx>>
        BY <1>6 DEF SaveRename, Continue
    <2>2. StoreQueue' = StoreQueue BY <2>1 DEF StoreQueue
    <2>3. Store!Put(job.path, job.content, "save")
        BY <2>1 DEF Write, Store!Put
    <2>4. Store!Inside /\ job.op = "Save"
          /\ job.expected_revision \in {NoRevision, disk[job.path].revision}
        BY <2>1, <1>0 DEF CallsAgree, Store!Inside, Store!File
    <2> QED BY <2>1, <2>2, <2>3, <2>4, <1>0, <1>q
            DEF Store!Replace, Store!File, StoreQueue
<1>7. CASE SaveStat
    <2>1. step = "Stat" /\ disk[job.path].text # Absent
        BY <1>7 DEF SaveStat, CallsAgree
    <2>2. Store!Answer(Empty, disk[job.path].revision, "none")
        BY <1>7, <2>1, FinishAnswers DEF SaveStat
    <2> QED BY <2>1, <2>2, <1>0 DEF Store!AnswerSaved, Store!File
<1> QED BY <1>1, <1>2, <1>3, <1>4, <1>5, <1>6, <1>7 DEF Worker

LEMMA StoreOthersStep ==
    ASSUME TypeOK, QuietSaves, OtherPrograms PROVE Store!Next
<1>1. PICK path \in Paths, text \in Contents : OtherWrites(path, text)
    BY DEF OtherPrograms
<1>2. step # "Idle" => Store!Request = job
    BY StoreQueueEnds DEF Store!Request, StoreQueue
<1>3. ~(step = "Stat" /\ Store!Request.path = path)
    BY <1>1, <1>2 DEF OtherWrites
<1>4. Store!Put(path, text, "other") BY <1>1 DEF OtherWrites, Write, Store!Put
<1>5. UNCHANGED <<file_tx, step, job, response_rx>>
    BY <1>1 DEF OtherWrites, worker
<1> QED BY <1>3, <1>4, <1>5 DEF Store!OtherPut, Store!Next

\* A step of the window alone sends at most one request.
LEMMA UserSends ==
    ASSUME User \/ Shells
    PROVE  /\ UNCHANGED <<disk, writes, step, job, response_rx>>
           /\ file_tx' = file_tx \/ \E request : file_tx' = Append(file_tx, request)
BY DEF User, Shells, HideSurface, ShowSurface, ToggleEdit, SaveFile,
       DiscardEdits, OpenFile, OpenBlocked, Type, RemoveDisplayRoot,
       RequestClose, ConfirmClose, CancelClose, Ui, Send, Move, FocusSpot,
       PaneDies, ChangePlace, serviceVars, worker

LEMMA StoreUserStep ==
    ASSUME TypeOK, TypeOK', User \/ Shells
    PROVE  Store!Next \/ UNCHANGED Store!storeVars
<1>1. /\ UNCHANGED <<disk, writes, step, job, response_rx>>
      /\ file_tx' = file_tx \/ \E request : file_tx' = Append(file_tx, request)
    BY UserSends
<1>2. CASE file_tx' = file_tx BY <1>1, <1>2 DEF Store!storeVars
<1>3. CASE \E request : file_tx' = Append(file_tx, request)
    <2>1. PICK request : file_tx' = Append(file_tx, request) BY <1>3
    <2>2. /\ file_tx \in Seq(Requests) /\ file_tx' \in Seq(Requests)
          /\ StoreQueue \in Seq(Requests) /\ StoreQueue' \in Seq(Requests)
        BY StoreQueueEnds DEF TypeOK, ServiceTypeOK, StoreQueue
    <2>3. request \in Requests
        <3>1. Len(file_tx') = Len(file_tx) + 1
              /\ file_tx'[Len(file_tx) + 1] = request
            BY <2>1, <2>2, AppendProperties
        <3> QED BY <3>1, <2>2
    <2>4. StoreQueue' = Append(StoreQueue, request)
        <3>1. CASE step = "Idle" BY <3>1, <1>1, <2>1 DEF StoreQueue
        <3>2. CASE step # "Idle"
            <4>1. job \in Requests BY <3>2 DEF TypeOK, ServiceTypeOK
            <4>2. <<job>> \o Append(file_tx, request)
                    = Append(<<job>> \o file_tx, request)
                BY <4>1, <2>2, <2>3
            <4> QED BY <3>2, <4>2, <1>1, <2>1 DEF StoreQueue
        <3> QED BY <3>1, <3>2
    <2>5. /\ StoreQueue' # <<>>
          /\ StoreQueue'[Len(StoreQueue')] = request
        BY <2>2, <2>3, <2>4, AppendProperties
    <2> QED BY <1>1, <2>3, <2>4, <2>5
            DEF Store!Next, Store!Submit, StoreQueue
<1> QED BY <1>1, <1>2, <1>3

LEMMA StoreStep ==
    ASSUME TypeOK, TypeOK', CallsAgree, QuietSaves, [Next]_vars
    PROVE  Store!Next \/ UNCHANGED Store!storeVars
<1>1. CASE User \/ Shells BY <1>1, StoreUserStep
<1>2. CASE Service
    BY <1>2, StoreWorkerStep, StoreOthersStep DEF Service
<1>3. CASE ApplyFileResponse
    <2>1. Take BY <1>3 DEF ApplyFileResponse, ApplyFileLoaded, ApplyFileSaved
    <2> QED BY <2>1 DEF Take, worker, Store!Next, Store!TakeAnswer
<1>4. CASE ResolveContext \/ ApplyContext \/ UNCHANGED vars
    BY <1>4 DEF ResolveContext, ApplyContext, vars, serviceVars, worker,
                Store!storeVars
<1> QED BY <1>1, <1>2, <1>3, <1>4 DEF Next

-------------------------------------------------------------------------------
\* The thread implements the abstract service, for every instance in which no
\* other program writes a file during a save of it: a save is one atomic
\* compare-and-swap of a file inside its root or nothing, requests are answered
\* once and in order, and no answer claims what did not happen.
THEOREM StoreRefined == ASSUME QuietSaves PROVE Spec => ImplementsStore
<1>1. Init => Store!Init
    BY DEF Init, ServiceInit, Store!Init
<1>2. Init => CallsAgree
    BY DEF Init, ServiceInit, CallsAgree
<1>3. TypeOK /\ CallsAgree /\ [Next]_vars => CallsAgree'
    BY QuietSaves, CallsAgreeStep
<1>4. TypeOK /\ TypeOK' /\ CallsAgree /\ [Next]_vars
        => [Store!Next]_(Store!storeVars)
    BY QuietSaves, StoreStep
<1> QED BY <1>1, <1>2, <1>3, <1>4, TypeCorrect, PTL
        DEF Spec, ImplementsStore, Store!Spec

-------------------------------------------------------------------------------
\* NoLostUpdate holds of every instance in which no other program writes a file
\* during a save of it: a save renames over the revision that was loaded, or is
\* refused.
THEOREM NoUpdateLost == ASSUME QuietSaves PROVE Spec => NoLostUpdate
<1>1. Init => CallsAgree
    BY DEF Init, ServiceInit, CallsAgree
<1>2. TypeOK /\ CallsAgree /\ [Next]_vars => CallsAgree'
    BY QuietSaves, CallsAgreeStep
<1>3. CallsAgree /\ [Next]_vars
        => [SaveRename /\ job.expected_revision # NoRevision =>
                disk[job.path].revision = job.expected_revision]_vars
    BY DEF SaveRename, CallsAgree
<1> QED BY <1>1, <1>2, <1>3, TypeCorrect, PTL DEF Spec, NoLostUpdate

-------------------------------------------------------------------------------
(* A save never conflicts with the window's own writes *)

\* The newest in the service has been answered.
Answered == file_tx = <<>> /\ step = "Idle" /\ response_rx # <<>>
AnsweredWell == Answered /\ Newest.error = "none"

\* The revision is the file's, or another program has written the file since.
Known(path, revision) ==
    disk[path].revision = revision \/ disk[path].by = "other"

\* There is one request, job or answer in the service.
Alone ==
    \/ Len(file_tx) = 1 /\ step = "Idle" /\ response_rx = <<>>
    \/ file_tx = <<>> /\ step # "Idle" /\ response_rx = <<>>
    \/ file_tx = <<>> /\ step = "Idle" /\ Len(response_rx) = 1

\* A patient user sends a save when nothing is in the service: everything else
\* comes after it.  A surface whose text has a revision waits for a save alone.
SavesFirst ==
    /\ \A i \in 1..Len(file_tx) : file_tx[i].op = "Save" =>
            i = 1 /\ step = "Idle" /\ response_rx = <<>>
    /\ step = "Read" => job.op = "Load"
    /\ step \in {"Rename", "Stat"} => job.op = "Save" /\ response_rx = <<>>
    /\ fw.revision # NoRevision => fw.active_path # NoPath
    /\ fw.revision # NoRevision /\ InService =>
            Pending /\ Newest.op = "Save" /\ Alone

\* What the window and the thread take for the revision of a file.
RevisionsKnown ==
    /\ step = "Idle" /\ file_tx # <<>> /\ Head(file_tx).op = "Save"
            /\ Head(file_tx).expected_revision # NoRevision
        => Known(Head(file_tx).path, Head(file_tx).expected_revision)
    /\ step = "Read" => Known(job.path, stamp)
    /\ step = "Stat" => disk[job.path].by = "other" \/ disk[job.path].text # Absent
    /\ Pending /\ AnsweredWell => Known(fw.active_path, Newest.revision)
    /\ fw.revision # NoRevision /\ step # "Stat" /\ ~AnsweredWell
        => Known(fw.active_path, fw.revision)

\* What a system call does to the queues.
Received ==
    /\ step = "Idle" /\ file_tx # <<>> /\ file_tx' = Tail(file_tx)
    /\ \/ /\ step' # "Idle" /\ job' = Head(file_tx)
          /\ response_rx' = response_rx
          /\ step' = IF job'.op = "Load" THEN "Read" ELSE "Rename"
       \/ /\ step' = "Idle" /\ response_rx' # <<>>
          /\ response_rx'[Len(response_rx')].error # "none"
          /\ Len(response_rx') = Len(response_rx) + 1
Finished ==
    /\ step # "Idle" /\ step' = "Idle" /\ file_tx' = file_tx
    /\ response_rx' # <<>> /\ Len(response_rx') = Len(response_rx) + 1
Renamed ==
    /\ step = "Rename" /\ step' = "Stat"
    /\ UNCHANGED <<job, file_tx, response_rx>>

LEMMA WorkerQueues ==
    ASSUME TypeOK, Worker PROVE Received \/ Finished \/ Renamed
<1>1. \A op : Receive(op) => step = "Idle" /\ Head(file_tx).op = op
                             /\ file_tx # <<>> /\ file_tx' = Tail(file_tx)
    BY DEF Receive
<1>2. CASE LoadMetadata \/ SaveChecked
    BY <1>1, <1>2 DEF LoadMetadata, SaveChecked, Continue, Received
<1>3. CASE LoadRefused \/ SaveConflict \/ SaveRefused
    <2>1. PICK error : error # "none"
                       /\ Reply(Head(file_tx), Empty, NoRevision, error)
        BY <1>3 DEF LoadRefused, SaveConflict, SaveRefused
    <2> QED BY <1>1, <1>3, <2>1, ReplyNewest, ReplyRecord
            DEF LoadRefused, SaveConflict, SaveRefused, Received, worker
<1>4. CASE SaveRename BY <1>4 DEF SaveRename, Continue, Renamed
<1>5. CASE LoadRead \/ LoadUnreadable \/ SaveAbandoned \/ SaveStat
    <2>1. \E content, revision, error : Finish(content, revision, error)
        BY <1>5 DEF LoadRead, LoadUnreadable, SaveAbandoned, SaveStat
    <2>2. step # "Idle" /\ file_tx' = file_tx
        BY <1>5 DEF LoadRead, LoadUnreadable, SaveAbandoned, SaveStat
    <2> QED BY <2>1, <2>2, ReplyRecord DEF Finish, Finished
<1> QED BY <1>2, <1>3, <1>4, <1>5 DEF Worker

LEMMA SavesFirstWorker ==
    ASSUME TypeOK, SavesFirst, Worker, UNCHANGED fw PROVE SavesFirst'
<1>0. file_tx \in Seq(Requests) /\ response_rx \in Seq(Responses)
      /\ step \in Steps /\ (step # "Idle" => job \in Requests)
    BY DEF TypeOK, ServiceTypeOK
<1>1. fw.revision # NoRevision => Pending' /\ Newest'.op = "Save" /\ Alone
    BY WorkerNewest DEF SavesFirst, Pending
<1>2. CASE Received
    <2>1. /\ Len(file_tx) \in Nat \ {0} /\ Len(file_tx') = Len(file_tx) - 1
          /\ \A i \in 1..Len(file_tx') : /\ file_tx'[i] = file_tx[i + 1]
                                         /\ i + 1 \in 1..Len(file_tx)
                                         /\ i + 1 # 1
          /\ Head(file_tx) = file_tx[1] /\ 1 \in 1..Len(file_tx)
          /\ file_tx' \in Seq(Requests) /\ Head(file_tx) \in Requests
        BY <1>0, <1>2, HeadTailProperties DEF Received
    <2>2. \A i \in 1..Len(file_tx') : file_tx'[i].op # "Save"
        BY <2>1 DEF SavesFirst
    <2>3. step' = "Read" => job'.op = "Load"
        BY <1>2, <2>1 DEF Received, Requests
    <2>4. step' \in {"Rename", "Stat"} => job'.op = "Save" /\ response_rx' = <<>>
        <3>1. Head(file_tx).op = "Save" => response_rx = <<>>
            BY <2>1 DEF SavesFirst
        <3> QED BY <1>2, <2>1, <3>1 DEF Received, Requests
    <2>5. fw.revision # NoRevision => Alone'
        <3>1. ASSUME fw.revision # NoRevision PROVE Alone'
            <4>1. Len(file_tx) = 1 /\ response_rx = <<>> /\ Len(response_rx) = 0
                BY <1>1, <1>2, <3>1, EmptySeq DEF Alone, Received
            <4>2. file_tx' = <<>> BY <2>1, <4>1, EmptySeq
            <4> QED BY <1>2, <4>1, <4>2 DEF Alone, Received
        <3> QED BY <3>1
    <2> QED BY <1>1, <2>2, <2>3, <2>4, <2>5 DEF SavesFirst
<1>3. CASE Finished
    <2>1. \A i \in 1..Len(file_tx') : file_tx'[i].op # "Save"
        BY <1>3 DEF SavesFirst, Finished
    <2>2. fw.revision # NoRevision => Alone'
        <3>1. ASSUME fw.revision # NoRevision PROVE Alone'
            <4>1. file_tx = <<>> /\ response_rx = <<>> /\ Len(response_rx) = 0
                BY <1>1, <1>3, <3>1, EmptySeq DEF Alone, Finished
            <4> QED BY <1>3, <4>1 DEF Alone, Finished
        <3> QED BY <3>1
    <2> QED BY <1>1, <1>3, <2>1, <2>2 DEF SavesFirst, Finished
<1>4. CASE Renamed
    BY <1>1, <1>4 DEF SavesFirst, Renamed, Alone
<1> QED BY <1>2, <1>3, <1>4, WorkerQueues

LEMMA SavesFirstStep ==
    ASSUME TypeOK, PendingIsOutstanding, InOrder, SettledIsIdle, SavesFirst,
           PatientUser, [Next]_vars
    PROVE  SavesFirst'
<1>1. CASE User
    <2>1. CASE Quiet(fw') /\ UNCHANGED <<step, job, response_rx, file_tx>>
        BY <2>1 DEF Quiet, SameFile, NoFile, LeftClean, TextTyped, SavesFirst,
                    Pending, Newest, InService, Alone
    <2>2. ASSUME NEW request, FileAsked(fw', request) PROVE SavesFirst'
        <3>1. UNCHANGED <<step, job, response_rx>> BY <1>1, UserFile
        <3>2. /\ Len(file_tx) \in Nat /\ Len(file_tx') = Len(file_tx) + 1
              /\ \A i \in 1..Len(file_tx) : file_tx'[i] = file_tx[i]
              /\ file_tx'[Len(file_tx) + 1].op = "Load"
            BY <2>2, <3>1, SentNewest DEF FileAsked
        <3>3. \A i \in 1..Len(file_tx') : i \in 1..Len(file_tx)
                                          \/ i = Len(file_tx) + 1
            BY <3>2
        <3> QED BY <2>2, <3>1, <3>2, <3>3 DEF SavesFirst, FileAsked
    <2>3. ASSUME NEW request, TextSent(fw', request) PROVE SavesFirst'
        <3>1. UNCHANGED <<step, job, response_rx>> BY <1>1, UserFile
        <3>2. file_tx = <<>> /\ step = "Idle" /\ response_rx = <<>>
            BY <2>3 DEF TextSent, Patience, SettledIsIdle, InService
        <3>3. /\ Newest' = request /\ Len(file_tx') = 1
            BY <2>3, <3>1, <3>2, SentNewest, EmptySeq DEF TextSent
        <3>4. Pending'
            BY <2>3 DEF TextSent, Requests, Pending, NoRequest
        <3>5. \A i \in 1..Len(file_tx') : i = 1 BY <3>3
        <3> QED BY <2>3, <3>1, <3>2, <3>3, <3>4, <3>5
                DEF SavesFirst, TextSent, Alone
    <2> QED BY <1>1, <2>1, <2>2, <2>3, UserFile
<1>2. CASE Shells \/ ResolveContext \/ ApplyContext \/ UNCHANGED vars
    <2>1. UNCHANGED <<step, job, response_rx, file_tx>>
          /\ (SameFile(fw') \/ NoFile(fw'))
        BY <1>2, WindowFile
    <2> QED BY <2>1 DEF SameFile, NoFile, SavesFirst, Pending, Newest,
                        InService, Alone
<1>3. CASE Service /\ Worker BY <1>3, SavesFirstWorker DEF Service
<1>4. CASE Service /\ OtherPrograms
    BY <1>4 DEF Service, OtherPrograms, OtherWrites, worker, SavesFirst,
                Pending, Newest, InService, Alone
<1>5. CASE ApplyFileResponse
    <2>0. response_rx \in Seq(Responses) BY DEF TypeOK, ServiceTypeOK
    <2>1. /\ response_rx # <<>> /\ response_rx' = Tail(response_rx)
          /\ UNCHANGED <<file_tx, step, job>>
        BY <1>5, TakenAnswer DEF Take
    <2>2. /\ \A i \in 1..Len(file_tx') : file_tx'[i].op # "Save"
          /\ step' \notin {"Rename", "Stat"}
        BY <2>1 DEF SavesFirst
    <2>3. CASE ~InService' /\ Pending /\ fw'.active_path = fw.active_path
               /\ Newest.path = fw.active_path /\ Newest = Head(response_rx)
        <3>1. Newest \in Responses BY <2>0, <2>1, <2>3, QueueEnds
        <3>2. fw'.active_path # NoPath
            BY <2>3, <3>1, NoneAssumption DEF Responses
        <3> QED BY <2>1, <2>2, <2>3, <3>2 DEF SavesFirst
    <2>4. CASE fw' = fw /\ (Pending => InService' /\ Newest' = Newest)
        <3>1. ASSUME fw.revision # NoRevision PROVE FALSE
            <4>1. InService BY <2>1 DEF InService
            <4>2. Pending /\ Alone BY <3>1, <4>1 DEF SavesFirst
            <4>3. file_tx = <<>> /\ step = "Idle" /\ Len(response_rx) = 1
                BY <2>1, <4>2 DEF Alone
            <4>4. response_rx' = <<>>
                <5>1. Len(Tail(response_rx)) = 0 /\ Tail(response_rx) \in Seq(Responses)
                    BY <2>0, <2>1, <4>3, HeadTailProperties
                <5> QED BY <2>1, <5>1, EmptySeq
            <4> QED BY <2>1, <2>4, <4>2, <4>3, <4>4 DEF InService
        <3> QED BY <2>1, <2>2, <2>4, <3>1 DEF SavesFirst
    <2> QED BY <1>5, <2>3, <2>4, TakenAnswer
<1> QED BY <1>1, <1>2, <1>3, <1>4, <1>5 DEF Next, Service

\* A write of another program makes every revision of its file known.
LEMMA KnownAfterOthers ==
    ASSUME TypeOK, NEW path \in Paths, NEW text, Write(path, text, "other")
    PROVE  \A p \in Paths : /\ disk'[p] = disk[p] \/ disk'[p].by = "other"
                            /\ disk[p].by = "other" => disk'[p].by = "other"
<1> DEFINE new == [revision |-> writes + 1, text |-> text, by |-> "other"]
<1>1. disk' = [disk EXCEPT ![path] = new] /\ new.by = "other" BY DEF Write
<1> HIDE DEF new
<1>2. \A p \in Paths : disk'[p] = IF p = path THEN new ELSE disk[p]
    BY <1>1 DEF TypeOK, ServiceTypeOK
<1> QED BY <1>1, <1>2

\* The paths of the service, and of a surface with a revision or a request.
LEMMA KnownPaths ==
    ASSUME TypeOK, PendingIsOutstanding, SavesFirst
    PROVE  /\ file_tx # <<>> => Head(file_tx).path \in Paths
           /\ step # "Idle" => job.path \in Paths
           /\ fw.revision # NoRevision => fw.active_path \in Paths
           /\ Pending => fw.active_path \in Paths
<1>1. file_tx # <<>> => /\ Head(file_tx) \in Requests
                        /\ file_tx[Len(file_tx)] \in Requests
    BY QueueEnds, LenProperties, ElementOfSeq, EmptySeq
       DEF TypeOK, ServiceTypeOK
<1>2. step # "Idle" => job \in Requests BY DEF TypeOK, ServiceTypeOK
<1>3. response_rx # <<>> => response_rx[Len(response_rx)] \in Responses
    BY LenProperties, ElementOfSeq, EmptySeq DEF TypeOK, ServiceTypeOK
<1>4. \A request \in Requests \cup Responses : request.path \in Paths
    BY DEF Requests, Responses
<1>5. Pending => Newest \in Requests \cup Responses
    BY <1>1, <1>2, <1>3 DEF PendingIsOutstanding, InService, Newest
<1>6. fw.active_path \in Paths \cup {NoPath}
    BY DEF TypeOK, WindowTypeOK, WorkspaceUi
<1> QED BY <1>1, <1>2, <1>4, <1>5, <1>6 DEF PendingIsOutstanding, SavesFirst

LEMMA KnownOthersStep ==
    ASSUME TypeOK, PendingIsOutstanding, SavesFirst, RevisionsKnown,
           OtherPrograms, UNCHANGED fw
    PROVE  RevisionsKnown'
<1>1. PICK path \in Paths, text \in Contents : OtherWrites(path, text)
    BY DEF OtherPrograms
<1>2. UNCHANGED <<file_tx, step, job, stamp, response_rx, fw>>
    BY <1>1 DEF OtherWrites, worker
<1>3. \A p \in Paths : /\ disk'[p] = disk[p] \/ disk'[p].by = "other"
                       /\ disk[p].by = "other" => disk'[p].by = "other"
    BY <1>1, KnownAfterOthers DEF OtherWrites
<1>4. /\ file_tx # <<>> => Head(file_tx).path \in Paths
      /\ step # "Idle" => job.path \in Paths
      /\ fw.revision # NoRevision => fw.active_path \in Paths
      /\ Pending => fw.active_path \in Paths
    BY KnownPaths
<1>5. \A p \in Paths : \A r : Known(p, r) =>
            disk'[p].revision = r \/ disk'[p].by = "other"
    BY <1>3 DEF Known
<1>6. UNCHANGED <<Pending, AnsweredWell, Newest>>
    BY <1>2 DEF Pending, AnsweredWell, Answered, Newest
<1>7. step = "Stat" =>
        disk'[job.path].by = "other" \/ disk'[job.path].text # Absent
    BY <1>3, <1>4 DEF RevisionsKnown
<1> QED BY <1>2, <1>4, <1>5, <1>6, <1>7 DEF RevisionsKnown, Known

\* The thread answers with the revision of the file, and replaces a file only
\* when nothing else is in the service.
LEMMA KnownWorkerStep ==
    ASSUME TypeOK, PendingIsOutstanding, SavesFirst, SavesFirst',
           RevisionsKnown, Worker, UNCHANGED fw
    PROVE  RevisionsKnown'
<1>0. /\ file_tx \in Seq(Requests) /\ step \in Steps
      /\ (step # "Idle" => job \in Requests)
    BY DEF TypeOK, ServiceTypeOK
<1>p. /\ file_tx # <<>> => Head(file_tx).path \in Paths
      /\ step # "Idle" => job.path \in Paths
      /\ fw.revision # NoRevision => fw.active_path \in Paths
      /\ Pending => fw.active_path \in Paths
    BY KnownPaths
<1>n. /\ Pending => Newest'.path = fw.active_path
      /\ Pending' = Pending /\ InService
    BY WorkerNewest DEF PendingIsOutstanding, Pending
<1>a. response_rx' # <<>> =>
        ~(step' = "Idle" /\ file_tx' # <<>> /\ Head(file_tx').op = "Save")
    <2> SUFFICES ASSUME file_tx' # <<>>, file_tx' \in Seq(Requests),
                        Head(file_tx').op = "Save"
                 PROVE  response_rx' = <<>>
        BY ServiceTypeStep DEF TypeOK, ServiceTypeOK
    <2>1. Head(file_tx') = file_tx'[1] /\ 1 \in 1..Len(file_tx')
        BY HeadTailProperties
    <2> QED BY <2>1 DEF SavesFirst
<1>1. ASSUME NEW op, Receive(op), UNCHANGED <<disk, response_rx>>,
             step' \in {"Read", "Rename"}, job' = Head(file_tx),
             stamp' = disk[Head(file_tx).path].revision
      PROVE  RevisionsKnown'
    <2>1. step = "Idle" /\ file_tx # <<>> BY <1>1 DEF Receive
    <2>2. ~AnsweredWell /\ ~AnsweredWell'
        BY <1>1, <2>1 DEF AnsweredWell, Answered
    <2> QED BY <1>1, <2>1, <2>2 DEF RevisionsKnown, Known
<1>2. ASSUME NEW op, NEW error, error # "none", Receive(op),
             UNCHANGED <<disk, worker>>,
             Reply(Head(file_tx), Empty, NoRevision, error)
      PROVE  RevisionsKnown'
    <2>1. step = "Idle" /\ step' = "Idle" /\ file_tx # <<>>
        BY <1>2 DEF Receive, worker
    <2>2. response_rx' # <<>> /\ response_rx'[Len(response_rx')].error = error
        BY <1>2, ReplyNewest
    <2>3. ~AnsweredWell /\ ~AnsweredWell'
        BY <1>2, <2>1, <2>2 DEF AnsweredWell, Answered, Newest
    <2>4. fw.revision # NoRevision => Known(fw.active_path, fw.revision)
        BY <2>1, <2>3 DEF RevisionsKnown
    <2> QED BY <1>2, <1>a, <2>1, <2>2, <2>3, <2>4 DEF RevisionsKnown, Known
<1>3. ASSUME NEW content, NEW revision, NEW error, step # "Idle",
             Finish(content, revision, error), UNCHANGED <<file_tx, disk>>,
             error = "none" => Known(job.path, revision),
             error # "none" /\ step = "Stat" => disk[job.path].by = "other"
      PROVE  RevisionsKnown'
    <2>1. step' = "Idle" /\ response_rx' # <<>>
          /\ response_rx'[Len(response_rx')].error = error
          /\ response_rx'[Len(response_rx')].revision = revision
        BY <1>3, ReplyNewest, ReplyRecord DEF Finish
    <2>2. file_tx = <<>> => /\ Newest = job
                            /\ Newest'.error = error
                            /\ Newest'.revision = revision
                            /\ Pending => job.path = fw.active_path
        BY <1>3, <2>1 DEF Newest, PendingIsOutstanding
    <2>3. Pending' /\ AnsweredWell' => Known(fw.active_path, Newest'.revision)
        BY <1>3, <1>n, <2>2 DEF AnsweredWell, Answered
    <2>4. ASSUME fw.revision # NoRevision, ~AnsweredWell'
          PROVE  Known(fw.active_path, fw.revision)
        <3>1. Pending /\ file_tx = <<>>
            BY <1>3, <1>n, <2>4 DEF SavesFirst, Alone
        <3>2. error # "none"
            BY <1>3, <2>1, <2>2, <2>4, <3>1 DEF AnsweredWell, Answered
        <3>3. CASE step = "Stat" BY <1>3, <2>2, <3>1, <3>2, <3>3 DEF Known
        <3>4. CASE step # "Stat"
            BY <1>3, <2>4, <3>4 DEF RevisionsKnown, AnsweredWell, Answered
        <3> QED BY <3>3, <3>4
    <2> QED BY <1>3, <1>a, <2>1, <2>3, <2>4 DEF RevisionsKnown, Known
<1>4. CASE LoadMetadata
    BY <1>4, <1>1 DEF LoadMetadata, Continue
<1>5. CASE SaveChecked
    BY <1>5, <1>1 DEF SaveChecked, Continue
<1>6. CASE LoadRefused \/ SaveConflict \/ SaveRefused
    BY <1>6, <1>2 DEF LoadRefused, SaveConflict, SaveRefused
<1>7. CASE LoadRead
    BY <1>7, <1>3 DEF LoadRead, RevisionsKnown
<1>8. CASE LoadUnreadable \/ SaveAbandoned
    BY <1>8, <1>3 DEF LoadUnreadable, SaveAbandoned
<1>9. CASE SaveStat
    <2>1. step = "Stat" /\ UNCHANGED <<file_tx, disk>> BY <1>9 DEF SaveStat
    <2>2. CASE disk[job.path].text # Absent
        <3>1. Finish(Empty, disk[job.path].revision, "none")
            BY <1>9, <2>2 DEF SaveStat
        <3> QED BY <2>1, <3>1, <1>3 DEF Known
    <2>3. CASE disk[job.path].text = Absent
        <3>1. Finish(Empty, NoRevision, "failed") BY <1>9, <2>3 DEF SaveStat
        <3>2. disk[job.path].by = "other" BY <2>1, <2>3 DEF RevisionsKnown
        <3> QED BY <2>1, <3>1, <3>2, <1>3
    <2> QED BY <2>2, <2>3
<1>10. CASE SaveRename
    <2>1. /\ step' = "Stat" /\ job' = job /\ step = "Rename"
          /\ Write(job.path, job.content, "save")
        BY <1>10 DEF SaveRename, Continue
    <2>2. disk'[job.path].text = job.content
        <3> DEFINE new == [revision |-> writes + 1, text |-> job.content,
                           by |-> "save"]
        <3>1. disk' = [disk EXCEPT ![job.path] = new] /\ new.text = job.content
            BY <2>1 DEF Write
        <3> HIDE DEF new
        <3> QED BY <1>p, <2>1, <3>1 DEF TypeOK, ServiceTypeOK
    <2>3. job.content # Absent
        BY <1>0, <2>1, TextAssumption DEF Requests
    <2>4. ~AnsweredWell' BY <2>1 DEF AnsweredWell, Answered
    <2> QED BY <2>1, <2>2, <2>3, <2>4 DEF RevisionsKnown
<1> QED BY <1>4, <1>5, <1>6, <1>7, <1>8, <1>9, <1>10 DEF Worker

LEMMA KnownUserStep ==
    ASSUME TypeOK, SettledIsIdle, SavesFirst, RevisionsKnown, PatientUser, User
    PROVE  RevisionsKnown'
<1>0. UNCHANGED <<disk, writes, step, job, stamp, response_rx>> BY UserFile
<1>t. file_tx \in Seq(Requests) BY DEF TypeOK, ServiceTypeOK
<1>1. CASE Quiet(fw') /\ UNCHANGED file_tx
    <2>1. UNCHANGED <<Newest, AnsweredWell>>
        BY <1>0, <1>1 DEF Newest, AnsweredWell, Answered
    <2>2. \/ /\ fw'.active_path = fw.active_path /\ fw'.revision = fw.revision
             /\ fw'.pending_request = fw.pending_request
          \/ fw'.revision = NoRevision /\ fw'.pending_request = NoRequest
        BY <1>1 DEF Quiet, SameFile, NoFile, LeftClean, TextTyped
    <2> QED BY <1>0, <1>1, <2>1, <2>2 DEF RevisionsKnown, Known, Pending
<1>2. ASSUME NEW request, FileAsked(fw', request) PROVE RevisionsKnown'
    <2>1. /\ file_tx' # <<>> /\ request \in Requests /\ request.op = "Load"
          /\ file_tx' = Append(file_tx, request)
        BY <1>0, <1>2, SentNewest DEF FileAsked, Send
    <2>2. ~AnsweredWell' BY <2>1 DEF AnsweredWell, Answered
    <2>3. file_tx # <<>> => Head(file_tx') = Head(file_tx)
        BY <1>t, <2>1
    <2>4. file_tx = <<>> => Head(file_tx') = request BY <1>t, <2>1
    <2> QED BY <1>0, <1>2, <2>1, <2>2, <2>3, <2>4
            DEF RevisionsKnown, Known, FileAsked
<1>3. ASSUME NEW request, TextSent(fw', request) PROVE RevisionsKnown'
    <2>1. file_tx = <<>> /\ step = "Idle" /\ response_rx = <<>>
        BY <1>3 DEF TextSent, Patience, SettledIsIdle, InService
    <2>2. /\ file_tx' # <<>> /\ request \in Requests
          /\ file_tx' = Append(file_tx, request)
        BY <1>0, <1>3, SentNewest DEF TextSent, Send
    <2>3. Head(file_tx') = request BY <1>t, <2>1, <2>2
    <2>4. ~AnsweredWell /\ ~AnsweredWell'
        BY <2>1, <2>2 DEF AnsweredWell, Answered
    <2>5. fw.revision # NoRevision => Known(fw.active_path, fw.revision)
        BY <2>1, <2>4 DEF RevisionsKnown
    <2>6. /\ request.path = fw.active_path
          /\ request.expected_revision = fw.revision
          /\ fw'.active_path = fw.active_path /\ fw'.revision = fw.revision
        BY <1>3 DEF TextSent
    <2> QED BY <1>0, <2>1, <2>3, <2>4, <2>5, <2>6 DEF RevisionsKnown, Known
<1> QED BY <1>1, <1>2, <1>3, UserFile

LEMMA KnownResponseStep ==
    ASSUME TypeOK, PendingIsOutstanding, InOrder, SavesFirst, RevisionsKnown,
           ApplyFileResponse
    PROVE  RevisionsKnown'
<1>1. /\ UNCHANGED <<disk, file_tx, step, job, stamp>> /\ response_rx # <<>>
      /\ response_rx' = Tail(response_rx)
    BY TakenAnswer DEF Take
<1>2. CASE fw' = fw /\ (Pending => InService' /\ Newest' = Newest)
    <2>1. Pending => AnsweredWell' = AnsweredWell
        BY <1>1, <1>2 DEF AnsweredWell, Answered, InService
    <2>2. fw.revision # NoRevision => Pending
        BY <1>1 DEF SavesFirst, InService
    <2> QED BY <1>1, <1>2, <2>1, <2>2 DEF RevisionsKnown, Known, Pending
<1>3. CASE /\ Pending /\ file_tx = <<>> /\ step = "Idle" /\ ~InService'
           /\ fw'.pending_request = NoRequest
           /\ fw'.active_path = fw.active_path
           /\ \/ Newest.error # "none" /\ fw'.revision = fw.revision
              \/ Newest.error = "none" /\ fw'.revision = Newest.revision
    <2>1. Answered BY <1>1, <1>3 DEF Answered
    <2>2. fw'.revision # NoRevision => Known(fw.active_path, fw'.revision)
        BY <1>3, <2>1 DEF RevisionsKnown, AnsweredWell
    <2> QED BY <1>1, <1>3, <2>2 DEF RevisionsKnown, Known, Pending
<1> QED BY <1>2, <1>3, TakenAnswer

LEMMA KnownStep ==
    ASSUME TypeOK, PendingIsOutstanding, InOrder, SettledIsIdle, SavesFirst,
           SavesFirst', RevisionsKnown, PatientUser, [Next]_vars
    PROVE  RevisionsKnown'
<1>1. CASE User BY <1>1, KnownUserStep
<1>2. CASE Shells \/ ResolveContext \/ ApplyContext \/ UNCHANGED vars
    <2>1. UNCHANGED <<disk, step, job, stamp, response_rx, file_tx>>
        BY <1>2, WindowFile
    <2>2. \/ /\ fw'.active_path = fw.active_path /\ fw'.revision = fw.revision
             /\ fw'.pending_request = fw.pending_request
          \/ fw'.revision = NoRevision /\ fw'.pending_request = NoRequest
        BY <1>2, WindowFile DEF SameFile, NoFile
    <2>3. UNCHANGED <<Newest, AnsweredWell>>
        BY <2>1 DEF Newest, AnsweredWell, Answered
    <2> QED BY <2>1, <2>2, <2>3 DEF RevisionsKnown, Known, Pending
<1>3. CASE Service /\ Worker BY <1>3, KnownWorkerStep DEF Service
<1>4. CASE Service /\ OtherPrograms BY <1>4, KnownOthersStep DEF Service
<1>5. CASE ApplyFileResponse BY <1>5, KnownResponseStep
<1> QED BY <1>1, <1>2, <1>3, <1>4, <1>5 DEF Next, Service

\* What the two invariants of the surface's requests rest on: with a patient
\* user they hold of every instance, whatever other programs write.
LEMMA PatientInvariant ==
    ASSUME PatientUser PROVE Spec => [](SettledIsIdle /\ SavesFirst /\ RevisionsKnown)
<1>1. Init => SettledIsIdle /\ SavesFirst /\ RevisionsKnown
    BY EmptySeq
       DEF Init, ServiceInit, SettledIsIdle, SavesFirst, RevisionsKnown, Pending,
           InService
<1>2. TypeOK /\ PendingIsOutstanding /\ InOrder
      /\ SettledIsIdle /\ SavesFirst /\ RevisionsKnown /\ [Next]_vars
        => (SettledIsIdle /\ SavesFirst /\ RevisionsKnown)'
    <2> SUFFICES ASSUME TypeOK, PendingIsOutstanding, InOrder, SettledIsIdle,
                        SavesFirst, RevisionsKnown, [Next]_vars
                 PROVE  SettledIsIdle' /\ SavesFirst' /\ RevisionsKnown'
        OBVIOUS
    <2>1. SettledIsIdle' BY SettledStep
    <2>2. SavesFirst' BY PatientUser, SavesFirstStep
    <2> QED BY <2>1, <2>2, PatientUser, KnownStep
<1> QED BY <1>1, <1>2, TypeCorrect, PendingCorrect, OrderCorrect, PTL DEF Spec

\* ConflictOnlyFromOthers holds of every instance with a patient user, whatever
\* other programs write and whichever calls fail: a save that is refused as
\* changed on disk finds another program's file.
THEOREM ConflictCorrect ==
    ASSUME PatientUser PROVE Spec => ConflictOnlyFromOthers
<1>1. RevisionsKnown /\ [Next]_vars
        => [SaveConflict => disk[Head(file_tx).path].by = "other"]_vars
    <2> SUFFICES ASSUME RevisionsKnown, SaveConflict
                 PROVE  disk[Head(file_tx).path].by = "other"
        OBVIOUS
    <2> QED BY DEF RevisionsKnown, Known, SaveConflict, Receive, Conflict
<1> QED BY <1>1, PatientUser, PatientInvariant, PTL
        DEF Spec, ConflictOnlyFromOthers

-------------------------------------------------------------------------------
(* A clean surface shows its file *)

\* The focus is on a pane that is there, a poll of a tmux pane lists it among
\* the panes of its window, and a file is open under some root.
FocusListed ==
    /\ focused \in live \/ closing = "closed"
    /\ active_context.spot \in TmuxSpots =>
            active_context.spot \in active_context.panes
    /\ context_response.spot \in TmuxSpots =>
            context_response.spot \in context_response.panes
    /\ fw.active_path # NoPath => display_root # NoRoot

LEMMA FocusListedStep ==
    ASSUME TypeOK, PendingIsOutstanding, InOrder, KeepsRoots, FocusListed,
           [Next]_vars
    PROVE  FocusListed'
<1>0. WindowTypeOK BY DEF TypeOK
<1>1. CASE User
    <2>1. UNCHANGED <<active_context, context_response, display_root, focused,
                      live>>
        BY <1>1
           DEF User, HideSurface, ShowSurface, ToggleEdit, SaveFile,
               DiscardEdits, OpenFile, OpenBlocked, Type, RemoveDisplayRoot,
               RequestClose, ConfirmClose, CancelClose, Ui, Move, explorerVars,
               windowVars, paneVars
    <2>2. closing' = closing \/ closing # "closed"
        BY <1>1
           DEF User, HideSurface, ShowSurface, ToggleEdit, SaveFile,
               DiscardEdits, OpenFile, OpenBlocked, Type, RemoveDisplayRoot,
               RequestClose, ConfirmClose, CancelClose, Ui, Move, explorerVars,
               windowVars
    <2>3. fw'.active_path \in {fw.active_path, NoPath} \/ display_root # NoRoot
        BY <1>1, UserFile DEF Quiet, SameFile, NoFile, LeftClean, TextTyped,
                              FileAsked, TextSent
    <2> QED BY <2>1, <2>2, <2>3 DEF FocusListed
<1>2. CASE Shells
    <2>1. UNCHANGED <<active_context, context_response, display_root, fw>>
        BY <1>2 DEF Shells, FocusSpot, PaneDies, ChangePlace, Move
    <2>2. focused' \in live' \/ closing' = "closed"
        BY <1>2 DEF Shells, FocusSpot, PaneDies, ChangePlace, Move, FocusListed
    <2> QED BY <2>1, <2>2 DEF FocusListed
<1>3. CASE ResolveContext
    <2>1. UNCHANGED <<active_context, display_root, fw, focused, live, closing>>
          /\ focused \in live
        BY <1>3 DEF ResolveContext, windowVars, paneVars, FocusListed
    <2>2. /\ context_response'.spot = focused
          /\ focused \in TmuxSpots =>
                context_response'.panes = {spot \in live \cap TmuxSpots :
                                    OuterPane[spot] = OuterPane[focused]}
        BY <1>3 DEF ResolveContext
    <2> QED BY <2>1, <2>2 DEF FocusListed
<1>4. CASE ApplyContext
    <2>1. UNCHANGED <<focused, live, closing>> /\ context_response' = NoContext
        BY <1>4 DEF ApplyContext, windowVars, paneVars
    <2>2. NoContext.spot \notin TmuxSpots
        BY SpotAssumption DEF NoContext
    <2>3. active_context' \in {active_context, context_response}
        BY <1>4 DEF ApplyContext
    <2>4. display_root # NoRoot => display_root' # NoRoot
        BY <1>4 DEF ApplyContext
    <2>5. fw'.active_path \in {fw.active_path, NoPath}
        BY <1>4, WindowFile DEF SameFile, NoFile
    <2> QED BY <2>1, <2>2, <2>3, <2>4, <2>5 DEF FocusListed
<1>5. CASE Service
    BY <1>5 DEF Service, explorerVars, windowVars, paneVars, FocusListed
<1>6. CASE ApplyFileResponse
    <2>1. UNCHANGED <<active_context, context_response, display_root, focused,
                      live, closing>>
        BY <1>6, TakenAnswer DEF Take, explorerVars, windowVars, paneVars
    <2>2. fw'.active_path = fw.active_path BY <1>6, TakenAnswer
    <2> QED BY <2>1, <2>2 DEF FocusListed
<1>7. CASE UNCHANGED vars
    BY <1>7 DEF vars, explorerVars, windowVars, paneVars, FocusListed
<1> QED BY <1>1, <1>2, <1>3, <1>4, <1>5, <1>6, <1>7 DEF Next

\* The text is the file's, or the file has another revision, and always will.
Faithful(path, revision, text) ==
    /\ revision <= writes
    /\ disk[path].revision = revision => disk[path].text = text

\* The text an answer leaves on the surface.
AnsweredText == IF Newest.op = "Load" THEN Newest.content ELSE fw.content

\* What is saved and what is read is what the surface then shows.
TextFaithful ==
    /\ step = "Stat" => disk[job.path].text = job.content
    /\ Pending /\ ~Answered /\ Newest.op = "Save" => Newest.content = fw.content
    /\ Pending /\ AnsweredWell =>
            Faithful(fw.active_path, Newest.revision, AnsweredText)
    /\ ~fw.dirty /\ fw.revision # NoRevision =>
            Faithful(fw.active_path, fw.revision, fw.content)

\* A write never makes a text pass for that of an earlier revision.
LEMMA WriteFaithful ==
    ASSUME TypeOK, CallsAgree, NEW path \in Paths, NEW text, NEW writer,
           Write(path, text, writer)
    PROVE  \A p \in Paths, r \in Nat : \A t : Faithful(p, r, t) =>
                /\ r <= writes'
                /\ disk'[p].revision = r => disk'[p].text = t
<1> TAKE p \in Paths, r \in Nat
<1> TAKE t
<1>1. /\ disk'[path].revision = writes + 1
      /\ \A q \in Paths : q # path => disk'[q] = disk[q]
      /\ writes \in Nat /\ writes' = writes + 1
    BY WriteRevisions
<1>2. CASE p = path BY <1>1, <1>2 DEF Faithful
<1>3. CASE p # path BY <1>1, <1>3 DEF Faithful
<1> QED BY <1>2, <1>3

\* The revisions that are compared are natural numbers.
LEMMA RevisionTypes ==
    ASSUME TypeOK
    PROVE  /\ fw.revision \in Nat
           /\ Answered => Newest.revision \in Nat
           /\ response_rx \in Seq(Responses)
<1>1. response_rx \in Seq(Responses) BY DEF TypeOK, ServiceTypeOK
<1>2. Answered => Newest \in Responses
    BY <1>1, LenProperties, ElementOfSeq, EmptySeq DEF Answered, Newest
<1> QED BY <1>1, <1>2
        DEF TypeOK, WindowTypeOK, WorkspaceUi, Revisions, Responses

LEMMA FaithfulOthersStep ==
    ASSUME TypeOK, CallsAgree, QuietSaves, PendingIsOutstanding, SavesFirst,
           TextFaithful, OtherPrograms, UNCHANGED fw
    PROVE  TextFaithful'
<1>1. PICK path \in Paths, text \in Contents : OtherWrites(path, text)
    BY DEF OtherPrograms
<1>2. /\ UNCHANGED <<file_tx, step, job, stamp, response_rx, fw>>
      /\ Write(path, text, "other")
      /\ step = "Stat" => job.path # path
    BY <1>1, QuietSaves DEF OtherWrites, worker
<1>3. \A p \in Paths, r \in Nat : \A t : Faithful(p, r, t) =>
                /\ r <= writes'
                /\ disk'[p].revision = r => disk'[p].text = t
    BY <1>2, WriteFaithful
<1>4. step = "Stat" => disk'[job.path].text = job.content
    BY <1>2, KnownPaths, WriteRevisions DEF TextFaithful
<1>5. UNCHANGED <<Pending, Answered, AnsweredWell, Newest, AnsweredText>>
    BY <1>2 DEF Pending, Answered, AnsweredWell, Newest, AnsweredText
<1>6. ASSUME Pending, AnsweredWell
      PROVE  /\ Newest.revision <= writes'
             /\ disk'[fw.active_path].revision = Newest.revision
                    => disk'[fw.active_path].text = AnsweredText
    BY <1>3, <1>6, KnownPaths, RevisionTypes DEF TextFaithful, AnsweredWell
<1>7. ASSUME ~fw.dirty, fw.revision # NoRevision
      PROVE  /\ fw.revision <= writes'
             /\ disk'[fw.active_path].revision = fw.revision
                    => disk'[fw.active_path].text = fw.content
    BY <1>3, <1>7, KnownPaths, RevisionTypes DEF TextFaithful
<1> QED BY <1>2, <1>4, <1>5, <1>6, <1>7 DEF TextFaithful, Faithful

LEMMA FaithfulWorkerStep ==
    ASSUME TypeOK, CallsAgree, PendingIsOutstanding, SavesFirst, TextFaithful,
           Worker, UNCHANGED fw
    PROVE  TextFaithful'
<1>p. /\ step # "Idle" => job.path \in Paths
      /\ fw.revision # NoRevision => fw.active_path \in Paths
    BY KnownPaths
<1>n. /\ Pending' = Pending /\ InService /\ InService'
      /\ Newest'.op = Newest.op
      /\ ~Answered' => Newest' = Newest
    BY WorkerNewest DEF Pending, InService, Answered
<1>c. Pending /\ ~Answered' /\ Newest'.op = "Save"
        => Newest'.content = fw.content
    <2>1. ~Answered' => ~Answered
        BY WorkerQueues, <1>n
           DEF Answered, Received, Finished, Renamed, InService
    <2> QED BY <1>n, <2>1 DEF TextFaithful
<1>1. ASSUME UNCHANGED <<disk, writes>>, step' # "Stat",
             Pending /\ AnsweredWell' =>
                Faithful(fw.active_path, Newest'.revision,
                    IF Newest'.op = "Load" THEN Newest'.content ELSE fw.content)
      PROVE  TextFaithful'
    BY <1>1, <1>n, <1>c DEF TextFaithful, Faithful, AnsweredText
<1>2. CASE LoadMetadata \/ SaveChecked
    <2>1. UNCHANGED <<disk, writes>> /\ step' # "Stat" /\ step' # "Idle"
        BY <1>2 DEF LoadMetadata, SaveChecked, Continue
    <2> QED BY <1>1, <2>1 DEF AnsweredWell, Answered
<1>3. CASE LoadRefused \/ SaveConflict \/ SaveRefused
    <2>1. PICK error : error # "none"
                       /\ Reply(Head(file_tx), Empty, NoRevision, error)
        BY <1>3 DEF LoadRefused, SaveConflict, SaveRefused
    <2>2. UNCHANGED <<disk, writes>> /\ step' # "Stat"
        BY <1>3 DEF LoadRefused, SaveConflict, SaveRefused, Receive, worker
    <2>3. ~AnsweredWell'
        BY <2>1, ReplyNewest DEF AnsweredWell, Answered, Newest
    <2> QED BY <1>1, <2>2, <2>3
<1>4. CASE LoadUnreadable \/ SaveAbandoned \/ SaveStat \/ LoadRead
    <2>1. UNCHANGED <<disk, writes, file_tx>> /\ step # "Idle"
        BY <1>4 DEF LoadUnreadable, SaveAbandoned, SaveStat, LoadRead
    <2>2. PICK content, revision, error :
            /\ Finish(content, revision, error)
            /\ error = "none" =>
                \/ /\ step = "Read" /\ content = disk[job.path].text
                   /\ revision = stamp
                \/ /\ step = "Stat" /\ revision = disk[job.path].revision
        BY <1>4 DEF LoadUnreadable, SaveAbandoned, SaveStat, LoadRead
    <2>3. /\ step' = "Idle" /\ response_rx' # <<>>
          /\ response_rx'[Len(response_rx')].error = error
          /\ response_rx'[Len(response_rx')].op = job.op
          /\ response_rx'[Len(response_rx')].content = content
          /\ response_rx'[Len(response_rx')].revision = revision
        BY <2>2, ReplyNewest, ReplyRecord DEF Finish
    <2>4. ASSUME Pending, AnsweredWell'
          PROVE  Faithful(fw.active_path, Newest'.revision,
                    IF Newest'.op = "Load" THEN Newest'.content ELSE fw.content)
        <3>1. /\ file_tx = <<>> /\ error = "none" /\ Newest = job
              /\ Newest'.op = job.op /\ Newest'.content = content
              /\ Newest'.revision = revision
              /\ fw.active_path = job.path /\ ~Answered
            BY <2>1, <2>3, <2>4
               DEF AnsweredWell, Answered, Newest, PendingIsOutstanding
        <3>2. disk[job.path].revision \in Nat /\ writes \in Nat /\ stamp \in Nat
            BY <1>p, <2>1 DEF TypeOK, ServiceTypeOK, Revisions
        <3>3. disk[job.path].revision <= writes
            BY <1>p, <2>1, <3>2 DEF CallsAgree
        <3>4. CASE step = "Read" /\ content = disk[job.path].text
                   /\ revision = stamp
            <4>1. stamp <= writes BY <3>2, <3>3, <3>4 DEF CallsAgree
            <4>2. job.op = "Load" BY <3>4 DEF CallsAgree
            <4> QED BY <3>1, <3>4, <4>1, <4>2 DEF Faithful
        <3>5. CASE step = "Stat" /\ revision = disk[job.path].revision
            <4>1. job.op = "Save" BY <3>5 DEF CallsAgree
            <4>2. disk[job.path].text = fw.content
                BY <2>4, <3>1, <3>5, <4>1 DEF TextFaithful
            <4> QED BY <3>1, <3>3, <3>5, <4>1, <4>2 DEF Faithful
        <3> QED BY <2>2, <3>1, <3>4, <3>5
    <2> QED BY <1>1, <2>1, <2>3, <2>4
<1>5. CASE SaveRename
    <2>1. /\ step = "Rename" /\ step' = "Stat" /\ job' = job
          /\ Write(job.path, job.content, "save")
        BY <1>5 DEF SaveRename, Continue
    <2>2. disk'[job.path].text = job.content
        BY <1>p, <2>1, WriteRevisions
    <2>3. ~AnsweredWell' BY <2>1 DEF AnsweredWell, Answered
    <2>4. ASSUME ~fw.dirty, fw.revision # NoRevision
          PROVE  /\ fw.revision <= writes'
                 /\ disk'[fw.active_path].revision = fw.revision
                        => disk'[fw.active_path].text = fw.content
        BY <1>p, <2>1, <2>4, WriteFaithful, RevisionTypes DEF TextFaithful
    <2> QED BY <1>n, <1>c, <2>1, <2>2, <2>3, <2>4 DEF TextFaithful, Faithful
<1> QED BY <1>2, <1>3, <1>4, <1>5 DEF Worker

LEMMA FaithfulUserStep ==
    ASSUME TypeOK, PendingIsOutstanding, SavesFirst, FocusListed, TextFaithful,
           PatientUser, User
    PROVE  TextFaithful'
<1>0. UNCHANGED <<disk, writes, step, job, stamp, response_rx>> BY UserFile
<1>1. CASE Quiet(fw') /\ UNCHANGED file_tx
    <2>1. UNCHANGED <<Newest, Answered, AnsweredWell>>
        BY <1>0, <1>1 DEF Newest, AnsweredWell, Answered
    <2>2. CASE SameFile(fw')
        BY <1>0, <2>1, <2>2
           DEF SameFile, TextFaithful, Faithful, Pending, AnsweredText
    <2>3. CASE NoFile(fw')
        BY <1>0, <2>1, <2>3 DEF NoFile, TextFaithful, Pending
    <2>4. CASE LeftClean(fw')
        <3>1. fw.active_path = NoPath
            BY <2>4 DEF LeftClean, FocusListed, OwnsActiveContext, OwnerGone
        <3>2. fw.revision = NoRevision BY <3>1 DEF SavesFirst
        <3>3. ~Pending BY <3>1, KnownPaths, NoneAssumption
        <3> QED BY <1>0, <2>4, <3>2, <3>3 DEF LeftClean, TextFaithful, Pending
    <2>5. CASE TextTyped(fw')
        BY <1>0, <2>5 DEF TextTyped, Patience, TextFaithful, Pending
    <2> QED BY <1>1, <2>2, <2>3, <2>4, <2>5 DEF Quiet
<1>2. ASSUME NEW request, FileAsked(fw', request) \/ TextSent(fw', request)
      PROVE  TextFaithful'
    <2>1. Newest' = request /\ file_tx' # <<>>
        BY <1>0, <1>2, SentNewest DEF FileAsked, TextSent
    <2>2. ~Answered' /\ ~AnsweredWell' BY <2>1 DEF AnsweredWell, Answered
    <2> QED BY <1>0, <1>2, <2>1, <2>2
            DEF TextFaithful, FileAsked, TextSent
<1> QED BY <1>1, <1>2, UserFile

LEMMA FaithfulResponseStep ==
    ASSUME TypeOK, PendingIsOutstanding, InOrder, SavesFirst, TextFaithful,
           ApplyFileResponse
    PROVE  TextFaithful'
<1>1. /\ UNCHANGED <<disk, writes, file_tx, step, job, stamp>>
      /\ response_rx # <<>> /\ response_rx' = Tail(response_rx)
    BY TakenAnswer DEF Take
<1>2. CASE fw' = fw /\ (Pending => InService' /\ Newest' = Newest)
    <2>1. Pending => UNCHANGED <<Answered, AnsweredWell, AnsweredText>>
        BY <1>1, <1>2 DEF AnsweredWell, Answered, InService, AnsweredText
    <2> QED BY <1>1, <1>2, <2>1 DEF TextFaithful, Faithful, Pending
<1>3. CASE /\ Pending /\ file_tx = <<>> /\ step = "Idle"
           /\ fw'.pending_request = NoRequest
           /\ fw'.active_path = fw.active_path
           /\ \/ /\ Newest.error # "none" /\ fw'.content = fw.content
                 /\ fw'.dirty = fw.dirty /\ fw'.revision = fw.revision
              \/ /\ Newest.error = "none"
                 /\ fw'.revision = Newest.revision
                 /\ fw'.content = AnsweredText
    <2>1. Answered BY <1>1, <1>3 DEF Answered
    <2>2. ~fw'.dirty /\ fw'.revision # NoRevision =>
            Faithful(fw.active_path, fw'.revision, fw'.content)
        BY <1>3, <2>1 DEF TextFaithful, AnsweredWell
    <2>3. step' # "Stat" BY <1>1, <1>3
    <2> QED BY <1>1, <1>3, <2>2, <2>3 DEF TextFaithful, Faithful, Pending
<1> QED BY <1>2, <1>3, TakenAnswer DEF AnsweredText

LEMMA FaithfulStep ==
    ASSUME TypeOK, CallsAgree, PendingIsOutstanding, InOrder, SavesFirst,
           FocusListed, TextFaithful, QuietSaves, PatientUser, [Next]_vars
    PROVE  TextFaithful'
<1>1. CASE User BY <1>1, FaithfulUserStep
<1>2. CASE Shells \/ ResolveContext \/ ApplyContext \/ UNCHANGED vars
    <2>1. UNCHANGED <<disk, writes, step, job, stamp, response_rx, file_tx>>
        BY <1>2, WindowFile
    <2>2. UNCHANGED <<Newest, Answered, AnsweredWell>>
        BY <2>1 DEF Newest, AnsweredWell, Answered
    <2>3. CASE SameFile(fw')
        BY <2>1, <2>2, <2>3
           DEF SameFile, TextFaithful, Faithful, Pending, AnsweredText
    <2>4. CASE NoFile(fw')
        BY <2>1, <2>2, <2>4 DEF NoFile, TextFaithful, Pending
    <2> QED BY <1>2, <2>3, <2>4, WindowFile
<1>3. CASE Service /\ Worker BY <1>3, FaithfulWorkerStep DEF Service
<1>4. CASE Service /\ OtherPrograms BY <1>4, FaithfulOthersStep DEF Service
<1>5. CASE ApplyFileResponse BY <1>5, FaithfulResponseStep
<1> QED BY <1>1, <1>2, <1>3, <1>4, <1>5 DEF Next, Service

\* CleanCopyIsTheFile is an invariant of every instance with quiet saves, a
\* patient user and a displayed root that stays: whatever is opened, saved,
\* discarded and answered, and whatever other programs write, a clean surface
\* with the file's revision shows the file's text.
THEOREM CleanCopyCorrect ==
    ASSUME QuietSaves, PatientUser, KeepsRoots
    PROVE  Spec => []CleanCopyIsTheFile
<1>1. Init => CallsAgree /\ FocusListed /\ TextFaithful
    BY SpotAssumption
       DEF Init, ServiceInit, CallsAgree, FocusListed, TextFaithful, Pending,
           NoContext
<1>2. TypeOK /\ PendingIsOutstanding /\ InOrder /\ SavesFirst
      /\ CallsAgree /\ FocusListed /\ TextFaithful /\ [Next]_vars
        => (CallsAgree /\ FocusListed /\ TextFaithful)'
    <2> SUFFICES ASSUME TypeOK, PendingIsOutstanding, InOrder, SavesFirst,
                        CallsAgree, FocusListed, TextFaithful, [Next]_vars
                 PROVE  CallsAgree' /\ FocusListed' /\ TextFaithful'
        OBVIOUS
    <2>1. CallsAgree' BY QuietSaves, CallsAgreeStep
    <2>2. FocusListed' BY KeepsRoots, FocusListedStep
    <2> QED BY <2>1, <2>2, QuietSaves, PatientUser, FaithfulStep
<1>3. TextFaithful => CleanCopyIsTheFile
    BY DEF TextFaithful, Faithful, CleanCopyIsTheFile
<1> QED BY <1>1, <1>2, <1>3, PatientUser, PatientInvariant, TypeCorrect,
           PendingCorrect, OrderCorrect, PTL DEF Spec
================================================================================
