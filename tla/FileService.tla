------------------------------ MODULE FileService ------------------------------
(***************************************************************************)
(* The "cosmos-file-workspace" thread of WorkspaceService: it receives one *)
(* FileRequest at a time from file_tx, performs the system calls of        *)
(* load_workspace_file or save_workspace_file, and sends one response to   *)
(* response_rx.  Other programs write the same files between any two of    *)
(* those system calls.  The windows that send requests are modelled in     *)
(* FileWorkspace.                                                          *)
(***************************************************************************)
EXTENDS Naturals, Sequences

CONSTANTS
    Paths,        \* files that can be named in a request
    Roots,        \* directories that can be the root of a request
    Under,        \* Under[r]: the paths that canonicalize below root r
    Texts,        \* UTF-8 contents
    Empty,        \* the empty text
    TooLong,      \* the texts longer than MAX_EDITABLE_FILE_BYTES
    Binary,       \* a content that is not UTF-8
    Absent,       \* what a path that does not exist holds
    MaxWrites,    \* bound: writes of one behaviour, of any program
    QuietSaves    \* assumption: no other program writes a file between the
                  \* first and the last system call of a save of that file

ASSUME UnderAssumption == Under \in [Roots -> SUBSET Paths]
ASSUME TextAssumption ==
    /\ Empty \in Texts /\ TooLong \subseteq Texts
    /\ Binary \notin Texts /\ Absent \notin Texts /\ Binary # Absent
ASSUME MaxWritesAssumption == MaxWrites \in Nat
ASSUME QuietSavesAssumption == QuietSaves \in BOOLEAN

\* Option<FileRevision>: each write of a file gives it a new revision, so a
\* revision is the number of the write; 0 is None.
NoRevision == 0
Revisions == Nat

Contents == Texts \cup {Binary, Absent}

\* request_id counts from 1.
Numbers == Nat \ {0}

Requests == [op : {"Load", "Save"}, request_id : Numbers, root : Roots,
             path : Paths, content : Texts, expected_revision : Revisions]

Errors == {"none", "conflict", "failed"}

Responses == [op : {"Load", "Save"}, request_id : Numbers, path : Paths,
              content : Texts, revision : Revisions, error : Errors]

Steps == {"Idle", "Read", "Rename", "Stat"}

VARIABLES
    disk,         \* what each path holds, its revision and who wrote it
    writes,       \* number of writes so far
    file_tx,      \* requests not yet received by the thread
    step,         \* the system call the thread performs next
    job,          \* the request it is serving
    stamp,        \* the revision its metadata call returned
    response_rx   \* responses not yet received by the window

worker == <<step, job, stamp>>
serviceVars == <<disk, writes, file_tx, worker, response_rx>>

NoRequest == 0
NoJob == [op |-> "None", request_id |-> NoRequest]

ServiceInit ==
    /\ disk \in [Paths -> [revision : {1}, text : Contents, by : {"other"}]]
    /\ writes = 1
    /\ file_tx = <<>>
    /\ step = "Idle" /\ job = NoJob /\ stamp = NoRevision
    /\ response_rx = <<>>

-------------------------------------------------------------------------------
\* The window's side of the channel.

Send(request) == file_tx' = Append(file_tx, request)

-------------------------------------------------------------------------------
\* Helpers of the thread.

\* Mutant of Reachable: the path is not compared with the root.
ReachableAnywhere(request) == disk[request.path].text # Absent

\* canonical_workspace_path succeeds: the file exists and lies below the root.
Reachable(request) ==
    /\ request.path \in Under[request.root]
    /\ disk[request.path].text # Absent

Reply(request, content, revision, error) ==
    response_rx' = Append(response_rx,
        [op |-> request.op, request_id |-> request.request_id,
         path |-> request.path, content |-> content,
         revision |-> revision, error |-> error])

Receive(op) ==
    /\ step = "Idle" /\ file_tx # <<>> /\ Head(file_tx).op = op
    /\ file_tx' = Tail(file_tx)

Continue(next_step, request, revision) ==
    step' = next_step /\ job' = request /\ stamp' = revision

\* Mutant of Finish: the thread keeps the request it has answered.
FinishKeepsJob(content, revision, error) ==
    /\ Reply(job, content, revision, error)
    /\ step' = "Idle" /\ UNCHANGED <<job, stamp>>

Finish(content, revision, error) ==
    /\ Reply(job, content, revision, error)
    /\ step' = "Idle" /\ job' = NoJob /\ stamp' = NoRevision

Write(path, text, writer) ==
    /\ writes < MaxWrites
    /\ writes' = writes + 1
    /\ disk' = [disk EXCEPT ![path] =
                    [revision |-> writes + 1, text |-> text, by |-> writer]]

\* Mutant of Conflict: only a file older than the loaded one is refused.
ConflictWhenOlder(request) ==
    disk[request.path].revision < request.expected_revision

\* A save refuses the file it finds: Some(expected) differs from its revision.
Conflict(request) ==
    /\ request.expected_revision # NoRevision
    /\ disk[request.path].revision # request.expected_revision

-------------------------------------------------------------------------------
\* Requests.  An io::Error may end each of the steps, whatever the file holds.

\* canonicalize and metadata.
LoadMetadata ==
    /\ Receive("Load")
    /\ LET request == Head(file_tx) IN
        /\ Reachable(request)
        /\ disk[request.path].text \notin TooLong
        /\ Continue("Read", request, disk[request.path].revision)
    /\ UNCHANGED <<disk, writes, response_rx>>

LoadRefused ==
    /\ Receive("Load")
    /\ Reply(Head(file_tx), Empty, NoRevision, "failed")
    /\ UNCHANGED <<disk, writes, worker>>

\* fs::read and from_utf8; the revision returned is the one seen before.
LoadRead ==
    /\ step = "Read" /\ disk[job.path].text \in Texts
    /\ Finish(disk[job.path].text, stamp, "none")
    /\ UNCHANGED <<disk, writes, file_tx>>

LoadUnreadable ==
    /\ step = "Read"
    /\ Finish(Empty, NoRevision, "failed")
    /\ UNCHANGED <<disk, writes, file_tx>>

\* symlink_metadata, the revision and the size compared, the temporary file
\* written and synced.
SaveChecked ==
    /\ Receive("Save")
    /\ LET request == Head(file_tx) IN
        /\ Reachable(request) /\ ~Conflict(request)
        /\ request.content \notin TooLong
        /\ Continue("Rename", request, disk[request.path].revision)
    /\ UNCHANGED <<disk, writes, response_rx>>

SaveConflict ==
    /\ Receive("Save")
    /\ Reachable(Head(file_tx)) /\ Conflict(Head(file_tx))
    /\ Reply(Head(file_tx), Empty, NoRevision, "conflict")
    /\ UNCHANGED <<disk, writes, worker>>

SaveRefused ==
    /\ Receive("Save")
    /\ Reply(Head(file_tx), Empty, NoRevision, "failed")
    /\ UNCHANGED <<disk, writes, worker>>

\* The temporary file replaces whatever the path holds by now.
SaveRename ==
    /\ step = "Rename"
    /\ Write(job.path, job.content, "save")
    /\ Continue("Stat", job, stamp)
    /\ UNCHANGED <<file_tx, response_rx>>

\* Mutant of SaveAbandoned: the error of the rename is not looked at.
SaveAbandonedSilently ==
    /\ step = "Rename"
    /\ Finish(Empty, stamp, "none")
    /\ UNCHANGED <<disk, writes, file_tx>>

\* The temporary file could not be written or renamed, and is removed.
SaveAbandoned ==
    /\ step = "Rename"
    /\ Finish(Empty, NoRevision, "failed")
    /\ UNCHANGED <<disk, writes, file_tx>>

\* Mutant of SaveStat: the revision returned is the one seen before the rename.
SaveStatBefore ==
    /\ step = "Stat"
    /\ IF disk[job.path].text # Absent
       THEN Finish(Empty, stamp, "none")
       ELSE Finish(Empty, NoRevision, "failed")
    /\ UNCHANGED <<disk, writes, file_tx>>

\* fs::metadata after the rename; it fails when the file is already gone.
SaveStat ==
    /\ step = "Stat"
    /\ IF disk[job.path].text # Absent
       THEN Finish(Empty, disk[job.path].revision, "none")
       ELSE Finish(Empty, NoRevision, "failed")
    /\ UNCHANGED <<disk, writes, file_tx>>

-------------------------------------------------------------------------------
\* Another program writes, replaces or deletes a file.
OtherWrites(path, text) ==
    /\ QuietSaves => ~(step \in {"Rename", "Stat"} /\ job.path = path)
    /\ Write(path, text, "other")
    /\ UNCHANGED <<file_tx, worker, response_rx>>

Worker ==
    \/ LoadMetadata \/ LoadRefused \/ LoadRead \/ LoadUnreadable
    \/ SaveChecked \/ SaveConflict \/ SaveRefused
    \/ SaveRename \/ SaveAbandoned \/ SaveStat

OtherPrograms == \E path \in Paths, text \in Contents : OtherWrites(path, text)

-------------------------------------------------------------------------------
ServiceTypeOK ==
    /\ disk \in [Paths -> [revision : Revisions, text : Contents,
                           by : {"save", "other"}]]
    /\ writes \in Nat
    /\ file_tx \in Seq(Requests)
    /\ step \in Steps /\ stamp \in Revisions
    /\ job \in IF step = "Idle" THEN {NoJob} ELSE Requests
    /\ response_rx \in Seq(Responses)
===============================================================================
