------------------------------- MODULE FileStore -------------------------------
(***************************************************************************)
(* What WorkspaceService promises about files, as a window sees it: the    *)
(* requests are answered one at a time, in order, each exactly once; a     *)
(* save replaces the whole file in one step, and only the very revision it *)
(* was made from, or leaves it alone; a load never claims a revision newer *)
(* than its text.  FileService performs the system calls of this.          *)
(***************************************************************************)
EXTENDS Naturals, Sequences

CONSTANTS
    Paths, Roots, Under, Texts, Empty, Absent,
    Contents,     \* what a path can hold
    Requests,     \* the requests a window can send
    NoRevision    \* no revision is expected, or none is returned

VARIABLES
    files,       \* what each path holds, its revision and who wrote it
    clock,       \* the newest revision of any file
    queue,       \* requests not yet answered
    committed,   \* the first of them has replaced its file
    answers      \* answers not yet taken by the window

storeVars == <<files, clock, queue, committed, answers>>

Init ==
    /\ clock \in Nat
    /\ \A path \in Paths : files[path].revision <= clock
    /\ queue = <<>> /\ committed = FALSE /\ answers = <<>>

-------------------------------------------------------------------------------
Request == Head(queue)
File == files[Request.path]

Inside == Request.path \in Under[Request.root] /\ File.text # Absent

Put(path, text, writer) ==
    /\ clock' = clock + 1
    /\ files' = [files EXCEPT ![path] =
                    [revision |-> clock + 1, text |-> text, by |-> writer]]

Answer(content, revision, error) ==
    /\ queue # <<>> /\ queue' = Tail(queue) /\ committed' = FALSE
    /\ answers' = Append(answers,
            [op |-> Request.op, request_id |-> Request.request_id,
             path |-> Request.path, content |-> content,
             revision |-> revision, error |-> error])
    /\ UNCHANGED <<files, clock>>

-------------------------------------------------------------------------------
\* A window sends a request, and takes an answer.
Submit ==
    /\ queue' # <<>> /\ queue'[Len(queue')] \in Requests
    /\ queue' = Append(queue, queue'[Len(queue')])
    /\ UNCHANGED <<files, clock, committed, answers>>

TakeAnswer ==
    /\ answers # <<>> /\ answers' = Tail(answers)
    /\ UNCHANGED <<files, clock, queue, committed>>

\* The first request replaces its file: compare and swap.
Replace ==
    /\ queue # <<>> /\ ~committed /\ Request.op = "Save" /\ Inside
    /\ Request.expected_revision \in {NoRevision, File.revision}
    /\ Put(Request.path, Request.content, "save")
    /\ committed' = TRUE
    /\ UNCHANGED <<queue, answers>>

\* A save that replaced its file says so, with the revision it made.
AnswerSaved == committed /\ Answer(Empty, File.revision, "none")

\* A load answers with the text the file holds and a revision it has had.
AnswerLoaded ==
    /\ ~committed /\ queue # <<>> /\ Request.op = "Load" /\ Inside
    /\ File.text \in Texts
    /\ \E revision \in 1..File.revision : Answer(File.text, revision, "none")

\* A save that replaced nothing says so; "conflict" only when there was one.
AnswerConflict ==
    /\ ~committed /\ queue # <<>> /\ Request.op = "Save" /\ Inside
    /\ Request.expected_revision \notin {NoRevision, File.revision}
    /\ Answer(Empty, NoRevision, "conflict")

AnswerFailed == ~committed /\ Answer(Empty, NoRevision, "failed")

\* Another program writes, but not between a Replace and its answer.
OtherPut(path, text) ==
    /\ ~(committed /\ Request.path = path)
    /\ Put(path, text, "other")
    /\ UNCHANGED <<queue, committed, answers>>

Next ==
    \/ Submit \/ TakeAnswer
    \/ Replace \/ AnswerSaved \/ AnswerLoaded \/ AnswerConflict \/ AnswerFailed
    \/ \E path \in Paths, text \in Contents : OtherPut(path, text)

Spec == Init /\ [][Next]_storeVars
===============================================================================
