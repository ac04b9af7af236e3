----------------------- MODULE PromptAutomation_proofs -----------------------
(***************************************************************************)
(* Theorems about PromptAutomation, for any windows, panes, servers and    *)
(* prompts and every bound: its types; that a reservation is always held   *)
(* by a window that handled the prompt; that every choice a window waits   *)
(* for is on its way, once; and that no prompt is answered twice where     *)
(* there is one window and one tmux server.                                *)
(***************************************************************************)
EXTENDS PromptAutomation, SequenceTheorems, FiniteSetTheorems, TLAPS

-------------------------------------------------------------------------------
(* Windows *)

\* Changing one window to a well-formed one keeps them all well formed.
LEMMA UpdateType ==
    ASSUME NEW w \in Windows, NEW ui \in Automation,
           automation \in [Windows -> Automation], Update(w, ui)
    PROVE  automation' \in [Windows -> Automation]
BY DEF Update

\* A window that looks at a prompt stays well formed.
LEMMA CandidateType ==
    ASSUME NEW ui \in Automation, NEW p \in Panes, NEW prompt \in MaybePrompt
    PROVE  Candidate(ui, p, prompt) \in Automation
BY DEF Candidate, Automation

\* A window that forgets the prompt of a pane stays well formed.
LEMMA ClearedType ==
    ASSUME NEW ui \in Automation, NEW p \in Panes
    PROVE  Cleared(ui, p) \in Automation
BY DEF Cleared, Automation, MaybePrompt

\* A window that has served the output of a native pane stays well formed.
LEMMA ServedType ==
    ASSUME NEW w \in Windows, NEW p, automation \in [Windows -> Automation]
    PROVE  Served(w, p) \in Automation
BY DEF Served, Automation

\* A window that queues a scan stays well formed.
LEMMA QueuedType ==
    ASSUME NEW ui \in Automation, NEW server \in Servers
    PROVE  Queued(ui, server) \in Automation
<1>1. ui.scan_queue \in Seq(Servers) BY DEF Automation
<1>2. Append(ui.scan_queue, server) \in Seq(Servers) BY <1>1
<1> QED BY <1>2 DEF Queued, Automation

\* A window that starts is well formed.
LEMMA FreshType ==
    ASSUME NEW mode \in Modes
    PROVE  Fresh(mode) \in Automation
BY DEF Fresh, Automation, MaybePrompt, NothingSeen, Panes

\* Output seen, and nothing else, keeps the windows well formed and what they
\* have handled.
LEMMA OutputType ==
    ASSUME NEW p \in Panes, automation \in [Windows -> Automation], OutputSeen(p)
    PROVE  /\ automation' \in [Windows -> Automation]
           /\ \A w \in Windows : automation'[w].handled = automation[w].handled
BY DEF OutputSeen, Automation

-------------------------------------------------------------------------------
(* Threads *)

\* What the type invariant says of the threads, and what makes it inductive: the
\* last two steps are steps of a choice, the first is one of a scan.
ThreadOK ==
    /\ thread \in [Windows -> Threads]
    /\ \A w \in Windows :
        /\ thread[w].step = "Idle" <=> thread[w].job = NoJob
        /\ thread[w].step \in {"Classify", "SendKeys"} => thread[w].job.op = "Choice"
        /\ thread[w].step = "Capture" => thread[w].job.op = "Scan"

TypeInv == PromptTypeOK /\ ThreadOK

\* The ends of a queue are elements of it.
LEMMA QueueEnds ==
    ASSUME NEW S, NEW q \in Seq(S), q # <<>>
    PROVE  Head(q) \in S /\ Tail(q) \in Seq(S)
OBVIOUS

\* The fields of a thread, and the job an idle one receives.
LEMMA ThreadFields ==
    ASSUME ThreadOK, NEW w \in Windows
    PROVE  /\ thread[w].queue \in Seq(Jobs) /\ thread[w].step \in ThreadSteps
           /\ thread[w].job \in Jobs \cup {NoJob}
           /\ thread[w].todo \in SUBSET TmuxPanes /\ thread[w].found \in Captures
           /\ thread[w].step # "Idle" => thread[w].job \in Jobs
           /\ Idle(w) => Job(w) \in Jobs /\ Tail(thread[w].queue) \in Seq(Jobs)
<1>1. thread[w] \in Threads BY DEF ThreadOK
<1>2. /\ thread[w].queue \in Seq(Jobs) /\ thread[w].step \in ThreadSteps
      /\ thread[w].job \in Jobs \cup {NoJob}
      /\ thread[w].todo \in SUBSET TmuxPanes /\ thread[w].found \in Captures
    BY <1>1 DEF Threads
<1>3. thread[w].step # "Idle" => thread[w].job \in Jobs
    BY <1>2 DEF ThreadOK
<1>4. Idle(w) => Job(w) \in Jobs /\ Tail(thread[w].queue) \in Seq(Jobs)
    BY <1>2, QueueEnds DEF Idle, Job
<1> QED BY <1>2, <1>3, <1>4

\* No job is the absence of one.
LEMMA NoJobIsNone == NoJob \notin Jobs
BY DEF NoJob, Jobs

\* A thread that goes on to another step stays well formed.
LEMMA ProceedType ==
    ASSUME NEW w \in Windows, NEW step \in ThreadSteps \ {"Idle"}, NEW job \in Jobs,
           NEW todo \in SUBSET TmuxPanes, NEW found \in Captures,
           step \in {"Classify", "SendKeys"} => job.op = "Choice",
           step = "Capture" => job.op = "Scan",
           ThreadOK, Idle(w) \/ thread[w].step # "Idle",
           Proceed(w, step, job, todo, found)
    PROVE  ThreadOK'
<1> DEFINE queue == IF thread[w].step = "Idle" THEN Tail(thread[w].queue)
                    ELSE thread[w].queue
           new == [queue |-> queue, step |-> step, job |-> job,
                   todo |-> todo, found |-> found]
<1>1. queue \in Seq(Jobs) BY ThreadFields
<1> HIDE DEF queue
<1>2. new \in Threads BY <1>1 DEF Threads
<1>3. /\ new.step # "Idle" /\ new.job # NoJob
      /\ new.step \in {"Classify", "SendKeys"} => new.job.op = "Choice"
      /\ new.step = "Capture" => new.job.op = "Scan"
    BY NoJobIsNone
<1>4. thread' = [thread EXCEPT ![w] = new] BY DEF Proceed, queue
<1> HIDE DEF new
<1> QED BY <1>2, <1>3, <1>4 DEF ThreadOK

\* A thread that has answered is well formed, and so are the responses.
LEMMA RespondType ==
    ASSUME NEW w \in Windows, NEW response \in PromptResponses,
           ThreadOK, response_rx \in [Windows -> Seq(PromptResponses)],
           Idle(w) \/ thread[w].step # "Idle", Respond(w, response)
    PROVE  ThreadOK' /\ response_rx' \in [Windows -> Seq(PromptResponses)]
<1> DEFINE queue == IF thread[w].step = "Idle" THEN Tail(thread[w].queue)
                    ELSE thread[w].queue
           new == IdleThread(queue)
<1>1. queue \in Seq(Jobs) BY ThreadFields
<1>2. thread' = [thread EXCEPT ![w] = new] BY DEF Respond
<1> HIDE DEF queue
<1>3. new \in Threads
    BY <1>1 DEF Threads, IdleThread, ThreadSteps, Captures, NothingSeen, MaybePrompt
<1>4. new.step = "Idle" /\ new.job = NoJob BY DEF IdleThread
<1> HIDE DEF new
<1>5. ThreadOK' BY <1>2, <1>3, <1>4 DEF ThreadOK
<1>6. response_rx' = [response_rx EXCEPT ![w] = Append(response_rx[w], response)]
    BY DEF Respond
<1>7. Append(response_rx[w], response) \in Seq(PromptResponses) OBVIOUS
<1> QED BY <1>5, <1>6, <1>7

\* A thread stays well formed while jobs join its queue.
LEMMA JoinType ==
    ASSUME NEW w \in Windows, NEW queue \in Seq(Jobs), ThreadOK,
           thread' = [thread EXCEPT ![w].queue = queue]
    PROVE  ThreadOK'
BY DEF ThreadOK, Threads

\* The result of a choice is a well-formed response.
LEMMA ChoiceReplyType ==
    ASSUME NEW job \in Jobs, job.op = "Choice", NEW sent \in BOOLEAN
    PROVE  ChoiceReply(job, sent) \in PromptResponses
BY DEF ChoiceReply, PromptResponses, Jobs

\* A sequence made of a set has its elements.
LEMMA SetToSeqType ==
    ASSUME NEW S, IsFiniteSet(S)
    PROVE  Cardinality(S) \in Nat /\ SetToSeq(S) \in [1..Cardinality(S) -> S]
<1>1. Cardinality(S) \in Nat /\ ExistsBijection(1..Cardinality(S), S)
    BY FS_CardinalityType
<1>2. \E f \in [1..Cardinality(S) -> S] : IsInjective(f)
    BY <1>1 DEF ExistsBijection, Bijection, Injection, IsInjective
<1> QED BY <1>1, <1>2 DEF SetToSeq

-------------------------------------------------------------------------------
(* The types *)

\* A step of Codex or of a pane keeps the types.
LEMMA CodexType ==
    ASSUME TypeInv, NEW p \in Panes, Codex(p)
    PROVE  TypeInv'
<1> USE DEF TypeInv, PromptTypeOK, ThreadOK
<1>1. ASSUME NEW prompt \in Prompts, ShowPrompt(p, prompt) PROVE TypeInv'
    BY <1>1, OutputType DEF ShowPrompt, Others, MaybePrompt
<1>2. CASE WithdrawPrompt(p)
    BY <1>2, OutputType DEF WithdrawPrompt, Others, MaybePrompt
<1>3. CASE Redraw(p) BY <1>3, OutputType DEF Redraw, Others, codexVars
<1>4. CASE Flicker(p) BY <1>4 DEF Flicker, Others
<1> QED BY <1>1, <1>2, <1>3, <1>4 DEF Codex

\* A digit that arrives is counted up to 2.
LEMMA DeliverType ==
    ASSUME digits \in [Panes -> 0..2], NEW p \in Panes, Deliver(p)
    PROVE  digits' \in [Panes -> 0..2]
<1>1. CASE screen[p] = NoPrompt BY <1>1 DEF Deliver
<1>2. CASE screen[p] # NoPrompt
    <2> DEFINE count == IF digits[p] = 0 THEN 1 ELSE 2
    <2>1. digits' = [digits EXCEPT ![p] = count] BY <1>2 DEF Deliver
    <2>2. count \in 0..2 OBVIOUS
    <2> QED BY <2>1, <2>2
<1> QED BY <1>1, <1>2

\* A step on a native pane keeps the types.
LEMMA NativeType ==
    ASSUME TypeInv, NEW w \in Windows, NEW p \in NativePanes, Native(w, p)
    PROVE  TypeInv'
<1> DEFINE ui == automation[w]
<1>1. ui \in Automation /\ Served(w, p) \in Automation /\ p \in Panes
    BY ServedType DEF TypeInv, PromptTypeOK, Panes
<1>2. screen[p] \in MaybePrompt BY <1>1 DEF TypeInv, PromptTypeOK
<1>3. CASE NativeGone(w, p)
    <2>1. automation' \in [Windows -> Automation]
        BY <1>1, <1>3, ClearedType, UpdateType DEF NativeGone, TypeInv, PromptTypeOK
    <2> QED BY <1>3, <2>1 DEF NativeGone, TypeInv, PromptTypeOK, ThreadOK, codexVars
<1>4. CASE NativeCovered(w, p)
    <2> DEFINE new == [Served(w, p) EXCEPT !.candidates[p] = NoPrompt,
                                           !.aged = @ \ {p}]
    <2>1. new \in Automation BY <1>1 DEF Automation, MaybePrompt
    <2>2. automation' \in [Windows -> Automation]
        BY <1>4, <2>1, UpdateType DEF NativeCovered, TypeInv, PromptTypeOK
    <2> QED BY <1>4, <2>2 DEF NativeCovered, TypeInv, PromptTypeOK, ThreadOK, codexVars
<1>5. CASE NativeWaits(w, p)
    <2>1. Candidate(ui, p, screen[p]) \in Automation BY <1>1, <1>2, CandidateType
    <2>2. automation' \in [Windows -> Automation]
        BY <1>1, <1>5, <2>1, UpdateType DEF NativeWaits, TypeInv, PromptTypeOK
    <2> QED BY <1>5, <2>2 DEF NativeWaits, TypeInv, PromptTypeOK, ThreadOK, codexVars
<1>6. CASE NativeAnswers(w, p)
    <2> DEFINE new == [Served(w, p) EXCEPT !.handled[p] = screen[p]]
    <2>1. new \in Automation BY <1>1, <1>2 DEF Automation
    <2>2. automation' \in [Windows -> Automation]
        BY <1>6, <2>1, UpdateType DEF NativeAnswers, TypeInv, PromptTypeOK
    <2>3. digits' \in [Panes -> 0..2]
        BY <1>1, <1>6, DeliverType DEF NativeAnswers, TypeInv, PromptTypeOK
    <2>4. reserved' \subseteq Panes BY <1>1, <1>6 DEF NativeAnswers, TypeInv, PromptTypeOK
    <2> QED BY <1>6, <2>2, <2>3, <2>4 DEF NativeAnswers, TypeInv, PromptTypeOK, ThreadOK
<1> QED BY <1>3, <1>4, <1>5, <1>6 DEF Native

\* A step of a thread keeps the types of everything.
LEMMA WorkerType ==
    ASSUME TypeInv, NEW w \in Windows, Worker(w)
    PROVE  TypeInv'
<1> DEFINE RxOK == response_rx \in [Windows -> Seq(PromptResponses)]
           DigitsOK == digits \in [Panes -> 0..2]
<1>1. ThreadOK /\ RxOK /\ DigitsOK BY DEF TypeInv, PromptTypeOK
<1>2. NothingSeen \in Captures BY DEF NothingSeen, Captures, MaybePrompt
<1>3. OnlyThread /\ ThreadOK' /\ RxOK' /\ DigitsOK' => TypeInv'
    BY DEF TypeInv, PromptTypeOK, ThreadOK, OnlyThread
<1>4. ASSUME NEW step \in ThreadSteps \ {"Idle"}, NEW job \in Jobs,
             NEW todo \in SUBSET TmuxPanes, NEW found \in Captures,
             step \in {"Classify", "SendKeys"} => job.op = "Choice",
             step = "Capture" => job.op = "Scan",
             Idle(w) \/ thread[w].step # "Idle",
             Proceed(w, step, job, todo, found)
      PROVE  ThreadOK' /\ RxOK'
    BY <1>1, <1>4, ProceedType DEF Proceed
<1>5. ASSUME NEW response \in PromptResponses,
             Idle(w) \/ thread[w].step # "Idle", Respond(w, response)
      PROVE  ThreadOK' /\ RxOK'
    BY <1>1, <1>5, RespondType
<1> HIDE DEF RxOK, DigitsOK
<1>6. CASE ListPanes(w)
    <2> DEFINE todo == {p \in TmuxPanes : ServerOf[p] = Job(w).server /\ interactive[p]}
    <2>1. todo \in SUBSET TmuxPanes /\ "Capture" \in ThreadSteps \ {"Idle"}
        BY DEF ThreadSteps
    <2>2. Job(w) \in Jobs BY <1>1, <1>6, ThreadFields DEF ListPanes
    <2> HIDE DEF todo
    <2>3. Proceed(w, "Capture", Job(w), todo, NothingSeen) /\ Idle(w)
          /\ Job(w).op = "Scan"
        BY <1>6 DEF ListPanes, todo
    <2>4. ThreadOK' /\ RxOK' BY <1>2, <1>4, <2>1, <2>2, <2>3
    <2> QED BY <1>1, <1>3, <1>6, <2>4 DEF ListPanes, DigitsOK
<1>7. CASE ScanFails(w)
    <2>1. [op |-> "Scan", found |-> NothingSeen, failed |-> TRUE] \in PromptResponses
        BY <1>2 DEF PromptResponses
    <2>2. ThreadOK' /\ RxOK' BY <1>5, <1>7, <2>1 DEF ScanFails
    <2> QED BY <1>1, <1>3, <1>7, <2>2 DEF ScanFails, DigitsOK
<1>8. ASSUME NEW p \in TmuxPanes, CapturePane(w, p) PROVE TypeInv'
    <2>1. PICK seen \in IF SteadyPanes THEN {screen[p]} ELSE {screen[p], NoPrompt} :
              Proceed(w, "Capture", thread[w].job, thread[w].todo \ {p},
                      [thread[w].found EXCEPT ![p] = seen])
        BY <1>8 DEF CapturePane
    <2>2. seen \in MaybePrompt BY DEF TypeInv, PromptTypeOK, Panes, MaybePrompt
    <2>3. thread[w].found \in Captures /\ thread[w].todo \in SUBSET TmuxPanes
          /\ thread[w].job \in Jobs /\ thread[w].step # "Idle"
          /\ thread[w].job.op = "Scan"
        BY <1>1, <1>8, ThreadFields DEF CapturePane, ThreadOK
    <2> DEFINE found == [thread[w].found EXCEPT ![p] = seen]
               todo == thread[w].todo \ {p}
    <2>4. found \in Captures /\ todo \in SUBSET TmuxPanes
        BY <2>2, <2>3 DEF Captures
    <2>5. "Capture" \in ThreadSteps \ {"Idle"} BY DEF ThreadSteps
    <2>6. Proceed(w, "Capture", thread[w].job, todo, found) BY <2>1
    <2> HIDE DEF found, todo
    <2>7. ThreadOK' /\ RxOK' BY <1>4, <2>3, <2>4, <2>5, <2>6
    <2> QED BY <1>1, <1>3, <1>8, <2>7 DEF CapturePane, DigitsOK
<1>9. CASE ScanDone(w)
    <2>1. [op |-> "Scan", found |-> thread[w].found, failed |-> FALSE]
              \in PromptResponses
        BY <1>1, ThreadFields DEF PromptResponses
    <2>2. thread[w].step # "Idle" BY <1>9 DEF ScanDone
    <2>3. ThreadOK' /\ RxOK' BY <1>5, <1>9, <2>1, <2>2 DEF ScanDone
    <2> QED BY <1>1, <1>3, <1>9, <2>3 DEF ScanDone, DigitsOK
<1>10. CASE InspectPane(w)
    <2>1. Job(w) \in Jobs /\ "Classify" \in ThreadSteps \ {"Idle"}
        BY <1>1, <1>10, ThreadFields DEF InspectPane, ThreadSteps
    <2>2. ThreadOK' /\ RxOK' BY <1>2, <1>4, <1>10, <2>1 DEF InspectPane
    <2> QED BY <1>1, <1>3, <1>10, <2>2 DEF InspectPane, DigitsOK
<1>11. CASE ChoiceRefused(w)
    <2>1. ChoiceReply(Job(w), FALSE) \in PromptResponses
        BY <1>1, <1>11, ThreadFields, ChoiceReplyType DEF ChoiceRefused
    <2>2. ThreadOK' /\ RxOK' BY <1>5, <1>11, <2>1 DEF ChoiceRefused
    <2> QED BY <1>1, <1>3, <1>11, <2>2 DEF ChoiceRefused, DigitsOK
<1>12. CASE RevalidatePrompt(w)
    <2>1. /\ thread[w].job \in Jobs /\ thread[w].step # "Idle"
          /\ thread[w].job.op = "Choice"
          /\ "SendKeys" \in ThreadSteps \ {"Idle"}
        BY <1>1, <1>12, ThreadFields DEF RevalidatePrompt, ThreadSteps, ThreadOK
    <2>2. ThreadOK' /\ RxOK' BY <1>2, <1>4, <1>12, <2>1 DEF RevalidatePrompt
    <2> QED BY <1>1, <1>3, <1>12, <2>2 DEF RevalidatePrompt, DigitsOK
<1>13. CASE ChoiceAbandoned(w)
    <2>1. thread[w].step # "Idle" /\ thread[w].job \in Jobs
          /\ thread[w].job.op = "Choice"
        BY <1>1, <1>13, ThreadFields DEF ChoiceAbandoned, ThreadOK
    <2>2. ChoiceReply(thread[w].job, FALSE) \in PromptResponses
        BY <2>1, ChoiceReplyType
    <2>3. ThreadOK' /\ RxOK' BY <1>5, <1>13, <2>1, <2>2 DEF ChoiceAbandoned
    <2> QED BY <1>1, <1>3, <1>13, <2>3 DEF ChoiceAbandoned, DigitsOK
<1>14. CASE SendKeys(w)
    <2>1. thread[w].step # "Idle" /\ thread[w].job \in Jobs
          /\ thread[w].job.op = "Choice"
        BY <1>1, <1>14, ThreadFields DEF SendKeys, ThreadOK
    <2>2. ChoiceReply(thread[w].job, TRUE) \in PromptResponses
        BY <2>1, ChoiceReplyType
    <2>3. ThreadOK' /\ RxOK' BY <1>5, <1>14, <2>1, <2>2 DEF SendKeys
    <2>4. thread[w].job.pane \in Panes BY <2>1 DEF Jobs, Panes
    <2>5. DigitsOK' BY <1>1, <1>14, <2>4, DeliverType DEF SendKeys, DigitsOK
    <2> QED BY <1>3, <1>14, <2>3, <2>5 DEF SendKeys
<1> QED
    BY <1>6, <1>7, <1>8, <1>9, <1>10, <1>11, <1>12, <1>13, <1>14 DEF Worker

\* The head of the responses of a window, and what remains.
LEMMA TakeType ==
    ASSUME TypeInv, NEW w \in Windows, NEW op, Take(w, op)
    PROVE  /\ Head(response_rx[w]) \in PromptResponses
           /\ Head(response_rx[w]).op = op
           /\ response_rx' \in [Windows -> Seq(PromptResponses)]
<1>1. response_rx[w] \in Seq(PromptResponses) /\ response_rx[w] # <<>>
    BY DEF TypeInv, PromptTypeOK, Take
<1>2. Head(response_rx[w]) \in PromptResponses
      /\ Tail(response_rx[w]) \in Seq(PromptResponses)
    BY <1>1, QueueEnds
<1> QED BY <1>2 DEF Take, TypeInv, PromptTypeOK

\* Choosing among the panes of a scan queues well-formed choices.
LEMMA ChoicesType ==
    ASSUME NEW found \in Captures, NEW sends \in SUBSET TmuxPanes,
           \A p \in sends : found[p] # NoPrompt
    PROVE  [i \in 1..Cardinality(sends) |->
               [op |-> "Choice", pane |-> SetToSeq(sends)[i],
                prompt |-> found[SetToSeq(sends)[i]]]] \in Seq(Jobs)
<1>1. IsFiniteSet(sends) BY PaneAssumption, FS_Subset
<1>2. Cardinality(sends) \in Nat
      /\ SetToSeq(sends) \in [1..Cardinality(sends) -> sends]
    BY <1>1, SetToSeqType
<1>3. \A p \in sends : found[p] \in Prompts BY DEF Captures, MaybePrompt
<1> DEFINE choice(i) == [op |-> "Choice", pane |-> SetToSeq(sends)[i],
                         prompt |-> found[SetToSeq(sends)[i]]]
<1>4. \A i \in 1..Cardinality(sends) : choice(i) \in Jobs BY <1>2, <1>3 DEF Jobs
<1> HIDE DEF choice
<1>5. [i \in 1..Cardinality(sends) |-> choice(i)] \in Seq(Jobs) BY <1>2, <1>4
<1> QED BY <1>5 DEF choice

\* The result of a usable scan keeps the types.
LEMMA ApplyScanType ==
    ASSUME TypeInv, NEW w \in Windows, ApplyScan(w)
    PROVE  TypeInv'
<1> DEFINE ui    == automation[w]
           scan  == Head(response_rx[w])
           gone  == {p \in TmuxPanes : scan.found[p] = NoPrompt}
           fresh == {p \in TmuxPanes \ gone : ui.handled[p] = NoPrompt}
           ready == {p \in fresh : Stable(ui, p, scan.found[p])}
           won   == ready \ reserved
           sends == IF ui.mode = "Active" THEN won ELSE {}
           seen  == [ui EXCEPT
                        !.scan_in_flight = NoServer,
                        !.candidates = [p \in Panes |->
                            IF p \in gone THEN NoPrompt
                            ELSE IF p \in fresh THEN scan.found[p] ELSE @[p]],
                        !.aged = {p \in @ : p \notin gone
                                    /\ (p \in fresh => p \in ready)},
                        !.handled = [p \in Panes |->
                            IF p \in gone THEN NoPrompt
                            ELSE IF p \in ready THEN scan.found[p] ELSE @[p]],
                        !.choices_pending = [p \in TmuxPanes |->
                            IF p \in sends THEN scan.found[p] ELSE @[p]]]
           choices == [i \in 1..Cardinality(sends) |->
                          [op |-> "Choice", pane |-> SetToSeq(sends)[i],
                           prompt |-> scan.found[SetToSeq(sends)[i]]]]
<1>1. Take(w, "Scan") BY DEF ApplyScan
<1>2. /\ reserved' = (reserved \ (gone \cap Released(ui))) \cup won
      /\ Update(w, IF fresh = ready THEN seen
                   ELSE Queued(seen, ui.scan_in_flight))
      /\ thread' = [thread EXCEPT ![w].queue = @ \o choices]
    BY DEF ApplyScan
<1>3. ui \in Automation BY DEF TypeInv, PromptTypeOK
<1>4. scan.found \in Captures BY <1>1, TakeType DEF PromptResponses
<1>5. sends \in SUBSET TmuxPanes /\ \A p \in sends : scan.found[p] # NoPrompt
    OBVIOUS
<1>6. choices \in Seq(Jobs) BY <1>4, <1>5, ChoicesType
<1>7. seen \in Automation
    BY <1>3, <1>4, <1>5 DEF Automation, Captures, MaybePrompt, Panes
<1>8. ui.scan_in_flight \in Servers
    BY <1>3 DEF ApplyScan, Usable, Automation
<1>9. (IF fresh = ready THEN seen ELSE Queued(seen, ui.scan_in_flight))
          \in Automation
    BY <1>7, <1>8, QueuedType
<1>10. reserved' \subseteq Panes BY <1>2 DEF TypeInv, PromptTypeOK, Panes
<1>11. thread[w].queue \o choices \in Seq(Jobs)
    <2>1. thread[w].queue \in Seq(Jobs) BY ThreadFields DEF TypeInv
    <2> HIDE DEF choices
    <2> QED BY <1>6, <2>1
<1> DEFINE queue == thread[w].queue \o choices
           new == IF fresh = ready THEN seen ELSE Queued(seen, ui.scan_in_flight)
<1>12. thread' = [thread EXCEPT ![w].queue = queue] /\ Update(w, new) BY <1>2
<1>13. queue \in Seq(Jobs) /\ new \in Automation BY <1>9, <1>11
<1> HIDE DEF queue, new
<1>14. ThreadOK' BY <1>12, <1>13, JoinType DEF TypeInv
<1>15. automation' \in [Windows -> Automation]
    BY <1>12, <1>13, UpdateType DEF TypeInv, PromptTypeOK
<1>16. response_rx' \in [Windows -> Seq(PromptResponses)] BY <1>1, TakeType
<1>17. UNCHANGED <<codexVars, switches>> BY <1>1 DEF Take
<1> QED
    BY <1>10, <1>14, <1>15, <1>16, <1>17 DEF TypeInv, PromptTypeOK, ThreadOK, codexVars

\* A step of the GUI thread of a window keeps the types.
LEMMA WindowType ==
    ASSUME TypeInv, NEW w \in Windows, Window(w)
    PROVE  TypeInv'
<1> DEFINE ui == automation[w]
<1>1. ui \in Automation /\ automation \in [Windows -> Automation]
    BY DEF TypeInv, PromptTypeOK
<1>2. ASSUME UNCHANGED <<codexVars, reserved, thread, response_rx, switches>>,
             automation' \in [Windows -> Automation]
      PROVE  TypeInv'
    BY <1>2 DEF TypeInv, PromptTypeOK, ThreadOK, codexVars
<1>3. ASSUME NEW mode \in Modes, SwitchMode(w, mode) PROVE TypeInv'
    <2> DEFINE off == [Fresh("Off") EXCEPT !.scan_in_flight = ui.scan_in_flight]
               on  == [ui EXCEPT !.mode = mode]
    <2>1. off \in Automation BY <1>1, FreshType DEF Automation, Modes
    <2>2. on \in Automation BY <1>1 DEF Automation
    <2>3. Update(w, off) \/ Update(w, on) BY <1>3 DEF SwitchMode
    <2> HIDE DEF off, on
    <2>4. automation' \in [Windows -> Automation]
        BY <1>1, <2>1, <2>2, <2>3, UpdateType
    <2>5. reserved' \subseteq Panes /\ switches' \in Nat
        BY <1>3 DEF SwitchMode, TypeInv, PromptTypeOK
    <2>6. UNCHANGED <<codexVars, thread, response_rx>> BY <1>3 DEF SwitchMode
    <2> QED BY <2>4, <2>5, <2>6 DEF TypeInv, PromptTypeOK, ThreadOK, codexVars
<1>4. ASSUME NEW p \in Panes, Debounce(w, p) PROVE TypeInv'
    <2> DEFINE new == [ui EXCEPT !.aged = @ \cup {p}]
    <2>1. new \in Automation BY <1>1 DEF Automation
    <2>2. Update(w, new) BY <1>4 DEF Debounce
    <2> HIDE DEF new
    <2> QED BY <1>1, <1>2, <1>4, <2>1, <2>2, UpdateType DEF Debounce
<1>5. ASSUME NEW p \in NativePanes, Native(w, p) PROVE TypeInv'
    BY <1>5, NativeType
<1>6. ASSUME NEW server \in Servers, QueueScan(w, server) PROVE TypeInv'
    BY <1>1, <1>2, <1>6, QueuedType, UpdateType DEF QueueScan
<1>7. CASE StartScan(w)
    <2> DEFINE server == Head(ui.scan_queue)
               new == [ui EXCEPT !.scan_in_flight = server, !.scan_queue = Tail(@)]
               job == [op |-> "Scan", server |-> server]
               queue == Append(thread[w].queue, job)
    <2>1. server \in Servers /\ Tail(ui.scan_queue) \in Seq(Servers)
        BY <1>1, <1>7, QueueEnds DEF StartScan, Automation
    <2>2. new \in Automation BY <1>1, <2>1 DEF Automation
    <2>3. job \in Jobs BY <2>1 DEF Jobs
    <2>4. Update(w, new) /\ thread' = [thread EXCEPT ![w].queue = queue]
        BY <1>7 DEF StartScan
    <2>5. thread[w].queue \in Seq(Jobs) BY ThreadFields DEF TypeInv
    <2> HIDE DEF job, new
    <2>6. queue \in Seq(Jobs) BY <2>3, <2>5
    <2> HIDE DEF queue
    <2>7. ThreadOK' BY <2>4, <2>6, JoinType DEF TypeInv
    <2>8. automation' \in [Windows -> Automation] BY <1>1, <2>2, <2>4, UpdateType
    <2>9. UNCHANGED <<codexVars, reserved, response_rx, switches>>
        BY <1>7 DEF StartScan
    <2> QED BY <2>7, <2>8, <2>9 DEF TypeInv, PromptTypeOK, ThreadOK, codexVars
<1>8. ASSUME NEW op, NEW new \in Automation, Take(w, op), Update(w, new),
             UNCHANGED <<thread, reserved>>
      PROVE  TypeInv'
    <2>1. automation' \in [Windows -> Automation] BY <1>1, <1>8, UpdateType
    <2>2. response_rx' \in [Windows -> Seq(PromptResponses)] BY <1>8, TakeType
    <2>3. UNCHANGED <<codexVars, switches>> BY <1>8 DEF Take
    <2> QED BY <1>8, <2>1, <2>2, <2>3 DEF TypeInv, PromptTypeOK, ThreadOK, codexVars
<1>9. CASE IgnoreScan(w)
    <2>1. [ui EXCEPT !.scan_in_flight = NoServer] \in Automation
        BY <1>1 DEF Automation
    <2> QED BY <1>8, <1>9, <2>1 DEF IgnoreScan
<1>10. CASE ApplyScan(w) BY <1>10, ApplyScanType
<1>11. CASE ApplyChoice(w)
    <2>1. Take(w, "Choice") BY <1>11 DEF ApplyChoice
    <2>2. Head(response_rx[w]).pane \in TmuxPanes
        BY <2>1, TakeType DEF PromptResponses
    <2>3. [ui EXCEPT !.choices_pending[Head(response_rx[w]).pane] = NoPrompt]
              \in Automation
        BY <1>1, <2>2 DEF Automation, MaybePrompt
    <2> QED BY <1>8, <1>11, <2>3 DEF ApplyChoice
<1> QED
    BY <1>3, <1>4, <1>5, <1>6, <1>7, <1>9, <1>10, <1>11 DEF Window

\* Every step keeps the types.
LEMMA TypeStep ==
    ASSUME TypeInv, [Next]_vars
    PROVE  TypeInv'
<1>1. CASE Next BY <1>1, CodexType, WindowType, WorkerType DEF Next
<1>2. CASE UNCHANGED vars
    BY <1>2 DEF vars, codexVars, TypeInv, PromptTypeOK, ThreadOK
<1> QED BY <1>1, <1>2

\* The initial types.
LEMMA TypeInit == Init => TypeInv
<1> SUFFICES ASSUME Init PROVE TypeInv
    OBVIOUS
<1>1. automation \in [Windows -> Automation] BY FreshType DEF Init
<1>2. IdleThread(<<>>) \in Threads
    BY DEF IdleThread, Threads, ThreadSteps, Captures, NothingSeen, MaybePrompt
<1>3. thread \in [Windows -> Threads] BY <1>2 DEF Init
<1>4. \A w \in Windows : thread[w].step = "Idle" /\ thread[w].job = NoJob
    BY DEF Init, IdleThread
<1>5. response_rx \in [Windows -> Seq(PromptResponses)] BY DEF Init
<1> QED BY <1>1, <1>3, <1>4, <1>5
        DEF Init, TypeInv, PromptTypeOK, ThreadOK, MaybePrompt

\* Every variable keeps its type, and a thread holds a job exactly while it is
\* busy, for any windows, panes, servers and prompts.
THEOREM PromptTypeCorrect == Spec => []PromptTypeOK
<1>1. Spec => []TypeInv BY TypeInit, TypeStep, PTL DEF Spec
<1>2. TypeInv => PromptTypeOK BY DEF TypeInv
<1> QED BY <1>1, <1>2, PTL

-------------------------------------------------------------------------------
(* Reservations *)

\* A window may change as long as each reservation that is left is one it holds
\* itself, or an old one that it did not hold before.
LEMMA HolderKept ==
    ASSUME TypeInv, ReservationHasHolder, NEW w \in Windows, NEW ui \in Automation,
           Update(w, ui),
           \A p \in reserved' :
                \/ ui.handled[p] # NoPrompt
                \/ p \in reserved /\ automation[w].handled[p] = NoPrompt
    PROVE  ReservationHasHolder'
<1> SUFFICES ASSUME NEW p \in reserved'
             PROVE  \E v \in Windows : automation'[v].handled[p] # NoPrompt
    BY DEF ReservationHasHolder
<1>1. automation' = [automation EXCEPT ![w] = ui] /\ DOMAIN automation = Windows
    BY DEF Update, TypeInv, PromptTypeOK
<1>2. CASE ui.handled[p] # NoPrompt BY <1>1, <1>2
<1>3. CASE p \in reserved /\ automation[w].handled[p] = NoPrompt
    <2>1. PICK v \in Windows : automation[v].handled[p] # NoPrompt
        BY <1>3 DEF ReservationHasHolder
    <2>2. automation'[v].handled[p] # NoPrompt BY <1>1, <1>3, <2>1
    <2> QED BY <2>2
<1> QED BY <1>2, <1>3

\* Changes of a window that leave what it has handled alone keep the holders.
LEMMA HandledUnchanged ==
    ASSUME TypeInv, ReservationHasHolder, NEW w \in Windows, NEW ui \in Automation,
           Update(w, ui), ui.handled = automation[w].handled, UNCHANGED reserved
    PROVE  ReservationHasHolder'
BY HolderKept

\* Steps of Codex and of its panes keep the holders.
LEMMA CodexHolder ==
    ASSUME TypeInv, ReservationHasHolder, NEW p \in Panes, Codex(p)
    PROVE  ReservationHasHolder'
<1>1. UNCHANGED reserved
    BY DEF Codex, ShowPrompt, WithdrawPrompt, Redraw, Flicker, Others
<1>2. OutputSeen(p) \/ UNCHANGED automation
    BY DEF Codex, ShowPrompt, WithdrawPrompt, Redraw, Flicker
<1>3. \A w \in Windows : automation'[w].handled = automation[w].handled
    BY <1>2, OutputType DEF TypeInv, PromptTypeOK
<1> QED BY <1>1, <1>3 DEF ReservationHasHolder

\* A native prompt is reserved when it is handled, and released when its window
\* forgets it.
LEMMA NativeHolder ==
    ASSUME TypeInv, ReservationHasHolder, NEW w \in Windows, NEW p \in NativePanes,
           Native(w, p)
    PROVE  ReservationHasHolder'
<1> DEFINE ui == automation[w]
<1>1. /\ ui \in Automation /\ Served(w, p) \in Automation /\ p \in Panes
      /\ Served(w, p).handled = ui.handled
    BY ServedType DEF TypeInv, PromptTypeOK, Panes, Served, Automation
<1>2. screen[p] \in MaybePrompt BY <1>1 DEF TypeInv, PromptTypeOK
<1>3. CASE NativeGone(w, p)
    <2> DEFINE new == Cleared(Served(w, p), p)
    <2>1. new \in Automation BY <1>1, ClearedType
    <2>2. new.handled = [ui.handled EXCEPT ![p] = NoPrompt]
        BY <1>1 DEF Cleared, Automation
    <2>3. /\ Update(w, new)
          /\ reserved' = IF ui.handled[p] = NoPrompt THEN reserved ELSE reserved \ {p}
        BY <1>3 DEF NativeGone
    <2>4. \A q \in reserved' : \/ new.handled[q] # NoPrompt
                               \/ q \in reserved /\ ui.handled[q] = NoPrompt
        BY <1>1, <2>2, <2>3 DEF TypeInv, PromptTypeOK, Automation
    <2> HIDE DEF new
    <2> QED BY <2>1, <2>3, <2>4, HolderKept
<1>4. CASE NativeCovered(w, p)
    <2> DEFINE new == [Served(w, p) EXCEPT !.candidates[p] = NoPrompt,
                                           !.aged = @ \ {p}]
    <2>1. new \in Automation /\ new.handled = ui.handled
        BY <1>1 DEF Automation, MaybePrompt
    <2>2. Update(w, new) /\ UNCHANGED reserved BY <1>4 DEF NativeCovered
    <2> HIDE DEF new
    <2> QED BY <2>1, <2>2, HandledUnchanged
<1>5. CASE NativeWaits(w, p)
    <2>1. Candidate(ui, p, screen[p]) \in Automation
          /\ Candidate(ui, p, screen[p]).handled = ui.handled
        BY <1>1, <1>2, CandidateType DEF Candidate, Automation
    <2>2. /\ Update(w, Served(w, p)) \/ Update(w, Candidate(ui, p, screen[p]))
          /\ UNCHANGED reserved
        BY <1>5 DEF NativeWaits
    <2> QED BY <1>1, <2>1, <2>2, HandledUnchanged
<1>6. CASE NativeAnswers(w, p)
    <2> DEFINE new == [Served(w, p) EXCEPT !.handled[p] = screen[p]]
    <2>1. new \in Automation BY <1>1, <1>2 DEF Automation
    <2>2. new.handled = [ui.handled EXCEPT ![p] = screen[p]]
        BY <1>1 DEF Automation
    <2>3. Update(w, new) /\ reserved' = reserved \cup {p} /\ screen[p] # NoPrompt
        BY <1>6 DEF NativeAnswers, NativeSeen
    <2>4. \A q \in reserved' : \/ new.handled[q] # NoPrompt
                               \/ q \in reserved /\ ui.handled[q] = NoPrompt
        BY <1>1, <2>2, <2>3 DEF Automation
    <2> HIDE DEF new
    <2> QED BY <2>1, <2>3, <2>4, HolderKept
<1> QED BY <1>3, <1>4, <1>5, <1>6 DEF Native

\* A scan reserves the prompts it handles and releases those that are gone.
LEMMA ApplyScanHolder ==
    ASSUME TypeInv, ReservationHasHolder, NEW w \in Windows, ApplyScan(w)
    PROVE  ReservationHasHolder'
<1> DEFINE ui    == automation[w]
           scan  == Head(response_rx[w])
           gone  == {p \in TmuxPanes : scan.found[p] = NoPrompt}
           fresh == {p \in TmuxPanes \ gone : ui.handled[p] = NoPrompt}
           ready == {p \in fresh : Stable(ui, p, scan.found[p])}
           won   == ready \ reserved
<1> DEFINE handled == [p \in Panes |->
                          IF p \in gone THEN NoPrompt
                          ELSE IF p \in ready THEN scan.found[p]
                          ELSE ui.handled[p]]
<1>1. ui \in Automation BY DEF TypeInv, PromptTypeOK
<1>2. reserved' = (reserved \ (gone \cap Released(ui))) \cup won BY DEF ApplyScan
<1>3. automation'[w].handled = handled
    BY <1>1 DEF ApplyScan, Update, Queued, TypeInv, PromptTypeOK, Automation
<1>4. PICK new : Update(w, new) BY DEF ApplyScan
<1>5. TypeInv' BY ApplyScanType
<1>6. new \in Automation /\ new.handled = handled
    BY <1>3, <1>4, <1>5 DEF Update, TypeInv, PromptTypeOK
<1>7. \A p \in reserved' : p \in Panes
    BY <1>5 DEF TypeInv, PromptTypeOK
<1>8. \A p \in reserved' : \/ handled[p] # NoPrompt
                           \/ p \in reserved /\ ui.handled[p] = NoPrompt
    BY <1>2, <1>7 DEF Released
<1> HIDE DEF handled
<1> QED BY <1>4, <1>6, <1>8, HolderKept

\* Steps of the GUI thread of a window keep the holders.
LEMMA WindowHolder ==
    ASSUME TypeInv, ReservationHasHolder, NEW w \in Windows, Window(w)
    PROVE  ReservationHasHolder'
<1> DEFINE ui == automation[w]
<1>1. ui \in Automation BY DEF TypeInv, PromptTypeOK
<1>2. ASSUME NEW mode \in Modes, SwitchMode(w, mode) PROVE ReservationHasHolder'
    <2> DEFINE off == [Fresh("Off") EXCEPT !.scan_in_flight = ui.scan_in_flight]
               on  == [ui EXCEPT !.mode = mode]
    <2>1. off \in Automation BY <1>1, FreshType DEF Automation, Modes
    <2>2. on \in Automation /\ on.handled = ui.handled BY <1>1 DEF Automation
    <2> HIDE DEF off, on
    <2>3. CASE reserved' = reserved \ Released(ui) /\ Update(w, off)
        <3>1. \A p \in reserved' : p \in reserved /\ ui.handled[p] = NoPrompt
            BY <2>3 DEF Released, TypeInv, PromptTypeOK
        <3> QED BY <2>1, <2>3, <3>1, HolderKept
    <2>4. CASE Update(w, on) /\ UNCHANGED reserved
        BY <2>2, <2>4, HandledUnchanged
    <2> QED BY <1>2, <2>3, <2>4 DEF SwitchMode, off, on
<1>3. ASSUME NEW p \in Panes, Debounce(w, p) PROVE ReservationHasHolder'
    <2> DEFINE new == [ui EXCEPT !.aged = @ \cup {p}]
    <2>1. new \in Automation /\ new.handled = ui.handled BY <1>1 DEF Automation
    <2>2. Update(w, new) /\ UNCHANGED reserved BY <1>3 DEF Debounce
    <2> HIDE DEF new
    <2> QED BY <2>1, <2>2, HandledUnchanged
<1>4. ASSUME NEW p \in NativePanes, Native(w, p) PROVE ReservationHasHolder'
    BY <1>4, NativeHolder
<1>5. ASSUME NEW server \in Servers, QueueScan(w, server)
      PROVE  ReservationHasHolder'
    <2>1. Queued(ui, server) \in Automation BY <1>1, QueuedType
    <2>2. Queued(ui, server).handled = ui.handled BY <1>1 DEF Queued, Automation
    <2>3. Update(w, Queued(ui, server)) /\ UNCHANGED reserved BY <1>5 DEF QueueScan
    <2> QED BY <2>1, <2>2, <2>3, HandledUnchanged
<1>6. CASE StartScan(w)
    <2> DEFINE new == [ui EXCEPT !.scan_in_flight = Head(ui.scan_queue),
                                 !.scan_queue = Tail(@)]
    <2>1. Head(ui.scan_queue) \in Servers /\ Tail(ui.scan_queue) \in Seq(Servers)
        BY <1>1, <1>6, QueueEnds DEF StartScan, Automation
    <2>2. new \in Automation /\ new.handled = ui.handled BY <1>1, <2>1 DEF Automation
    <2>3. Update(w, new) /\ UNCHANGED reserved BY <1>6 DEF StartScan
    <2> HIDE DEF new
    <2> QED BY <2>2, <2>3, HandledUnchanged
<1>7. CASE IgnoreScan(w)
    <2> DEFINE new == [ui EXCEPT !.scan_in_flight = NoServer]
    <2>1. new \in Automation /\ new.handled = ui.handled BY <1>1 DEF Automation
    <2>2. Update(w, new) /\ UNCHANGED reserved BY <1>7 DEF IgnoreScan
    <2> HIDE DEF new
    <2> QED BY <2>1, <2>2, HandledUnchanged
<1>8. CASE ApplyScan(w) BY <1>8, ApplyScanHolder
<1>9. CASE ApplyChoice(w)
    <2> DEFINE pane == Head(response_rx[w]).pane
               new  == [ui EXCEPT !.choices_pending[pane] = NoPrompt]
    <2>1. pane \in TmuxPanes BY <1>9, TakeType DEF ApplyChoice, PromptResponses
    <2>2. new \in Automation /\ new.handled = ui.handled
        BY <1>1, <2>1 DEF Automation, MaybePrompt
    <2>3. Update(w, new) /\ UNCHANGED reserved BY <1>9 DEF ApplyChoice
    <2> HIDE DEF new
    <2> QED BY <2>2, <2>3, HandledUnchanged
<1> QED
    BY <1>2, <1>3, <1>4, <1>5, <1>6, <1>7, <1>8, <1>9 DEF Window

\* No reservation outlives the windows that handled its prompt, for any number
\* of windows, panes and servers: no target stays suppressed for ever because a
\* window switched off, a pane left Codex or a scan missed it.
THEOREM ReservationCorrect == Spec => []ReservationHasHolder
<1> DEFINE Inv == TypeInv /\ ReservationHasHolder
<1>1. Init => Inv
    <2>1. Init => reserved = {} BY DEF Init
    <2> QED BY <2>1, TypeInit DEF ReservationHasHolder
<1>2. ASSUME Inv, [Next]_vars PROVE Inv'
    <2>1. TypeInv' BY <1>2, TypeStep
    <2>2. ASSUME NEW p \in Panes, Codex(p) PROVE ReservationHasHolder'
        BY <1>2, <2>2, CodexHolder
    <2>3. ASSUME NEW w \in Windows, Window(w) PROVE ReservationHasHolder'
        BY <1>2, <2>3, WindowHolder
    <2>4. ASSUME NEW w \in Windows, Worker(w) PROVE ReservationHasHolder'
        <3>1. reserved' = reserved /\ automation' = automation
            BY <2>4 DEF Worker, ListPanes, ScanFails, CapturePane, ScanDone,
               InspectPane, ChoiceRefused, RevalidatePrompt, ChoiceAbandoned,
               SendKeys, OnlyThread
        <3> QED BY <1>2, <3>1 DEF ReservationHasHolder
    <2>5. CASE UNCHANGED vars BY <1>2, <2>1, <2>5 DEF vars, ReservationHasHolder
    <2> QED BY <1>2, <2>1, <2>2, <2>3, <2>4, <2>5 DEF Next
<1>3. Inv => ReservationHasHolder OBVIOUS
<1> QED BY <1>1, <1>2, <1>3, PTL DEF Spec

-------------------------------------------------------------------------------
(* Choices and their results *)

\* What a window waits for, in the order in which it comes: a scan is the last,
\* there is none unless one is in flight, no pane has two choices, and every
\* choice that the window waits for is there.
LineFits(line, ui) ==
    /\ \A i \in 1..Len(line) : i < Len(line) => line[i].op = "Choice"
    /\ \A i \in 1..Len(line) : line[i].op = "Scan" => ui.scan_in_flight # NoServer
    /\ \A i, j \in 1..Len(line) :
            /\ line[i].op = "Choice" /\ line[j].op = "Choice"
            /\ line[i].pane = line[j].pane
            => i = j
    /\ \A p \in TmuxPanes : ui.choices_pending[p] # NoPrompt =>
            \E i \in 1..Len(line) :
                /\ line[i].op = "Choice" /\ line[i].pane = p
                /\ line[i].prompt = ui.choices_pending[p]

LinesFit == \A w \in Windows : LineFits(Line(w), automation[w])

\* The job under way.
Busy(w) == IF thread[w].step = "Idle" THEN <<>> ELSE <<thread[w].job>>

\* What waits in a line.
Entries == Jobs \cup PromptResponses

\* The places of three sequences in one.
LEMMA LineAt ==
    ASSUME NEW S, NEW r \in Seq(S), NEW b \in Seq(S), NEW q \in Seq(S)
    PROVE  /\ r \o b \o q \in Seq(S)
           /\ Len(r \o b \o q) = Len(r) + Len(b) + Len(q)
           /\ \A i \in 1..Len(r \o b \o q) : (r \o b \o q)[i] =
                IF i <= Len(r) THEN r[i]
                ELSE IF i <= Len(r) + Len(b) THEN b[i - Len(r)]
                ELSE q[i - Len(r) - Len(b)]
OBVIOUS

\* The empty sequence, and only it, has no element.
LEMMA EmptyLen ==
    ASSUME NEW S, NEW s \in Seq(S)
    PROVE  Len(s) \in Nat /\ (Len(s) = 0 <=> s = <<>>)
BY LenProperties, EmptySeq

\* Short sequences.
LEMMA ShortSequences ==
    ASSUME NEW S, NEW s \in Seq(S)
    PROVE  /\ Len(s) = 0 => s = <<>>
           /\ s # <<>> /\ (Len(s) <= 1 \/ Tail(s) = <<>>) =>
                    Len(s) = 1 /\ s = <<Head(s)>> /\ Head(s) = s[1] /\ Tail(s) = <<>>
<1>1. Len(s) = 0 => s = <<>> BY EmptyLen
<1> SUFFICES ASSUME s # <<>>, Len(s) <= 1 \/ Tail(s) = <<>>
             PROVE  Len(s) = 1 /\ s = <<Head(s)>> /\ Head(s) = s[1] /\ Tail(s) = <<>>
    BY <1>1
<1>2. /\ Tail(s) \in Seq(S) /\ Len(Tail(s)) = Len(s) - 1
      /\ Head(s) = s[1] /\ Head(s) \in S
    BY HeadTailProperties
<1>3. Len(s) \in Nat /\ Len(s) # 0 BY EmptyLen
<1>4. Tail(s) = <<>> <=> Len(Tail(s)) = 0 BY <1>2, EmptyLen
<1>5. Len(s) = 1 /\ Tail(s) = <<>> BY <1>2, <1>3, <1>4
<1>6. s = <<Head(s)>>
    <2>1. <<Head(s)>> \in Seq(S) /\ Len(<<Head(s)>>) = 1 /\ <<Head(s)>>[1] = Head(s)
        BY <1>2
    <2>2. \A i \in 1..Len(s) : s[i] = <<Head(s)>>[i] BY <1>2, <1>5, <2>1
    <2> QED BY <1>5, <2>1, <2>2, SeqEqual
<1> QED BY <1>2, <1>5, <1>6

\* The parts of a line.
LEMMA LineParts ==
    ASSUME TypeInv, NEW w \in Windows
    PROVE  /\ response_rx[w] \in Seq(Entries) /\ Busy(w) \in Seq(Entries)
           /\ thread[w].queue \in Seq(Entries)
           /\ Line(w) = response_rx[w] \o Busy(w) \o thread[w].queue
           /\ Line(w) \in Seq(Entries)
<1>1. response_rx[w] \in Seq(Entries) BY DEF TypeInv, PromptTypeOK, Entries
<1>2. thread[w].queue \in Seq(Entries) /\ Busy(w) \in Seq(Entries)
    <2>1. thread[w].step # "Idle" => thread[w].job \in Jobs
        BY ThreadFields DEF TypeInv
    <2>2. thread[w].queue \in Seq(Entries) BY ThreadFields DEF TypeInv, Entries
    <2>3. thread[w].step # "Idle" => thread[w].job \in Entries BY <2>1 DEF Entries
    <2> QED BY <2>2, <2>3 DEF Busy
<1>3. Line(w) = response_rx[w] \o Busy(w) \o thread[w].queue BY DEF Line, Busy
<1> QED BY <1>1, <1>2, <1>3, LineAt

\* An entry is a scan or a choice.
LEMMA EntryOps ==
    ASSUME NEW e \in Entries
    PROVE  e.op \in {"Scan", "Choice"} /\ (e.op = "Choice" => e.pane \in TmuxPanes)
BY DEF Entries, Jobs, PromptResponses

\* A line may be answered in place.
LEMMA FitsAnswered ==
    ASSUME NEW line, NEW new, NEW ui, LineFits(line, ui), Len(new) = Len(line),
           \A i \in 1..Len(line) :
                /\ new[i].op = line[i].op
                /\ line[i].op = "Choice" => /\ new[i].pane = line[i].pane
                                            /\ new[i].prompt = line[i].prompt
    PROVE  LineFits(new, ui)
BY DEF LineFits

\* A window may change what the line does not speak of, or forget its choices.
LEMMA FitsForgotten ==
    ASSUME NEW line, NEW ui, NEW new, LineFits(line, ui),
           new.scan_in_flight = ui.scan_in_flight,
           \A p \in TmuxPanes :
                new.choices_pending[p] \in {NoPrompt, ui.choices_pending[p]}
    PROVE  LineFits(line, new)
BY DEF LineFits

\* One window changes.
LEMMA FitsUpdate ==
    ASSUME TypeInv, LinesFit, NEW w \in Windows, NEW ui, Update(w, ui),
           LineFits(Line(w)', ui),
           \A v \in Windows : v # w => Line(v)' = Line(v)
    PROVE  LinesFit'
<1>1. \A v \in Windows : LineFits(Line(v)', automation'[v])
    <2> SUFFICES ASSUME NEW v \in Windows PROVE LineFits(Line(v)', automation'[v])
        OBVIOUS
    <2>1. automation'[v] = IF v = w THEN ui ELSE automation[v]
        BY DEF Update, TypeInv, PromptTypeOK
    <2> QED BY <2>1 DEF LinesFit
<1> QED BY <1>1 DEF LinesFit, LineFits

\* A thread that goes on keeps its line.
LEMMA ProceedLine ==
    ASSUME TypeInv, NEW w \in Windows, NEW step \in ThreadSteps \ {"Idle"},
           NEW job, NEW todo, NEW found, Idle(w) \/ thread[w].step # "Idle",
           job = IF thread[w].step = "Idle" THEN Job(w) ELSE thread[w].job,
           Proceed(w, step, job, todo, found)
    PROVE  \A v \in Windows : Line(v)' = Line(v)
<1> SUFFICES ASSUME NEW v \in Windows PROVE Line(v)' = Line(v)
    OBVIOUS
<1>1. /\ thread' = [thread EXCEPT ![w] =
            [queue |-> IF thread[w].step = "Idle" THEN Tail(thread[w].queue)
                       ELSE thread[w].queue,
             step |-> step, job |-> job, todo |-> todo, found |-> found]]
      /\ response_rx' = response_rx /\ DOMAIN thread = Windows
    BY DEF Proceed, TypeInv, ThreadOK
<1>2. CASE v # w BY <1>1, <1>2 DEF Line
<1>3. CASE v = w /\ thread[w].step # "Idle" BY <1>1, <1>3 DEF Line
<1>4. CASE v = w /\ thread[w].step = "Idle"
    <2> DEFINE r == response_rx[w]
               q == thread[w].queue
    <2>1. r \in Seq(Entries) /\ q \in Seq(Entries) /\ q # <<>> /\ job = Head(q)
        BY <1>4, LineParts DEF Idle, Job
    <2>2. Line(w) = r \o <<>> \o q BY <1>4 DEF Line
    <2>3. Line(w)' = r \o <<job>> \o Tail(q) BY <1>1, <1>4 DEF Line
    <2> HIDE DEF r, q
    <2>4. r \o <<>> \o q = r \o <<job>> \o Tail(q)
        <3>1. q = <<job>> \o Tail(q) BY <2>1
        <3>2. r \o <<>> = r BY <2>1
        <3>3. <<job>> \in Seq(Entries) /\ Tail(q) \in Seq(Entries) BY <2>1
        <3> QED BY <2>1, <3>1, <3>2, <3>3
    <2> QED BY <1>4, <2>2, <2>3, <2>4
<1> QED BY <1>2, <1>3, <1>4

\* A thread that answers puts the answer in the place of the job.
LEMMA RespondLine ==
    ASSUME TypeInv, NEW w \in Windows, NEW response \in PromptResponses,
           Idle(w) \/ thread[w].step # "Idle", Respond(w, response)
    PROVE  /\ \A v \in Windows : v # w => Line(v)' = Line(v)
           /\ Len(Line(w)') = Len(Line(w))
           /\ Len(response_rx[w]) + 1 \in 1..Len(Line(w))
           /\ \A i \in 1..Len(Line(w)) : Line(w)'[i] =
                IF i = Len(response_rx[w]) + 1 THEN response ELSE Line(w)[i]
           /\ Line(w)[Len(response_rx[w]) + 1] =
                IF thread[w].step = "Idle" THEN Job(w) ELSE thread[w].job
<1> DEFINE r == response_rx[w]
           q == thread[w].queue
           rest == IF thread[w].step = "Idle" THEN Tail(q) ELSE q
           job == IF thread[w].step = "Idle" THEN Job(w) ELSE thread[w].job
<1>1. r \in Seq(Entries) /\ q \in Seq(Entries) /\ Line(w) = r \o Busy(w) \o q
    BY LineParts
<1>2. response \in Entries /\ job \in Entries
    BY ThreadFields DEF Entries, TypeInv
<1>3. thread' = [thread EXCEPT ![w] = IdleThread(rest)] /\ DOMAIN thread = Windows
    BY DEF Respond, TypeInv, ThreadOK
<1>4. response_rx' = [response_rx EXCEPT ![w] = Append(r, response)]
      /\ DOMAIN response_rx = Windows
    BY DEF Respond, TypeInv, PromptTypeOK
<1>5. \A v \in Windows : v # w => Line(v)' = Line(v) BY <1>3, <1>4 DEF Line
<1>6. Line(w)' = Append(r, response) \o <<>> \o rest
    BY <1>3, <1>4 DEF Line, IdleThread
<1>7. Line(w) = r \o <<job>> \o rest /\ rest \in Seq(Entries)
    <2>1. CASE thread[w].step # "Idle" BY <1>1, <2>1 DEF Busy
    <2>2. CASE thread[w].step = "Idle"
        <3>1. q # <<>> /\ job = Head(q) /\ rest = Tail(q) BY <2>2 DEF Idle, Job
        <3>2. Line(w) = r \o <<>> \o q BY <1>1, <2>2 DEF Busy
        <3> HIDE DEF r, q, rest, job
        <3>3. q = <<job>> \o rest /\ rest \in Seq(Entries) BY <1>1, <3>1
        <3>4. r \o <<>> = r /\ <<job>> \in Seq(Entries) BY <1>1, <1>2
        <3> QED BY <1>1, <3>2, <3>3, <3>4
    <2> QED BY <2>1, <2>2
<1> HIDE DEF r, q, rest, job
<1> DEFINE new == Append(r, response) \o <<>> \o rest
           old == r \o <<job>> \o rest
<1>8. /\ Append(r, response) \in Seq(Entries) /\ <<>> \in Seq(Entries)
      /\ <<job>> \in Seq(Entries) /\ Len(r) \in Nat /\ Len(rest) \in Nat
      /\ Len(Append(r, response)) = Len(r) + 1
    BY <1>1, <1>2, <1>7
<1>9. Len(new) = Len(r) + 1 + Len(rest) /\ Len(old) = Len(r) + 1 + Len(rest)
    BY <1>1, <1>7, <1>8, LineAt
<1>10. \A i \in 1..Len(old) : new[i] = IF i <= Len(r) THEN r[i]
            ELSE IF i = Len(r) + 1 THEN response ELSE rest[i - Len(r) - 1]
    BY <1>1, <1>2, <1>7, <1>8, <1>9
<1>11. \A i \in 1..Len(old) : old[i] = IF i <= Len(r) THEN r[i]
            ELSE IF i = Len(r) + 1 THEN job ELSE rest[i - Len(r) - 1]
    BY <1>1, <1>2, <1>7, <1>8, <1>9
<1>12. Len(r) + 1 \in 1..Len(old) BY <1>8, <1>9
<1> HIDE DEF new, old
<1>13. \A i \in 1..Len(old) :
            new[i] = IF i = Len(r) + 1 THEN response ELSE old[i]
    BY <1>8, <1>10, <1>11
<1>14. old[Len(r) + 1] = job BY <1>8, <1>11, <1>12
<1> QED BY <1>5, <1>6, <1>7, <1>9, <1>12, <1>13, <1>14 DEF new, old, r, job

\* A response that is taken leaves its line at the front.
LEMMA TakeLine ==
    ASSUME TypeInv, NEW w \in Windows, NEW op, Take(w, op), UNCHANGED thread
    PROVE  /\ \A v \in Windows : v # w => Line(v)' = Line(v)
           /\ Line(w) \in Seq(Entries) /\ Line(w) # <<>>
           /\ Line(w)' = Tail(Line(w))
           /\ Head(Line(w)) = Head(response_rx[w]) /\ Head(Line(w)).op = op
<1> DEFINE r == response_rx[w]
           b == Busy(w)
           q == thread[w].queue
<1>1. /\ r \in Seq(Entries) /\ b \in Seq(Entries) /\ q \in Seq(Entries)
      /\ Line(w) = r \o b \o q
    BY LineParts
<1>2. r # <<>> /\ response_rx' = [response_rx EXCEPT ![w] = Tail(r)]
      /\ Head(r).op = op /\ DOMAIN response_rx = Windows
    BY DEF Take, TypeInv, PromptTypeOK
<1>3. Line(w)' = Tail(r) \o b \o q BY <1>2 DEF Line, Busy
<1>4. \A v \in Windows : v # w => Line(v)' = Line(v) BY <1>2 DEF Line
<1> HIDE DEF r, b, q
<1>5. b \o q \in Seq(Entries) /\ Tail(r) \in Seq(Entries) BY <1>1, <1>2
<1>6. r \o b \o q = r \o (b \o q) BY <1>1, ConcatAssociative
<1>7. Tail(r) \o b \o q = Tail(r) \o (b \o q) BY <1>1, <1>5, ConcatAssociative
<1> DEFINE s == b \o q
<1>8. s \in Seq(Entries) BY <1>5
<1> HIDE DEF s
<1>9. r \o s \in Seq(Entries) /\ r \o s # <<>> /\ Tail(r \o s) = Tail(r) \o s
      /\ Head(r \o s) = Head(r)
    BY <1>1, <1>2, <1>8
<1> QED BY <1>1, <1>2, <1>3, <1>4, <1>6, <1>7, <1>9 DEF s, r

\* A sequence made of a set has each element in one place.
LEMMA SetToSeqPlaces ==
    ASSUME NEW S, IsFiniteSet(S)
    PROVE  /\ \A i, j \in 1..Cardinality(S) :
                    SetToSeq(S)[i] = SetToSeq(S)[j] => i = j
           /\ \A p \in S : \E i \in 1..Cardinality(S) : SetToSeq(S)[i] = p
<1> DEFINE f == SetToSeq(S)
           n == Cardinality(S)
<1>1. n \in Nat /\ ExistsBijection(1..n, S) BY FS_CardinalityType
<1>2. \E g \in [1..n -> S] : IsInjective(g)
    BY <1>1 DEF ExistsBijection, Bijection, Injection, IsInjective
<1>3. f \in [1..n -> S] /\ IsInjective(f) BY <1>2 DEF SetToSeq
<1>4. f \in Injection(1..n, S) BY <1>3 DEF Injection, IsInjective
<1>5. Cardinality(1..n) = n BY <1>1, FS_Interval
<1>6. f \in Surjection(1..n, S) BY <1>4, <1>5, FS_Injection
<1> QED BY <1>3, <1>6 DEF Surjection, IsInjective

\* Steps of Codex and of its panes.
LEMMA CodexFits ==
    ASSUME TypeInv, LinesFit, NEW p \in Panes, Codex(p)
    PROVE  LinesFit'
<1>1. UNCHANGED <<thread, response_rx>>
    BY DEF Codex, ShowPrompt, WithdrawPrompt, Redraw, Flicker, Others
<1>2. OutputSeen(p) \/ UNCHANGED automation
    BY DEF Codex, ShowPrompt, WithdrawPrompt, Redraw, Flicker
<1>3. \A w \in Windows :
        /\ automation'[w].scan_in_flight = automation[w].scan_in_flight
        /\ automation'[w].choices_pending = automation[w].choices_pending
    BY <1>2 DEF OutputSeen, TypeInv, PromptTypeOK, Automation
<1>4. \A w \in Windows : Line(w)' = Line(w) BY <1>1 DEF Line
<1>5. \A w \in Windows : LineFits(Line(w)', automation'[w])
    BY <1>3, <1>4, FitsForgotten DEF LinesFit
<1> QED BY <1>5 DEF LinesFit, LineFits

\* Steps of a window that leave its line alone.
LEMMA QuietFits ==
    ASSUME TypeInv, LinesFit, NEW w \in Windows, NEW ui, Update(w, ui),
           UNCHANGED <<thread, response_rx>>,
           ui.scan_in_flight = automation[w].scan_in_flight,
           \A p \in TmuxPanes :
                ui.choices_pending[p] \in {NoPrompt, automation[w].choices_pending[p]}
    PROVE  LinesFit'
<1>1. \A v \in Windows : Line(v)' = Line(v) BY DEF Line
<1>2. LineFits(Line(w)', ui) BY <1>1, FitsForgotten DEF LinesFit
<1> QED BY <1>1, <1>2, FitsUpdate

\* The thread goes on, or answers with a result of its job.
LEMMA WorkerFits ==
    ASSUME TypeInv, LinesFit, NEW w \in Windows, Worker(w)
    PROVE  LinesFit'
<1>1. UNCHANGED automation
    BY DEF Worker, ListPanes, ScanFails, CapturePane, ScanDone, InspectPane,
       ChoiceRefused, RevalidatePrompt, ChoiceAbandoned, SendKeys, OnlyThread
<1>2. SUFFICES \A v \in Windows : LineFits(Line(v)', automation[v])
    BY <1>1 DEF LinesFit, LineFits
<1> DEFINE job == IF thread[w].step = "Idle" THEN Job(w) ELSE thread[w].job
<1>3. ASSUME NEW step \in ThreadSteps \ {"Idle"}, NEW todo, NEW found,
             Idle(w) \/ thread[w].step # "Idle", Proceed(w, step, job, todo, found)
      PROVE  \A v \in Windows : LineFits(Line(v)', automation[v])
    BY <1>3, ProceedLine DEF LinesFit
<1>4. ASSUME NEW response \in PromptResponses, Respond(w, response),
             Idle(w) \/ thread[w].step # "Idle", response.op = job.op,
             job.op = "Choice" => response.pane = job.pane /\ response.prompt = job.prompt
      PROVE  \A v \in Windows : LineFits(Line(v)', automation[v])
    <2> DEFINE k == Len(response_rx[w]) + 1
    <2>1. /\ \A v \in Windows : v # w => Line(v)' = Line(v)
          /\ Len(Line(w)') = Len(Line(w))
          /\ \A i \in 1..Len(Line(w)) :
                Line(w)'[i] = IF i = k THEN response ELSE Line(w)[i]
          /\ Line(w)[k] = job
        BY <1>4, RespondLine
    <2> HIDE DEF k, job
    <2>2. \A i \in 1..Len(Line(w)) :
            /\ Line(w)'[i].op = Line(w)[i].op
            /\ Line(w)[i].op = "Choice" =>
                    /\ Line(w)'[i].pane = Line(w)[i].pane
                    /\ Line(w)'[i].prompt = Line(w)[i].prompt
        BY <1>4, <2>1
    <2>3. LineFits(Line(w)', automation[w]) BY <2>1, <2>2, FitsAnswered DEF LinesFit
    <2> QED BY <2>1, <2>3 DEF LinesFit
<1>5. NothingSeen \in Captures BY DEF NothingSeen, Captures, MaybePrompt
<1>6. ThreadOK BY DEF TypeInv
<1>7. {"Capture", "Classify", "SendKeys"} \subseteq ThreadSteps \ {"Idle"}
    BY DEF ThreadSteps
<1>8. CASE ListPanes(w) \/ InspectPane(w) \/ RevalidatePrompt(w)
    BY <1>3, <1>7, <1>8 DEF ListPanes, InspectPane, RevalidatePrompt, Idle
<1>9. ASSUME NEW p \in TmuxPanes, CapturePane(w, p)
      PROVE  \A v \in Windows : LineFits(Line(v)', automation[v])
    BY <1>3, <1>7, <1>9 DEF CapturePane
<1>10. CASE ScanFails(w)
    <2>1. [op |-> "Scan", found |-> NothingSeen, failed |-> TRUE] \in PromptResponses
        BY <1>5 DEF PromptResponses
    <2> QED BY <1>4, <1>10, <2>1 DEF ScanFails, Idle
<1>11. CASE ScanDone(w)
    <2>1. [op |-> "Scan", found |-> thread[w].found, failed |-> FALSE]
              \in PromptResponses
        BY <1>6, ThreadFields DEF PromptResponses
    <2>2. thread[w].step # "Idle" /\ job.op = "Scan"
        BY <1>6, <1>11 DEF ScanDone, ThreadOK
    <2> QED BY <1>4, <1>11, <2>1, <2>2 DEF ScanDone
<1>12. ASSUME NEW sent \in BOOLEAN, Respond(w, ChoiceReply(job, sent)),
              \/ Idle(w) /\ Job(w).op = "Choice"
              \/ thread[w].step \in {"Classify", "SendKeys"}
       PROVE  \A v \in Windows : LineFits(Line(v)', automation[v])
    <2>1. job \in Jobs /\ job.op = "Choice" /\ (Idle(w) \/ thread[w].step # "Idle")
        BY <1>6, <1>12, ThreadFields DEF ThreadOK, Idle
    <2> HIDE DEF job
    <2>2. ChoiceReply(job, sent) \in PromptResponses BY <2>1, ChoiceReplyType
    <2>3. /\ ChoiceReply(job, sent).op = "Choice"
          /\ ChoiceReply(job, sent).pane = job.pane
          /\ ChoiceReply(job, sent).prompt = job.prompt
        BY DEF ChoiceReply
    <2> QED BY <1>4, <1>12, <2>1, <2>2, <2>3
<1>13. CASE ChoiceRefused(w)
    BY <1>12, <1>13 DEF ChoiceRefused, Idle
<1>14. CASE ChoiceAbandoned(w) \/ SendKeys(w)
    BY <1>12, <1>14 DEF ChoiceAbandoned, SendKeys
<1> QED
    BY <1>8, <1>9, <1>10, <1>11, <1>13, <1>14 DEF Worker

\* The first of a line is answered: the rest fits, and when it was a scan there
\* is no rest.
LEMMA FitsTail ==
    ASSUME NEW line \in Seq(Entries), line # <<>>, NEW ui, NEW new,
           LineFits(line, ui)
    PROVE  /\ Head(line).op = "Scan" => Tail(line) = <<>>
           /\ /\ Head(line).op = "Choice"
              /\ new.scan_in_flight = ui.scan_in_flight
              /\ \A p \in TmuxPanes : new.choices_pending[p] =
                    IF p = Head(line).pane THEN NoPrompt ELSE ui.choices_pending[p]
              => LineFits(Tail(line), new)
<1> DEFINE rest == Tail(line)
           n == Len(line)
<1>1. /\ n \in Nat /\ n >= 1 /\ rest \in Seq(Entries) /\ Len(rest) = n - 1
      /\ Head(line) = line[1]
      /\ \A i \in 1..n : line[i] \in Entries
      /\ \A i \in 1..Len(rest) : rest[i] = line[i + 1]
    OBVIOUS
<1>2. ASSUME Head(line).op = "Scan" PROVE rest = <<>>
    <2>1. Len(line) = 1
        <3>1. 1 < n => line[1].op = "Choice" BY <1>1 DEF LineFits
        <3>2. ~(1 < n) BY <1>1, <1>2, <3>1
        <3> QED BY <1>1, <3>2
    <2>2. Len(line) <= 1 BY <2>1
    <2> QED BY <2>2, ShortSequences
<1>3. ASSUME Head(line).op = "Choice",
             new.scan_in_flight = ui.scan_in_flight,
             \A p \in TmuxPanes : new.choices_pending[p] =
                IF p = Head(line).pane THEN NoPrompt ELSE ui.choices_pending[p]
      PROVE  LineFits(rest, new)
    <2> HIDE DEF rest, n
    <2>1. \A i \in 1..Len(rest) : i + 1 \in 1..n /\ rest[i] = line[i + 1]
        BY <1>1
    <2>2. \A i \in 1..Len(rest) : i < Len(rest) => rest[i].op = "Choice"
        <3> SUFFICES ASSUME NEW i \in 1..Len(rest), i < Len(rest)
                     PROVE  line[i + 1].op = "Choice"
            BY <2>1
        <3>1. i + 1 \in 1..n /\ i + 1 < n BY <1>1, <2>1
        <3> QED BY <3>1 DEF LineFits, n
    <2>3. \A i \in 1..Len(rest) : rest[i].op = "Scan" => new.scan_in_flight # NoServer
        BY <1>3, <2>1 DEF LineFits, n
    <2>4. \A i, k \in 1..Len(rest) :
            /\ rest[i].op = "Choice" /\ rest[k].op = "Choice"
            /\ rest[i].pane = rest[k].pane
            => i = k
        <3> SUFFICES ASSUME NEW i \in 1..Len(rest), NEW k \in 1..Len(rest),
                            rest[i].op = "Choice", rest[k].op = "Choice",
                            rest[i].pane = rest[k].pane
                     PROVE  i = k
            OBVIOUS
        <3>1. i + 1 = k + 1 BY <2>1 DEF LineFits, n
        <3> QED BY <1>1, <3>1
    <2>5. \A p \in TmuxPanes : new.choices_pending[p] # NoPrompt =>
            \E i \in 1..Len(rest) :
                /\ rest[i].op = "Choice" /\ rest[i].pane = p
                /\ rest[i].prompt = new.choices_pending[p]
        <3> SUFFICES ASSUME NEW p \in TmuxPanes, new.choices_pending[p] # NoPrompt
                     PROVE  \E i \in 1..Len(rest) :
                                /\ rest[i].op = "Choice" /\ rest[i].pane = p
                                /\ rest[i].prompt = new.choices_pending[p]
            OBVIOUS
        <3>1. p # line[1].pane /\ new.choices_pending[p] = ui.choices_pending[p]
            BY <1>1, <1>3
        <3>2. PICK i \in 1..n : /\ line[i].op = "Choice" /\ line[i].pane = p
                                /\ line[i].prompt = ui.choices_pending[p]
            BY <3>1 DEF LineFits, n
        <3>3. i - 1 \in 1..Len(rest) /\ rest[i - 1] = line[i]
            BY <1>1, <3>1, <3>2
        <3> QED BY <3>1, <3>2, <3>3
    <2> QED BY <2>2, <2>3, <2>4, <2>5 DEF LineFits
<1> QED BY <1>2, <1>3

\* A scan is all that was left when its result is taken.
LEMMA TakeScanLine ==
    ASSUME TypeInv, LinesFit, NEW w \in Windows, Take(w, "Scan")
    PROVE  /\ Line(w) = <<Head(response_rx[w])>>
           /\ thread[w].step = "Idle" /\ thread[w].queue = <<>>
           /\ response_rx'[w] = <<>>
<1> DEFINE r == response_rx[w]
           b == Busy(w)
           q == thread[w].queue
<1>1. /\ r \in Seq(Entries) /\ b \in Seq(Entries) /\ q \in Seq(Entries)
      /\ Line(w) = r \o b \o q /\ Line(w) \in Seq(Entries)
    BY LineParts
<1>2. r # <<>> /\ response_rx' = [response_rx EXCEPT ![w] = Tail(r)]
      /\ Head(r).op = "Scan" /\ DOMAIN response_rx = Windows
    BY DEF Take, TypeInv, PromptTypeOK
<1>3. Len(Line(w)) = Len(r) + Len(b) + Len(q)
      /\ Line(w)[1] = r[1] /\ Head(r) = r[1]
    <2> HIDE DEF r, b, q
    <2> QED BY <1>1, <1>2, LineAt
<1> HIDE DEF r, b, q
<1>4. Len(Line(w)) <= 1
    <2>1. LineFits(Line(w), automation[w]) BY DEF LinesFit
    <2>2. Len(Line(w)) \in Nat BY <1>1
    <2>3. 1 < Len(Line(w)) => Line(w)[1].op = "Choice"
        BY <2>1, <2>2 DEF LineFits
    <2> QED BY <1>2, <1>3, <2>2, <2>3
<1>5. Len(r) = 1 /\ b = <<>> /\ q = <<>>
    <2>1. Len(r) >= 1 /\ Len(b) \in Nat /\ Len(q) \in Nat
          /\ Len(r) \in Nat
        BY <1>1, <1>2, EmptyLen
    <2>2. Len(b) = 0 /\ Len(q) = 0 /\ Len(r) = 1
        <3>1. Len(r) + Len(b) + Len(q) <= 1 BY <1>3, <1>4
        <3>2. \A x, y, z \in Nat : x >= 1 /\ x + y + z <= 1
                                    => y = 0 /\ z = 0 /\ x = 1
            OBVIOUS
        <3> QED BY <2>1, <3>1, <3>2
    <2> QED BY <1>1, <2>2, ShortSequences
<1>6. Tail(r) = <<>> /\ r = <<Head(r)>> BY <1>1, <1>2, <1>5, ShortSequences
<1>7. Line(w) = <<Head(r)>> BY <1>1, <1>5, <1>6
<1> QED BY <1>2, <1>5, <1>6, <1>7 DEF b, q, r, Busy

\* Its choices are the line then.
LEMMA ChoicesLine ==
    ASSUME TypeInv, LinesFit, NEW w \in Windows, Take(w, "Scan"),
           NEW choices \in Seq(Jobs),
           thread' = [thread EXCEPT ![w].queue = @ \o choices]
    PROVE  Line(w)' = choices /\ thread'[w].step = "Idle"
<1>1. thread[w].step = "Idle" /\ thread[w].queue = <<>> /\ response_rx'[w] = <<>>
    BY TakeScanLine
<1>2. thread[w] \in Threads BY DEF TypeInv, ThreadOK
<1>3. thread'[w].queue = <<>> \o choices /\ thread'[w].step = "Idle"
    BY <1>1, <1>2 DEF TypeInv, ThreadOK, Threads
<1>4. Line(w)' = <<>> \o <<>> \o (<<>> \o choices) BY <1>1, <1>3 DEF Line
<1> QED BY <1>3, <1>4

\* A line depends on its window only.
LEMMA SameLine ==
    ASSUME NEW w \in Windows, thread'[w].step = thread[w].step,
           thread'[w].job = thread[w].job
    PROVE  /\ Line(w)' = response_rx'[w] \o Busy(w) \o thread'[w].queue
           /\ thread'[w] = thread[w] /\ response_rx'[w] = response_rx[w]
                    => Line(w)' = Line(w)
BY DEF Line, Busy

\* A request joins the end of a line.
LEMMA JoinLine ==
    ASSUME TypeInv, NEW w \in Windows, NEW job \in Jobs, UNCHANGED response_rx,
           NEW queue, queue = Append(thread[w].queue, job),
           thread' = [thread EXCEPT ![w].queue = queue]
    PROVE  /\ \A v \in Windows : v # w => Line(v)' = Line(v)
           /\ Line(w) \in Seq(Entries) /\ Line(w)' = Append(Line(w), job)
           /\ \A v \in Windows : /\ thread'[v].step = thread[v].step
                                /\ thread'[v].todo = thread[v].todo
                                /\ thread'[v].found = thread[v].found
<1> DEFINE r == response_rx[w]
           b == Busy(w)
           q == thread[w].queue
<1>1. /\ r \in Seq(Entries) /\ b \in Seq(Entries) /\ q \in Seq(Entries)
      /\ Line(w) = r \o b \o q /\ Line(w) \in Seq(Entries)
    BY LineParts
<1>2. /\ \A v \in Windows : v # w => thread'[v] = thread[v]
      /\ \A v \in Windows : /\ thread'[v].step = thread[v].step
                           /\ thread'[v].todo = thread[v].todo
                           /\ thread'[v].found = thread[v].found
      /\ thread'[w].job = thread[w].job /\ thread'[w].queue = Append(q, job)
      /\ response_rx' = response_rx
    BY DEF TypeInv, ThreadOK, Threads
<1>3. \A v \in Windows : v # w => Line(v)' = Line(v)
    BY <1>2, SameLine
<1>4. Line(w)' = r \o b \o Append(q, job)
    BY <1>2, SameLine
<1> HIDE DEF r, b, q
<1>5. r \o b \o Append(q, job) = Append(r \o b \o q, job)
    <2>1. r \o b \in Seq(Entries) /\ job \in Entries BY <1>1 DEF Entries
    <2> HIDE DEF Entries
    <2> QED BY <1>1, <2>1
<1> QED BY <1>1, <1>2, <1>3, <1>4, <1>5

\* A usable scan was all that was left, and its choices take its place.
LEMMA ApplyScanFits ==
    ASSUME TypeInv, LinesFit, NEW w \in Windows, ApplyScan(w)
    PROVE  LinesFit'
<1> DEFINE ui    == automation[w]
           scan  == Head(response_rx[w])
           gone  == {p \in TmuxPanes : scan.found[p] = NoPrompt}
           fresh == {p \in TmuxPanes \ gone : ui.handled[p] = NoPrompt}
           ready == {p \in fresh : Stable(ui, p, scan.found[p])}
           won   == ready \ reserved
           sends == IF ui.mode = "Active" THEN won ELSE {}
           choices == [i \in 1..Cardinality(sends) |->
                          [op |-> "Choice", pane |-> SetToSeq(sends)[i],
                           prompt |-> scan.found[SetToSeq(sends)[i]]]]
           pending == [p \in TmuxPanes |-> IF p \in sends THEN scan.found[p]
                                           ELSE ui.choices_pending[p]]
<1>1. ui \in Automation BY DEF TypeInv, PromptTypeOK
<1>2. Take(w, "Scan") BY DEF ApplyScan
<1>3. thread' = [thread EXCEPT ![w].queue = @ \o choices] BY DEF ApplyScan
<1>4. automation'[w].choices_pending = pending
    BY <1>1 DEF ApplyScan, Update, Queued, TypeInv, PromptTypeOK, Automation
<1>5. PICK new : Update(w, new) BY DEF ApplyScan
<1>6. new.choices_pending = pending
    BY <1>4, <1>5 DEF Update, TypeInv, PromptTypeOK
<1>7. scan.found \in Captures BY <1>2, TakeType DEF PromptResponses
<1>8. sends \in SUBSET TmuxPanes /\ (\A p \in sends : scan.found[p] # NoPrompt)
      /\ IsFiniteSet(sends)
    BY PaneAssumption, FS_Subset
<1>9. choices \in Seq(Jobs) BY <1>7, <1>8, ChoicesType
<1>10. /\ Line(w) = <<scan>> /\ thread[w].step = "Idle" /\ thread[w].queue = <<>>
       /\ response_rx'[w] = <<>>
    BY <1>2, TakeScanLine
<1>11. \A v \in Windows : v # w => Line(v)' = Line(v)
    BY <1>2, <1>3 DEF Line, Take, TypeInv, PromptTypeOK, ThreadOK
<1>12. Line(w)' = choices
    <2> HIDE DEF choices
    <2> QED BY <1>2, <1>3, <1>9, ChoicesLine
<1> DEFINE n == Cardinality(sends)
<1>13. n \in Nat /\ Len(choices) = n
    BY <1>8, FS_CardinalityType
<1>14. \A i \in 1..n : /\ choices[i].op = "Choice"
                       /\ choices[i].pane = SetToSeq(sends)[i]
                       /\ choices[i].prompt = scan.found[SetToSeq(sends)[i]]
    OBVIOUS
<1> HIDE DEF choices, n
<1>15. /\ \A i, k \in 1..n : SetToSeq(sends)[i] = SetToSeq(sends)[k] => i = k
       /\ \A p \in sends : \E i \in 1..n : SetToSeq(sends)[i] = p
    <2>1. IsFiniteSet(sends) BY <1>8
    <2> HIDE DEF sends
    <2> QED BY <2>1, SetToSeqPlaces DEF n
<1>16. \A p \in TmuxPanes : ui.choices_pending[p] = NoPrompt
    <2>1. Line(w)[1].op = "Scan" /\ Len(Line(w)) = 1
        BY <1>2, <1>10 DEF Take
    <2> QED BY <2>1 DEF LinesFit, LineFits
<1>17. LineFits(choices, new)
    <2>1. \A p \in TmuxPanes : new.choices_pending[p] # NoPrompt =>
                p \in sends /\ new.choices_pending[p] = scan.found[p]
        BY <1>6, <1>16
    <2> HIDE DEF sends, scan
    <2>2. \A p \in TmuxPanes : new.choices_pending[p] # NoPrompt =>
            \E i \in 1..Len(choices) :
                /\ choices[i].op = "Choice" /\ choices[i].pane = p
                /\ choices[i].prompt = new.choices_pending[p]
        BY <1>13, <1>14, <1>15, <2>1
    <2>3. \A i, k \in 1..Len(choices) :
            /\ choices[i].op = "Choice" /\ choices[k].op = "Choice"
            /\ choices[i].pane = choices[k].pane
            => i = k
        BY <1>13, <1>14, <1>15
    <2> QED BY <1>13, <1>14, <2>2, <2>3 DEF LineFits
<1> QED BY <1>5, <1>11, <1>12, <1>17, FitsUpdate

\* A step of the GUI thread of a window.
LEMMA WindowFits ==
    ASSUME TypeInv, LinesFit, NEW w \in Windows, Window(w)
    PROVE  LinesFit'
<1> DEFINE ui == automation[w]
<1>1. ui \in Automation BY DEF TypeInv, PromptTypeOK
<1>2. ASSUME NEW new, Update(w, new), UNCHANGED <<thread, response_rx>>,
             new.scan_in_flight = ui.scan_in_flight,
             new.choices_pending = ui.choices_pending
      PROVE  LinesFit'
    BY <1>2, QuietFits
<1>3. ASSUME NEW mode \in Modes, SwitchMode(w, mode) PROVE LinesFit'
    <2> DEFINE off == [Fresh("Off") EXCEPT !.scan_in_flight = ui.scan_in_flight]
               on  == [ui EXCEPT !.mode = mode]
    <2>1. off.scan_in_flight = ui.scan_in_flight
          /\ \A p \in TmuxPanes : off.choices_pending[p] = NoPrompt
        BY DEF Fresh, NothingSeen
    <2>2. on.scan_in_flight = ui.scan_in_flight
          /\ on.choices_pending = ui.choices_pending
        BY <1>1 DEF Automation
    <2>3. Update(w, off) \/ Update(w, on) BY <1>3 DEF SwitchMode
    <2>4. UNCHANGED <<thread, response_rx>> BY <1>3 DEF SwitchMode
    <2> HIDE DEF off, on
    <2> QED BY <2>1, <2>2, <2>3, <2>4, QuietFits
<1>4. ASSUME NEW p \in Panes, Debounce(w, p) PROVE LinesFit'
    <2> DEFINE new == [ui EXCEPT !.aged = @ \cup {p}]
    <2>1. new.scan_in_flight = ui.scan_in_flight
          /\ new.choices_pending = ui.choices_pending
        BY <1>1 DEF Automation
    <2>2. Update(w, new) /\ UNCHANGED <<thread, response_rx>> BY <1>4 DEF Debounce
    <2> HIDE DEF new
    <2> QED BY <1>2, <2>1, <2>2
<1>5. ASSUME NEW p \in NativePanes, Native(w, p) PROVE LinesFit'
    <2> DEFINE served == Served(w, p)
               gone == Cleared(served, p)
               covered == [served EXCEPT !.candidates[p] = NoPrompt, !.aged = @ \ {p}]
               seen == Candidate(ui, p, screen[p])
               handled == [served EXCEPT !.handled[p] = screen[p]]
    <2>1. \A new \in {served, gone, covered, seen, handled} :
            /\ new.scan_in_flight = ui.scan_in_flight
            /\ new.choices_pending = ui.choices_pending
        BY <1>1 DEF Served, Cleared, Candidate, Automation
    <2>2. UNCHANGED <<thread, response_rx>>
        BY <1>5 DEF Native, NativeGone, NativeCovered, NativeWaits, NativeAnswers
    <2>3. \E new \in {served, gone, covered, seen, handled} : Update(w, new)
        BY <1>5 DEF Native, NativeGone, NativeCovered, NativeWaits, NativeAnswers
    <2> HIDE DEF served, gone, covered, seen, handled
    <2> QED BY <1>2, <2>1, <2>2, <2>3
<1>6. ASSUME NEW server \in Servers, QueueScan(w, server) PROVE LinesFit'
    <2>1. /\ Queued(ui, server).scan_in_flight = ui.scan_in_flight
          /\ Queued(ui, server).choices_pending = ui.choices_pending
        BY <1>1 DEF Queued, Automation
    <2>2. Update(w, Queued(ui, server)) /\ UNCHANGED <<thread, response_rx>>
        BY <1>6 DEF QueueScan
    <2> QED BY <1>2, <2>1, <2>2
<1>7. CASE StartScan(w)
    <2> DEFINE server == Head(ui.scan_queue)
               new == [ui EXCEPT !.scan_in_flight = server, !.scan_queue = Tail(@)]
               job == [op |-> "Scan", server |-> server]
               queue == Append(thread[w].queue, job)
    <2>1. server \in Servers
        BY <1>1, <1>7, QueueEnds DEF StartScan, Automation
    <2>2. /\ new.scan_in_flight = server /\ new.choices_pending = ui.choices_pending
          /\ server # NoServer /\ job.op = "Scan" /\ job \in Jobs /\ job \in Entries
        BY <1>1, <2>1, NonePromptAssumption DEF Automation, Jobs, Entries
    <2>3. /\ Update(w, new) /\ ui.scan_in_flight = NoServer
          /\ thread' = [thread EXCEPT ![w].queue = queue]
          /\ UNCHANGED response_rx
        BY <1>7 DEF StartScan
    <2> HIDE DEF new, job, server, queue
    <2>4. /\ \A v \in Windows : v # w => Line(v)' = Line(v)
          /\ Line(w) \in Seq(Entries) /\ Line(w)' = Append(Line(w), job)
        BY <2>2, <2>3, JoinLine DEF queue
    <2> DEFINE line == Line(w)
               more == Append(line, job)
    <2>5. LineFits(line, ui) BY DEF LinesFit
    <2>6. \A i \in 1..Len(line) : line[i].op = "Choice"
        BY <2>3, <2>4, <2>5, EntryOps DEF LineFits
    <2>7. /\ Len(more) = Len(line) + 1 /\ more[Len(line) + 1] = job
           /\ Len(line) \in Nat
           /\ \A i \in 1..Len(line) : more[i] = line[i]
        BY <2>2, <2>4
    <2> HIDE DEF line, more
    <2>8. LineFits(more, new)
        BY <2>2, <2>5, <2>6, <2>7 DEF LineFits
    <2> QED BY <2>3, <2>4, <2>8, FitsUpdate DEF more, line
<1>8. CASE IgnoreScan(w)
    <2> DEFINE new == [ui EXCEPT !.scan_in_flight = NoServer]
    <2>1. Take(w, "Scan") /\ Update(w, new) /\ UNCHANGED thread
        BY <1>8 DEF IgnoreScan
    <2>2. new.choices_pending = ui.choices_pending BY <1>1 DEF Automation
    <2> HIDE DEF new
    <2>3. /\ \A v \in Windows : v # w => Line(v)' = Line(v)
          /\ Line(w) \in Seq(Entries) /\ Line(w) # <<>>
          /\ Line(w)' = Tail(Line(w)) /\ Head(Line(w)).op = "Scan"
        BY <2>1, TakeLine
    <2>4. Line(w)' = <<>> BY <2>3, FitsTail DEF LinesFit
    <2>5. \A p \in TmuxPanes : ui.choices_pending[p] = NoPrompt
        <3>1. Len(Line(w)) = 1 /\ Line(w)[1].op = "Scan"
            BY <2>3, <2>4, ShortSequences
        <3> QED BY <3>1 DEF LinesFit, LineFits
    <2>6. LineFits(Line(w)', new) BY <2>2, <2>4, <2>5 DEF LineFits
    <2> QED BY <2>1, <2>3, <2>6, FitsUpdate
<1>9. CASE ApplyScan(w) BY <1>9, ApplyScanFits
<1>10. CASE ApplyChoice(w)
    <2> DEFINE pane == Head(response_rx[w]).pane
               new  == [ui EXCEPT !.choices_pending[pane] = NoPrompt]
    <2>1. Take(w, "Choice") /\ Update(w, new) /\ UNCHANGED thread
        BY <1>10 DEF ApplyChoice
    <2>2. new.scan_in_flight = ui.scan_in_flight
          /\ \A p \in TmuxPanes : new.choices_pending[p] =
                IF p = pane THEN NoPrompt ELSE ui.choices_pending[p]
        BY <1>1 DEF Automation
    <2> HIDE DEF new
    <2>3. /\ \A v \in Windows : v # w => Line(v)' = Line(v)
          /\ Line(w) \in Seq(Entries) /\ Line(w) # <<>>
          /\ Line(w)' = Tail(Line(w)) /\ Head(Line(w)).op = "Choice"
          /\ Head(Line(w)).pane = pane
        BY <2>1, TakeLine
    <2>4. LineFits(Line(w)', new) BY <2>2, <2>3, FitsTail DEF LinesFit
    <2> QED BY <2>1, <2>3, <2>4, FitsUpdate
<1> QED
    BY <1>3, <1>4, <1>5, <1>6, <1>7, <1>8, <1>9, <1>10 DEF Window

\* Every step keeps the lines.
LEMMA FitsStep ==
    ASSUME TypeInv, LinesFit, [Next]_vars
    PROVE  LinesFit'
<1>1. CASE Next BY <1>1, CodexFits, WindowFits, WorkerFits DEF Next
<1>2. CASE UNCHANGED vars
    <2>1. \A w \in Windows : Line(w)' = Line(w) /\ automation'[w] = automation[w]
        BY <1>2 DEF vars, Line
    <2>2. \A w \in Windows : LineFits(Line(w)', automation'[w])
        BY <2>1 DEF LinesFit
    <2> QED BY <2>2 DEF LinesFit, LineFits
<1> QED BY <1>1, <1>2

\* Nothing is asked at first.
LEMMA FitsInit == Init => LinesFit
<1> SUFFICES ASSUME Init PROVE LinesFit
    OBVIOUS
<1>1. \A w \in Windows : Line(w) = <<>> BY DEF Init, Line, IdleThread
<1>2. \A w \in Windows, p \in TmuxPanes : automation[w].choices_pending[p] = NoPrompt
    BY DEF Init, Fresh, NothingSeen
<1> QED BY <1>1, <1>2 DEF LinesFit, LineFits

\* A result always belongs to the choice that waits for it, for any windows,
\* panes and servers, although switching off forgets choices the thread has
\* already received.
THEOREM ChoiceCorrect == Spec => []ChoiceMatchesResult
<1>1. LinesFit => ChoiceMatchesResult
    <2> SUFFICES ASSUME LinesFit, NEW w \in Windows, NEW p \in TmuxPanes,
                        automation[w].choices_pending[p] # NoPrompt
                 PROVE  \E i \in Outstanding(w, p) :
                            /\ Outstanding(w, p) = {i}
                            /\ Line(w)[i].prompt = automation[w].choices_pending[p]
        BY DEF ChoiceMatchesResult
    <2>1. LineFits(Line(w), automation[w]) BY DEF LinesFit
    <2>2. PICK i \in 1..Len(Line(w)) :
              /\ Line(w)[i].op = "Choice" /\ Line(w)[i].pane = p
              /\ Line(w)[i].prompt = automation[w].choices_pending[p]
        BY <2>1 DEF LineFits
    <2>3. \A k \in Outstanding(w, p) : k = i BY <2>1, <2>2 DEF LineFits, Outstanding
    <2> QED BY <2>2, <2>3 DEF Outstanding
<1> QED BY <1>1, TypeInit, TypeStep, FitsInit, FitsStep, PTL DEF Spec

-------------------------------------------------------------------------------
(* Digits *)

\* One window, one tmux server: with two of either, the scan of the one forgets
\* what the other has handled.
Alone ==
    /\ \A v, w \in Windows : v = w
    /\ \A s, t \in Servers : s = t

\* The thread has yet to act on a choice for the pane.
Waiting(w, p) ==
    \E i \in 1..Len(Line(w)) :
        /\ i > Len(response_rx[w])
        /\ Line(w)[i].op = "Choice" /\ Line(w)[i].pane = p

\* A scan found no prompt there, and the window has not been told or not looked.
SeenGone(w, p) ==
    \/ /\ thread[w].step = "Capture" /\ p \notin thread[w].todo
       /\ thread[w].found[p] = NoPrompt
    \/ \E i \in 1..Len(response_rx[w]) :
        /\ response_rx[w][i].op = "Scan" /\ ~response_rx[w][i].failed
        /\ response_rx[w][i].found[p] = NoPrompt

\* A pane that has its digit is handled; one whose choice has not been served is
\* handled and has none; one that was seen without a prompt has none.
Once ==
    /\ \A p \in Panes : /\ interactive[p] /\ digits[p] <= 1
                        /\ screen[p] = NoPrompt => digits[p] = 0
    /\ \A w \in Windows, p \in Panes :
            digits[p] # 0 => automation[w].handled[p] # NoPrompt
    /\ \A w \in Windows, p \in TmuxPanes :
            /\ Waiting(w, p) => digits[p] = 0 /\ automation[w].handled[p] # NoPrompt
            /\ SeenGone(w, p) => digits[p] = 0

\* While a scan is unanswered the thread has no choice to act on.
LEMMA SeenGoneAlone ==
    ASSUME TypeInv, LinesFit, NEW w \in Windows, NEW p \in TmuxPanes,
           NEW q \in TmuxPanes, SeenGone(w, p)
    PROVE  ~Waiting(w, q)
<1> SUFFICES ASSUME Waiting(w, q) PROVE FALSE
    OBVIOUS
<1> DEFINE r == response_rx[w]
           b == Busy(w)
           t == thread[w].queue
           line == Line(w)
<1>1. /\ r \in Seq(Entries) /\ b \in Seq(Entries) /\ t \in Seq(Entries)
      /\ line = r \o b \o t
    BY LineParts
<1>2. PICK i \in 1..Len(line) : i > Len(r) /\ line[i].op = "Choice"
    BY DEF Waiting
<1>3. LineFits(line, automation[w]) BY DEF LinesFit
<1>4. CASE /\ thread[w].step = "Capture"
    <2>1. b = <<thread[w].job>> /\ thread[w].job.op = "Scan"
        BY <1>4 DEF Busy, TypeInv, ThreadOK
    <2> HIDE DEF r, b, t, line
    <2>2. /\ Len(b) = 1 /\ b[1] = thread[w].job /\ Len(r) \in Nat /\ Len(t) \in Nat
        BY <1>1, <2>1, EmptyLen
    <2>3. Len(line) = Len(r) + 1 + Len(t)
        <3>1. Len(r \o b \o t) = Len(r) + Len(b) + Len(t) BY <1>1, LineAt
        <3> QED BY <1>1, <2>2, <3>1
    <2>4. Len(r) + 1 \in 1..Len(line) BY <2>2, <2>3
    <2>5. line[Len(r) + 1] = b[1]
        <3> DEFINE k == Len(r) + 1
        <3>1. line[k] = IF k <= Len(r) THEN r[k]
                        ELSE IF k <= Len(r) + Len(b) THEN b[k - Len(r)]
                        ELSE t[k - Len(r) - Len(b)]
            BY <1>1, <2>4, LineAt
        <3>2. ~(k <= Len(r)) /\ k <= Len(r) + Len(b) /\ k - Len(r) = 1
            BY <2>2
        <3> QED BY <3>1, <3>2
    <2>6. ~(Len(r) + 1 < Len(line)) BY <1>3, <2>1, <2>2, <2>4, <2>5 DEF LineFits
    <2>7. i = Len(r) + 1 BY <1>2, <2>2, <2>3, <2>4, <2>6
    <2> QED BY <1>2, <2>1, <2>2, <2>5, <2>7
<1>5. ASSUME NEW k \in 1..Len(r), r[k].op = "Scan" PROVE FALSE
    <2> HIDE DEF r, b, t, line
    <2>1. Len(r) \in Nat /\ Len(b) \in Nat /\ Len(t) \in Nat
          /\ Len(line) = Len(r) + Len(b) + Len(t)
        BY <1>1, EmptyLen, LineAt
    <2>2. k \in 1..Len(line) /\ k < Len(line) BY <1>2, <2>1
    <2>3. line[k] = r[k] BY <1>1, <2>2, LineAt
    <2> QED BY <1>3, <1>5, <2>2, <2>3 DEF LineFits
<1> QED BY <1>4, <1>5 DEF SeenGone

\* A step that gives no digit, forgets no prompt, and makes nothing wait or seem
\* gone.
LEMMA OnceKept ==
    ASSUME Once, UNCHANGED <<screen, digits, interactive>>,
           \A w \in Windows, p \in Panes :
                automation[w].handled[p] # NoPrompt => automation'[w].handled[p] # NoPrompt,
           \A w \in Windows, p \in TmuxPanes :
                /\ Waiting(w, p)' => Waiting(w, p)
                /\ SeenGone(w, p)' => SeenGone(w, p)
    PROVE  Once'
<1>1. \A p \in TmuxPanes : p \in Panes BY DEF Panes
<1>2. \A w \in Windows, p \in TmuxPanes :
        /\ Waiting(w, p)' => digits'[p] = 0 /\ automation'[w].handled[p] # NoPrompt
        /\ SeenGone(w, p)' => digits'[p] = 0
    BY <1>1 DEF Once
<1>3. \A p \in Panes : /\ interactive'[p] /\ digits'[p] <= 1
                       /\ screen'[p] = NoPrompt => digits'[p] = 0
    BY DEF Once
<1>4. \A w \in Windows, p \in Panes :
        digits'[p] # 0 => automation'[w].handled[p] # NoPrompt
    BY DEF Once
<1> QED BY <1>2, <1>3, <1>4 DEF Once, Waiting, SeenGone

\* Steps of Codex.
LEMMA CodexOnce ==
    ASSUME TypeInv, Once, SteadyPanes, NEW p \in Panes, Codex(p)
    PROVE  Once'
<1>1. UNCHANGED <<thread, response_rx, interactive>>
    BY DEF Codex, ShowPrompt, WithdrawPrompt, Redraw, Flicker, Others, codexVars
<1>2. OutputSeen(p)
    BY DEF Codex, ShowPrompt, WithdrawPrompt, Redraw, Flicker
<1>3. \A w \in Windows : automation'[w].handled = automation[w].handled
    BY <1>2, OutputType DEF TypeInv, PromptTypeOK
<1>4. \/ UNCHANGED <<screen, digits>>
      \/ \E new : /\ screen' = [screen EXCEPT ![p] = new]
                  /\ digits' = [digits EXCEPT ![p] = 0]
    <2>1. ASSUME NEW prompt \in Prompts, ShowPrompt(p, prompt)
          PROVE  \E new : /\ screen' = [screen EXCEPT ![p] = new]
                         /\ digits' = [digits EXCEPT ![p] = 0]
        BY <2>1 DEF ShowPrompt
    <2>2. WithdrawPrompt(p) => \E new : /\ screen' = [screen EXCEPT ![p] = new]
                                       /\ digits' = [digits EXCEPT ![p] = 0]
        BY DEF WithdrawPrompt
    <2>3. Redraw(p) \/ Flicker(p) => UNCHANGED <<screen, digits>>
        BY DEF Redraw, Flicker, codexVars
    <2> QED BY <2>1, <2>2, <2>3 DEF Codex
<1>5. /\ \A q \in Panes : digits'[q] \in {0, digits[q]}
      /\ \A q \in Panes : screen'[q] = NoPrompt => digits'[q] = 0
    BY <1>4 DEF Once, TypeInv, PromptTypeOK
<1>6. \A w \in Windows, q \in TmuxPanes : /\ Waiting(w, q)' = Waiting(w, q)
                                          /\ SeenGone(w, q)' = SeenGone(w, q)
    BY <1>1 DEF Waiting, SeenGone, Line
<1>7. \A w \in Windows, q \in TmuxPanes :
        /\ Waiting(w, q)' => digits'[q] = 0 /\ automation'[w].handled[q] # NoPrompt
        /\ SeenGone(w, q)' => digits'[q] = 0
    <2>1. TmuxPanes \subseteq Panes BY DEF Panes
    <2> QED BY <1>3, <1>5, <1>6, <2>1 DEF Once
<1>8. \A q \in Panes : /\ interactive'[q] /\ digits'[q] <= 1
                       /\ screen'[q] = NoPrompt => digits'[q] = 0
    BY <1>1, <1>5 DEF Once
<1>9. \A w \in Windows, q \in Panes :
        digits'[q] # 0 => automation'[w].handled[q] # NoPrompt
    BY <1>3, <1>5 DEF Once
<1> QED BY <1>7, <1>8, <1>9 DEF Once, Waiting, SeenGone

\* A pane of the digits is given one at most once.
LEMMA DigitGiven ==
    ASSUME TypeInv, Once, NEW p \in Panes, digits[p] = 0, Deliver(p)
    PROVE  /\ \A q \in Panes : q # p => digits'[q] = digits[q]
           /\ digits'[p] <= 1 /\ (screen[p] = NoPrompt => digits'[p] = 0)
BY DEF Deliver, TypeInv, PromptTypeOK

\* A response that is taken takes no choice from the thread and shows it none.
LEMMA TakeWaits ==
    ASSUME TypeInv, NEW w \in Windows, NEW op, Take(w, op), UNCHANGED thread
    PROVE  \A v \in Windows, p \in TmuxPanes :
                /\ Waiting(v, p)' => Waiting(v, p)
                /\ SeenGone(v, p)' => SeenGone(v, p)
<1> DEFINE r == response_rx[w]
           line == Line(w)
<1>1. /\ \A v \in Windows : v # w => Line(v)' = Line(v)
      /\ line \in Seq(Entries) /\ line # <<>> /\ Line(w)' = Tail(line)
    BY TakeLine
<1>2. /\ r \in Seq(PromptResponses) /\ r # <<>>
      /\ response_rx' = [response_rx EXCEPT ![w] = Tail(r)]
      /\ DOMAIN response_rx = Windows
    BY DEF Take, TypeInv, PromptTypeOK
<1>3. \A v \in Windows, p \in TmuxPanes : v # w =>
            /\ Waiting(v, p)' = Waiting(v, p)
            /\ SeenGone(v, p)' = SeenGone(v, p)
    BY <1>1, <1>2 DEF Waiting, SeenGone
<1>4. /\ Len(line) \in Nat /\ Len(Line(w)') = Len(line) - 1
      /\ \A i \in 1..Len(Line(w)') : Line(w)'[i] = line[i + 1]
    BY <1>1, HeadTailProperties, EmptyLen
<1>5. /\ Len(r) \in Nat /\ Len(response_rx'[w]) = Len(r) - 1
      /\ \A i \in 1..Len(response_rx'[w]) : response_rx'[w][i] = r[i + 1]
    BY <1>2, HeadTailProperties, EmptyLen
<1> HIDE DEF r, line
<1>6. ASSUME NEW p \in TmuxPanes, Waiting(w, p)' PROVE Waiting(w, p)
    <2>1. PICK i \in 1..Len(Line(w)') :
              /\ i > Len(response_rx'[w])
              /\ Line(w)'[i].op = "Choice" /\ Line(w)'[i].pane = p
        BY <1>6 DEF Waiting
    <2>2. /\ i + 1 \in 1..Len(line) /\ i + 1 > Len(r)
          /\ line[i + 1].op = "Choice" /\ line[i + 1].pane = p
        BY <1>4, <1>5, <2>1
    <2> QED BY <2>2 DEF Waiting, line, r
<1>7. ASSUME NEW p \in TmuxPanes, SeenGone(w, p)' PROVE SeenGone(w, p)
    <2>1. CASE /\ thread'[w].step = "Capture" /\ p \notin thread'[w].todo
               /\ thread'[w].found[p] = NoPrompt
        BY <2>1 DEF SeenGone
    <2>2. ASSUME NEW i \in 1..Len(response_rx'[w]),
                 response_rx'[w][i].op = "Scan", ~response_rx'[w][i].failed,
                 response_rx'[w][i].found[p] = NoPrompt
          PROVE  SeenGone(w, p)
        <3>1. i + 1 \in 1..Len(r) /\ response_rx'[w][i] = r[i + 1] BY <1>5
        <3> QED BY <2>2, <3>1 DEF SeenGone, r
    <2> QED BY <1>7, <2>1, <2>2 DEF SeenGone
<1> QED BY <1>3, <1>6, <1>7

\* A native prompt gets its digit when it is handled, and is forgotten only when
\* it is gone.
LEMMA NativeOnce ==
    ASSUME TypeInv, Once, Alone, NEW w \in Windows, NEW p \in NativePanes,
           Native(w, p)
    PROVE  Once'
<1> DEFINE ui == automation[w]
<1>1. /\ ui \in Automation /\ p \in Panes /\ p \notin TmuxPanes
      /\ TmuxPanes \subseteq Panes /\ HomeWindow[p] = w
    BY PaneAssumption DEF TypeInv, PromptTypeOK, Panes, Alone
<1>2. \A v \in Windows : v = w BY DEF Alone
<1>3. UNCHANGED <<screen, interactive, thread, response_rx>>
    BY DEF Native, NativeGone, NativeCovered, NativeWaits, NativeAnswers, codexVars
<1>4. \A v \in Windows, q \in TmuxPanes : /\ Waiting(v, q)' = Waiting(v, q)
                                          /\ SeenGone(v, q)' = SeenGone(v, q)
    BY <1>3 DEF Waiting, SeenGone, Line
<1>5. ASSUME \A q \in Panes : q # p =>
                /\ digits'[q] = digits[q]
                /\ automation'[w].handled[q] = ui.handled[q],
             digits'[p] <= 1, screen[p] = NoPrompt => digits'[p] = 0,
             digits'[p] # 0 => automation'[w].handled[p] # NoPrompt
      PROVE  Once'
    <2>1. \A q \in Panes : /\ interactive'[q] /\ digits'[q] <= 1
                           /\ screen'[q] = NoPrompt => digits'[q] = 0
        BY <1>3, <1>5 DEF Once
    <2>2. \A v \in Windows, q \in Panes :
            digits'[q] # 0 => automation'[v].handled[q] # NoPrompt
        BY <1>2, <1>5 DEF Once
    <2>3. \A v \in Windows, q \in TmuxPanes :
            /\ Waiting(v, q)' => digits'[q] = 0 /\ automation'[v].handled[q] # NoPrompt
            /\ SeenGone(v, q)' => digits'[q] = 0
        BY <1>1, <1>2, <1>4, <1>5 DEF Once
    <2> QED BY <2>1, <2>2, <2>3 DEF Once, Waiting, SeenGone
<1>6. CASE NativeGone(w, p)
    <2>1. screen[p] = NoPrompt /\ UNCHANGED digits
        BY <1>1, <1>6 DEF NativeGone, Once, codexVars
    <2>2. automation'[w].handled = [ui.handled EXCEPT ![p] = NoPrompt]
        BY <1>1, <1>6 DEF NativeGone, Cleared, Served, Update, TypeInv,
           PromptTypeOK, Automation
    <2> QED BY <1>1, <1>5, <2>1, <2>2 DEF Once, Automation
<1>7. CASE NativeCovered(w, p) \/ NativeWaits(w, p)
    <2>1. UNCHANGED digits BY <1>7 DEF NativeCovered, NativeWaits, codexVars
    <2>2. automation'[w].handled = ui.handled
        <3> DEFINE served == Served(w, p)
                   covered == [served EXCEPT !.candidates[p] = NoPrompt,
                                             !.aged = @ \ {p}]
                   seen == Candidate(ui, p, screen[p])
        <3>1. \A new \in {served, covered, seen} : new.handled = ui.handled
            BY <1>1 DEF Served, Candidate, Automation
        <3>2. \E new \in {served, covered, seen} : Update(w, new)
            BY <1>7 DEF NativeCovered, NativeWaits
        <3> HIDE DEF served, covered, seen
        <3> QED BY <3>1, <3>2 DEF Update, TypeInv, PromptTypeOK
    <2> QED BY <1>1, <1>5, <2>1, <2>2 DEF Once
<1>8. CASE NativeAnswers(w, p)
    <2>1. ui.handled[p] = NoPrompt /\ screen[p] # NoPrompt
          /\ (Deliver(p) \/ UNCHANGED digits)
        BY <1>8 DEF NativeAnswers, NativeSeen
    <2>2. digits[p] = 0 BY <1>1, <2>1 DEF Once
    <2>3. automation'[w].handled = [ui.handled EXCEPT ![p] = screen[p]]
        BY <1>1, <1>8 DEF NativeAnswers, Served, Update, TypeInv, PromptTypeOK,
           Automation
    <2>4. /\ \A q \in Panes : q # p => digits'[q] = digits[q]
          /\ digits'[p] <= 1 /\ (screen[p] = NoPrompt => digits'[p] = 0)
        BY <1>1, <2>1, <2>2, DigitGiven
    <2> QED BY <1>1, <1>5, <2>1, <2>3, <2>4 DEF Automation
<1> QED BY <1>6, <1>7, <1>8 DEF Native

\* A scan forgets only the prompts that are gone, and its choices are for panes
\* that nothing was handled for.
LEMMA ApplyScanOnce ==
    ASSUME TypeInv, LinesFit, Once, Alone, NEW w \in Windows, ApplyScan(w)
    PROVE  Once'
<1> DEFINE ui    == automation[w]
           r     == response_rx[w]
           scan  == Head(r)
           gone  == {p \in TmuxPanes : scan.found[p] = NoPrompt}
           fresh == {p \in TmuxPanes \ gone : ui.handled[p] = NoPrompt}
           ready == {p \in fresh : Stable(ui, p, scan.found[p])}
           won   == ready \ reserved
           sends == IF ui.mode = "Active" THEN won ELSE {}
           handled == [p \in Panes |-> IF p \in gone THEN NoPrompt
                                       ELSE IF p \in ready THEN scan.found[p]
                                       ELSE ui.handled[p]]
<1>1. \A v \in Windows : v = w BY DEF Alone
<1>2. Take(w, "Scan") /\ ~scan.failed /\ UNCHANGED <<screen, digits, interactive>>
    BY DEF ApplyScan, Usable, Take, codexVars
<1>3. ui \in Automation BY DEF TypeInv, PromptTypeOK
<1>4. automation'[w].handled = handled
    BY <1>3 DEF ApplyScan, Update, Queued, TypeInv, PromptTypeOK, Automation
<1>5. r \in Seq(PromptResponses) /\ r # <<>> /\ scan = r[1] /\ scan.op = "Scan"
      /\ 1 \in 1..Len(r)
    <2>1. r \in Seq(PromptResponses) /\ r # <<>> /\ scan.op = "Scan"
        BY <1>2 DEF Take, TypeInv, PromptTypeOK
    <2>2. Len(r) \in Nat /\ Len(r) # 0 BY <2>1, EmptyLen
    <2> QED BY <2>1, <2>2
<1>6. \A p \in gone : digits[p] = 0
    <2> SUFFICES ASSUME NEW p \in gone PROVE digits[p] = 0
        OBVIOUS
    <2>1. SeenGone(w, p) BY <1>2, <1>5 DEF SeenGone
    <2> QED BY <2>1 DEF Once
<1>7. \A p \in Panes : digits'[p] # 0 => automation'[w].handled[p] # NoPrompt
    <2> HIDE DEF ready, scan
    <2>1. \A p \in ready : p \notin gone /\ scan.found[p] # NoPrompt
        BY DEF ready
    <2> QED BY <1>2, <1>4, <1>6, <2>1 DEF Once
<1>8. thread' = [thread EXCEPT ![w].queue = @ \o
            [i \in 1..Cardinality(sends) |->
                [op |-> "Choice", pane |-> SetToSeq(sends)[i],
                 prompt |-> scan.found[SetToSeq(sends)[i]]]]]
    BY DEF ApplyScan
<1>9. thread'[w].step = "Idle" /\ response_rx'[w] = <<>>
      /\ \A i \in 1..Len(Line(w)') : Line(w)'[i].pane \in sends
    <2>1. scan.found \in Captures BY <1>2, TakeType DEF PromptResponses
    <2>2. sends \in SUBSET TmuxPanes /\ (\A p \in sends : scan.found[p] # NoPrompt)
          /\ IsFiniteSet(sends)
        BY PaneAssumption, FS_Subset
    <2> HIDE DEF sends, scan
    <2> DEFINE choices == [i \in 1..Cardinality(sends) |->
                              [op |-> "Choice", pane |-> SetToSeq(sends)[i],
                               prompt |-> scan.found[SetToSeq(sends)[i]]]]
    <2>3. choices \in Seq(Jobs) BY <2>1, <2>2, ChoicesType
    <2>4. Cardinality(sends) \in Nat
          /\ SetToSeq(sends) \in [1..Cardinality(sends) -> sends]
        BY <2>2, SetToSeqType
    <2>5. \A i \in 1..Len(choices) : choices[i].pane \in sends BY <2>4
    <2> HIDE DEF choices
    <2>6. Line(w)' = choices /\ thread'[w].step = "Idle"
        BY <1>2, <1>8, <2>3, ChoicesLine DEF choices
    <2>7. response_rx'[w] = <<>> BY <1>2, TakeScanLine
    <2> QED BY <2>5, <2>6, <2>7
<1>10. \A p \in TmuxPanes : ~SeenGone(w, p)'
    BY <1>9 DEF SeenGone
<1>11. \A p \in TmuxPanes : Waiting(w, p)' => p \in sends
    BY <1>9 DEF Waiting
<1>12. \A p \in sends : digits'[p] = 0 /\ automation'[w].handled[p] # NoPrompt
    <2>1. \A p \in sends : /\ p \in Panes /\ p \in ready /\ p \notin gone
                           /\ ui.handled[p] = NoPrompt /\ scan.found[p] # NoPrompt
        BY DEF Panes
    <2> HIDE DEF sends, ready, gone, scan
    <2> QED BY <1>2, <1>4, <2>1 DEF Once
<1>13. \A p \in Panes : /\ interactive'[p] /\ digits'[p] <= 1
                        /\ screen'[p] = NoPrompt => digits'[p] = 0
    BY <1>2 DEF Once
<1> HIDE DEF sends
<1>14. \A v \in Windows, p \in TmuxPanes :
            /\ Waiting(v, p)' => digits'[p] = 0 /\ automation'[v].handled[p] # NoPrompt
            /\ SeenGone(v, p)' => digits'[p] = 0
    BY <1>1, <1>10, <1>11, <1>12
<1>15. \A v \in Windows, p \in Panes :
            digits'[p] # 0 => automation'[v].handled[p] # NoPrompt
    BY <1>1, <1>7
<1> QED BY <1>13, <1>14, <1>15 DEF Once, Waiting, SeenGone

\* The steps of the window, which is never switched off.
LEMMA WindowOnce ==
    ASSUME TypeInv, LinesFit, Once, Alone, ~SwitchesOff,
           NEW w \in Windows, Window(w)
    PROVE  Once'
<1> DEFINE ui == automation[w]
<1>1. ui \in Automation /\ automation \in [Windows -> Automation]
    BY DEF TypeInv, PromptTypeOK
<1>2. ASSUME NEW new, Update(w, new), new.handled = ui.handled
      PROVE  \A v \in Windows, p \in Panes :
                automation[v].handled[p] # NoPrompt => automation'[v].handled[p] # NoPrompt
    BY <1>1, <1>2 DEF Update
<1>3. ASSUME NEW new, Update(w, new), new.handled = ui.handled,
             UNCHANGED <<screen, digits, interactive, thread, response_rx>>
      PROVE  Once'
    <2>1. \A v \in Windows, p \in TmuxPanes : /\ Waiting(v, p)' => Waiting(v, p)
                                              /\ SeenGone(v, p)' => SeenGone(v, p)
        BY <1>3 DEF Waiting, SeenGone, Line
    <2> QED BY <1>2, <1>3, <2>1, OnceKept
<1>4. ASSUME NEW mode \in Modes, SwitchMode(w, mode) PROVE Once'
    <2> DEFINE on == [ui EXCEPT !.mode = mode]
    <2>1. Update(w, on) /\ UNCHANGED <<codexVars, thread, response_rx>>
        BY <1>4 DEF SwitchMode
    <2>2. on.handled = ui.handled BY <1>1 DEF Automation
    <2> HIDE DEF on
    <2> QED BY <1>3, <2>1, <2>2 DEF codexVars
<1>5. ASSUME NEW p \in Panes, Debounce(w, p) PROVE Once'
    <2> DEFINE new == [ui EXCEPT !.aged = @ \cup {p}]
    <2>1. Update(w, new) /\ UNCHANGED <<codexVars, thread, response_rx>>
        BY <1>5 DEF Debounce
    <2>2. new.handled = ui.handled BY <1>1 DEF Automation
    <2> HIDE DEF new
    <2> QED BY <1>3, <2>1, <2>2 DEF codexVars
<1>6. ASSUME NEW p \in NativePanes, Native(w, p) PROVE Once'
    BY <1>6, NativeOnce
<1>7. ASSUME NEW server \in Servers, QueueScan(w, server) PROVE Once'
    <2>1. Queued(ui, server).handled = ui.handled BY <1>1 DEF Queued, Automation
    <2>2. Update(w, Queued(ui, server)) /\ UNCHANGED <<codexVars, thread, response_rx>>
        BY <1>7 DEF QueueScan
    <2> QED BY <1>3, <2>1, <2>2 DEF codexVars
<1>8. CASE StartScan(w)
    <2> DEFINE new == [ui EXCEPT !.scan_in_flight = Head(ui.scan_queue),
                                 !.scan_queue = Tail(@)]
    <2>1. Update(w, new) /\ UNCHANGED <<codexVars, response_rx>>
        BY <1>8 DEF StartScan
    <2>2. new.handled = ui.handled BY <1>1 DEF Automation
    <2> HIDE DEF new
    <2>3. \A v \in Windows, p \in TmuxPanes : /\ Waiting(v, p)' => Waiting(v, p)
                                              /\ SeenGone(v, p)' => SeenGone(v, p)
        <3> DEFINE job == [op |-> "Scan", server |-> Head(ui.scan_queue)]
                   queue == Append(thread[w].queue, job)
        <3>1. job \in Jobs /\ job.op = "Scan" /\ job \in Entries
            BY <1>1, <1>8, QueueEnds DEF StartScan, Automation, Jobs, Entries
        <3>2. /\ thread' = [thread EXCEPT ![w].queue = queue]
              /\ UNCHANGED response_rx
            BY <1>8 DEF StartScan
        <3> HIDE DEF job, queue
        <3>3. /\ \A v \in Windows : v # w => Line(v)' = Line(v)
              /\ Line(w) \in Seq(Entries) /\ Line(w)' = Append(Line(w), job)
              /\ \A v \in Windows : /\ thread'[v].step = thread[v].step
                                   /\ thread'[v].todo = thread[v].todo
                                   /\ thread'[v].found = thread[v].found
            BY <3>1, <3>2, JoinLine DEF queue
        <3>4. \A v \in Windows, p \in TmuxPanes : SeenGone(v, p)' => SeenGone(v, p)
            BY <3>2, <3>3 DEF SeenGone
        <3> DEFINE line == Line(w)
                   more == Append(line, job)
        <3>5. /\ Len(more) = Len(line) + 1 /\ more[Len(line) + 1] = job
              /\ Len(line) \in Nat
              /\ \A i \in 1..Len(line) : more[i] = line[i]
            BY <3>1, <3>3, AppendProperties, EmptyLen
        <3> HIDE DEF line, more
        <3>6. \A i \in 1..Len(more) : more[i].op = "Choice" =>
                i \in 1..Len(line) /\ more[i] = line[i]
            BY <3>1, <3>5
        <3>7. \A p \in TmuxPanes : Waiting(w, p)' => Waiting(w, p)
            BY <3>2, <3>3, <3>6 DEF Waiting, line, more
        <3>8. \A v \in Windows, p \in TmuxPanes : v # w => (Waiting(v, p)' => Waiting(v, p))
            BY <3>2, <3>3 DEF Waiting
        <3> QED BY <3>4, <3>7, <3>8
    <2> QED BY <1>2, <2>1, <2>2, <2>3, OnceKept DEF codexVars
<1>9. CASE IgnoreScan(w)
    <2> DEFINE new == [ui EXCEPT !.scan_in_flight = NoServer]
    <2>1. Take(w, "Scan") /\ Update(w, new) /\ UNCHANGED <<codexVars, thread>>
        BY <1>9 DEF IgnoreScan, Take
    <2>2. new.handled = ui.handled BY <1>1 DEF Automation
    <2> HIDE DEF new
    <2> QED BY <1>2, <2>1, <2>2, TakeWaits, OnceKept DEF codexVars
<1>10. CASE ApplyScan(w) BY <1>10, ApplyScanOnce
<1>11. CASE ApplyChoice(w)
    <2> DEFINE new  == [ui EXCEPT !.choices_pending[Head(response_rx[w]).pane] = NoPrompt]
    <2>1. Take(w, "Choice") /\ Update(w, new) /\ UNCHANGED <<codexVars, thread>>
        BY <1>11 DEF ApplyChoice, Take
    <2>2. new.handled = ui.handled BY <1>1 DEF Automation
    <2> HIDE DEF new
    <2> QED BY <1>2, <2>1, <2>2, TakeWaits, OnceKept DEF codexVars
<1> QED
    BY <1>4, <1>5, <1>6, <1>7, <1>8, <1>9, <1>10, <1>11 DEF Window

\* The steps of the thread.
LEMMA WorkerOnce ==
    ASSUME TypeInv, LinesFit, Once, Alone, SteadyPanes, NEW w \in Windows, Worker(w)
    PROVE  Once'
<1> DEFINE r == response_rx[w]
           job == IF thread[w].step = "Idle" THEN Job(w) ELSE thread[w].job
<1>1. OnlyThread
    BY DEF Worker, ListPanes, ScanFails, CapturePane, ScanDone, InspectPane,
       ChoiceRefused, RevalidatePrompt, ChoiceAbandoned, SendKeys
<1>2. \A v \in Windows : v = w BY DEF Alone
<1>3. thread \in [Windows -> Threads] /\ response_rx \in [Windows -> Seq(PromptResponses)]
      /\ r \in Seq(PromptResponses) /\ Len(r) \in Nat
    BY EmptyLen DEF TypeInv, ThreadOK, PromptTypeOK
<1>4. ASSUME UNCHANGED digits,
             \A p \in TmuxPanes : /\ Waiting(w, p)' => Waiting(w, p)
                                  /\ SeenGone(w, p)' => digits[p] = 0
      PROVE  Once'
    <2>1. \A p \in Panes : /\ interactive'[p] /\ digits'[p] <= 1
                           /\ screen'[p] = NoPrompt => digits'[p] = 0
        BY <1>1, <1>4 DEF Once, OnlyThread
    <2>2. \A v \in Windows, p \in Panes :
            digits'[p] # 0 => automation'[v].handled[p] # NoPrompt
        BY <1>1, <1>4 DEF Once, OnlyThread
    <2>3. \A v \in Windows, p \in TmuxPanes :
            /\ Waiting(v, p)' => digits'[p] = 0 /\ automation'[v].handled[p] # NoPrompt
            /\ SeenGone(v, p)' => digits'[p] = 0
        BY <1>1, <1>2, <1>4 DEF Once, OnlyThread
    <2> QED BY <2>1, <2>2, <2>3 DEF Once, Waiting, SeenGone
<1>5. ASSUME NEW step \in ThreadSteps \ {"Idle"}, NEW todo, NEW found,
             Idle(w) \/ thread[w].step # "Idle", Proceed(w, step, job, todo, found),
             UNCHANGED digits,
             \A p \in TmuxPanes :
                step = "Capture" /\ p \notin todo /\ found[p] = NoPrompt
                    => digits[p] = 0
      PROVE  Once'
    <2>1. Line(w)' = Line(w) BY <1>5, ProceedLine
    <2>2. /\ response_rx' = response_rx /\ thread'[w].step = step
          /\ thread'[w].todo = todo /\ thread'[w].found = found
        BY <1>3, <1>5 DEF Proceed
    <2>3. \A p \in TmuxPanes : Waiting(w, p)' => Waiting(w, p)
        BY <2>1, <2>2 DEF Waiting
    <2>4. \A p \in TmuxPanes : SeenGone(w, p)' => digits[p] = 0
        BY <1>5, <2>2 DEF SeenGone, Once
    <2> QED BY <1>4, <1>5, <2>3, <2>4
<1>6. ASSUME NEW response \in PromptResponses, Respond(w, response),
             Idle(w) \/ thread[w].step # "Idle"
      PROVE  /\ \A p \in TmuxPanes : Waiting(w, p)' =>
                    /\ Waiting(w, p)
                    /\ job.op = "Choice" => job.pane # p
             /\ \A p \in TmuxPanes : SeenGone(w, p)' =>
                    \/ SeenGone(w, p)
                    \/ /\ response.op = "Scan" /\ ~response.failed
                       /\ response.found[p] = NoPrompt
             /\ \A p \in TmuxPanes :
                    job.op = "Choice" /\ job.pane = p => Waiting(w, p)
    <2> DEFINE k == Len(r) + 1
    <2>1. /\ Len(Line(w)') = Len(Line(w))
          /\ k \in 1..Len(Line(w))
          /\ \A i \in 1..Len(Line(w)) :
                Line(w)'[i] = IF i = k THEN response ELSE Line(w)[i]
          /\ Line(w)[k] = job
        BY <1>6, RespondLine
    <2>2. response_rx'[w] = Append(r, response) /\ thread'[w].step = "Idle"
        BY <1>3, <1>6 DEF Respond, IdleThread
    <2>3. Len(response_rx'[w]) = k /\ response_rx'[w][k] = response
          /\ \A i \in 1..Len(r) : response_rx'[w][i] = r[i]
        BY <1>3, <1>6, <2>2, AppendProperties
    <2> HIDE DEF k, job
    <2>4. LineFits(Line(w), automation[w]) BY DEF LinesFit
    <2>5. ASSUME NEW p \in TmuxPanes, Waiting(w, p)'
          PROVE  Waiting(w, p) /\ (job.op = "Choice" => job.pane # p)
        <3>1. PICK i \in 1..Len(Line(w)') : /\ i > k /\ Line(w)'[i].op = "Choice"
                                            /\ Line(w)'[i].pane = p
            BY <2>3, <2>5 DEF Waiting
        <3>2. i \in 1..Len(Line(w)) /\ i # k /\ i > Len(r) /\ Line(w)'[i] = Line(w)[i]
            BY <1>3, <2>1, <3>1 DEF k
        <3>3. Line(w)[i].op = "Choice" /\ Line(w)[i].pane = p BY <3>1, <3>2
        <3>4. Waiting(w, p) BY <3>2, <3>3 DEF Waiting
        <3> QED BY <2>1, <2>4, <3>2, <3>3, <3>4 DEF LineFits
    <2>6. ASSUME NEW p \in TmuxPanes, SeenGone(w, p)'
          PROVE  \/ SeenGone(w, p)
                 \/ /\ response.op = "Scan" /\ ~response.failed
                    /\ response.found[p] = NoPrompt
        <3>1. PICK i \in 1..Len(response_rx'[w]) :
                 /\ response_rx'[w][i].op = "Scan" /\ ~response_rx'[w][i].failed
                 /\ response_rx'[w][i].found[p] = NoPrompt
            BY <2>2, <2>6 DEF SeenGone
        <3>2. CASE i = k BY <2>3, <3>1, <3>2
        <3>3. CASE i # k
            <4>1. i \in 1..Len(r) BY <1>3, <2>3, <3>1, <3>3 DEF k
            <4> QED BY <2>3, <3>1, <4>1 DEF SeenGone
        <3> QED BY <3>2, <3>3
    <2>7. ASSUME NEW p \in TmuxPanes, job.op = "Choice", job.pane = p
          PROVE  Waiting(w, p)
        BY <1>3, <2>1, <2>7 DEF Waiting, k
    <2> QED BY <2>5, <2>6, <2>7
<1>7. NothingSeen \in Captures /\ {"Capture", "Classify", "SendKeys"} \subseteq ThreadSteps \ {"Idle"}
    BY DEF NothingSeen, Captures, MaybePrompt, ThreadSteps
<1>8. CASE ListPanes(w)
    <2> DEFINE todo == {p \in TmuxPanes : ServerOf[p] = Job(w).server /\ interactive[p]}
    <2>1. Job(w) \in Jobs /\ Job(w).op = "Scan" /\ Idle(w) /\ thread[w].step = "Idle"
        BY <1>8, ThreadFields DEF ListPanes, TypeInv, Idle
    <2>2. Job(w).server \in Servers BY <2>1 DEF Jobs
    <2>3. \A p \in TmuxPanes : p \in todo
        BY <2>2, PaneAssumption DEF Alone, Once, Panes
    <2>4. Proceed(w, "Capture", job, todo, NothingSeen) /\ UNCHANGED digits
        BY <1>8, <2>1 DEF ListPanes
    <2> HIDE DEF todo, job
    <2> QED BY <1>5, <1>7, <2>1, <2>3, <2>4
<1>9. ASSUME NEW p \in TmuxPanes, CapturePane(w, p) PROVE Once'
    <2>1. thread[w].step = "Capture" /\ thread[w].found \in Captures
          /\ UNCHANGED digits
        BY <1>9, ThreadFields DEF CapturePane, TypeInv
    <2> DEFINE todo == thread[w].todo \ {p}
               found == [thread[w].found EXCEPT ![p] = screen[p]]
    <2>2. Proceed(w, "Capture", job, todo, found)
        BY <1>9, <2>1 DEF CapturePane
    <2>3. \A q \in TmuxPanes : q \notin todo /\ found[q] = NoPrompt => digits[q] = 0
        <3> SUFFICES ASSUME NEW q \in TmuxPanes, q \notin todo, found[q] = NoPrompt
                     PROVE  digits[q] = 0
            OBVIOUS
        <3>1. CASE q = p
            <4>1. screen[p] = NoPrompt BY <2>1, <3>1 DEF Captures
            <4> QED BY <3>1, <4>1 DEF Once, Panes
        <3>2. CASE q # p
            <4>1. q \notin thread[w].todo /\ thread[w].found[q] = NoPrompt
                BY <2>1, <3>2 DEF Captures
            <4> QED BY <2>1, <4>1 DEF Once, SeenGone
        <3> QED BY <3>1, <3>2
    <2> HIDE DEF todo, found, job
    <2> QED BY <1>5, <1>7, <2>1, <2>2, <2>3
<1>10. CASE InspectPane(w) \/ RevalidatePrompt(w)
    BY <1>5, <1>7, <1>10 DEF InspectPane, RevalidatePrompt, Idle
<1>11. CASE ScanFails(w)
    <2> DEFINE failure == [op |-> "Scan", found |-> NothingSeen, failed |-> TRUE]
    <2>1. failure \in PromptResponses BY <1>7 DEF PromptResponses
    <2>2. Respond(w, failure) /\ Idle(w) /\ UNCHANGED digits BY <1>11 DEF ScanFails
    <2>3. failure.failed OBVIOUS
    <2> HIDE DEF failure
    <2> QED BY <1>4, <1>6, <2>1, <2>2, <2>3 DEF Once
<1>12. CASE ScanDone(w)
    <2> DEFINE result == [op |-> "Scan", found |-> thread[w].found, failed |-> FALSE]
    <2>1. result \in PromptResponses
        BY ThreadFields DEF PromptResponses, TypeInv
    <2>2. Respond(w, result) /\ thread[w].step = "Capture" /\ thread[w].todo = {}
          /\ UNCHANGED digits
        BY <1>12 DEF ScanDone
    <2>3. \A p \in TmuxPanes : result.found[p] = NoPrompt => SeenGone(w, p)
        BY <2>2 DEF SeenGone
    <2> HIDE DEF result
    <2> QED BY <1>4, <1>6, <2>1, <2>2, <2>3 DEF Once
<1>13. CASE ChoiceRefused(w) \/ ChoiceAbandoned(w)
    <2>1. job \in Jobs /\ job.op = "Choice" /\ (Idle(w) \/ thread[w].step # "Idle")
        BY <1>13, ThreadFields DEF ChoiceRefused, ChoiceAbandoned, TypeInv, ThreadOK, Idle
    <2>2. Respond(w, ChoiceReply(job, FALSE)) /\ UNCHANGED digits
        BY <1>13 DEF ChoiceRefused, ChoiceAbandoned, Idle
    <2> HIDE DEF job
    <2>3. ChoiceReply(job, FALSE) \in PromptResponses
          /\ ChoiceReply(job, FALSE).op = "Choice"
        BY <2>1, ChoiceReplyType DEF ChoiceReply
    <2> QED BY <1>4, <1>6, <2>1, <2>2, <2>3 DEF Once
<1>14. CASE SendKeys(w)
    <2> DEFINE pane == job.pane
    <2>1. job \in Jobs /\ job.op = "Choice" /\ thread[w].step # "Idle"
        BY <1>14, ThreadFields DEF SendKeys, TypeInv, ThreadOK
    <2>2. Respond(w, ChoiceReply(job, TRUE)) /\ Deliver(pane)
        BY <1>14 DEF SendKeys
    <2> HIDE DEF job
    <2>3. ChoiceReply(job, TRUE) \in PromptResponses
          /\ ChoiceReply(job, TRUE).op = "Choice"
          /\ pane \in TmuxPanes /\ pane \in Panes
        BY <2>1, ChoiceReplyType DEF ChoiceReply, Jobs, Panes
    <2> HIDE DEF pane
    <2>4. /\ \A p \in TmuxPanes : Waiting(w, p)' => Waiting(w, p) /\ p # pane
          /\ \A p \in TmuxPanes : SeenGone(w, p)' => SeenGone(w, p)
          /\ Waiting(w, pane)
        BY <1>6, <2>1, <2>2, <2>3 DEF pane
    <2>5. digits[pane] = 0 /\ automation[w].handled[pane] # NoPrompt
        BY <2>3, <2>4 DEF Once
    <2>6. /\ \A q \in Panes : q # pane => digits'[q] = digits[q]
          /\ digits'[pane] <= 1 /\ (screen[pane] = NoPrompt => digits'[pane] = 0)
        BY <2>2, <2>3, <2>5, DigitGiven
    <2>7. \A p \in TmuxPanes : SeenGone(w, p) => p # pane
        BY <2>3, <2>4, SeenGoneAlone
    <2>8. \A p \in Panes : /\ interactive'[p] /\ digits'[p] <= 1
                           /\ screen'[p] = NoPrompt => digits'[p] = 0
        BY <1>1, <2>6 DEF Once, OnlyThread
    <2>9. \A v \in Windows, p \in Panes :
            digits'[p] # 0 => automation'[v].handled[p] # NoPrompt
        BY <1>1, <1>2, <2>5, <2>6 DEF Once, OnlyThread
    <2>10. \A v \in Windows, p \in TmuxPanes :
            /\ Waiting(v, p)' => digits'[p] = 0 /\ automation'[v].handled[p] # NoPrompt
            /\ SeenGone(v, p)' => digits'[p] = 0
        <3>1. TmuxPanes \subseteq Panes BY DEF Panes
        <3> QED BY <1>1, <1>2, <2>4, <2>6, <2>7, <3>1 DEF Once, OnlyThread
    <2> QED BY <2>8, <2>9, <2>10 DEF Once, Waiting, SeenGone
<1> QED
    BY <1>8, <1>9, <1>10, <1>11, <1>12, <1>13, <1>14 DEF Worker

\* One prompt never receives two digits, in one window with one tmux server whose
\* panes stay Codex panes and whose mode is not switched off, for any native and
\* tmux panes, any prompts and any order of scans, choices and redraws.
THEOREM DigitCorrect ==
    ASSUME Alone, SteadyPanes, ~SwitchesOff
    PROVE  Spec => []DigitOnce
<1> DEFINE Inv == TypeInv /\ LinesFit /\ Once
<1>1. Init => Inv
    <2> SUFFICES ASSUME Init PROVE Once
        BY TypeInit, FitsInit
    <2>1. \A p \in Panes : interactive[p] /\ digits[p] = 0 BY DEF Init
    <2>2. \A w \in Windows : /\ Line(w) = <<>> /\ response_rx[w] = <<>>
                             /\ thread[w].step = "Idle"
        BY DEF Init, Line, IdleThread
    <2>3. \A w \in Windows, p \in TmuxPanes : ~Waiting(w, p) /\ ~SeenGone(w, p)
        BY <2>2 DEF Waiting, SeenGone
    <2> QED BY <2>1, <2>3 DEF Once
<1>2. ASSUME Inv, [Next]_vars PROVE Inv'
    <2>1. TypeInv' /\ LinesFit' BY <1>2, TypeStep, FitsStep
    <2>2. ASSUME NEW p \in Panes, Codex(p) PROVE Once'
        BY <1>2, <2>2, CodexOnce
    <2>3. ASSUME NEW w \in Windows, Window(w) PROVE Once'
        BY <1>2, <2>3, WindowOnce
    <2>4. ASSUME NEW w \in Windows, Worker(w) PROVE Once'
        BY <1>2, <2>4, WorkerOnce
    <2>5. ASSUME UNCHANGED vars PROVE Once'
        <3>1. UNCHANGED <<screen, digits, interactive, automation, thread, response_rx>>
            BY <2>5 DEF vars, codexVars
        <3>2. \A w \in Windows, p \in TmuxPanes :
                /\ Waiting(w, p)' => Waiting(w, p)
                /\ SeenGone(w, p)' => SeenGone(w, p)
            BY <3>1 DEF Waiting, SeenGone, Line
        <3>3. \A w \in Windows, p \in Panes :
                automation[w].handled[p] # NoPrompt => automation'[w].handled[p] # NoPrompt
            BY <3>1
        <3>4. UNCHANGED <<screen, digits, interactive>> BY <3>1
        <3>5. Once BY <1>2
        <3> HIDE DEF Inv
        <3> QED BY <3>2, <3>3, <3>4, <3>5, OnceKept
    <2> QED BY <1>2, <2>1, <2>2, <2>3, <2>4, <2>5 DEF Next
<1>3. Inv => DigitOnce BY DEF Once, DigitOnce
<1> QED BY <1>1, <1>2, <1>3, PTL DEF Spec
===============================================================================
