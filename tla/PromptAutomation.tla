---------------------------- MODULE PromptAutomation ----------------------------
(***************************************************************************)
(* Preferred Codex prompts: every window watches the panes that run Codex  *)
(* and answers a recognized prompt with one digit.  Native panes are read  *)
(* by the GUI thread; tmux panes are scanned and answered by the           *)
(* "cosmos-pane-context" thread of each window's WorkspaceService.  The    *)
(* windows share a table of reserved targets, and Codex shows, replaces    *)
(* and withdraws prompts at any time.  A prompt is abstracted to its       *)
(* fingerprint.                                                            *)
(***************************************************************************)
EXTENDS Naturals, Sequences, FiniteSets, SequencesExt

CONSTANTS
    Windows,       \* the windows of the process
    NativePanes,   \* native panes that run Codex
    TmuxPanes,     \* tmux panes that run Codex
    Servers,       \* tmux servers
    ServerOf,      \* ServerOf[p]: the server of a tmux pane
    Attached,      \* Attached[w]: the servers with a client in window w
    HomeWindow,    \* HomeWindow[p]: the window of a native pane
    Prompts,       \* fingerprints of recognized prompts
    NoPrompt, NoServer,
    MaxPrompts,    \* bound: prompts shown in one behaviour
    MaxSwitches,   \* bound: changes of the mode
    SwitchesOff,   \* assumption, when FALSE: the mode is never switched off
    SteadyPanes,   \* assumption: a pane stays an interactive Codex pane and
                   \* its text can be captured
    Gaps           \* assumption: a pane shows a prompt only after every window
                   \* has forgotten the last one

Panes == NativePanes \cup TmuxPanes
Modes == {"Off", "Observe", "Active"}
MaybePrompt == Prompts \cup {NoPrompt}

ASSUME PaneAssumption ==
    /\ NativePanes \cap TmuxPanes = {} /\ IsFiniteSet(TmuxPanes)
    /\ ServerOf \in [TmuxPanes -> Servers]
    /\ Attached \in [Windows -> SUBSET Servers]
    /\ HomeWindow \in [NativePanes -> Windows]
ASSUME NonePromptAssumption == NoPrompt \notin Prompts /\ NoServer \notin Servers
ASSUME PromptBoundAssumption == MaxPrompts \in Nat /\ MaxSwitches \in Nat
ASSUME EnvironmentAssumption ==
    SwitchesOff \in BOOLEAN /\ SteadyPanes \in BOOLEAN /\ Gaps \in BOOLEAN

VARIABLES
    screen,       \* the prompt each pane shows
    digits,       \* digits it has received for that prompt: 0, 1, or 2 and more
    interactive,  \* the pane runs Codex and is not in copy mode
    shown,        \* number of prompts shown
    reserved,     \* keys of shared_codex_prompt_deduplication, process-wide
    automation,   \* CodexPromptAutomationUi, and the mode, of each window
    thread,       \* cosmos-pane-context of each window, with its queue
    response_rx,  \* responses not yet received by each window
    switches      \* number of mode changes

codexVars == <<screen, digits, interactive, shown>>
vars == <<codexVars, reserved, automation, thread, response_rx, switches>>

\* ContextRequest; requests for contexts, status and audit only take their turn.
Jobs == [op : {"Scan"}, server : Servers]
            \cup [op : {"Choice"}, pane : TmuxPanes, prompt : Prompts]
NoJob == [op |-> "None"]

\* A pane the scan does not list and one without a prompt are treated alike.
Captures == [TmuxPanes -> MaybePrompt]
NothingSeen == [p \in TmuxPanes |-> NoPrompt]

PromptResponses == [op : {"Scan"}, found : Captures, failed : BOOLEAN]
            \cup [op : {"Choice"}, pane : TmuxPanes, prompt : Prompts, sent : BOOLEAN]

ThreadSteps == {"Idle", "Capture", "Classify", "SendKeys"}

Automation ==
    [mode : Modes, candidates : [Panes -> MaybePrompt], aged : SUBSET Panes,
     handled : [Panes -> MaybePrompt], native_pending : SUBSET NativePanes,
     choices_pending : [TmuxPanes -> MaybePrompt],
     scan_queue : Seq(Servers), scan_in_flight : Servers \cup {NoServer}]

Threads == [queue : Seq(Jobs), step : ThreadSteps, job : Jobs \cup {NoJob},
            todo : SUBSET TmuxPanes, found : Captures]

Fresh(mode) ==
    [mode |-> mode, candidates |-> [p \in Panes |-> NoPrompt], aged |-> {},
     handled |-> [p \in Panes |-> NoPrompt], native_pending |-> {},
     choices_pending |-> NothingSeen, scan_queue |-> <<>>,
     scan_in_flight |-> NoServer]

IdleThread(queue) == [queue |-> queue, step |-> "Idle", job |-> NoJob,
                      todo |-> {}, found |-> NothingSeen]

Init ==
    /\ screen = [p \in Panes |-> NoPrompt]
    /\ digits = [p \in Panes |-> 0]
    /\ interactive = [p \in Panes |-> TRUE]
    /\ shown = 0
    /\ reserved = {}
    /\ \E modes \in [Windows -> Modes] :
            automation = [w \in Windows |-> Fresh(modes[w])]
    /\ thread = [w \in Windows |-> IdleThread(<<>>)]
    /\ response_rx = [w \in Windows |-> <<>>]
    /\ switches = 0

-------------------------------------------------------------------------------
\* Codex and its panes.

\* Output of a native pane reaches every window that is not off.
OutputSeen(p) ==
    automation' = [w \in Windows |->
        IF p \in NativePanes /\ automation[w].mode # "Off"
        THEN [automation[w] EXCEPT !.native_pending = @ \cup {p}]
        ELSE automation[w]]

Others == UNCHANGED <<reserved, thread, response_rx, switches>>

\* No window, and no scan on its way to one, still shows a prompt of the pane.
Forgotten(p) ==
    \A w \in Windows :
        /\ automation[w].handled[p] = NoPrompt
        /\ automation[w].candidates[p] = NoPrompt
        /\ p \in TmuxPanes =>
            /\ thread[w].found[p] = NoPrompt
            /\ \A response \in Range(response_rx[w]) :
                    response.op = "Scan" => response.found[p] = NoPrompt

ShowPrompt(p, prompt) ==
    /\ shown < MaxPrompts /\ screen[p] # prompt
    /\ Gaps => screen[p] = NoPrompt /\ Forgotten(p)
    /\ screen' = [screen EXCEPT ![p] = prompt]
    /\ digits' = [digits EXCEPT ![p] = 0]
    /\ shown' = shown + 1
    /\ OutputSeen(p) /\ UNCHANGED interactive /\ Others

\* Answered by a digit or by the user, or withdrawn by Codex.
WithdrawPrompt(p) ==
    /\ screen[p] # NoPrompt
    /\ screen' = [screen EXCEPT ![p] = NoPrompt]
    /\ digits' = [digits EXCEPT ![p] = 0]
    /\ OutputSeen(p) /\ UNCHANGED <<interactive, shown>> /\ Others

\* Other output of a native pane.
Redraw(p) ==
    /\ p \in NativePanes
    /\ OutputSeen(p) /\ UNCHANGED codexVars /\ Others

\* Copy mode, or another program in the foreground for a while.
Flicker(p) ==
    /\ ~SteadyPanes
    /\ interactive' = [interactive EXCEPT ![p] = ~@]
    /\ UNCHANGED <<screen, digits, shown, automation>> /\ Others

Deliver(p) ==
    digits' = IF screen[p] = NoPrompt THEN digits
              ELSE [digits EXCEPT ![p] = IF @ = 0 THEN 1 ELSE 2]

-------------------------------------------------------------------------------
\* Helpers of the GUI thread.

Update(w, ui) == automation' = [automation EXCEPT ![w] = ui]

\* What the window sees first or anew becomes the candidate; a candidate seen
\* again keeps its age.
Candidate(ui, p, prompt) ==
    [ui EXCEPT !.candidates[p] = prompt,
               !.aged = IF ui.candidates[p] = prompt THEN @ ELSE @ \ {p}]

\* The same prompt for CODEX_PROMPT_DEBOUNCE.
Stable(ui, p, prompt) == ui.candidates[p] = prompt /\ p \in ui.aged

Cleared(ui, p) ==
    [ui EXCEPT !.candidates[p] = NoPrompt, !.aged = @ \ {p},
               !.handled[p] = NoPrompt]

\* Time passes for a candidate.
Debounce(w, p) ==
    /\ automation[w].candidates[p] # NoPrompt /\ p \notin automation[w].aged
    /\ Update(w, [automation[w] EXCEPT !.aged = @ \cup {p}])
    /\ UNCHANGED <<codexVars, reserved, thread, response_rx, switches>>

\* Mutant of Released: switching off forgets to give up the reservations.
ReleasedNothing(ui) == {p \in {} : ui.handled[p] # NoPrompt}

\* The targets codex_prompt_automation_key_down releases.
Released(ui) == {p \in Panes : ui.handled[p] # NoPrompt}

\* Command+Option+P and Command+Option+Escape.  The mode is also the gate of
\* the thread: codex_prompt_actions_enabled is set whenever it is.
SwitchMode(w, mode) ==
    LET ui == automation[w] IN
    /\ switches < MaxSwitches /\ switches' = switches + 1
    /\ \/ /\ mode = "Off" /\ SwitchesOff
          /\ reserved' = reserved \ Released(ui)
          /\ Update(w, [Fresh("Off") EXCEPT !.scan_in_flight = ui.scan_in_flight])
       \/ /\ \/ ui.mode = "Off" /\ mode = "Observe"
             \/ ui.mode = "Observe" /\ mode = "Active"
          /\ Update(w, [ui EXCEPT !.mode = mode])
          /\ UNCHANGED reserved
    /\ UNCHANGED <<codexVars, thread, response_rx>>

ActionsEnabled(w) == automation[w].mode = "Active"

-------------------------------------------------------------------------------
\* Native panes: process_native_codex_prompt, after the quiet period.

NativeDue(w, p) ==
    automation[w].mode # "Off" /\ p \in automation[w].native_pending

Served(w, p) == [automation[w] EXCEPT !.native_pending = @ \ {p}]

NativeGone(w, p) ==
    /\ NativeDue(w, p)
    /\ HomeWindow[p] # w \/ ~interactive[p] \/ screen[p] = NoPrompt
    /\ Update(w, Cleared(Served(w, p), p))
    /\ reserved' = IF automation[w].handled[p] = NoPrompt THEN reserved
                   ELSE reserved \ {p}
    /\ UNCHANGED <<codexVars, thread, response_rx, switches>>

\* An overlay, the Explorer or a file surface covers the pane.
NativeCovered(w, p) ==
    /\ NativeDue(w, p) /\ HomeWindow[p] = w
    /\ Update(w, [Served(w, p) EXCEPT !.candidates[p] = NoPrompt,
                                      !.aged = @ \ {p}])
    /\ UNCHANGED <<codexVars, reserved, thread, response_rx, switches>>

NativeSeen(w, p) ==
    NativeDue(w, p) /\ HomeWindow[p] = w /\ interactive[p] /\ screen[p] # NoPrompt

NativeWaits(w, p) ==
    LET ui == automation[w] IN
    /\ NativeSeen(w, p)
    /\ \/ ui.handled[p] # NoPrompt /\ Update(w, Served(w, p))
       \/ /\ ui.handled[p] = NoPrompt /\ ~Stable(ui, p, screen[p])
          /\ Update(w, Candidate(ui, p, screen[p]))
    /\ UNCHANGED <<codexVars, reserved, thread, response_rx, switches>>

\* key_down may fail; the prompt is handled all the same.
NativeAnswers(w, p) ==
    LET ui == automation[w] IN
    /\ NativeSeen(w, p)
    /\ ui.handled[p] = NoPrompt /\ Stable(ui, p, screen[p])
    /\ reserved' = reserved \cup {p}
    /\ Update(w, [Served(w, p) EXCEPT !.handled[p] = screen[p]])
    /\ \/ p \notin reserved /\ ui.mode = "Active" /\ Deliver(p)
       \/ UNCHANGED digits
    /\ UNCHANGED <<screen, interactive, shown, thread, response_rx, switches>>

-------------------------------------------------------------------------------
\* Tmux panes: the requests.

Scanning(ui, server) ==
    ui.scan_in_flight = server \/ server \in Range(ui.scan_queue)

\* queue_tmux_codex_prompt_scan
Queued(ui, server) ==
    IF Scanning(ui, server) THEN ui
    ELSE [ui EXCEPT !.scan_queue = Append(@, server)]

\* Output of a pane that runs tmux, or two seconds without a scan.
QueueScan(w, server) ==
    /\ server \in Attached[w] /\ automation[w].mode # "Off"
    /\ ~Scanning(automation[w], server)
    /\ Update(w, Queued(automation[w], server))
    /\ UNCHANGED <<codexVars, reserved, thread, response_rx, switches>>

\* codex_prompt_automation_tick
StartScan(w) ==
    LET ui == automation[w] IN
    /\ ui.mode # "Off" /\ ui.scan_in_flight = NoServer /\ ui.scan_queue # <<>>
    /\ Update(w, [ui EXCEPT !.scan_in_flight = Head(ui.scan_queue),
                            !.scan_queue = Tail(@)])
    /\ thread' = [thread EXCEPT ![w].queue =
                    Append(@, [op |-> "Scan", server |-> Head(ui.scan_queue)])]
    /\ UNCHANGED <<codexVars, reserved, response_rx, switches>>

-------------------------------------------------------------------------------
\* Tmux panes: the thread.

Idle(w) == thread[w].step = "Idle" /\ thread[w].queue # <<>>
Job(w) == Head(thread[w].queue)
OnlyThread == UNCHANGED <<screen, interactive, shown, reserved, automation, switches>>

Proceed(w, step, job, todo, found) ==
    /\ thread' = [thread EXCEPT ![w] =
            [queue |-> IF @.step = "Idle" THEN Tail(@.queue) ELSE @.queue,
             step |-> step, job |-> job, todo |-> todo, found |-> found]]
    /\ UNCHANGED response_rx

\* Mutant of Respond: the thread keeps the job it has answered.
RespondKeepsJob(w, response) ==
    /\ thread' = [thread EXCEPT ![w].step = "Idle",
            ![w].queue = IF thread[w].step = "Idle" THEN Tail(@) ELSE @]
    /\ response_rx' = [response_rx EXCEPT ![w] = Append(@, response)]

Respond(w, response) ==
    /\ thread' = [thread EXCEPT ![w] =
            IdleThread(IF @.step = "Idle" THEN Tail(@.queue) ELSE @.queue)]
    /\ response_rx' = [response_rx EXCEPT ![w] = Append(@, response)]

\* display-message finds the server and list-panes its interactive Codex panes.
ListPanes(w) ==
    /\ Idle(w) /\ Job(w).op = "Scan"
    /\ Proceed(w, "Capture", Job(w),
               {p \in TmuxPanes : ServerOf[p] = Job(w).server /\ interactive[p]},
               NothingSeen)
    /\ OnlyThread /\ UNCHANGED digits

ScanFails(w) ==
    /\ Idle(w) /\ Job(w).op = "Scan"
    /\ Respond(w, [op |-> "Scan", found |-> NothingSeen, failed |-> TRUE])
    /\ OnlyThread /\ UNCHANGED digits

\* capture-pane of one pane, which may fail, and classify_codex_prompt.
CapturePane(w, p) ==
    /\ thread[w].step = "Capture" /\ p \in thread[w].todo
    /\ \E seen \in IF SteadyPanes THEN {screen[p]} ELSE {screen[p], NoPrompt} :
            Proceed(w, "Capture", thread[w].job, thread[w].todo \ {p},
                    [thread[w].found EXCEPT ![p] = seen])
    /\ OnlyThread /\ UNCHANGED digits

ScanDone(w) ==
    /\ thread[w].step = "Capture" /\ thread[w].todo = {}
    /\ Respond(w, [op |-> "Scan", found |-> thread[w].found, failed |-> FALSE])
    /\ OnlyThread /\ UNCHANGED digits

ChoiceReply(job, sent) ==
    [op |-> "Choice", pane |-> job.pane, prompt |-> job.prompt, sent |-> sent]

\* The gate, and display-message: the pane is still an interactive Codex pane.
InspectPane(w) ==
    /\ Idle(w) /\ Job(w).op = "Choice"
    /\ ActionsEnabled(w) /\ interactive[Job(w).pane]
    /\ Proceed(w, "Classify", Job(w), {}, NothingSeen)
    /\ OnlyThread /\ UNCHANGED digits

\* Mutant of ChoiceRefused: a closed gate ends the job without a result.
ChoiceRefusedSilently(w) ==
    /\ Idle(w) /\ Job(w).op = "Choice"
    /\ thread' = [thread EXCEPT ![w].queue = Tail(@)]
    /\ OnlyThread /\ UNCHANGED <<digits, response_rx>>

\* A closed gate, a pane that changed, or a tmux command that failed.
ChoiceRefused(w) ==
    /\ Idle(w) /\ Job(w).op = "Choice"
    /\ Respond(w, ChoiceReply(Job(w), FALSE))
    /\ OnlyThread /\ UNCHANGED digits

\* capture-pane shows the expected prompt, and the gate is open again.
RevalidatePrompt(w) ==
    /\ thread[w].step = "Classify"
    /\ screen[thread[w].job.pane] = thread[w].job.prompt /\ ActionsEnabled(w)
    /\ Proceed(w, "SendKeys", thread[w].job, {}, NothingSeen)
    /\ OnlyThread /\ UNCHANGED digits

\* capture-pane or send-keys fails, or the prompt or the gate has changed.
ChoiceAbandoned(w) ==
    /\ thread[w].step \in {"Classify", "SendKeys"}
    /\ Respond(w, ChoiceReply(thread[w].job, FALSE))
    /\ OnlyThread /\ UNCHANGED digits

SendKeys(w) ==
    /\ thread[w].step = "SendKeys"
    /\ Deliver(thread[w].job.pane)
    /\ Respond(w, ChoiceReply(thread[w].job, TRUE))
    /\ OnlyThread

Worker(w) ==
    \/ ListPanes(w) \/ ScanFails(w) \/ ScanDone(w)
    \/ \E p \in TmuxPanes : CapturePane(w, p)
    \/ InspectPane(w) \/ ChoiceRefused(w)
    \/ RevalidatePrompt(w) \/ ChoiceAbandoned(w) \/ SendKeys(w)

-------------------------------------------------------------------------------
\* Tmux panes: the responses.

Take(w, op) ==
    /\ response_rx[w] # <<>> /\ Head(response_rx[w]).op = op
    /\ response_rx' = [response_rx EXCEPT ![w] = Tail(@)]
    /\ UNCHANGED <<codexVars, switches>>

\* Mutant of Usable: a failed scan counts as one that lists no pane.
UsableEvenFailed(ui, scan) == ui.scan_in_flight # NoServer /\ ui.mode # "Off"

Usable(ui, scan) ==
    ui.scan_in_flight # NoServer /\ ui.mode # "Off" /\ ~scan.failed

\* Mutant of IgnoreScan: it returns before the request in flight is taken.
IgnoreScanEarly(w) ==
    Take(w, "Scan") /\ UNCHANGED <<automation, thread, reserved>>

\* None in flight, off, failed, or the user has just typed into the pane.
IgnoreScan(w) ==
    /\ Take(w, "Scan")
    /\ Update(w, [automation[w] EXCEPT !.scan_in_flight = NoServer])
    /\ UNCHANGED <<thread, reserved>>

\* apply_tmux_codex_prompt_scan
ApplyScan(w) ==
    LET ui    == automation[w]
        scan  == Head(response_rx[w])
        gone  == {p \in TmuxPanes : scan.found[p] = NoPrompt}
        fresh == {p \in TmuxPanes \ gone : ui.handled[p] = NoPrompt}
        ready == {p \in fresh : Stable(ui, p, scan.found[p])}
        won   == ready \ reserved
        sends == IF ui.mode = "Active" THEN won ELSE {}
        seen  == [ui EXCEPT
                    !.scan_in_flight = NoServer,
                    !.candidates = [p \in Panes |->
                        IF p \in gone THEN NoPrompt
                        ELSE IF p \in fresh THEN scan.found[p] ELSE @[p]],
                    !.aged = {p \in @ : p \notin gone
                                /\ (p \in fresh => p \in ready)},
                    !.handled = [p \in Panes |->
                        IF p \in gone THEN NoPrompt
                        ELSE IF p \in ready THEN scan.found[p] ELSE @[p]],
                    !.choices_pending = [p \in TmuxPanes |->
                        IF p \in sends THEN scan.found[p] ELSE @[p]]]
    IN /\ Take(w, "Scan") /\ Usable(ui, scan)
       /\ reserved' = (reserved \ (gone \cap Released(ui))) \cup won
       /\ Update(w, IF fresh = ready THEN seen
                    ELSE Queued(seen, ui.scan_in_flight))
       /\ thread' = [thread EXCEPT ![w].queue = @ \o
            [i \in 1..Cardinality(sends) |->
                [op |-> "Choice", pane |-> SetToSeq(sends)[i],
                 prompt |-> scan.found[SetToSeq(sends)[i]]]]]

\* apply_tmux_codex_prompt_choice_result
ApplyChoice(w) ==
    /\ Take(w, "Choice")
    /\ Update(w, [automation[w] EXCEPT
                    !.choices_pending[Head(response_rx[w]).pane] = NoPrompt])
    /\ UNCHANGED <<thread, reserved>>

-------------------------------------------------------------------------------
Codex(p) ==
    \/ \E prompt \in Prompts : ShowPrompt(p, prompt)
    \/ WithdrawPrompt(p) \/ Redraw(p) \/ Flicker(p)

Native(w, p) ==
    NativeGone(w, p) \/ NativeCovered(w, p) \/ NativeWaits(w, p) \/ NativeAnswers(w, p)

Window(w) ==
    \/ \E mode \in Modes : SwitchMode(w, mode)
    \/ \E p \in Panes : Debounce(w, p)
    \/ \E p \in NativePanes : Native(w, p)
    \/ \E server \in Servers : QueueScan(w, server)
    \/ StartScan(w) \/ IgnoreScan(w) \/ ApplyScan(w) \/ ApplyChoice(w)

Next ==
    \/ \E p \in Panes : Codex(p)
    \/ \E w \in Windows : Window(w) \/ Worker(w)

\* The tick and the thread keep running and time passes; tmux answers again
\* and again, and the user stops typing again and again.
Fairness ==
    \A w \in Windows :
        /\ WF_vars(Worker(w)) /\ WF_vars(StartScan(w)) /\ WF_vars(ApplyChoice(w))
        /\ WF_vars(IgnoreScan(w) \/ ApplyScan(w))
        /\ SF_vars(ListPanes(w)) /\ SF_vars(ApplyScan(w))
        /\ \A p \in TmuxPanes : WF_vars(Debounce(w, p))
        /\ \A server \in Servers : WF_vars(QueueScan(w, server))

Spec == Init /\ [][Next]_vars /\ Fairness

-------------------------------------------------------------------------------
(* Properties *)

\* Every variable keeps its type; the thread holds a job while it is busy.
PromptTypeOK ==
    /\ screen \in [Panes -> MaybePrompt] /\ digits \in [Panes -> 0..2]
    /\ interactive \in [Panes -> BOOLEAN] /\ shown \in Nat /\ switches \in Nat
    /\ reserved \subseteq Panes
    /\ automation \in [Windows -> Automation]
    /\ thread \in [Windows -> Threads]
    /\ \A w \in Windows : thread[w].step = "Idle" <=> thread[w].job = NoJob
    /\ response_rx \in [Windows -> Seq(PromptResponses)]

\* "Handle each recognized prompt exactly once": one prompt never receives two
\* digits, however scans, choices and redraws are interleaved.
DigitOnce == \A p \in Panes : digits[p] <= 1

\* No reservation outlives the windows that handled its prompt: a target would
\* stay suppressed for every later prompt.
ReservationHasHolder ==
    \A p \in reserved : \E w \in Windows : automation[w].handled[p] # NoPrompt

\* What window w has asked of its thread and not yet heard of, in the order in
\* which the results arrive: those that wait for the GUI thread, the job under
\* way, the queue.
Line(w) ==
    response_rx[w] \o (IF thread[w].step = "Idle" THEN <<>> ELSE <<thread[w].job>>)
        \o thread[w].queue

\* The places of the choices for pane p among them.
Outstanding(w, p) ==
    {i \in 1..Len(Line(w)) : Line(w)[i].op = "Choice" /\ Line(w)[i].pane = p}

\* A result always belongs to the choice that waits for it: what a window waits
\* for is on its way, and nothing else for the same pane is, although switching
\* off forgets choices the thread has already received.
ChoiceMatchesResult ==
    \A w \in Windows, p \in TmuxPanes :
        LET waiting == automation[w].choices_pending[p] IN
        waiting # NoPrompt =>
            \E i \in Outstanding(w, p) :
                Outstanding(w, p) = {i} /\ Line(w)[i].prompt = waiting

\* Every recognized prompt of a tmux pane is handled: while a window that is not
\* off is attached to its server, it is answered or suppressed there, or goes.
EveryPromptHandled ==
    \A w \in Windows, p \in TmuxPanes, prompt \in Prompts :
        ServerOf[p] \in Attached[w] =>
            ((screen[p] = prompt /\ automation[w].mode # "Off") ~>
                \/ screen[p] # prompt \/ automation[w].mode = "Off"
                \/ automation[w].handled[p] = prompt)
===============================================================================
