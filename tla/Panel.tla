-------------------------------- MODULE Panel --------------------------------
(***************************************************************************)
(* The living-workbook panel of lite_panel.py, inside Excel, over the      *)
(* bundle routes of the launcher and its worker: it restores the           *)
(* conversation when it is opened, extends it with every message, and      *)
(* saves it whole.  The file and its writers are those of BundleFile; a    *)
(* script may write it too.  The pipes of the worker are those of          *)
(* PythonWorker, with the panel as their only client: a call takes the     *)
(* first line that comes, be it the answer of a call that was given up.    *)
(***************************************************************************)
EXTENDS BundleFile, SequencesExt

CONSTANTS
  Launcher,   \* the worker of the launcher, one process at a time
  MaxSends,   \* bound: messages the user sends
  MaxFaults,  \* bound: failures of the worker and clients that give up
  Marked      \* the numbers of the messages whose text holds "]]>"

\* What the panel puts into a bundle is a conversation.
Message == [from : {"user", "assistant"}, number : 1..MaxSends]

ASSUME PanelAssumption ==
  /\ Bundles = Seq(Message)
  /\ Launcher \in Processes
  /\ MaxSends \in Nat
  /\ MaxFaults \in Nat
  /\ Marked \subseteq 1..MaxSends

\* A request is a bundle to write, or None to read the one that is there; the
\* answer of a read has a payload, the answer of a write has none.
Answer == [ok : BOOLEAN, payload : Bundles \cup {None}]

VARIABLES
  panel,    \* what the panel is doing
  history,  \* the conversation it shows
  sent,     \* messages sent so far
  faults,
  up,       \* the worker's process runs
  requests, \* requests in the pipe to the worker
  answers,  \* answers in the pipe from the worker
  stale,    \* history variable: a call that was given up is answered before the
            \* one under way
  kept,     \* history variable: the save the user was told of, by its own
            \* answer, until the next write
  others,   \* history variable: Excel or a script wrote during the save under way
  blind     \* history variable: the panel does not know what the file holds

callVars  == <<up, requests, answers, stale>>
panelVars == <<panel, history, sent, faults, callVars, kept, others, blind>>
vars == <<fileVars, panelVars>>

Init ==
  /\ FileInit
  /\ panel = "closed"
  /\ history = <<>>
  /\ sent = 0
  /\ faults = 0
  /\ up = TRUE
  /\ requests = <<>>
  /\ answers = <<>>
  /\ stale = FALSE
  /\ kept = None
  /\ others = FALSE
  /\ blind = FALSE

TypeOK ==
  /\ FileTypeOK
  /\ panel \in {"closed", "opening", "restoring", "ready", "asking", "saving"}
  /\ history \in Bundles
  /\ sent \in 0..MaxSends
  /\ faults \in 0..MaxFaults
  /\ up \in BOOLEAN
  /\ requests \in Seq(Bundles \cup {None})
  /\ answers \in Seq(Answer)
  /\ stale \in BOOLEAN
  /\ kept \in Bundles \cup {None}
  /\ others \in BOOLEAN
  /\ blind \in BOOLEAN

-----------------------------------------------------------------------------
\* The JSON stands in a CDATA section, and the reader ends it at the first
\* "]]>", be it in the middle of a message: what is left is not JSON.
Parses(bundle) ==
  \A i \in DOMAIN bundle : bundle[i].from = "user" => bundle[i].number \notin Marked

\* The conversation goes on from the one of that bundle.
Extends(conversation, bundle) == bundle # None => IsPrefix(bundle, conversation)
Known(bundle) == Extends(history, bundle)

Fault == faults < MaxFaults /\ faults' = faults + 1

\* PythonWorker::call up to its read: the line goes into the pipe, behind those
\* of calls that were given up.
Call(request) ==
  /\ up
  /\ requests' = Append(requests, request)
  /\ stale' = (requests # <<>> \/ answers # <<>> \/ At(Launcher) # "idle")
  /\ UNCHANGED <<up, answers>>

\* Its read: the first line is the answer.
Take ==
  /\ answers # <<>>
  /\ answers' = Tail(answers)
  /\ stale' = FALSE
  /\ UNCHANGED <<up, requests>>

\* The call meets the end of its process, at the write or at the read, and the
\* slot is cleared; the next call spawns another process.
CallFails ==
  /\ ~up
  /\ panel \in {"restoring", "saving"} => answers = <<>>
  /\ up' = TRUE
  /\ answers' = <<>>
  /\ stale' = FALSE
  /\ UNCHANGED requests

\* The client gives up its call; the request stays with the worker, which may
\* be at it.
GiveUp ==
  /\ Fault
  /\ stale' = FALSE
  /\ UNCHANGED <<up, requests, answers>>

\* on_open: the handshake, then a session of the launcher.
OpenPanel ==
  /\ panel = "closed"
  /\ ExcelOpens
  /\ panel' = "opening"
  /\ UNCHANGED <<history, sent, faults, callVars, kept, others, blind>>

\* _restore_bundle: the request to read the bundle.
Restore ==
  /\ panel = "opening"
  /\ Call(None)
  /\ panel' = "restoring"
  /\ UNCHANGED <<fileVars, history, sent, faults, kept, others, blind>>

\* bundle_read_route and _restore_bundle: the messages of the stored session.
\* An error is taken for a missing bundle, and an answer without a payload for
\* a bundle without messages: both leave the conversation empty.
Given(answer) ==
  IF answer.ok /\ answer.payload # None THEN answer.payload ELSE <<>>

\* A save that was given up is still to reach the workbook.
WritePending == At(Launcher) # "idle" \/ \E i \in DOMAIN requests : requests[i] # None

\* Mutant: a file without a bundle is not told from one with it.
RestoreMissing ==
  /\ panel = "restoring"
  /\ Take
  /\ panel' = "ready"
  /\ history' = Head(answers).payload
  /\ blind' = (~Extends(Given(Head(answers)), file.image.bundle) \/ WritePending)
  /\ UNCHANGED <<fileVars, sent, faults, kept, others>>

\* Mutant: of the messages of the session only the last is restored.
RestoreLast ==
  /\ panel = "restoring"
  /\ Take
  /\ panel' = "ready"
  /\ LET given == Given(Head(answers))
     IN  /\ history' = IF given = <<>> THEN <<>> ELSE <<Last(given)>>
         /\ blind' = (~Extends(given, file.image.bundle) \/ WritePending)
  /\ UNCHANGED <<fileVars, sent, faults, kept, others>>

\* The panel shows what it was given, be it another call's answer.  It is blind
\* when that misses a message of the workbook, or of one that is still to come.
Restored ==
  /\ panel = "restoring"
  /\ Take
  /\ panel' = "ready"
  /\ LET given == Given(Head(answers))
     IN  /\ history' = given
         /\ blind' = (~Extends(given, file.image.bundle) \/ WritePending)
  /\ UNCHANGED <<fileVars, sent, faults, kept, others>>

\* Any error of the launcher is taken for a missing bundle: the route refuses,
\* the worker is gone, or the client gives up.
RestoreFails ==
  /\ panel \in {"opening", "restoring"}
  /\ GiveUp \/ (CallFails /\ UNCHANGED faults)
  /\ panel' = "ready"
  /\ blind' = TRUE
  /\ UNCHANGED <<fileVars, history, sent, kept, others>>

\* send: the message is shown whatever happens, the answer if it comes.
Send ==
  /\ panel = "ready"
  /\ sent < MaxSends
  /\ sent' = sent + 1
  /\ LET user  == [from |-> "user", number |-> sent']
         reply == [from |-> "assistant", number |-> sent']
     IN  \/ history' = history \o <<user, reply>> /\ UNCHANGED faults
         \/ history' = Append(history, user) /\ Fault
  /\ UNCHANGED <<fileVars, panel, callVars, kept, others, blind>>

NewSession ==
  /\ panel = "ready"
  /\ history # <<>>
  /\ history' = <<>>
  /\ blind' = TRUE
  /\ UNCHANGED <<fileVars, panel, sent, faults, callVars, kept, others>>

\* save: the request is with the launcher, whose dialog asks the user.
Save ==
  /\ panel = "ready"
  /\ panel' = "asking"
  /\ UNCHANGED <<fileVars, history, sent, faults, callVars, kept, others, blind>>

\* The user refuses, or the client left before the answer.
Refuse ==
  /\ panel = "asking"
  /\ panel' = "ready"
  /\ UNCHANGED <<fileVars, history, sent, faults, callVars, kept, others, blind>>

\* bundle_write_route: the user agreed, and the worker is called.
Approve ==
  /\ panel = "asking"
  /\ Call(history)
  /\ panel' = "saving"
  /\ UNCHANGED <<fileVars, history, sent, faults, kept, others, blind>>

\* The answer that is taken for this save's.
Saved ==
  /\ panel = "saving"
  /\ Take
  /\ panel' = "ready"
  /\ kept' = IF Head(answers).ok /\ ~stale /\ ~others THEN history ELSE kept
  /\ others' = FALSE
  /\ UNCHANGED <<fileVars, history, sent, faults, blind>>

\* The worker is gone, or the client gives up.
SaveFails ==
  /\ \/ panel = "saving" /\ GiveUp
     \/ panel \in {"asking", "saving"} /\ CallFails /\ UNCHANGED faults
  /\ panel' = "ready"
  /\ others' = FALSE
  /\ UNCHANGED <<fileVars, history, sent, kept, blind>>

\* Excel closes and takes the panel with it, which gives up its request.
ClosePanel ==
  /\ ExcelCloses
  /\ panel' = "closed"
  /\ history' = <<>>
  /\ IF panel \in {"restoring", "saving"} THEN GiveUp ELSE UNCHANGED <<faults, callVars>>
  /\ others' = FALSE
  /\ UNCHANGED <<sent, kept, blind>>

\* Excel writes the bundle it loaded, which may be one the panel never read.
ExcelSavesOver ==
  /\ ExcelSaves
  /\ kept' = None
  /\ others' = (panel = "saving")
  /\ blind' = (blind \/ ~Known(excel.bundle))
  /\ UNCHANGED <<panel, history, sent, faults, callVars>>

-----------------------------------------------------------------------------
(* The worker's loop and the other writers of the file                     *)

\* The next request: _bundle_read answers at once, _bundle_write begins, or
\* finds that the file is no archive.
Serve ==
  /\ up
  /\ At(Launcher) = "idle"
  /\ requests # <<>>
  /\ requests' = Tail(requests)
  /\ LET bundle  == Head(requests)
         current == file.image.bundle
     IN  \/ /\ bundle = None
            /\ answers' = Append(answers,
                 IF file.whole /\ current # None /\ Parses(current)
                 THEN [ok |-> TRUE, payload |-> current]
                 ELSE [ok |-> FALSE, payload |-> None])
            /\ UNCHANGED fileVars
         \/ /\ bundle # None
            /\ BeginWrite(Launcher, bundle)
            /\ UNCHANGED answers
         \/ /\ bundle # None
            /\ ~file.whole
            /\ answers' = Append(answers, [ok |-> FALSE, payload |-> None])
            /\ UNCHANGED fileVars
  /\ UNCHANGED <<panel, history, sent, faults, up, stale, kept, others, blind>>

\* A write goes on, and at its end the worker answers; one that reaches the
\* workbook ends what the user was told.
Progress(p) ==
  LET lands == At(p) = "closed" /\ writer'[p].at = "replaced"
      ends  == writer'[p].at = "idle"
  IN  /\ WriteStep(p)
      /\ kept' = IF lands THEN None ELSE kept
      /\ others' = (others \/ (lands /\ panel = "saving" /\ (p # Launcher \/ overlap)))
      /\ answers' = IF p = Launcher /\ ends
                    THEN Append(answers, [ok |-> At(p) = "replaced", payload |-> None])
                    ELSE answers
      /\ UNCHANGED <<panel, history, sent, faults, up, requests, stale, blind>>

\* A script is killed in the middle of a write.
KillScript(p) ==
  /\ p # Launcher
  /\ Die(p)
  /\ Fault
  /\ UNCHANGED <<panel, history, sent, callVars, kept, others, blind>>

\* The timeout of the launcher or a crash ends the worker: what it had not
\* read is gone, what it had answered is not.
KillWorker ==
  /\ up
  /\ Fault
  /\ up' = FALSE
  /\ requests' = <<>>
  /\ IF At(Launcher) = "idle" THEN UNCHANGED fileVars ELSE Die(Launcher)
  /\ UNCHANGED <<panel, history, sent, answers, stale, kept, others, blind>>

\* A script stores a bundle of its own, with no conversation in it.
ScriptWrites(p) ==
  /\ p # Launcher
  /\ BeginWrite(p, <<>>)
  /\ UNCHANGED panelVars

\* The user has said all, or the workbook cannot be opened any more.
Quiescent ==
  /\ sent = MaxSends \/ ~file.whole
  /\ UNCHANGED vars

Next ==
  \/ OpenPanel \/ Restore \/ Restored \/ RestoreFails \/ Send \/ NewSession
  \/ Save \/ Refuse \/ Approve \/ Saved \/ SaveFails \/ ClosePanel
  \/ ExcelSavesOver \/ Serve \/ KillWorker
  \/ \E p \in Processes : Progress(p) \/ KillScript(p) \/ ScriptWrites(p)
  \/ Quiescent

Spec == Init /\ [][Next]_vars

-----------------------------------------------------------------------------
(* Properties                                                              *)

\* What the user was told is saved is what the workbook holds, until the next
\* write begins to reach it: a save that the panel gave up, and the worker
\* goes on with, never takes its place.  Of a save that was told done by the
\* answer of one given up before, nothing is said: its own may yet fail.
SavedStands == kept # None => file.image.bundle = kept

\* A write of the panel never drops a message that the workbook holds, unless
\* the user began a new session, or the panel was not given the conversation
\* when it asked for it: by an error, or by the answer of an earlier call.
NothingForgotten ==
  [][file' # file /\ saved' = saved /\ At(Launcher) = "closed" /\ ~overlap /\ ~blind =>
       \/ file.image.bundle = None
       \/ IsPrefix(file.image.bundle, file'.image.bundle)]_vars

\* README of the example: "A later opener can pick the conversation up where
\* the original author left off."  Every bundle in a whole workbook can be read.
Restorable ==
  file.whole /\ file.image.bundle # None => Parses(file.image.bundle)
=============================================================================
