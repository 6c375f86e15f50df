------------------------------- MODULE AiChat -------------------------------
(***************************************************************************)
(* POST /ai/chat: the session store, the bounded tool-use loop, the        *)
(* dispatch of a model's tool_use blocks through scope, plan-only, trust   *)
(* window and consent dialog, and clients that hang up at any await.       *)
(*                                                                         *)
(* One element of Chats is one chat request and one of Requests one        *)
(* request to open a trust window.  A message keeps its role, the chat and *)
(* the turn it belongs to and its tool blocks; its text is left out.  What *)
(* the client sent has turn 0, and of its tool blocks only the uses.       *)
(***************************************************************************)
EXTENDS Integers, FiniteSets, SequencesExt

CONSTANTS
  Sessions,     \* session ids
  Chats,        \* requests to /ai/chat
  SessionOf,    \* the session each chat names
  PlanOnly,     \* the chats with plan_only set
  Impatient,    \* the requests whose client may hang up
  Requests,     \* requests to open a trust window
  Durations,    \* the durations they ask for
  TokenScopes,  \* the scope sets of the tokens that open sessions
  Names,        \* the tool names the model emits, known or not
  Bodies,       \* the lists of messages the clients send
  MaxUses,      \* bound: tool_use blocks in one message
  MaxTurns,     \* MAX_TURNS
  MaxDuration,  \* MAX_DURATION_SECS
  MaxTime       \* bound: the clock

Uses  == SeqOf(Names, MaxUses)
Roles == {"system", "user", "assistant", "tool"}

ASSUME ChatsAssumption ==
  /\ SessionOf \in [Chats -> Sessions]
  /\ PlanOnly \subseteq Chats
  /\ Impatient \subseteq Chats \cup Requests
  /\ Durations \subseteq Nat
  /\ Bodies \subseteq Seq([role : Roles, uses : Uses])
  /\ MaxUses \in Nat /\ MaxTurns \in Nat \ {0}
  /\ MaxDuration \in Nat /\ MaxTime \in Nat

\* The tool registry.
Registry ==
  [fs_read          |-> [scope |-> "fs:read",        mutates |-> FALSE],
   excel_workbooks  |-> [scope |-> "excel:com",      mutates |-> FALSE],
   excel_range_read |-> [scope |-> "excel:com",      mutates |-> FALSE],
   run_python       |-> [scope |-> "ai:exec:python", mutates |-> TRUE]]

Mutates(name) == Registry[name].mutates

Via     == {"auto", "dialog", "trust_window"}
\* A tool_result: how the call was approved, or that it failed.
Result  == Via \cup {"failed"}
Message ==
  [role : Roles, chat : Chats, turn : {0}, uses : Uses]
    \cup [role : {"assistant"}, chat : Chats, turn : 1..MaxTurns, uses : Uses]
    \cup [role : {"tool"}, chat : Chats, turn : 1..MaxTurns, results : Seq(Result)]

Phase  == {"idle", "started", "calling", "recording", "dispatching", "asking",
           "running", "returned", "refused", "failed", "hungup"}
Window == [session : Sessions, tools : SUBSET Names, expires : 0..(MaxTime + MaxDuration)]

VARIABLES
  now,       \* the clock
  opened,    \* sessions that exist
  granted,   \* the scopes baked into each
  messages,  \* the transcript in the session store
  phase,     \* where each chat is in ai_chat
  history,   \* the chat's own copy of the conversation
  turn,      \* the round it is in
  results,   \* the tool results of this round so far
  via,       \* how the tool that is running was approved
  stop,      \* the stop_reason of the response
  windows,   \* the trust windows
  asked,     \* what each trust-window request asks for, while it is asked
  overlapped, \* history variable: sessions that had two chats under way at once
  ran,       \* history variable: the tools handed over for execution
  consents,  \* history variable: the tool uses the user said yes to
  grants     \* history variable: the trust windows the user said yes to

chatVars   == <<phase, history, turn, results, via, stop, overlapped>>
windowVars == <<windows, asked, grants>>
vars == <<now, opened, granted, messages, chatVars, windowVars, ran, consents>>

NotAsked == [step |-> "idle"]

Init ==
  /\ now = 0
  /\ opened = {}
  /\ granted = [s \in Sessions |-> {}]
  /\ messages = [s \in Sessions |-> <<>>]
  /\ phase = [c \in Chats |-> "idle"]
  /\ history = [c \in Chats |-> <<>>]
  /\ turn = [c \in Chats |-> 0]
  /\ results = [c \in Chats |-> <<>>]
  /\ via = [c \in Chats |-> "none"]
  /\ stop = [c \in Chats |-> "none"]
  /\ overlapped = {}
  /\ windows = {}
  /\ asked = [r \in Requests |-> NotAsked]
  /\ ran = {}
  /\ consents = {}
  /\ grants = {}

TypeOK ==
  /\ now \in 0..MaxTime
  /\ opened \subseteq Sessions
  /\ granted \in [Sessions -> SUBSET {Registry[t].scope : t \in DOMAIN Registry}]
  /\ messages \in [Sessions -> Seq(Message)]
  /\ phase \in [Chats -> Phase]
  /\ history \in [Chats -> Seq(Message)]
  /\ turn \in [Chats -> 0..MaxTurns]
  /\ results \in [Chats -> Seq(Result)]
  /\ via \in [Chats -> Via \cup {"none"}]
  /\ stop \in [Chats -> {"none", "end_turn", "tool_use_round_limit"}]
  /\ overlapped \subseteq Sessions
  /\ windows \subseteq Window
  /\ asked \in [Requests -> [step : {"idle", "closed"}] \cup
        [step : {"asking"}, session : Sessions, tools : SUBSET Names, secs : Durations]]
  /\ ran \subseteq [chat : Chats, turn : 1..MaxTurns, index : 1..MaxUses,
                    tool : Names, via : Via, at : 0..MaxTime]
  /\ consents \subseteq (Chats \X (1..MaxTurns) \X (1..MaxUses))
  /\ grants \subseteq [session : Sessions, tools : SUBSET Names, secs : Durations,
                       at : 0..MaxTime]

-----------------------------------------------------------------------------
(* Sessions and the clock                                                  *)

\* POST /ai/session: the caller's scopes, cut down to those some tool needs.
OpenSession(s) ==
  /\ s \notin opened
  /\ opened' = opened \cup {s}
  /\ \E scopes \in TokenScopes :
       granted' = [granted EXCEPT ![s] =
         scopes \cap {Registry[t].scope : t \in DOMAIN Registry}]
  /\ UNCHANGED <<now, messages, chatVars, windowVars, ran, consents>>

Tick ==
  /\ now < MaxTime
  /\ now' = now + 1
  /\ UNCHANGED <<opened, granted, messages, chatVars, windowVars, ran, consents>>

-----------------------------------------------------------------------------
(* The tool-use loop, ai_chat                                              *)

Go(c, p) == phase' = [phase EXCEPT ![c] = p]

\* Mutant: the store's transcript is replaced by the chat's own copy.
WriteBack(c, said) ==
  messages' = [messages EXCEPT ![SessionOf[c]] = history[c] \o said]

\* sessions.append_messages: the store's transcript is extended in place.
Record(c, said) ==
  messages' = [messages EXCEPT ![SessionOf[c]] = @ \o said]

\* The request has reached the handler and not been answered.
InFlight(c) == phase[c] \in {"started", "calling", "recording", "dispatching",
                             "asking", "running"}

\* What chat c's client sent, as it is stored.
Stored(c, body) ==
  [i \in DOMAIN body |-> [role |-> body[i].role, chat |-> c, turn |-> 0,
                          uses |-> body[i].uses]]

\* The client's messages, any number of any role, are stored before the
\* provider is called.
Start(c) ==
  /\ phase[c] = "idle"
  /\ SessionOf[c] \in opened
  /\ \E body \in Bodies : Record(c, Stored(c, body))
  /\ Go(c, "started")
  /\ overlapped' = overlapped \cup
       {SessionOf[d] : d \in {d \in Chats : InFlight(d) /\ SessionOf[d] = SessionOf[c]}}
  /\ UNCHANGED <<now, opened, granted, history, turn, results, via, stop,
                 windowVars, ran, consents>>

\* Over budget, unknown session or unregistered provider: nothing is stored.
Refuse(c) ==
  /\ phase[c] = "idle"
  /\ Go(c, "refused")
  /\ UNCHANGED <<now, opened, granted, overlapped, messages, history, turn, results, via,
                 stop, windowVars, ran, consents>>

\* Mutant: the history is read before the client's messages are stored.
SnapshotEarly(c) ==
  /\ phase[c] = "started"
  /\ history' = [history EXCEPT ![c] = SelectSeq(messages[SessionOf[c]],
                                                 LAMBDA m : m.chat # c)]
  /\ turn' = [turn EXCEPT ![c] = 1]
  /\ Go(c, "calling")
  /\ UNCHANGED <<now, opened, granted, overlapped, messages, results, via, stop,
                 windowVars, ran, consents>>

\* A second lock of the store, then the first provider call.
Snapshot(c) ==
  /\ phase[c] = "started"
  /\ history' = [history EXCEPT ![c] = messages[SessionOf[c]]]
  /\ turn' = [turn EXCEPT ![c] = 1]
  /\ Go(c, "calling")
  /\ UNCHANGED <<now, opened, granted, overlapped, messages, results, via, stop,
                 windowVars, ran, consents>>

\* The provider answered; the reply joins the history and the transcript,
\* and the cost of the turn is being written.
ProviderReplies(c) ==
  /\ phase[c] = "calling"
  /\ \E uses \in Uses :
       LET m == [role |-> "assistant", chat |-> c, turn |-> turn[c], uses |-> uses]
       IN  /\ history' = [history EXCEPT ![c] = Append(@, m)]
           /\ Record(c, <<m>>)
  /\ Go(c, "recording")
  /\ UNCHANGED <<now, opened, granted, overlapped, turn, results, via, stop, windowVars,
                 ran, consents>>

\* No key, an upstream error, an undecodable answer or the 60 s timeout.
ProviderFails(c) ==
  /\ phase[c] = "calling"
  /\ Go(c, "failed")
  /\ UNCHANGED <<now, opened, granted, overlapped, messages, history, turn, results, via,
                 stop, windowVars, ran, consents>>

\* What the Anthropic adapter makes of a message: every role but the
\* assistant's becomes the user's.
Wire(m) == [m EXCEPT !.role = IF @ = "assistant" THEN @ ELSE "user"]

\* The conversation as the provider gets it.
Sent(c) == [i \in DOMAIN history[c] |-> Wire(history[c][i])]

Pending(c) == Last(history[c]).uses

\* The ledger has the turn: answer the client, or start on the tools.
Recorded(c) ==
  /\ phase[c] = "recording"
  /\ IF Pending(c) = <<>>
     THEN /\ Go(c, "returned")
          /\ stop' = [stop EXCEPT ![c] = "end_turn"]
          /\ UNCHANGED results
     ELSE /\ Go(c, "dispatching")
          /\ results' = [results EXCEPT ![c] = <<>>]
          /\ UNCHANGED stop
  /\ UNCHANGED <<now, opened, granted, overlapped, messages, history, turn, via, windowVars,
                 ran, consents>>

-----------------------------------------------------------------------------
(* Dispatch of one tool use, run_one                                       *)

Index(c) == Len(results[c]) + 1
Tool(c)  == Pending(c)[Index(c)]

\* The loop is at a tool that the registry knows and the session may use.
Allowed(c) ==
  /\ phase[c] = "dispatching"
  /\ Index(c) <= Len(Pending(c))
  /\ Tool(c) \in DOMAIN Registry
  /\ Registry[Tool(c)].scope \in granted[SessionOf[c]]

\* Mutant: windows are looked up by tool alone.
CoveredAnywhere(s, name) ==
  \E w \in windows : name \in w.tools /\ now < w.expires

Covered(s, name) ==
  \E w \in windows : w.session = s /\ name \in w.tools /\ now < w.expires

\* The tool's underlying call is made, approved as `how` says.
Execute(c, how) ==
  /\ Go(c, "running")
  /\ via' = [via EXCEPT ![c] = how]
  /\ ran' = ran \cup {[chat |-> c, turn |-> turn[c], index |-> Index(c),
                       tool |-> Tool(c), via |-> how, at |-> now]}
  /\ UNCHANGED results

\* A tool_result with ok = false goes back to the model.
Report(c) ==
  /\ Go(c, "dispatching")
  /\ results' = [results EXCEPT ![c] = Append(@, "failed")]
  /\ UNCHANGED <<via, ran>>

\* Unknown tool, scope not held, or a mutating tool in plan-only mode.
Reject(c) ==
  /\ phase[c] = "dispatching"
  /\ Index(c) <= Len(Pending(c))
  /\ Allowed(c) => Mutates(Tool(c)) /\ c \in PlanOnly
  /\ Report(c)
  /\ UNCHANGED <<now, opened, granted, overlapped, messages, history, turn, stop, windowVars,
                 consents>>

RunAuto(c) ==
  /\ Allowed(c) /\ ~Mutates(Tool(c))
  /\ Execute(c, "auto")
  /\ UNCHANGED <<now, opened, granted, overlapped, messages, history, turn, stop, windowVars,
                 consents>>

RunTrusted(c) ==
  /\ Allowed(c) /\ Mutates(Tool(c)) /\ c \notin PlanOnly
  /\ Covered(SessionOf[c], Tool(c))
  /\ Execute(c, "trust_window")
  /\ UNCHANGED <<now, opened, granted, overlapped, messages, history, turn, stop, windowVars,
                 consents>>

\* No window covers it: the dialog goes up and the chat waits for the user.
Ask(c) ==
  /\ Allowed(c) /\ Mutates(Tool(c)) /\ c \notin PlanOnly
  /\ ~Covered(SessionOf[c], Tool(c))
  /\ Go(c, "asking")
  /\ UNCHANGED <<now, opened, granted, overlapped, messages, history, turn, results, via,
                 stop, windowVars, ran, consents>>

Approve(c) ==
  /\ phase[c] = "asking"
  /\ consents' = consents \cup {<<c, turn[c], Index(c)>>}
  /\ Execute(c, "dialog")
  /\ UNCHANGED <<now, opened, granted, overlapped, messages, history, turn, stop, windowVars>>

Deny(c) ==
  /\ phase[c] = "asking"
  /\ Report(c)
  /\ UNCHANGED <<now, opened, granted, overlapped, messages, history, turn, stop, windowVars,
                 consents>>

\* Mutant: a call that failed is made again.
ToolRetried(c) ==
  /\ phase[c] = "running"
  /\ Go(c, "dispatching")
  /\ \/ results' = [results EXCEPT ![c] = Append(@, via[c])]
     \/ UNCHANGED results
  /\ UNCHANGED <<now, opened, granted, overlapped, messages, history, turn, via, stop,
                 windowVars, ran, consents>>

\* The call came back; an error is a result too.
ToolEnds(c) ==
  /\ phase[c] = "running"
  /\ Go(c, "dispatching")
  /\ \E r \in {via[c], "failed"} :
       results' = [results EXCEPT ![c] = Append(@, r)]
  /\ UNCHANGED <<now, opened, granted, overlapped, messages, history, turn, via, stop,
                 windowVars, ran, consents>>

\* Mutant: the tool message stays in the chat's own copy.
EndRoundUnstored(c) ==
  /\ phase[c] = "dispatching"
  /\ Index(c) > Len(Pending(c))
  /\ LET m == [role |-> "tool", chat |-> c, turn |-> turn[c], results |-> results[c]]
     IN  history' = [history EXCEPT ![c] = Append(@, m)]
  /\ IF turn[c] = MaxTurns
     THEN /\ Go(c, "returned")
          /\ stop' = [stop EXCEPT ![c] = "end_turn"]
          /\ UNCHANGED turn
     ELSE /\ Go(c, "calling")
          /\ turn' = [turn EXCEPT ![c] = @ + 1]
          /\ UNCHANGED stop
  /\ UNCHANGED <<now, opened, granted, overlapped, messages, results, via, windowVars, ran, consents>>

\* Mutant: the last round is recognised one round late.
EndRoundLate(c) ==
  /\ phase[c] = "dispatching"
  /\ Index(c) > Len(Pending(c))
  /\ LET m == [role |-> "tool", chat |-> c, turn |-> turn[c], results |-> results[c]]
     IN  /\ history' = [history EXCEPT ![c] = Append(@, m)]
         /\ Record(c, <<m>>)
  /\ IF turn[c] > MaxTurns
     THEN /\ Go(c, "returned")
          /\ stop' = [stop EXCEPT ![c] = "end_turn"]
          /\ UNCHANGED turn
     ELSE /\ Go(c, "calling")
          /\ turn' = [turn EXCEPT ![c] = @ + 1]
          /\ UNCHANGED stop
  /\ UNCHANGED <<now, opened, granted, overlapped, results, via, windowVars, ran, consents>>

\* Every use has its result: they are stored as one message, and the provider
\* is called again unless this was the last round, when the response is empty
\* and carries the provider's stop reason (tool_use is read as end_turn).
EndRound(c) ==
  /\ phase[c] = "dispatching"
  /\ Index(c) > Len(Pending(c))
  /\ LET m == [role |-> "tool", chat |-> c, turn |-> turn[c], results |-> results[c]]
     IN  /\ history' = [history EXCEPT ![c] = Append(@, m)]
         /\ Record(c, <<m>>)
  /\ IF turn[c] = MaxTurns
     THEN /\ Go(c, "returned")
          /\ stop' = [stop EXCEPT ![c] = "end_turn"]
          /\ UNCHANGED turn
     ELSE /\ Go(c, "calling")
          /\ turn' = [turn EXCEPT ![c] = @ + 1]
          /\ UNCHANGED stop
  /\ UNCHANGED <<now, opened, granted, overlapped, results, via, windowVars, ran, consents>>

\* Each await where the future can be dropped.  A file read is no await.
HangUp(c) ==
  /\ c \in Impatient
  /\ \/ phase[c] \in {"calling", "recording", "asking"}
     \/ phase[c] = "running" /\ Tool(c) # "fs_read"
  /\ Go(c, "hungup")
  /\ UNCHANGED <<now, opened, granted, overlapped, messages, history, turn, results, via,
                 stop, windowVars, ran, consents>>

-----------------------------------------------------------------------------
(* Trust windows                                                           *)

\* The session is looked up before the user is bothered.
AskWindow(r) ==
  /\ asked[r] = NotAsked
  /\ \E s \in opened, tools \in SUBSET Names, secs \in Durations :
       asked' = [asked EXCEPT ![r] =
         [step |-> "asking", session |-> s, tools |-> tools, secs |-> secs]]
  /\ UNCHANGED <<now, opened, granted, messages, chatVars, windows, grants, ran, consents>>

\* The dialog of request r is answered with yes.
SayYes(r) ==
  grants' = grants \cup {[session |-> asked[r].session, tools |-> asked[r].tools,
                          secs |-> asked[r].secs, at |-> now]}

\* The time starts when the user says yes, and is capped.
GrantWindow(r) ==
  /\ asked[r].step = "asking"
  /\ SayYes(r)
  /\ windows' = windows \cup
       {[session |-> asked[r].session, tools |-> asked[r].tools,
         expires |-> now + Min({asked[r].secs, MaxDuration})]}
  /\ asked' = [asked EXCEPT ![r] = [step |-> "closed"]]
  /\ UNCHANGED <<now, opened, granted, messages, chatVars, ran, consents>>

\* The user says no, or the client is gone before the answer.
NoWindow(r) ==
  /\ asked[r].step = "asking"
  /\ asked' = [asked EXCEPT ![r] = [step |-> "closed"]]
  /\ UNCHANGED <<now, opened, granted, messages, chatVars, windows, grants, ran, consents>>

-----------------------------------------------------------------------------
\* Every request has been answered: the launcher idles.
Quiescent ==
  /\ \A c \in Chats : phase[c] # "idle" /\ ~InFlight(c)
  /\ \A r \in Requests : asked[r].step # "asking"
  /\ UNCHANGED vars

\* What the launcher does by itself once a chat is under way.
Work(c) ==
  \/ Snapshot(c)
  \/ ProviderReplies(c)
  \/ ProviderFails(c)
  \/ Recorded(c)
  \/ Reject(c)
  \/ RunAuto(c)
  \/ RunTrusted(c)
  \/ Ask(c)
  \/ EndRound(c)

Next ==
  \/ \E s \in Sessions : OpenSession(s)
  \/ Tick
  \/ \E c \in Chats : \/ Start(c) \/ Refuse(c) \/ Work(c) \/ ToolEnds(c)
                     \/ Approve(c) \/ Deny(c) \/ HangUp(c)
  \/ \E r \in Requests : AskWindow(r) \/ GrantWindow(r) \/ NoWindow(r)
  \/ Quiescent

Spec == Init /\ [][Next]_vars

\* The runtime polls a ready task and the provider call has a timeout of its
\* own.  Nobody makes the user answer, and nothing makes a tool's call come back:
\* the worker's request is written, and a file is read, under no timeout.
Fairness == \A c \in Chats : WF_vars(Work(c))

FairSpec == Spec /\ Fairness

-----------------------------------------------------------------------------
(* Properties                                                              *)

\* A tool the session's scopes do not cover never runs; a mutating one runs
\* outside plan-only mode, on a yes the user gave to that very use, or on a yes
\* to a window of that session that names the tool, within the time the user
\* was told and the hour's cap from that yes.
RunsAreApproved ==
  \A e \in ran :
    /\ Registry[e.tool].scope \in granted[SessionOf[e.chat]]
    /\ Mutates(e.tool) =>
         /\ e.chat \notin PlanOnly
         /\ \/ e.via = "dialog" /\ <<e.chat, e.turn, e.index>> \in consents
            \/ /\ e.via = "trust_window"
               /\ \E g \in grants : /\ g.session = SessionOf[e.chat]
                                    /\ e.tool \in g.tools
                                    /\ e.at - g.at < Min({g.secs, MaxDuration})

\* The messages of q that chat c wrote, in their order.
Own(q, c) ==
  LET own[i \in 0..Len(q)] ==
        IF i = 0 THEN <<>>
        ELSE IF q[i].chat = c THEN Append(own[i - 1], q[i])
        ELSE own[i - 1]
  IN  own[Len(q)]

\* Whatever chats share the session, what a chat told the provider about
\* itself is what the session's transcript says of it.
NothingLost ==
  \A c \in Chats :
    phase[c] \notin {"idle", "refused", "started"} =>
      Own(messages[SessionOf[c]], c) = Own(history[c], c)

\* The session has seen a client hang up or two chats at a time.
Contended(s) ==
  \/ s \in overlapped
  \/ \E c \in Chats : SessionOf[c] = s /\ phase[c] = "hungup"

\* Each tool use of the model's is answered by the user's next message, result
\* for use.  Tool uses the client put into the conversation are its own affair.
Paired(q) ==
  \A i \in DOMAIN q : q[i].role = "assistant" /\ q[i].turn # 0 /\ q[i].uses # <<>> =>
    /\ i + 1 \in DOMAIN q
    /\ q[i + 1].role = "user" /\ "results" \in DOMAIN q[i + 1]
    /\ q[i + 1].chat = q[i].chat /\ q[i + 1].turn = q[i].turn
    /\ Len(q[i + 1].results) = Len(q[i].uses)

\* The provider is given the whole of the session, with an answer to every
\* tool use the model made, as long as the session's chats came one at a time
\* and none was abandoned, whatever messages the clients sent.
ConversationComplete ==
  \A c \in Chats :
    phase[c] = "calling" /\ ~Contended(SessionOf[c]) =>
      history[c] = messages[SessionOf[c]] /\ Paired(Sent(c))

\* The store only ever extends a transcript.
TranscriptGrows ==
  [][\A s \in Sessions : IsPrefix(messages[s], messages'[s])]_vars

\* A chat that is under way comes to an end, or waits for ever for the user or
\* for the call of a tool.
ChatEnds ==
  \A c \in Chats :
    [](InFlight(c) => \/ <>(~InFlight(c))
                      \/ <>[](phase[c] = "asking")
                      \/ <>[](phase[c] = "running"))
=============================================================================
