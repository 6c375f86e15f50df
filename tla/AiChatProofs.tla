----------------------------- MODULE AiChatProofs -----------------------------
(***************************************************************************)
(* Theorems about the chats of the launcher, for every set of sessions,    *)
(* chats and trust windows, every number of rounds and every clock.        *)
(***************************************************************************)
EXTENDS AiChat, SumTheorems, SequenceTheorems, TLAPS

USE ChatsAssumption

-----------------------------------------------------------------------------
(* What the operators of the model return                                  *)

\* The least of two numbers.
LEMMA MinOfTwo ==
  ASSUME NEW a \in Nat, NEW b \in Nat
  PROVE  Min({a, b}) = IF a <= b THEN a ELSE b
BY DEF Min

\* How a chat's own messages are collected, up to the i-th message.
Collected(q, c, own, n) ==
  own = [i \in 0..n |->
           IF i = 0 THEN <<>>
           ELSE IF q[i].chat = c THEN Append(own[i - 1], q[i])
           ELSE own[i - 1]]

\* The collection exists for every length, by the least length that has none.
LEMMA CollectionExists ==
  ASSUME NEW q, NEW c, NEW n \in Nat
  PROVE  \E own : Collected(q, c, own, n)
<1> DEFINE T == {k \in Nat : ~\E own : Collected(q, c, own, k)}
<1>1. SUFFICES ASSUME T # {}
               PROVE  FALSE
  OBVIOUS
<1>2. PICK k \in T : \A m \in T : k <= m
  BY <1>1, LeastNatural
<1>3. k # 0
  <2>1. Collected(q, c, [i \in 0..0 |-> <<>>], 0)
    BY DEF Collected
  <2>2. QED
    BY <1>2, <2>1
<1>4. k - 1 \in Nat /\ k \in Nat /\ k - 1 \notin T
  BY <1>2, <1>3
<1>5. PICK own : Collected(q, c, own, k - 1)
  BY <1>4
<1> DEFINE more == [i \in 0..k |->
                      IF i = k
                      THEN IF q[k].chat = c THEN Append(own[k - 1], q[k]) ELSE own[k - 1]
                      ELSE own[i]]
<1>6. Collected(q, c, more, k)
  <2>1. ASSUME NEW i \in 0..k
        PROVE  more[i] = IF i = 0 THEN <<>>
                         ELSE IF q[i].chat = c THEN Append(more[i - 1], q[i])
                         ELSE more[i - 1]
    <3>1. CASE i = k
      <4>1. more[k - 1] = own[k - 1] /\ i # 0
        BY <1>3, <1>4, <3>1
      <4>2. QED
        BY <1>4, <3>1, <4>1
    <3>2. CASE i # k
      <4>1. i \in 0..(k - 1) /\ more[i] = own[i]
        BY <1>4, <3>2
      <4>2. i # 0 => i - 1 \in 0..k /\ i - 1 # k /\ more[i - 1] = own[i - 1]
        BY <1>4, <4>1
      <4>3. own[i] = IF i = 0 THEN <<>>
                     ELSE IF q[i].chat = c THEN Append(own[i - 1], q[i])
                     ELSE own[i - 1]
        BY <1>5, <4>1 DEF Collected
      <4>4. QED
        BY <4>1, <4>2, <4>3
    <3>3. QED
      BY <3>1, <3>2
  <2>2. QED
    BY <2>1 DEF Collected
<1>7. QED
  BY <1>2, <1>6

\* Own collects the whole of q.
LEMMA OwnIsCollected ==
  ASSUME NEW q, NEW c, Len(q) \in Nat
  PROVE  \E own : Collected(q, c, own, Len(q)) /\ Own(q, c) = own[Len(q)]
<1> DEFINE own == CHOOSE own : Collected(q, c, own, Len(q))
<1>1. Collected(q, c, own, Len(q))
  BY CollectionExists
<1>2. Own(q, c) = own[Len(q)]
  BY DEF Own, Collected
<1>3. QED
  BY <1>1, <1>2

\* Two collections that see the same messages are the same.
LEMMA CollectionsAgree ==
  ASSUME NEW q, NEW p, NEW c, NEW n \in Nat, NEW k \in 0..n, NEW own, NEW more,
         Collected(q, c, own, k), Collected(p, c, more, n),
         \A i \in 1..k : q[i] = p[i]
  PROVE  own[k] = more[k]
<1> DEFINE T == {i \in 0..k : own[i] # more[i]}
<1>1. SUFFICES ASSUME T # {}
               PROVE  FALSE
  OBVIOUS
<1>a. T \in SUBSET Nat
  OBVIOUS
<1>2. PICK i \in T : \A m \in T : i <= m
  BY <1>1, <1>a, LeastNatural
<1>b. i \in 0..k /\ i \in 0..n
  OBVIOUS
<1>3. /\ own[i] = IF i = 0 THEN <<>>
                  ELSE IF q[i].chat = c THEN Append(own[i - 1], q[i])
                  ELSE own[i - 1]
      /\ more[i] = IF i = 0 THEN <<>>
                   ELSE IF p[i].chat = c THEN Append(more[i - 1], p[i])
                   ELSE more[i - 1]
  BY <1>b DEF Collected
<1>4. i # 0 => i - 1 \in 0..k /\ i - 1 \notin T /\ i \in 1..k
  BY <1>2
<1>5. own[i] = more[i]
  BY <1>3, <1>4
<1>6. QED
  BY <1>2, <1>5

\* A chat's own messages, as its transcript is extended.
LEMMA OwnProperties ==
  ASSUME NEW S, NEW q \in Seq(S), NEW m \in S, NEW c
  PROVE  Own(Append(q, m), c) = IF m.chat = c THEN Append(Own(q, c), m) ELSE Own(q, c)
<1> DEFINE p == Append(q, m)
           n == Len(q)
<1>1. /\ n \in Nat /\ Len(p) = n + 1
      /\ \A i \in 1..n : p[i] = q[i]
      /\ p[n + 1] = m
  BY AppendProperties
<1> HIDE DEF p
<1>2. PICK own : Collected(q, c, own, n) /\ Own(q, c) = own[n]
  BY <1>1, OwnIsCollected
<1>3. PICK more : Collected(p, c, more, n + 1) /\ Own(p, c) = more[n + 1]
  BY <1>1, OwnIsCollected
<1>4. own[n] = more[n]
  BY <1>1, <1>2, <1>3, CollectionsAgree
<1>5. more[n + 1] = IF p[n + 1].chat = c THEN Append(more[n], p[n + 1]) ELSE more[n]
  <2>1. n + 1 \in 0..(n + 1) /\ n + 1 # 0 /\ (n + 1) - 1 = n
    BY <1>1
  <2>2. QED
    BY <1>3, <2>1 DEF Collected
<1>6. QED
  BY <1>1, <1>2, <1>3, <1>4, <1>5 DEF p

\* The messages of other chats leave a chat's own alone.
LEMMA OwnSkips ==
  ASSUME NEW S, NEW q \in Seq(S), NEW said \in Seq(S), NEW c,
         \A i \in 1..Len(said) : said[i].chat # c
  PROVE  Own(q \o said, c) = Own(q, c)
<1> DEFINE p == q \o said
           n == Len(q)
           k == Len(p)
<1>1. /\ n \in Nat /\ k \in Nat /\ n <= k
      /\ \A i \in 1..n : p[i] = q[i]
      /\ \A i \in (n + 1)..k : p[i].chat # c
  <2>1. /\ n \in Nat /\ Len(said) \in Nat /\ k = n + Len(said)
        /\ \A i \in 1..k : p[i] = IF i <= n THEN q[i] ELSE said[i - n]
    BY ConcatProperties, LenProperties
  <2>2. ASSUME NEW i \in (n + 1)..k
        PROVE  p[i].chat # c
    <3>1. i \in 1..k /\ ~(i <= n) /\ i - n \in 1..Len(said)
      BY <2>1
    <3>2. QED
      BY <2>1, <3>1
  <2>3. QED
    BY <2>1, <2>2
<1> HIDE DEF p, k
<1>2. PICK own : Collected(q, c, own, n) /\ Own(q, c) = own[n]
  BY <1>1, OwnIsCollected
<1>3. PICK more : Collected(p, c, more, k) /\ Own(p, c) = more[k]
  BY <1>1, OwnIsCollected DEF k
<1>4. own[n] = more[n]
  BY <1>1, <1>2, <1>3, CollectionsAgree
<1> DEFINE T == {i \in n..k : more[i] # more[n]}
<1>5. SUFFICES ASSUME T # {}
               PROVE  FALSE
  BY <1>1, <1>2, <1>3, <1>4 DEF p
<1>a. T \in SUBSET Nat
  BY <1>1
<1>6. PICK i \in T : \A m \in T : i <= m
  BY <1>5, <1>a, LeastNatural
<1>7. i # n /\ i \in (n + 1)..k /\ i \in 0..k /\ i # 0
  BY <1>1
<1>8. more[i] = more[i - 1]
  BY <1>1, <1>3, <1>7 DEF Collected
<1>9. i - 1 \in n..k /\ i - 1 \notin T
  BY <1>1, <1>6, <1>7
<1>10. QED
  BY <1>8, <1>9

-----------------------------------------------------------------------------
(* The inductive invariant, in layers                                      *)

\* The kinds of message.
Prompts == [role : Roles, chat : Chats, turn : {0}, uses : Uses]
Replies == [role : {"assistant"}, chat : Chats, turn : 1..MaxTurns, uses : Uses]
Answers == [role : {"tool"}, chat : Chats, turn : 1..MaxTurns, results : Seq(Result)]

\* The parts of the type invariant that are sets of records.
ToolScopes == {Registry[t].scope : t \in DOMAIN Registry}
Closed == [step : {"idle", "closed"}]
Opened == [step : {"asking"}, session : Sessions, tools : SUBSET Names, secs : Durations]
Run    == [chat : Chats, turn : 1..MaxTurns, index : 1..MaxUses,
           tool : Names, via : Via, at : 0..MaxTime]
Grant  == [session : Sessions, tools : SUBSET Names, secs : Durations, at : 0..MaxTime]

\* The rounds of the loop, and the part of one that follows the provider's reply.
InLoop(c)  == phase[c] \in {"calling", "recording", "dispatching", "asking", "running"}
InRound(c) == phase[c] \in {"recording", "dispatching", "asking", "running"}

\* Where a chat is in its loop tells what it holds: the reply of this round as
\* its last message, a result for every use before the current one, a use that it
\* may make when it asks for it.
Loop(c) ==
  /\ phase[c] \notin {"idle", "refused"} => SessionOf[c] \in opened
  /\ InLoop(c) => turn[c] \in 1..MaxTurns
  /\ InRound(c) =>
       /\ history[c] # <<>>
       /\ Last(history[c]) \in Replies
       /\ Last(history[c]).chat = c
       /\ Last(history[c]).turn = turn[c]
  /\ phase[c] \in {"dispatching", "asking", "running"} => Len(results[c]) <= Len(Pending(c))
  /\ phase[c] \in {"asking", "running"} => Index(c) <= Len(Pending(c))
  /\ phase[c] = "asking" =>
       /\ Tool(c) \in DOMAIN Registry
       /\ Registry[Tool(c)].scope \in granted[SessionOf[c]]
       /\ c \notin PlanOnly
  /\ phase[c] = "running" => via[c] \in Via

Loops == \A c \in Chats : Loop(c)

\* A window is open because the user said yes to it, and for no longer.
Windows ==
  \A w \in windows : \E g \in grants :
    /\ g.session = w.session /\ g.tools = w.tools
    /\ w.expires = g.at + Min({g.secs, MaxDuration})

\* What ran, ran in a session that exists, and its scopes do not change.
Runs == \A e \in ran : SessionOf[e.chat] \in opened

Approvals == Windows /\ Runs /\ RunsAreApproved

HungUp(s) == \E c \in Chats : SessionOf[c] = s /\ phase[c] = "hungup"

\* Message i of session s is answered by the next one, result for use.
AnsweredAt(s, i) ==
  /\ i + 1 \in DOMAIN messages[s]
  /\ messages[s][i + 1] \in Answers
  /\ messages[s][i + 1].chat = messages[s][i].chat
  /\ messages[s][i + 1].turn = messages[s][i].turn
  /\ Len(messages[s][i + 1].results) = Len(messages[s][i].uses)

\* Message i of session s is the last, and what its chat is at.
OpenAt(s, i) ==
  LET d == messages[s][i].chat
  IN  /\ i = Len(messages[s])
      /\ SessionOf[d] = s /\ InRound(d) /\ Last(history[d]) = messages[s][i]

\* As long as the chats of a session come one at a time, at most one of them is
\* under way and its copy is the transcript; and as long as none is abandoned
\* either, every tool use of the model's is answered or its chat is at it.
Alone(s) ==
  s \notin overlapped =>
    \A c, d \in Chats :
      SessionOf[c] = s /\ SessionOf[d] = s /\ InFlight(c) /\ InFlight(d) => c = d
Heard(c) ==
  InLoop(c) /\ SessionOf[c] \notin overlapped => history[c] = messages[SessionOf[c]]
Asking(s, i) == messages[s][i] \in Replies /\ messages[s][i].uses # <<>>
Attended(s) ==
  s \notin overlapped /\ ~HungUp(s) =>
    \A i \in DOMAIN messages[s] : Asking(s, i) => AnsweredAt(s, i) \/ OpenAt(s, i)

Conversation ==
  /\ \A s \in Sessions : Alone(s)
  /\ \A c \in Chats : Heard(c)
  /\ \A s \in Sessions : Attended(s)

-----------------------------------------------------------------------------
(* Types                                                                   *)

\* The type invariant, with names for its sets of records.
Types ==
  /\ now \in 0..MaxTime
  /\ opened \subseteq Sessions
  /\ granted \in [Sessions -> SUBSET ToolScopes]
  /\ messages \in [Sessions -> Seq(Message)]
  /\ phase \in [Chats -> Phase]
  /\ history \in [Chats -> Seq(Message)]
  /\ turn \in [Chats -> 0..MaxTurns]
  /\ results \in [Chats -> Seq(Result)]
  /\ via \in [Chats -> Via \cup {"none"}]
  /\ stop \in [Chats -> {"none", "end_turn", "tool_use_round_limit"}]
  /\ overlapped \subseteq Sessions
  /\ windows \subseteq Window
  /\ asked \in [Requests -> Closed \cup Opened]
  /\ ran \subseteq Run
  /\ consents \subseteq (Chats \X (1..MaxTurns) \X (1..MaxUses))
  /\ grants \subseteq Grant

\* The names change nothing.
LEMMA TypesAreTypeOK == Types <=> TypeOK
BY Zenon DEF Types, TypeOK, ToolScopes, Closed, Opened, Run, Grant

\* A message is of one of the three kinds.
LEMMA MessageKinds == Message = Prompts \cup Replies \cup Answers
BY Zenon DEF Message, Prompts, Replies, Answers

\* The uses of a reply are a sequence of tool names.
LEMMA UsesProperties ==
  ASSUME NEW uses \in Uses
  PROVE  uses \in Seq(Names) /\ Len(uses) \in 0..MaxUses
<1>1. PICK n \in 0..MaxUses : uses \in [1..n -> Names]
  BY DEF Uses, SeqOf
<1>2. n \in Nat
  OBVIOUS
<1>3. uses \in Seq(Names) /\ Len(uses) = n
  BY <1>1, <1>2, SeqDef
<1>4. QED
  BY <1>3

\* The uses that a round is about, and the one it is at.
LEMMA RoundProperties ==
  ASSUME Types, NEW c \in Chats, Loop(c), InRound(c)
  PROVE  /\ Pending(c) \in Uses /\ Pending(c) \in Seq(Names)
         /\ Len(Pending(c)) \in 0..MaxUses
         /\ Len(results[c]) \in Nat /\ Index(c) = Len(results[c]) + 1
         /\ Index(c) <= Len(Pending(c)) => Tool(c) \in Names /\ Index(c) \in 1..MaxUses
<1>1. Last(history[c]) \in Replies
  BY DEF Loop
<1>2. Pending(c) \in Uses
  BY <1>1 DEF Replies, Pending
<1>3. Pending(c) \in Seq(Names) /\ Len(Pending(c)) \in 0..MaxUses
  BY <1>2, UsesProperties
<1>4. Len(results[c]) \in Nat /\ Index(c) = Len(results[c]) + 1
  BY DEF Types, Index
<1>5. ASSUME Index(c) <= Len(Pending(c))
      PROVE  Tool(c) \in Names /\ Index(c) \in 1..MaxUses
  <2>1. Index(c) \in 1..Len(Pending(c)) /\ Index(c) \in 1..MaxUses
    BY <1>3, <1>4, <1>5
  <2>2. QED
    BY <1>3, <2>1, ElementOfSeq DEF Tool
<1>6. QED
  BY <1>2, <1>3, <1>4, <1>5

\* What joins a transcript is added at its end.
Grows(c, said) ==
  /\ messages'[SessionOf[c]] = messages[SessionOf[c]] \o said
  /\ \A s \in Sessions \ {SessionOf[c]} : messages'[s] = messages[s]

\* Messages join the transcript of their session.
LEMMA RecordProperties ==
  ASSUME Types, NEW c \in Chats, NEW said \in Seq(Message), Record(c, said)
  PROVE  messages' \in [Sessions -> Seq(Message)] /\ Grows(c, said)
<1>1. SessionOf[c] \in Sessions /\ messages[SessionOf[c]] \in Seq(Message)
  BY DEF Types
<1>2. messages[SessionOf[c]] \o said \in Seq(Message)
  BY <1>1, ConcatProperties
<1>3. QED
  BY <1>1, <1>2 DEF Record, Types, Grows

\* One message.
LEMMA OneMessage ==
  ASSUME NEW m \in Message
  PROVE  /\ <<m>> \in Seq(Message) /\ Len(<<m>>) = 1 /\ <<m>>[1] = m
         /\ \A q \in Seq(Message) : q \o <<m>> = Append(q, m)
<1>1. <<m>> \in Seq(Message) /\ Len(<<m>>) = 1 /\ <<m>>[1] = m
  OBVIOUS
<1>2. ASSUME NEW q \in Seq(Message)
      PROVE  q \o <<m>> = Append(q, m)
  BY AppendIsConcat
<1>3. QED
  BY <1>1, <1>2

\* What the client sent is stored as messages of its chat.
LEMMA StoredProperties ==
  ASSUME NEW c \in Chats, NEW body \in Bodies
  PROVE  /\ Stored(c, body) \in Seq(Prompts) /\ Stored(c, body) \in Seq(Message)
         /\ \A i \in 1..Len(Stored(c, body)) : Stored(c, body)[i].chat = c
<1> DEFINE said == Stored(c, body)
<1>1. body \in Seq([role : Roles, uses : Uses])
  OBVIOUS
<1>2. Len(body) \in Nat /\ DOMAIN body = 1..Len(body)
  BY <1>1, LenProperties
<1>3. ASSUME NEW i \in 1..Len(body)
      PROVE  said[i] \in Prompts /\ said[i].chat = c
  <2>1. body[i] \in [role : Roles, uses : Uses]
    BY <1>1, <1>3, ElementOfSeq
  <2>2. said[i] = [role |-> body[i].role, chat |-> c, turn |-> 0, uses |-> body[i].uses]
    BY <1>2 DEF Stored
  <2>3. QED
    BY <2>1, <2>2 DEF Prompts
<1>4. said = [i \in 1..Len(body) |-> said[i]]
  BY <1>2 DEF Stored
<1> HIDE DEF said
<1>5. said \in [1..Len(body) -> Prompts]
  BY <1>3, <1>4
<1>6. said \in Seq(Prompts) /\ Len(said) = Len(body)
  BY <1>2, <1>5, SeqDef
<1>7. said \in Seq(Message)
  BY <1>6, MessageKinds, SeqMonotonic
<1>8. QED
  BY <1>3, <1>6, <1>7 DEF said

\* A chat moves on, and the others stay where they are.
LEMMA ChatMoves ==
  ASSUME Types, NEW c \in Chats, NEW to \in Phase, Go(c, to)
  PROVE  /\ phase' \in [Chats -> Phase] /\ phase'[c] = to
         /\ \A d \in Chats \ {c} : phase'[d] = phase[d]
BY DEF Go, Types

\* A tool is handed over for execution.
LEMMA ExecuteTypes ==
  ASSUME Types, NEW c \in Chats, Loop(c), phase[c] \in {"dispatching", "asking"},
         Index(c) <= Len(Pending(c)), NEW how \in Via, Execute(c, how)
  PROVE  /\ phase' \in [Chats -> Phase] /\ via' \in [Chats -> Via \cup {"none"}]
         /\ ran' \subseteq Run /\ results' \in [Chats -> Seq(Result)]
<1>1. InRound(c) /\ InLoop(c)
  BY DEF InRound, InLoop
<1>2. Tool(c) \in Names /\ Index(c) \in 1..MaxUses /\ turn[c] \in 1..MaxTurns
  BY <1>1, RoundProperties DEF Loop
<1>3. [chat |-> c, turn |-> turn[c], index |-> Index(c), tool |-> Tool(c), via |-> how,
       at |-> now] \in Run
  BY <1>2 DEF Run, Types
<1>4. ran' \subseteq Run
  BY <1>3 DEF Execute, Types
<1>5. "running" \in Phase
  BY DEF Phase
<1>6. phase' \in [Chats -> Phase] /\ via' \in [Chats -> Via \cup {"none"}]
  BY <1>5, ChatMoves DEF Execute, Types
<1>7. QED
  BY <1>4, <1>6 DEF Execute, Types

\* A failure goes back to the model.
LEMMA ReportTypes ==
  ASSUME Types, NEW c \in Chats, Report(c)
  PROVE  /\ phase' \in [Chats -> Phase] /\ results' \in [Chats -> Seq(Result)]
         /\ UNCHANGED <<via, ran>>
<1>1. "dispatching" \in Phase /\ "failed" \in Result
  BY DEF Phase, Result
<1>2. Append(results[c], "failed") \in Seq(Result)
  BY <1>1, AppendProperties DEF Types
<1>3. QED
  BY <1>1, <1>2, ChatMoves DEF Report, Types

\* A message that joins the chat's own copy too.
LEMMA SaidProperties ==
  ASSUME Types, NEW c \in Chats, NEW m \in Message,
         history' = [history EXCEPT ![c] = Append(@, m)]
  PROVE  /\ history' \in [Chats -> Seq(Message)]
         /\ history'[c] = Append(history[c], m)
         /\ history'[c] # <<>> /\ Last(history'[c]) = m
         /\ \A d \in Chats \ {c} : history'[d] = history[d]
<1>1. history[c] \in Seq(Message) /\ Append(history[c], m) \in Seq(Message)
  BY AppendProperties DEF Types
<1>2. history'[c] = Append(history[c], m)
  BY DEF Types
<1>3. Len(history'[c]) = Len(history[c]) + 1 /\ history'[c][Len(history[c]) + 1] = m
  BY <1>1, <1>2, AppendProperties
<1>4. history'[c] # <<>>
  BY <1>1, <1>2, <1>3, EmptySeq
<1>5. QED
  BY <1>1, <1>2, <1>3, <1>4 DEF Types, Last

\* What a chat says to its session is a message.
LEMMA ReplyIsMessage ==
  ASSUME Types, NEW c \in Chats, turn[c] \in 1..MaxTurns
  PROVE  /\ \A uses \in Uses :
              [role |-> "assistant", chat |-> c, turn |-> turn[c], uses |-> uses] \in Replies \cap Message
         /\ [role |-> "tool", chat |-> c, turn |-> turn[c], results |-> results[c]] \in Answers \cap Message
<1>1. results[c] \in Seq(Result)
  BY DEF Types
<1>3. ASSUME NEW uses \in Uses
      PROVE  [role |-> "assistant", chat |-> c, turn |-> turn[c], uses |-> uses] \in Replies
  BY DEF Replies
<1>4. [role |-> "tool", chat |-> c, turn |-> turn[c], results |-> results[c]] \in Answers
  BY <1>1 DEF Answers
<1>5. QED
  BY <1>3, <1>4, MessageKinds

\* The time a window ends.
LEMMA WindowOpens ==
  ASSUME Types, NEW r \in Requests, asked[r].step = "asking"
  PROVE  /\ asked[r] \in Opened
         /\ asked[r].session \in Sessions /\ asked[r].tools \in SUBSET Names
         /\ asked[r].secs \in Durations /\ asked[r].secs \in Nat
         /\ now + Min({asked[r].secs, MaxDuration}) \in 0..(MaxTime + MaxDuration)
<1>1. asked[r] \in Opened
  BY DEF Types, Closed
<1>2. /\ asked[r].session \in Sessions /\ asked[r].tools \in SUBSET Names
      /\ asked[r].secs \in Durations /\ asked[r].secs \in Nat
  BY <1>1 DEF Opened
<1>3. Min({asked[r].secs, MaxDuration}) \in 0..MaxDuration
  BY <1>2, MinOfTwo
<1>4. now + Min({asked[r].secs, MaxDuration}) \in 0..(MaxTime + MaxDuration)
  BY <1>3 DEF Types
<1>5. QED
  BY <1>1, <1>2, <1>4

\* A step keeps the types.
LEMMA TypesStep == Types /\ Loops /\ [Next]_vars => Types'
<1> SUFFICES ASSUME Types, Loops, [Next]_vars
             PROVE  Types'
  OBVIOUS
<1>a. \A to \in {"started", "calling", "recording", "dispatching", "asking", "running",
                 "returned", "refused", "failed", "hungup"} : to \in Phase
  BY DEF Phase
<1>b. \A how \in {"auto", "dialog", "trust_window"} : how \in Via
  BY DEF Via
<1>1. ASSUME NEW s \in Sessions, OpenSession(s)
      PROVE  Types'
  <2>1. granted' \in [Sessions -> SUBSET ToolScopes]
    BY <1>1 DEF OpenSession, Types, ToolScopes
  <2>2. QED
    BY <1>1, <2>1 DEF OpenSession, Types, chatVars, windowVars
<1>2. CASE Tick
  <2>1. now' \in 0..MaxTime
    BY <1>2 DEF Tick, Types
  <2>2. QED
    BY <1>2, <2>1 DEF Tick, Types, chatVars, windowVars
<1>3. ASSUME NEW c \in Chats, Start(c)
      PROVE  Types'
  <2>1. PICK body \in Bodies : Record(c, Stored(c, body))
    BY <1>3 DEF Start
  <2>2. messages' \in [Sessions -> Seq(Message)]
    BY <2>1, StoredProperties, RecordProperties
  <2>3. phase' \in [Chats -> Phase]
    BY <1>3, <1>a, ChatMoves DEF Start
  <2>4. overlapped' \subseteq Sessions
    BY <1>3 DEF Start, Types
  <2>5. QED
    BY <1>3, <2>2, <2>3, <2>4 DEF Start, Types, windowVars
<1>4. ASSUME NEW c \in Chats, Refuse(c) \/ ProviderFails(c) \/ Ask(c) \/ HangUp(c)
      PROVE  Types'
  <2>1. phase' \in [Chats -> Phase]
    BY <1>4, <1>a, ChatMoves DEF Refuse, ProviderFails, Ask, HangUp
  <2>2. QED
    BY <1>4, <2>1 DEF Refuse, ProviderFails, Ask, HangUp, Types, windowVars
<1>5. ASSUME NEW c \in Chats, Snapshot(c)
      PROVE  Types'
  <2>1. phase' \in [Chats -> Phase]
    BY <1>5, <1>a, ChatMoves DEF Snapshot
  <2>2. history' \in [Chats -> Seq(Message)] /\ turn' \in [Chats -> 0..MaxTurns]
    BY <1>5 DEF Snapshot, Types
  <2>3. QED
    BY <1>5, <2>1, <2>2 DEF Snapshot, Types, windowVars
<1>6. ASSUME NEW c \in Chats, ProviderReplies(c)
      PROVE  Types'
  <2>1. PICK uses \in Uses :
          LET m == [role |-> "assistant", chat |-> c, turn |-> turn[c], uses |-> uses]
          IN  history' = [history EXCEPT ![c] = Append(@, m)] /\ Record(c, <<m>>)
    BY <1>6 DEF ProviderReplies
  <2>2. [role |-> "assistant", chat |-> c, turn |-> turn[c], uses |-> uses] \in Message
    BY <1>6, ReplyIsMessage DEF Loops, Loop, InLoop, ProviderReplies
  <2>3. messages' \in [Sessions -> Seq(Message)] /\ history' \in [Chats -> Seq(Message)]
    BY <2>1, <2>2, OneMessage, RecordProperties, SaidProperties
  <2>4. phase' \in [Chats -> Phase]
    BY <1>6, <1>a, ChatMoves DEF ProviderReplies
  <2>5. QED
    BY <1>6, <2>3, <2>4 DEF ProviderReplies, Types, windowVars
<1>7. ASSUME NEW c \in Chats, Recorded(c)
      PROVE  Types'
  <2>1. phase' \in [Chats -> Phase]
    BY <1>7, <1>a, ChatMoves DEF Recorded
  <2>2. results' \in [Chats -> Seq(Result)]
    <3>1. <<>> \in Seq(Result)
      BY EmptySeq
    <3>2. results' = results \/ results' = [results EXCEPT ![c] = <<>>]
      BY <1>7 DEF Recorded
    <3>3. QED
      BY <3>1, <3>2 DEF Types
  <2>3. stop' \in [Chats -> {"none", "end_turn", "tool_use_round_limit"}]
    BY <1>7 DEF Recorded, Types
  <2>4. QED
    BY <1>7, <2>1, <2>2, <2>3 DEF Recorded, Types, windowVars
<1>8. ASSUME NEW c \in Chats, Reject(c)
      PROVE  Types'
  BY <1>8, ReportTypes DEF Reject, Types, windowVars
<1>9. ASSUME NEW c \in Chats, RunAuto(c) \/ RunTrusted(c)
      PROVE  Types'
  <2>1. \E how \in Via : Execute(c, how)
    BY <1>9, <1>b DEF RunAuto, RunTrusted
  <2>2. phase[c] \in {"dispatching", "asking"} /\ Index(c) <= Len(Pending(c)) /\ Loop(c)
    BY <1>9 DEF RunAuto, RunTrusted, Allowed, Loops
  <2>3. /\ phase' \in [Chats -> Phase] /\ via' \in [Chats -> Via \cup {"none"}]
        /\ ran' \subseteq Run /\ results' \in [Chats -> Seq(Result)]
    BY <2>1, <2>2, ExecuteTypes
  <2>4. QED
    BY <1>9, <2>3 DEF RunAuto, RunTrusted, Types, windowVars
<1>10. ASSUME NEW c \in Chats, Approve(c)
       PROVE  Types'
  <2>1. /\ phase[c] \in {"dispatching", "asking"} /\ Index(c) <= Len(Pending(c)) /\ Loop(c)
        /\ InRound(c) /\ InLoop(c)
    BY <1>10 DEF Approve, Loops, Loop, InRound, InLoop
  <2>2. /\ phase' \in [Chats -> Phase] /\ via' \in [Chats -> Via \cup {"none"}]
        /\ ran' \subseteq Run /\ results' \in [Chats -> Seq(Result)]
    BY <1>10, <1>b, <2>1, ExecuteTypes DEF Approve
  <2>3. turn[c] \in 1..MaxTurns /\ Index(c) \in 1..MaxUses
    BY <2>1, RoundProperties DEF Loop
  <2>4. consents' \subseteq (Chats \X (1..MaxTurns) \X (1..MaxUses))
    BY <1>10, <2>3 DEF Approve, Types
  <2>5. QED
    BY <1>10, <2>2, <2>4 DEF Approve, Types, windowVars
<1>11. ASSUME NEW c \in Chats, Deny(c)
       PROVE  Types'
  BY <1>11, ReportTypes DEF Deny, Types, windowVars
<1>12. ASSUME NEW c \in Chats, ToolEnds(c)
       PROVE  Types'
  <2>1. PICK r \in {via[c], "failed"} : results' = [results EXCEPT ![c] = Append(@, r)]
    BY <1>12 DEF ToolEnds
  <2>2. r \in Result
    BY <1>12 DEF ToolEnds, Loops, Loop, Result
  <2>3. Append(results[c], r) \in Seq(Result)
    BY <2>2, AppendProperties DEF Types
  <2>4. results' \in [Chats -> Seq(Result)]
    BY <2>1, <2>3 DEF Types
  <2>5. phase' \in [Chats -> Phase]
    BY <1>12, <1>a, ChatMoves DEF ToolEnds
  <2>6. QED
    BY <1>12, <2>4, <2>5 DEF ToolEnds, Types, windowVars
<1>13. ASSUME NEW c \in Chats, EndRound(c)
       PROVE  Types'
  <2> DEFINE m == [role |-> "tool", chat |-> c, turn |-> turn[c], results |-> results[c]]
  <2>1. turn[c] \in 1..MaxTurns
    BY <1>13 DEF EndRound, Loops, Loop, InLoop
  <2>2. m \in Message
    BY <2>1, ReplyIsMessage
  <2>3. Record(c, <<m>>) /\ history' = [history EXCEPT ![c] = Append(@, m)]
    BY <1>13 DEF EndRound
  <2> HIDE DEF m
  <2>4. messages' \in [Sessions -> Seq(Message)] /\ history' \in [Chats -> Seq(Message)]
    BY <2>2, <2>3, OneMessage, RecordProperties, SaidProperties
  <2>5. phase' \in [Chats -> Phase]
    BY <1>13, <1>a, ChatMoves DEF EndRound
  <2>6. turn' \in [Chats -> 0..MaxTurns]
    <3>1. turn[c] # MaxTurns => turn[c] + 1 \in 0..MaxTurns
      BY <2>1
    <3>2. turn' = turn \/ (turn[c] # MaxTurns /\ turn' = [turn EXCEPT ![c] = @ + 1])
      BY <1>13 DEF EndRound
    <3>3. QED
      BY <3>1, <3>2 DEF Types
  <2>7. stop' \in [Chats -> {"none", "end_turn", "tool_use_round_limit"}]
    BY <1>13 DEF EndRound, Types
  <2>8. QED
    BY <1>13, <2>4, <2>5, <2>6, <2>7 DEF EndRound, Types, windowVars
<1>14. ASSUME NEW r \in Requests, AskWindow(r)
       PROVE  Types'
  <2>1. PICK x \in opened, tools \in SUBSET Names, secs \in Durations :
          asked' = [asked EXCEPT ![r] =
            [step |-> "asking", session |-> x, tools |-> tools, secs |-> secs]]
    BY <1>14 DEF AskWindow
  <2>2. [step |-> "asking", session |-> x, tools |-> tools, secs |-> secs] \in Opened
    BY DEF Opened, Types
  <2>3. asked' \in [Requests -> Closed \cup Opened]
    BY <2>1, <2>2 DEF Types
  <2>4. QED
    BY <1>14, <2>3 DEF AskWindow, Types, chatVars
<1>15. ASSUME NEW r \in Requests, GrantWindow(r)
       PROVE  Types'
  <2>1. asked[r].step = "asking"
    BY <1>15 DEF GrantWindow
  <2>2. [session |-> asked[r].session, tools |-> asked[r].tools,
         secs |-> asked[r].secs, at |-> now] \in Grant
    BY <2>1, WindowOpens DEF Grant, Types
  <2>3. [session |-> asked[r].session, tools |-> asked[r].tools,
         expires |-> now + Min({asked[r].secs, MaxDuration})] \in Window
    BY <2>1, WindowOpens DEF Window
  <2>4. grants' \subseteq Grant /\ windows' \subseteq Window
    BY <1>15, <2>2, <2>3 DEF GrantWindow, SayYes, Types
  <2>5. asked' \in [Requests -> Closed \cup Opened]
    BY <1>15 DEF GrantWindow, Types, Closed
  <2>6. QED
    BY <1>15, <2>4, <2>5 DEF GrantWindow, Types, chatVars
<1>16. ASSUME NEW r \in Requests, NoWindow(r)
       PROVE  Types'
  <2>1. asked' \in [Requests -> Closed \cup Opened]
    BY <1>16 DEF NoWindow, Types, Closed
  <2>2. QED
    BY <1>16, <2>1 DEF NoWindow, Types, chatVars
<1>17. CASE UNCHANGED vars
  BY <1>17 DEF vars, chatVars, windowVars, Types
<1>18. QED
  BY <1>1, <1>2, <1>3, <1>4, <1>5, <1>6, <1>7, <1>8, <1>9, <1>10, <1>11, <1>12, <1>13,
     <1>14, <1>15, <1>16, <1>17 DEF Next, Work, Quiescent

-----------------------------------------------------------------------------
(* The loop                                                                *)

\* A chat that a step does not touch stays where it is in its loop.
LEMMA LoopStays ==
  ASSUME NEW d \in Chats, Loop(d),
         phase'[d] = phase[d], history'[d] = history[d], turn'[d] = turn[d],
         results'[d] = results[d], via'[d] = via[d],
         opened \subseteq opened',
         SessionOf[d] \in opened => granted'[SessionOf[d]] = granted[SessionOf[d]]
  PROVE  Loop(d)'
BY DEF Loop, InLoop, InRound, Pending, Index, Tool

\* What a chat's step does to itself and to the other chats.
ChatStep(c) ==
  \/ Start(c) \/ Refuse(c) \/ Snapshot(c) \/ ProviderReplies(c) \/ ProviderFails(c)
  \/ Recorded(c) \/ Reject(c) \/ RunAuto(c) \/ RunTrusted(c) \/ Ask(c) \/ ToolEnds(c)
  \/ EndRound(c) \/ Approve(c) \/ Deny(c) \/ HangUp(c)

\* A step of a chat touches no other chat and no session but its transcript.
LEMMA OthersStay ==
  ASSUME Types, NEW c \in Chats, ChatStep(c), NEW d \in Chats \ {c}
  PROVE  /\ phase'[d] = phase[d] /\ history'[d] = history[d] /\ turn'[d] = turn[d]
         /\ results'[d] = results[d] /\ via'[d] = via[d]
         /\ UNCHANGED <<opened, granted>>
<1>1. CASE Start(c) \/ Refuse(c) \/ Snapshot(c) \/ ProviderFails(c) \/ Ask(c) \/ HangUp(c)
  BY <1>1 DEF Start, Refuse, Snapshot, ProviderFails, Ask, HangUp, Go, Types
<1>2. CASE ProviderReplies(c)
  BY <1>2 DEF ProviderReplies, Go, Types
<1>3. CASE Recorded(c)
  BY <1>3 DEF Recorded, Go, Types
<1>4. CASE Reject(c) \/ Deny(c)
  BY <1>4 DEF Reject, Deny, Report, Go, Types
<1>5. CASE RunAuto(c) \/ RunTrusted(c) \/ Approve(c)
  BY <1>5 DEF RunAuto, RunTrusted, Approve, Execute, Go, Types
<1>6. CASE ToolEnds(c)
  BY <1>6 DEF ToolEnds, Go, Types
<1>7. CASE EndRound(c)
  BY <1>7 DEF EndRound, Go, Types
<1>8. QED
  BY <1>1, <1>2, <1>3, <1>4, <1>5, <1>6, <1>7 DEF ChatStep

\* The steps of the launcher.
LEMMA Steps ==
  [Next]_vars =>
    \/ \E s \in Sessions : OpenSession(s)
    \/ \E c \in Chats : ChatStep(c)
    \/ \E r \in Requests : AskWindow(r) \/ GrantWindow(r) \/ NoWindow(r)
    \/ Tick
    \/ UNCHANGED vars
BY DEF Next, Work, ChatStep, Quiescent

\* A chat's step moves it through its loop.
LEMMA OwnLoopStep ==
  ASSUME Types, NEW c \in Chats, Loop(c), ChatStep(c)
  PROVE  Loop(c)'
<1>a. \A to \in {"started", "calling", "recording", "dispatching", "asking", "running",
                 "returned", "refused", "failed", "hungup"} : to \in Phase
  BY DEF Phase
<1>b. InRound(c) => /\ Len(Pending(c)) \in Nat /\ Len(results[c]) \in Nat
                    /\ Index(c) = Len(results[c]) + 1
  BY RoundProperties
\* Steps that end the chat or refuse it.
<1>1. ASSUME phase'[c] \in {"refused", "failed", "hungup", "returned"},
             phase'[c] # "refused" => phase[c] \notin {"idle", "refused"},
             UNCHANGED opened
      PROVE  Loop(c)'
  BY <1>1 DEF Loop, InLoop, InRound
\* Steps that stay within a round.
<1>2. ASSUME InRound(c), phase'[c] \in {"dispatching", "asking", "running"},
             UNCHANGED <<opened, granted, history, turn>>,
             Len(results'[c]) <= Len(Pending(c)),
             phase'[c] \in {"asking", "running"} => Len(results'[c]) + 1 <= Len(Pending(c)),
             phase'[c] = "asking" => /\ results'[c] = results[c]
                                     /\ Tool(c) \in DOMAIN Registry
                                     /\ Registry[Tool(c)].scope \in granted[SessionOf[c]]
                                     /\ c \notin PlanOnly,
             phase'[c] = "running" => via'[c] \in Via
      PROVE  Loop(c)'
  BY <1>2 DEF Loop, InLoop, InRound, Pending, Index, Tool
<1>3. CASE Start(c)
  BY <1>3, <1>a, ChatMoves DEF Start, Loop, InLoop, InRound
<1>4. CASE Refuse(c) \/ ProviderFails(c) \/ HangUp(c)
  BY <1>1, <1>4, <1>a, ChatMoves DEF Refuse, ProviderFails, HangUp
<1>5. CASE Snapshot(c)
  <2>1. phase'[c] = "calling" /\ turn'[c] = 1 /\ UNCHANGED opened /\ phase[c] = "started"
    BY <1>5, <1>a, ChatMoves DEF Snapshot, Types
  <2>2. QED
    BY <2>1 DEF Loop, InLoop, InRound
<1>6. CASE ProviderReplies(c)
  <2>1. PICK uses \in Uses :
          history' = [history EXCEPT ![c] = Append(@,
            [role |-> "assistant", chat |-> c, turn |-> turn[c], uses |-> uses])]
    BY <1>6 DEF ProviderReplies
  <2> DEFINE m == [role |-> "assistant", chat |-> c, turn |-> turn[c], uses |-> uses]
  <2>2. turn[c] \in 1..MaxTurns /\ phase[c] = "calling"
    BY <1>6 DEF ProviderReplies, Loop, InLoop
  <2>3. m \in Message /\ m \in Replies /\ m.chat = c /\ m.turn = turn[c]
    BY <2>2, ReplyIsMessage
  <2>4. history'[c] # <<>> /\ Last(history'[c]) = m
    BY <2>1, <2>3, SaidProperties
  <2>5. phase'[c] = "recording" /\ UNCHANGED <<turn, opened>>
    BY <1>6, <1>a, ChatMoves DEF ProviderReplies
  <2>6. QED
    BY <2>2, <2>3, <2>4, <2>5 DEF Loop, InLoop, InRound
<1>7. CASE Recorded(c)
  <2>1. phase[c] = "recording" /\ InRound(c)
    BY <1>7 DEF Recorded, InRound
  <2>2. CASE Pending(c) = <<>>
    BY <1>1, <1>7, <1>a, <2>1, <2>2, ChatMoves DEF Recorded
  <2>3. CASE Pending(c) # <<>>
    <3>1. phase'[c] = "dispatching" /\ UNCHANGED <<opened, granted, history, turn>>
      BY <1>7, <1>a, <2>3, ChatMoves DEF Recorded
    <3>2. results'[c] = <<>>
      BY <1>7, <2>3 DEF Recorded, Types
    <3>3. Len(results'[c]) = 0
      BY <3>2, EmptySeq
    <3>4. QED
      BY <1>2, <1>b, <2>1, <3>1, <3>3
  <2>4. QED
    BY <2>2, <2>3
<1>8. CASE Reject(c) \/ Deny(c)
  <2>1. InRound(c) /\ Index(c) <= Len(Pending(c)) /\ Report(c)
    BY <1>8 DEF Reject, Deny, InRound, Loop
  <2>2. results'[c] = Append(results[c], "failed") /\ phase'[c] = "dispatching"
    BY <2>1, <1>a, ChatMoves DEF Report, Types
  <2>3. Len(results'[c]) = Len(results[c]) + 1
    BY <2>2, AppendProperties DEF Types
  <2>4. UNCHANGED <<opened, granted, history, turn>>
    BY <1>8 DEF Reject, Deny
  <2>5. QED
    BY <1>2, <1>b, <2>1, <2>2, <2>3, <2>4
<1>9. CASE RunAuto(c) \/ RunTrusted(c) \/ Approve(c)
  <2>1. InRound(c) /\ Index(c) <= Len(Pending(c)) /\ \E how \in Via : Execute(c, how)
    BY <1>9 DEF RunAuto, RunTrusted, Approve, Allowed, InRound, Loop, Via
  <2>2. phase'[c] = "running" /\ via'[c] \in Via /\ results'[c] = results[c]
    BY <2>1, <1>a, ChatMoves DEF Execute, Types
  <2>3. UNCHANGED <<opened, granted, history, turn>>
    BY <1>9 DEF RunAuto, RunTrusted, Approve
  <2>4. QED
    BY <1>2, <1>b, <2>1, <2>2, <2>3
<1>10. CASE Ask(c)
  <2>1. /\ InRound(c) /\ Index(c) <= Len(Pending(c)) /\ phase'[c] = "asking"
        /\ Tool(c) \in DOMAIN Registry
        /\ Registry[Tool(c)].scope \in granted[SessionOf[c]]
        /\ c \notin PlanOnly
    BY <1>10, <1>a, ChatMoves DEF Ask, Allowed, InRound
  <2>2. UNCHANGED <<opened, granted, history, turn, results>>
    BY <1>10 DEF Ask
  <2>3. QED
    BY <1>2, <1>b, <2>1, <2>2
<1>11. CASE ToolEnds(c)
  <2>1. InRound(c) /\ Index(c) <= Len(Pending(c)) /\ phase'[c] = "dispatching" /\ via[c] \in Via
    BY <1>11, <1>a, ChatMoves DEF ToolEnds, InRound, Loop
  <2>2. PICK r \in {via[c], "failed"} : results'[c] = Append(results[c], r)
    BY <1>11 DEF ToolEnds, Types
  <2>3. r \in Result
    BY <2>1 DEF Result
  <2>4. Len(results'[c]) = Len(results[c]) + 1
    BY <2>2, <2>3, AppendProperties DEF Types
  <2>5. UNCHANGED <<opened, granted, history, turn>>
    BY <1>11 DEF ToolEnds
  <2>6. QED
    BY <1>2, <1>b, <2>1, <2>4, <2>5
<1>12. CASE EndRound(c)
  <2>1. turn[c] \in 1..MaxTurns /\ phase[c] = "dispatching" /\ UNCHANGED opened
    BY <1>12 DEF EndRound, Loop, InLoop
  <2>2. CASE turn[c] = MaxTurns
    BY <1>1, <1>12, <1>a, <2>1, <2>2, ChatMoves DEF EndRound
  <2>3. CASE turn[c] # MaxTurns
    <3>1. phase'[c] = "calling" /\ turn'[c] = turn[c] + 1
      BY <1>12, <1>a, <2>3, ChatMoves DEF EndRound, Types
    <3>2. turn'[c] \in 1..MaxTurns
      BY <2>1, <2>3, <3>1
    <3>3. QED
      BY <2>1, <3>1, <3>2 DEF Loop, InLoop, InRound
  <2>4. QED
    BY <2>2, <2>3
<1>13. QED
  BY <1>3, <1>4, <1>5, <1>6, <1>7, <1>8, <1>9, <1>10, <1>11, <1>12 DEF ChatStep

\* A step keeps every chat's place in its loop.
LEMMA LoopsStep == Types /\ Loops /\ [Next]_vars => Loops'
<1> SUFFICES ASSUME Types, Loops, [Next]_vars
             PROVE  Loops'
  OBVIOUS
<1>1. ASSUME NEW c \in Chats, ChatStep(c)
      PROVE  Loops'
  <2>1. ASSUME NEW d \in Chats \ {c}
        PROVE  Loop(d)'
    BY <1>1, <2>1, OthersStay, LoopStays DEF Loops
  <2>2. QED
    BY <1>1, <2>1, OwnLoopStep DEF Loops
<1>2. ASSUME UNCHANGED chatVars, opened \subseteq opened',
             \A s \in opened : granted'[s] = granted[s]
      PROVE  Loops'
  BY <1>2, LoopStays DEF Loops, chatVars
<1>3. ASSUME NEW s \in Sessions, OpenSession(s)
      PROVE  Loops'
  <2>1. \A x \in opened : granted'[x] = granted[x]
    BY <1>3 DEF OpenSession, Types
  <2>2. QED
    BY <1>2, <1>3, <2>1 DEF OpenSession
<1>4. CASE Tick
  BY <1>2, <1>4 DEF Tick
<1>5. ASSUME NEW r \in Requests, AskWindow(r) \/ GrantWindow(r) \/ NoWindow(r)
      PROVE  Loops'
  BY <1>2, <1>5 DEF AskWindow, GrantWindow, NoWindow
<1>6. CASE UNCHANGED vars
  BY <1>2, <1>6 DEF vars
<1>7. QED
  BY <1>1, <1>3, <1>4, <1>5, <1>6, Steps

-----------------------------------------------------------------------------
(* Approvals                                                               *)

\* A step keeps what the user approved in front of what runs.
LEMMA ApprovalsStep == Types /\ Loops /\ Approvals /\ [Next]_vars => Approvals'
<1> SUFFICES ASSUME Types, Loops, Approvals, [Next]_vars
             PROVE  Approvals'
  OBVIOUS
<1>a. ASSUME UNCHANGED <<ran, consents, windows, grants>>, opened \subseteq opened',
             \A s \in opened : granted'[s] = granted[s]
      PROVE  Approvals'
  BY <1>a DEF Approvals, Windows, Runs, RunsAreApproved
\* A tool starts to run with the user's approval.
<1>b. ASSUME NEW c \in Chats, NEW how \in Via, Execute(c, how),
             phase[c] \in {"dispatching", "asking"},
             UNCHANGED <<opened, granted, windows, grants>>, consents \subseteq consents',
             Registry[Tool(c)].scope \in granted[SessionOf[c]],
             Mutates(Tool(c)) =>
               /\ c \notin PlanOnly
               /\ \/ how = "dialog" /\ <<c, turn[c], Index(c)>> \in consents'
                  \/ how = "trust_window" /\ Covered(SessionOf[c], Tool(c))
      PROVE  Approvals'
  <2> DEFINE e == [chat |-> c, turn |-> turn[c], index |-> Index(c), tool |-> Tool(c),
                   via |-> how, at |-> now]
  <2>1. ran' = ran \cup {e}
    BY <1>b DEF Execute
  <2>2. SessionOf[c] \in opened
    BY <1>b DEF Loops, Loop
  <2>3. ASSUME how = "trust_window", Covered(SessionOf[c], Tool(c))
        PROVE  \E g \in grants : /\ g.session = SessionOf[c]
                                 /\ Tool(c) \in g.tools
                                 /\ now - g.at < Min({g.secs, MaxDuration})
    <3>1. PICK w \in windows : w.session = SessionOf[c] /\ Tool(c) \in w.tools /\ now < w.expires
      BY <2>3 DEF Covered
    <3>2. PICK g \in grants : /\ g.session = w.session /\ g.tools = w.tools
                              /\ w.expires = g.at + Min({g.secs, MaxDuration})
      BY DEF Approvals, Windows
    <3>3. g \in Grant
      BY DEF Types
    <3>4. g.at \in Nat /\ now \in Nat /\ g.secs \in Nat
      <4>1. g.at \in 0..MaxTime /\ g.secs \in Durations
        BY <3>3 DEF Grant
      <4>2. now \in 0..MaxTime
        BY DEF Types
      <4>3. g.at \in Nat /\ now \in Nat
        BY <4>1, <4>2
      <4>4. g.secs \in Nat
        BY <4>1
      <4>5. QED
        BY <4>3, <4>4
    <3>5. Min({g.secs, MaxDuration}) \in Nat
      BY <3>4, MinOfTwo
    <3>6. now - g.at < Min({g.secs, MaxDuration})
      BY <3>1, <3>2, <3>4, <3>5
    <3>7. QED
      BY <3>1, <3>2, <3>6
  <2>4. /\ e.chat = c /\ e.turn = turn[c] /\ e.index = Index(c) /\ e.tool = Tool(c)
        /\ e.via = how /\ e.at = now
    OBVIOUS
  <2> HIDE DEF e
  <2>5. Windows' /\ Runs'
    BY <1>b, <2>1, <2>2, <2>4 DEF Approvals, Windows, Runs
  <2>6. ASSUME NEW x \in ran
        PROVE  /\ Registry[x.tool].scope \in granted'[SessionOf[x.chat]]
               /\ Mutates(x.tool) =>
                    /\ x.chat \notin PlanOnly
                    /\ \/ x.via = "dialog" /\ <<x.chat, x.turn, x.index>> \in consents'
                       \/ /\ x.via = "trust_window"
                          /\ \E g \in grants' : /\ g.session = SessionOf[x.chat]
                                                /\ x.tool \in g.tools
                                                /\ x.at - g.at < Min({g.secs, MaxDuration})
    BY <1>b DEF Approvals, RunsAreApproved
  <2>7. /\ Registry[e.tool].scope \in granted'[SessionOf[e.chat]]
        /\ Mutates(e.tool) =>
             /\ e.chat \notin PlanOnly
             /\ \/ e.via = "dialog" /\ <<e.chat, e.turn, e.index>> \in consents'
                \/ /\ e.via = "trust_window"
                   /\ \E g \in grants' : /\ g.session = SessionOf[e.chat]
                                         /\ e.tool \in g.tools
                                         /\ e.at - g.at < Min({g.secs, MaxDuration})
    BY <1>b, <2>3, <2>4
  <2>8. RunsAreApproved'
    BY <2>1, <2>6, <2>7 DEF RunsAreApproved
  <2>9. QED
    BY <2>5, <2>8 DEF Approvals
<1>1. ASSUME NEW s \in Sessions, OpenSession(s)
      PROVE  Approvals'
  <2>1. \A x \in opened : granted'[x] = granted[x]
    BY <1>1 DEF OpenSession, Types
  <2>2. QED
    BY <1>1, <1>a, <2>1 DEF OpenSession, windowVars
<1>2. ASSUME NEW c \in Chats,
             \/ Start(c) \/ Refuse(c) \/ Snapshot(c) \/ ProviderReplies(c) \/ ProviderFails(c)
             \/ Recorded(c) \/ Reject(c) \/ Ask(c) \/ ToolEnds(c) \/ EndRound(c) \/ Deny(c)
             \/ HangUp(c)
      PROVE  Approvals'
  <2>1. UNCHANGED <<ran, consents, windows, grants, opened, granted>>
    BY <1>2 DEF Start, Refuse, Snapshot, ProviderReplies, ProviderFails, Recorded, Reject, Ask,
         ToolEnds, EndRound, Deny, HangUp, Report, windowVars
  <2>2. QED
    BY <1>a, <2>1
<1>3. ASSUME NEW c \in Chats, RunAuto(c)
      PROVE  Approvals'
  BY <1>3, <1>b DEF RunAuto, Allowed, windowVars, Via
<1>4. ASSUME NEW c \in Chats, RunTrusted(c)
      PROVE  Approvals'
  BY <1>4, <1>b DEF RunTrusted, Allowed, windowVars, Via
<1>5. ASSUME NEW c \in Chats, Approve(c)
      PROVE  Approvals'
  BY <1>5, <1>b DEF Approve, Loops, Loop, windowVars, Via
<1>6. ASSUME NEW r \in Requests, GrantWindow(r)
      PROVE  Approvals'
  <2> DEFINE g == [session |-> asked[r].session, tools |-> asked[r].tools,
                   secs |-> asked[r].secs, at |-> now]
             w == [session |-> asked[r].session, tools |-> asked[r].tools,
                   expires |-> now + Min({asked[r].secs, MaxDuration})]
  <2>1. /\ grants' = grants \cup {g} /\ windows' = windows \cup {w}
        /\ UNCHANGED <<ran, consents, opened, granted>>
    BY <1>6 DEF GrantWindow, SayYes
  <2>2. /\ g.session = w.session /\ g.tools = w.tools
        /\ w.expires = g.at + Min({g.secs, MaxDuration})
    OBVIOUS
  <2> HIDE DEF g, w
  <2>3. Windows'
    BY <2>1, <2>2 DEF Approvals, Windows
  <2>4. Runs' /\ RunsAreApproved'
    BY <2>1 DEF Approvals, Runs, RunsAreApproved
  <2>5. QED
    BY <2>3, <2>4 DEF Approvals
<1>7. ASSUME NEW r \in Requests, AskWindow(r) \/ NoWindow(r)
      PROVE  Approvals'
  BY <1>7, <1>a DEF AskWindow, NoWindow
<1>8. CASE Tick \/ UNCHANGED vars
  BY <1>8, <1>a DEF Tick, vars, windowVars
<1>9. QED
  BY <1>1, <1>2, <1>3, <1>4, <1>5, <1>6, <1>7, <1>8, Steps DEF ChatStep

-----------------------------------------------------------------------------
(* The transcript                                                          *)

\* What a chat's step does to the transcript of its session and to its own copy:
\* nothing, a look at the transcript, the client's messages, the reply of the
\* provider, or the results of a round.
LEMMA TranscriptStep ==
  ASSUME Types, NEW c \in Chats, Loop(c), ChatStep(c)
  PROVE  \/ /\ UNCHANGED <<messages, history, overlapped>>
            /\ phase[c] # "started" /\ (InFlight(c)' => InFlight(c)) /\ (InLoop(c)' => InLoop(c))
         \/ /\ phase[c] = "started" /\ phase'[c] = "calling"
            /\ UNCHANGED <<messages, overlapped>>
            /\ history'[c] = messages[SessionOf[c]]
         \/ /\ phase[c] = "idle" /\ phase'[c] = "started"
            /\ UNCHANGED history
            /\ \A d \in Chats : InFlight(d) /\ SessionOf[d] = SessionOf[c] =>
                 SessionOf[c] \in overlapped'
            /\ overlapped \subseteq overlapped'
            /\ \E said \in Seq(Prompts) :
                 /\ said \in Seq(Message) /\ \A i \in 1..Len(said) : said[i].chat = c
                 /\ Grows(c, said)
         \/ /\ phase[c] = "calling" /\ phase'[c] = "recording"
            /\ UNCHANGED overlapped
            /\ \E m \in Replies \cap Message :
                 m.chat = c /\ Grows(c, <<m>>) /\ history'[c] = Append(history[c], m)
         \/ /\ EndRound(c) /\ phase[c] = "dispatching"
            /\ UNCHANGED overlapped
            /\ \E m \in Answers \cap Message :
                 m.chat = c /\ Grows(c, <<m>>) /\ history'[c] = Append(history[c], m)
<1>a. \A to \in {"started", "calling", "recording", "dispatching", "asking", "running",
                 "returned", "refused", "failed", "hungup"} : to \in Phase
  BY DEF Phase
<1>b. InLoop(c) => turn[c] \in 1..MaxTurns
  BY DEF Loop
<1>1. CASE Start(c)
  <2>1. PICK body \in Bodies : Record(c, Stored(c, body))
    BY <1>1 DEF Start
  <2>2. phase[c] = "idle" /\ phase'[c] = "started" /\ UNCHANGED history
    BY <1>1, <1>a, ChatMoves DEF Start
  <2>3. /\ \A d \in Chats : InFlight(d) /\ SessionOf[d] = SessionOf[c] =>
             SessionOf[c] \in overlapped'
        /\ overlapped \subseteq overlapped'
    BY <1>1 DEF Start
  <2>4. Grows(c, Stored(c, body))
    BY <2>1, StoredProperties, RecordProperties
  <2>5. QED
    BY <2>2, <2>3, <2>4, StoredProperties
<1>2. CASE Snapshot(c)
  BY <1>2, <1>a, ChatMoves DEF Snapshot, Types
<1>3. CASE ProviderReplies(c)
  <2>1. PICK uses \in Uses :
          LET m == [role |-> "assistant", chat |-> c, turn |-> turn[c], uses |-> uses]
          IN  history' = [history EXCEPT ![c] = Append(@, m)] /\ Record(c, <<m>>)
    BY <1>3 DEF ProviderReplies
  <2> DEFINE m == [role |-> "assistant", chat |-> c, turn |-> turn[c], uses |-> uses]
  <2>2. InLoop(c) /\ phase[c] = "calling" /\ phase'[c] = "recording" /\ UNCHANGED overlapped
    BY <1>3, <1>a, ChatMoves DEF ProviderReplies, InLoop
  <2>3. m \in Replies \cap Message /\ m.chat = c
    BY <1>b, <2>2, ReplyIsMessage
  <2>4. Record(c, <<m>>) /\ history' = [history EXCEPT ![c] = Append(@, m)]
    BY <2>1
  <2> HIDE DEF m
  <2>5. history'[c] = Append(history[c], m) /\ Grows(c, <<m>>)
    BY <2>3, <2>4, OneMessage, SaidProperties, RecordProperties
  <2>6. QED
    BY <2>2, <2>3, <2>5
<1>4. CASE EndRound(c)
  <2> DEFINE m == [role |-> "tool", chat |-> c, turn |-> turn[c], results |-> results[c]]
  <2>1. history' = [history EXCEPT ![c] = Append(@, m)] /\ Record(c, <<m>>)
    BY <1>4 DEF EndRound
  <2>2. InLoop(c) /\ phase[c] = "dispatching" /\ UNCHANGED overlapped
    BY <1>4 DEF EndRound, InLoop
  <2>3. m \in Answers \cap Message /\ m.chat = c
    BY <1>b, <2>2, ReplyIsMessage
  <2> HIDE DEF m
  <2>4. history'[c] = Append(history[c], m) /\ Grows(c, <<m>>)
    BY <2>1, <2>3, OneMessage, SaidProperties, RecordProperties
  <2>5. QED
    BY <1>4, <2>2, <2>3, <2>4
<1>5. CASE \/ Refuse(c) \/ ProviderFails(c) \/ Recorded(c) \/ Reject(c) \/ RunAuto(c)
           \/ RunTrusted(c) \/ Ask(c) \/ ToolEnds(c) \/ Approve(c) \/ Deny(c) \/ HangUp(c)
  <2>1. UNCHANGED <<messages, history, overlapped>> /\ phase[c] # "started"
    BY <1>5 DEF Refuse, ProviderFails, Recorded, Reject, RunAuto, RunTrusted, Ask, ToolEnds,
         Approve, Deny, HangUp, Allowed
  <2>2. CASE Refuse(c)
    BY <2>1, <2>2, <1>a, ChatMoves DEF Refuse, InFlight, InLoop
  <2>3. CASE ~Refuse(c)
    <3>1. InLoop(c) /\ InFlight(c)
      BY <1>5, <2>3 DEF ProviderFails, Recorded, Reject, RunAuto, RunTrusted, Ask, ToolEnds,
           Approve, Deny, HangUp, Allowed, InLoop, InFlight
    <3>2. QED
      BY <2>1, <3>1
  <2>4. QED
    BY <2>2, <2>3
<1>6. QED
  BY <1>1, <1>2, <1>3, <1>4, <1>5 DEF ChatStep

\* A step of the launcher either lets the transcripts and the copies alone, or is
\* one of a chat.
LEMMA TalkSteps ==
  [Next]_vars => \/ \E c \in Chats : ChatStep(c)
                 \/ UNCHANGED <<messages, chatVars>>
BY Steps DEF OpenSession, AskWindow, GrantWindow, NoWindow, Tick, vars

\* A chat's step extends the transcript of its session, and no other.
LEMMA ChatExtends ==
  ASSUME Types, NEW c \in Chats, Loop(c), ChatStep(c)
  PROVE  \E said \in Seq(Message) : Grows(c, said) /\ \A i \in 1..Len(said) : said[i].chat = c
<1>1. CASE UNCHANGED messages
  <2>1. <<>> \in Seq(Message) /\ Len(<<>>) = 0
    BY EmptySeq
  <2>2. messages[SessionOf[c]] \o <<>> = messages[SessionOf[c]]
    BY ConcatEmptySeq DEF Types
  <2>3. Grows(c, <<>>)
    BY <1>1, <2>2 DEF Grows
  <2> DEFINE none == <<>>
  <2>4. none \in Seq(Message) /\ Grows(c, none) /\ \A i \in 1..Len(none) : none[i].chat = c
    BY <2>1, <2>3
  <2> HIDE DEF none
  <2>5. QED
    BY <2>4
<1>2. ASSUME NEW m \in Message, m.chat = c, Grows(c, <<m>>)
      PROVE  \E said \in Seq(Message) : Grows(c, said) /\ \A i \in 1..Len(said) : said[i].chat = c
  <2> DEFINE one == <<m>>
  <2>1. one \in Seq(Message) /\ Len(one) = 1 /\ one[1] = m
    BY OneMessage
  <2>2. Grows(c, one)
    BY <1>2
  <2> HIDE DEF one
  <2>3. \A i \in 1..Len(one) : one[i].chat = c
    BY <1>2, <2>1
  <2>4. QED
    BY <2>1, <2>2, <2>3
<1>3. QED
  BY <1>1, <1>2, TranscriptStep

\* The store only ever extends a transcript.
LEMMA TranscriptExtends ==
  ASSUME Types, Loops, [Next]_vars, NEW s \in Sessions
  PROVE  \E said \in Seq(Message) : messages'[s] = messages[s] \o said
<1>a. messages[s] \o <<>> = messages[s] /\ <<>> \in Seq(Message)
  BY ConcatEmptySeq DEF Types
<1>1. ASSUME NEW c \in Chats, ChatStep(c)
      PROVE  \E said \in Seq(Message) : messages'[s] = messages[s] \o said
  BY <1>1, <1>a, ChatExtends DEF Loops, Grows
<1>2. QED
  BY <1>1, <1>a, TalkSteps

\* A step keeps each chat's own messages the same in the transcript as in its copy.
LEMMA NothingLostStep == Types /\ Loops /\ NothingLost /\ [Next]_vars => NothingLost'
<1> SUFFICES ASSUME Types, Loops, NothingLost, [Next]_vars
             PROVE  NothingLost'
  OBVIOUS
<1>1. ASSUME NEW c \in Chats, ChatStep(c)
      PROVE  NothingLost'
  <2>a. \A d \in Chats : SessionOf[d] \in Sessions /\ messages[SessionOf[d]] \in Seq(Message)
                         /\ history[d] \in Seq(Message)
    BY DEF Types
  <2>b. Loop(c)
    BY DEF Loops
  <2>1. ASSUME NEW d \in Chats \ {c}, phase'[d] \notin {"idle", "refused", "started"}
        PROVE  Own(messages'[SessionOf[d]], d) = Own(history'[d], d)
    <3>1. phase'[d] = phase[d] /\ history'[d] = history[d]
      BY <1>1, <2>1, OthersStay
    <3>2. PICK said \in Seq(Message) : Grows(c, said) /\ \A i \in 1..Len(said) : said[i].chat = c
      BY <1>1, <2>b, ChatExtends
    <3>3. Own(messages'[SessionOf[d]], d) = Own(messages[SessionOf[d]], d)
      <4>1. CASE SessionOf[d] = SessionOf[c]
        <5>1. \A i \in 1..Len(said) : said[i].chat # d
          BY <3>2
        <5>2. Own(messages[SessionOf[d]] \o said, d) = Own(messages[SessionOf[d]], d)
          BY <2>a, <5>1, OwnSkips
        <5>3. QED
          BY <3>2, <4>1, <5>2 DEF Grows
      <4>2. CASE SessionOf[d] # SessionOf[c]
        BY <2>a, <3>2, <4>2 DEF Grows
      <4>3. QED
        BY <4>1, <4>2
    <3>4. QED
      BY <2>1, <3>1, <3>3 DEF NothingLost
  <2>2. ASSUME phase'[c] \notin {"idle", "refused", "started"}
        PROVE  Own(messages'[SessionOf[c]], c) = Own(history'[c], c)
    <3>1. CASE UNCHANGED <<messages, history>> /\ phase[c] # "started"
      <4>1. phase[c] \notin {"idle", "refused"}
        BY <1>1, <2>2 DEF ChatStep, Start, Refuse, Snapshot, ProviderReplies, ProviderFails,
             Recorded, Reject, RunAuto, RunTrusted, Ask, ToolEnds, EndRound, Approve, Deny,
             HangUp, Allowed, Go, Types
      <4>2. QED
        BY <3>1, <4>1 DEF NothingLost
    <3>2. CASE UNCHANGED messages /\ history'[c] = messages[SessionOf[c]]
      BY <3>2
    <3>3. ASSUME NEW m \in Message, m.chat = c, phase[c] \in {"calling", "dispatching"},
                 Grows(c, <<m>>), history'[c] = Append(history[c], m)
          PROVE  Own(messages'[SessionOf[c]], c) = Own(history'[c], c)
      <4>1. Own(messages[SessionOf[c]], c) = Own(history[c], c)
        BY <3>3 DEF NothingLost
      <4>2. messages'[SessionOf[c]] = Append(messages[SessionOf[c]], m)
        BY <2>a, <3>3, OneMessage DEF Grows
      <4>3. Own(Append(messages[SessionOf[c]], m), c) = Append(Own(messages[SessionOf[c]], c), m)
        BY <2>a, <3>3, OwnProperties
      <4>4. Own(Append(history[c], m), c) = Append(Own(history[c], c), m)
        BY <2>a, <3>3, OwnProperties
      <4>5. QED
        BY <3>3, <4>1, <4>2, <4>3, <4>4
    <3>4. QED
      BY <1>1, <2>2, <2>b, <3>1, <3>2, <3>3, TranscriptStep
  <2>3. QED
    BY <2>1, <2>2 DEF NothingLost
<1>2. CASE UNCHANGED <<messages, chatVars>>
  BY <1>2 DEF NothingLost, chatVars
<1>3. QED
  BY <1>1, <1>2, TalkSteps

-----------------------------------------------------------------------------
(* The conversation                                                        *)

\* A transcript that grows keeps what was said where it was.
LEMMA GrownProperties ==
  ASSUME Types, NEW c \in Chats, NEW said \in Seq(Message), Grows(c, said)
  PROVE  LET s == SessionOf[c]
             n == Len(messages[s])
         IN  /\ s \in Sessions /\ n \in Nat /\ Len(said) \in Nat
             /\ DOMAIN messages[s] = 1..n
             /\ Len(messages'[s]) = n + Len(said)
             /\ DOMAIN messages'[s] = 1..(n + Len(said))
             /\ \A i \in 1..n : messages'[s][i] = messages[s][i]
             /\ \A i \in (n + 1)..(n + Len(said)) :
                  i - n \in 1..Len(said) /\ messages'[s][i] = said[i - n]
<1> DEFINE s == SessionOf[c]
           n == Len(messages[s])
           q == messages[s] \o said
<1>1. s \in Sessions /\ messages[s] \in Seq(Message)
  BY DEF Types
<1>2. /\ n \in Nat /\ Len(said) \in Nat /\ DOMAIN messages[s] = 1..n
      /\ q \in Seq(Message) /\ Len(q) = n + Len(said)
      /\ \A i \in 1..(n + Len(said)) : q[i] = IF i <= n THEN messages[s][i] ELSE said[i - n]
  BY <1>1, ConcatProperties, LenProperties
<1> HIDE DEF q
<1>3. messages'[s] = q
  BY DEF Grows, q
<1>4. DOMAIN q = 1..(n + Len(said))
  BY <1>2, LenProperties
<1>5. \A i \in 1..n : i \in 1..(n + Len(said)) /\ i <= n
  BY <1>2
<1>6. \A i \in (n + 1)..(n + Len(said)) :
        i \in 1..(n + Len(said)) /\ ~(i <= n) /\ i - n \in 1..Len(said)
  BY <1>2
<1>7. QED
  BY <1>1, <1>2, <1>3, <1>4, <1>5, <1>6

\* A step keeps the chats of a session that came one at a time alone.
LEMMA AloneStep ==
  ASSUME Types, Loops, Conversation, NEW c \in Chats, ChatStep(c), NEW s \in Sessions
  PROVE  Alone(s)'
<1> SUFFICES ASSUME s \notin overlapped', NEW d \in Chats, NEW e \in Chats,
                    SessionOf[d] = s, SessionOf[e] = s, InFlight(d)', InFlight(e)', d # e
             PROVE  FALSE
  BY DEF Alone
<1>1. overlapped \subseteq overlapped' /\ Loop(c)
  BY TranscriptStep DEF Loops
<1>2. ASSUME NEW x \in Chats, x # c
      PROVE  InFlight(x)' = InFlight(x)
  BY <1>2, OthersStay DEF InFlight
<1>3. CASE InFlight(c)' => InFlight(c)
  BY <1>1, <1>2, <1>3 DEF Conversation, Alone
<1>4. ASSUME phase[c] = "idle",
             \A x \in Chats : InFlight(x) /\ SessionOf[x] = SessionOf[c] =>
               SessionOf[c] \in overlapped'
      PROVE  FALSE
  <2>1. CASE d = c
    BY <1>2, <1>4, <2>1
  <2>2. CASE e = c
    BY <1>2, <1>4, <2>2
  <2>3. CASE d # c /\ e # c
    BY <1>1, <1>2, <2>3 DEF Conversation, Alone
  <2>4. QED
    BY <2>1, <2>2, <2>3
<1>5. phase[c] \in {"started", "calling", "dispatching"} => InFlight(c)
  BY DEF InFlight
<1>6. QED
  BY <1>1, <1>3, <1>4, <1>5, TranscriptStep

\* While a chat is under way in a session whose chats come one at a time, no other
\* chat changes its transcript.
LEMMA Uninterrupted ==
  ASSUME Types, Loops, Conversation, NEW c \in Chats, ChatStep(c),
         NEW d \in Chats \ {c}, InFlight(d), SessionOf[d] \notin overlapped'
  PROVE  messages'[SessionOf[d]] = messages[SessionOf[d]] /\ SessionOf[d] \notin overlapped
<1>a. Loop(c) /\ SessionOf[d] \in Sessions
  BY DEF Loops
<1>b. SessionOf[d] \notin overlapped
  BY <1>a, TranscriptStep
<1>1. CASE SessionOf[d] # SessionOf[c]
  BY <1>1, <1>a, <1>b, ChatExtends DEF Grows
<1>2. CASE SessionOf[d] = SessionOf[c]
  <2>1. ~InFlight(c)
    BY <1>2, <1>a, <1>b DEF Conversation, Alone
  <2>2. phase[c] \notin {"started", "calling", "dispatching"}
    BY <2>1 DEF InFlight
  <2>3. QED
    BY <1>2, <1>a, <1>b, <2>2, TranscriptStep
<1>3. QED
  BY <1>1, <1>2

\* A step keeps that a chat whose session has no other has heard everything.
LEMMA HeardStep ==
  ASSUME Types, Loops, Conversation, NEW c \in Chats, ChatStep(c), NEW d \in Chats
  PROVE  Heard(d)'
<1> SUFFICES ASSUME InLoop(d)', SessionOf[d] \notin overlapped'
             PROVE  history'[d] = messages'[SessionOf[d]]
  BY DEF Heard
<1>a. Loop(c) /\ Heard(d)
  BY DEF Loops, Conversation
<1>1. CASE d # c
  <2>1. phase'[d] = phase[d] /\ history'[d] = history[d]
    BY <1>1, OthersStay
  <2>2. InLoop(d) /\ InFlight(d)
    BY <2>1 DEF InLoop, InFlight
  <2>3. QED
    BY <1>1, <1>a, <2>1, <2>2, Uninterrupted DEF Heard
<1>2. CASE d = c
  <2>1. CASE UNCHANGED <<messages, history, overlapped>> /\ (InLoop(c)' => InLoop(c))
    BY <1>2, <1>a, <2>1 DEF Heard
  <2>2. CASE UNCHANGED messages /\ history'[c] = messages[SessionOf[c]]
    BY <1>2, <2>2
  <2>3. ASSUME NEW m \in Message, phase[c] \in {"calling", "dispatching"}, Grows(c, <<m>>),
               UNCHANGED overlapped, history'[c] = Append(history[c], m)
        PROVE  history'[d] = messages'[SessionOf[d]]
    <3>1. history[c] = messages[SessionOf[c]] /\ messages[SessionOf[c]] \in Seq(Message)
      BY <1>2, <1>a, <2>3 DEF Heard, InLoop, Types
    <3>2. QED
      BY <1>2, <2>3, <3>1, OneMessage DEF Grows
  <2>4. phase'[c] # "started"
    BY <1>2 DEF InLoop
  <2>5. QED
    BY <1>2, <1>a, <2>1, <2>2, <2>3, <2>4, TranscriptStep
<1>3. QED
  BY <1>1, <1>2

\* What a chat may do while the uses of its round wait for their answers.
LEMMA RoundMoves ==
  ASSUME Types, NEW c \in Chats, Loop(c), InRound(c), Pending(c) # <<>>, ChatStep(c)
  PROVE  \/ UNCHANGED <<messages, history>> /\ InRound(c)'
         \/ phase'[c] = "hungup"
         \/ EndRound(c)
<1>a. \A to \in {"dispatching", "asking", "running", "hungup"} : to \in Phase
  BY DEF Phase
<1>1. phase[c] \in {"recording", "dispatching", "asking", "running"}
  BY DEF InRound
<1>2. CASE Start(c) \/ Refuse(c) \/ Snapshot(c) \/ ProviderReplies(c) \/ ProviderFails(c)
  BY <1>1, <1>2 DEF Start, Refuse, Snapshot, ProviderReplies, ProviderFails
<1>3. CASE Recorded(c)
  BY <1>3, <1>a, ChatMoves DEF Recorded, InRound
<1>4. CASE Reject(c) \/ Deny(c)
  BY <1>4, <1>a, ChatMoves DEF Reject, Deny, Report, InRound
<1>5. CASE RunAuto(c) \/ RunTrusted(c) \/ Approve(c)
  BY <1>5, <1>a, ChatMoves DEF RunAuto, RunTrusted, Approve, Execute, InRound
<1>6. CASE Ask(c) \/ ToolEnds(c)
  BY <1>6, <1>a, ChatMoves DEF Ask, ToolEnds, InRound
<1>7. CASE HangUp(c)
  BY <1>7, <1>a, ChatMoves DEF HangUp
<1>8. QED
  BY <1>2, <1>3, <1>4, <1>5, <1>6, <1>7 DEF ChatStep

\* A chat that ends its round answers the reply it was at.
LEMMA AnswerCloses ==
  ASSUME Types, NEW c \in Chats, Loop(c), EndRound(c),
         NEW i \in DOMAIN messages[SessionOf[c]], messages[SessionOf[c]][i].chat = c,
         OpenAt(SessionOf[c], i)
  PROVE  AnsweredAt(SessionOf[c], i)'
<1> DEFINE s == SessionOf[c]
           n == Len(messages[s])
           r == [role |-> "tool", chat |-> c, turn |-> turn[c], results |-> results[c]]
<1>1. Record(c, <<r>>) /\ phase[c] = "dispatching" /\ Index(c) > Len(Pending(c))
  BY DEF EndRound
<1>2. InRound(c) /\ InLoop(c)
  BY <1>1 DEF InRound, InLoop
<1>3. turn[c] \in 1..MaxTurns
  BY <1>2 DEF Loop
<1>4. r \in Answers /\ r \in Message /\ r.chat = c /\ r.turn = turn[c] /\ r.results = results[c]
  BY <1>3, ReplyIsMessage
<1>5. Len(results[c]) = Len(Pending(c))
  <2>1. Len(results[c]) <= Len(Pending(c))
    BY <1>1 DEF Loop
  <2>2. QED
    BY <1>1, <1>2, <2>1, RoundProperties
<1> HIDE DEF r
<1>6. Grows(c, <<r>>) /\ <<r>> \in Seq(Message) /\ Len(<<r>>) = 1 /\ <<r>>[1] = r
  BY <1>1, <1>4, OneMessage, RecordProperties
<1>7. /\ n \in Nat /\ DOMAIN messages[s] = 1..n /\ DOMAIN messages'[s] = 1..(n + 1)
      /\ \A k \in 1..n : messages'[s][k] = messages[s][k]
      /\ messages'[s][n + 1] = r
  <2>1. /\ n \in Nat /\ DOMAIN messages[s] = 1..n /\ DOMAIN messages'[s] = 1..(n + 1)
        /\ \A k \in 1..n : messages'[s][k] = messages[s][k]
        /\ \A k \in (n + 1)..(n + 1) : messages'[s][k] = <<r>>[k - n]
    BY <1>6, GrownProperties
  <2>2. n + 1 \in (n + 1)..(n + 1) /\ (n + 1) - n = 1
    BY <2>1
  <2>3. QED
    BY <1>6, <2>1, <2>2
<1>8. i = n /\ Last(history[c]) = messages[s][i]
  BY DEF OpenAt
<1>9. messages[s][i].turn = turn[c] /\ messages[s][i].uses = Pending(c)
  BY <1>2, <1>8 DEF Loop, Pending
<1>10. i + 1 \in DOMAIN messages'[s] /\ messages'[s][i + 1] = r /\ messages'[s][i] = messages[s][i]
  BY <1>7, <1>8
<1>11. QED
  BY <1>4, <1>5, <1>9, <1>10 DEF AnsweredAt

\* What the kinds of message have apart.
LEMMA KindsDiffer ==
  /\ \A m \in Prompts : m.turn = 0
  /\ \A m \in Replies : m.turn \in 1..MaxTurns /\ m.role = "assistant" /\ m.chat \in Chats
  /\ \A m \in Answers : m.role = "tool"
  /\ \A m \in Replies : m \notin Prompts /\ m \notin Answers
<1>1. \A m \in Prompts : m.turn = 0
  BY DEF Prompts
<1>2. \A m \in Replies : m.turn \in 1..MaxTurns /\ m.role = "assistant" /\ m.chat \in Chats
  BY DEF Replies
<1>3. \A m \in Answers : m.role = "tool"
  BY DEF Answers
<1>4. 0 \notin 1..MaxTurns /\ "assistant" # "tool"
  OBVIOUS
<1>5. QED
  BY <1>1, <1>2, <1>3, <1>4

\* A message that was attended to before a chat's step still is.
LEMMA StaysAttended ==
  ASSUME Types, Loops, Conversation, NEW c \in Chats, ChatStep(c), NEW s \in Sessions,
         s \notin overlapped', ~HungUp(s)',
         NEW i \in DOMAIN messages[s], Asking(s, i), messages'[s][i] = messages[s][i]
  PROVE  AnsweredAt(s, i)' \/ OpenAt(s, i)'
<1>a. Loop(c) /\ SessionOf[c] \in Sessions
  BY DEF Loops
<1>b. s \notin overlapped
  BY <1>a, TranscriptStep
<1>c. ~HungUp(s)
  <2>1. ASSUME NEW d \in Chats, SessionOf[d] = s, phase[d] = "hungup"
        PROVE  FALSE
    <3>1. d # c
      BY <2>1 DEF ChatStep, Start, Refuse, Snapshot, ProviderReplies, ProviderFails, Recorded,
           Reject, RunAuto, RunTrusted, Ask, ToolEnds, EndRound, Approve, Deny, HangUp, Allowed
    <3>2. phase'[d] = "hungup"
      BY <2>1, <3>1, OthersStay
    <3>3. QED
      BY <2>1, <3>2 DEF HungUp
  <2>2. QED
    BY <2>1 DEF HungUp
<1>1. AnsweredAt(s, i) \/ OpenAt(s, i)
  BY <1>b, <1>c DEF Conversation, Attended
<1>2. CASE AnsweredAt(s, i)
  <2>1. i + 1 \in DOMAIN messages[s]
    BY <1>2 DEF AnsweredAt
  <2>2. i + 1 \in DOMAIN messages'[s] /\ messages'[s][i + 1] = messages[s][i + 1]
    <3>1. CASE s # SessionOf[c]
      BY <1>a, <2>1, <3>1, ChatExtends DEF Grows
    <3>2. CASE s = SessionOf[c]
      <4>1. PICK said \in Seq(Message) : Grows(c, said)
        BY <1>a, ChatExtends
      <4>2. /\ Len(messages[s]) \in Nat /\ Len(said) \in Nat
            /\ DOMAIN messages[s] = 1..Len(messages[s])
            /\ DOMAIN messages'[s] = 1..(Len(messages[s]) + Len(said))
            /\ \A k \in 1..Len(messages[s]) : messages'[s][k] = messages[s][k]
        BY <3>2, <4>1, GrownProperties
      <4>3. QED
        BY <2>1, <4>2
    <3>3. QED
      BY <3>1, <3>2
  <2>3. QED
    BY <1>2, <2>2 DEF AnsweredAt
<1>3. CASE OpenAt(s, i)
  <2>1. PICK d \in Chats : d = messages[s][i].chat
    BY KindsDiffer DEF Asking
  <2>2. /\ i = Len(messages[s])
        /\ SessionOf[d] = s /\ InRound(d) /\ Last(history[d]) = messages[s][i]
    BY <1>3, <2>1 DEF OpenAt
  <2>3. CASE d # c
    <3>1. InFlight(d)
      BY <2>2 DEF InRound, InFlight
    <3>2. messages'[s] = messages[s]
      BY <2>2, <2>3, <3>1, Uninterrupted
    <3>3. phase'[d] = phase[d] /\ history'[d] = history[d]
      BY <2>3, OthersStay
    <3>4. InRound(d)'
      BY <2>2, <3>3 DEF InRound
    <3>5. QED
      BY <2>1, <2>2, <3>2, <3>3, <3>4 DEF OpenAt
  <2>4. CASE d = c
    <3>1. Pending(c) # <<>>
      BY <2>2, <2>4 DEF Asking, Pending
    <3>2. CASE UNCHANGED <<messages, history>> /\ InRound(c)'
      BY <2>1, <2>2, <2>4, <3>2 DEF OpenAt
    <3>3. CASE phase'[c] = "hungup"
      BY <2>2, <2>4, <3>3 DEF HungUp
    <3>4. CASE EndRound(c)
      BY <1>3, <1>a, <2>1, <2>2, <2>4, <3>4, AnswerCloses
    <3>5. QED
      BY <1>a, <2>2, <2>4, <3>1, <3>2, <3>3, <3>4, RoundMoves
  <2>5. QED
    BY <2>3, <2>4
<1>4. QED
  BY <1>1, <1>2, <1>3

\* A step keeps every tool use attended to.
LEMMA AttendedStep ==
  ASSUME Types, Loops, Conversation, NEW c \in Chats, ChatStep(c), NEW s \in Sessions
  PROVE  Attended(s)'
<1> SUFFICES ASSUME s \notin overlapped', ~HungUp(s)', NEW i \in DOMAIN messages'[s], Asking(s, i)'
             PROVE  AnsweredAt(s, i)' \/ OpenAt(s, i)'
  BY DEF Attended
<1>a. Loop(c) /\ SessionOf[c] \in Sessions
  BY DEF Loops
<1>1. ASSUME i \in DOMAIN messages[s], messages'[s][i] = messages[s][i]
      PROVE  AnsweredAt(s, i)' \/ OpenAt(s, i)'
  <2>1. Asking(s, i)
    BY <1>1 DEF Asking
  <2>2. QED
    BY <1>1, <2>1, StaysAttended
<1>2. CASE messages'[s] = messages[s]
  BY <1>1, <1>2
\* A new message is the client's, a reply that its chat is at, or an answer.
<1>3. ASSUME s = SessionOf[c], NEW said \in Seq(Message), Grows(c, said),
             \A k \in 1..Len(said) :
               said[k] \in Replies => /\ Len(said) = 1
                                      /\ said[k].chat = c /\ InRound(c)'
                                      /\ Last(history'[c]) = said[k]
      PROVE  AnsweredAt(s, i)' \/ OpenAt(s, i)'
  <2> DEFINE n == Len(messages[s])
  <2>1. /\ n \in Nat /\ Len(said) \in Nat
        /\ DOMAIN messages[s] = 1..n
        /\ Len(messages'[s]) = n + Len(said)
        /\ DOMAIN messages'[s] = 1..(n + Len(said))
        /\ \A k \in 1..n : messages'[s][k] = messages[s][k]
        /\ \A k \in (n + 1)..(n + Len(said)) :
             k - n \in 1..Len(said) /\ messages'[s][k] = said[k - n]
    <3>1. said \in Seq(Message) /\ Grows(c, said) /\ s = SessionOf[c]
      BY <1>3
    <3>2. QED
      BY <3>1, GrownProperties
  <2>2. CASE i \in 1..n
    BY <1>1, <2>1, <2>2
  <2>3. CASE i \in (n + 1)..(n + Len(said))
    <3>1. i - n \in 1..Len(said) /\ messages'[s][i] = said[i - n]
      BY <2>1, <2>3
    <3>2. said[i - n] \in Replies
      BY <3>1 DEF Asking
    <3>3. /\ Len(said) = 1 /\ said[i - n].chat = c /\ InRound(c)'
          /\ Last(history'[c]) = said[i - n]
      BY <1>3, <3>1, <3>2
    <3>4. i = Len(messages'[s])
      BY <2>1, <2>3, <3>3
    <3>5. QED
      BY <1>3, <3>1, <3>3, <3>4 DEF OpenAt
  <2>4. i \in 1..n \/ i \in (n + 1)..(n + Len(said))
    BY <2>1
  <2>5. QED
    BY <2>2, <2>3, <2>4
<1>4. CASE s # SessionOf[c]
  BY <1>2, <1>4, <1>a, ChatExtends DEF Grows
<1>5. CASE s = SessionOf[c]
  <2>1. ASSUME NEW said \in Seq(Prompts), said \in Seq(Message), Grows(c, said)
        PROVE  AnsweredAt(s, i)' \/ OpenAt(s, i)'
    <3>1. \A k \in 1..Len(said) : said[k] \notin Replies
      BY <2>1, ElementOfSeq, KindsDiffer
    <3>2. QED
      BY <1>3, <1>5, <2>1, <3>1
  <2>2. ASSUME NEW m \in Replies \cap Message, m.chat = c, Grows(c, <<m>>),
               history'[c] = Append(history[c], m), phase'[c] = "recording"
        PROVE  AnsweredAt(s, i)' \/ OpenAt(s, i)'
    <3>1. <<m>> \in Seq(Message) /\ Len(<<m>>) = 1 /\ <<m>>[1] = m
      BY OneMessage
    <3>2. InRound(c)'
      BY <2>2 DEF InRound
    <3>3. Last(history'[c]) = m
      <4>1. history[c] \in Seq(Message)
        BY DEF Types
      <4>2. Len(history'[c]) = Len(history[c]) + 1 /\ history'[c][Len(history[c]) + 1] = m
        BY <2>2, <4>1, AppendProperties
      <4>3. QED
        BY <4>2 DEF Last
    <3>4. \A k \in 1..Len(<<m>>) : <<m>>[k] = m
      BY <3>1
    <3>5. QED
      BY <1>3, <1>5, <2>2, <3>1, <3>2, <3>3, <3>4
  <2>3. ASSUME NEW m \in Answers \cap Message, Grows(c, <<m>>)
        PROVE  AnsweredAt(s, i)' \/ OpenAt(s, i)'
    <3>1. <<m>> \in Seq(Message) /\ Len(<<m>>) = 1 /\ <<m>>[1] = m
      BY OneMessage
    <3>2. \A k \in 1..Len(<<m>>) : <<m>>[k] = m /\ m \notin Replies
      BY <3>1, KindsDiffer
    <3>3. QED
      BY <1>3, <1>5, <2>3, <3>1, <3>2
  <2>4. QED
    BY <1>2, <1>a, <2>1, <2>2, <2>3, TranscriptStep
<1>6. QED
  BY <1>4, <1>5

\* A step keeps the conversations.
LEMMA ConversationStep == Types /\ Loops /\ Conversation /\ [Next]_vars => Conversation'
<1> SUFFICES ASSUME Types, Loops, Conversation, [Next]_vars
             PROVE  Conversation'
  OBVIOUS
<1>1. ASSUME NEW c \in Chats, ChatStep(c)
      PROVE  Conversation'
  <2>1. \A s \in Sessions : Alone(s)'
    BY <1>1, AloneStep
  <2>2. \A d \in Chats : Heard(d)'
    BY <1>1, HeardStep
  <2>3. \A s \in Sessions : Attended(s)'
    BY <1>1, AttendedStep
  <2>4. QED
    BY <2>1, <2>2, <2>3 DEF Conversation
<1>2. CASE UNCHANGED <<messages, chatVars>>
  BY <1>2 DEF Conversation, Alone, Heard, Attended, HungUp, Asking, AnsweredAt, OpenAt, InLoop,
       InRound, InFlight, chatVars
<1>3. QED
  BY <1>1, <1>2, TalkSteps

\* What the adapter makes of the messages.
LEMMA WireProperties ==
  ASSUME NEW m \in Message
  PROVE  /\ Wire(m).role = "assistant" /\ Wire(m).turn # 0 => m \in Replies /\ Wire(m) = m
         /\ m \in Answers =>
              Wire(m) = [role |-> "user", chat |-> m.chat, turn |-> m.turn, results |-> m.results]
<1>1. ASSUME m \in Prompts
      PROVE  Wire(m).turn = 0 /\ m \notin Answers
  <2>1. Wire(m).turn = 0
    BY <1>1 DEF Prompts, Wire
  <2>2. ASSUME m \in Answers
        PROVE  FALSE
    <3>1. m.turn = 0 /\ m.turn \in 1..MaxTurns
      BY <1>1, <2>2 DEF Prompts, Answers
    <3>2. QED
      BY <3>1
  <2>3. QED
    BY <2>1, <2>2
<1>2. ASSUME m \in Answers
      PROVE  Wire(m) = [role |-> "user", chat |-> m.chat, turn |-> m.turn, results |-> m.results]
  BY <1>2 DEF Answers, Wire
<1>3. ASSUME m \in Replies
      PROVE  Wire(m) = m
  BY <1>3 DEF Replies, Wire
<1>4. QED
  BY <1>1, <1>2, <1>3, MessageKinds

\* The invariant gives what the provider is told.
LEMMA CompleteFromParts == Types /\ Loops /\ Conversation => ConversationComplete
<1> SUFFICES ASSUME Types, Loops, Conversation, NEW c \in Chats, phase[c] = "calling",
                    ~Contended(SessionOf[c])
             PROVE  history[c] = messages[SessionOf[c]] /\ Paired(Sent(c))
  BY DEF ConversationComplete
<1> DEFINE s == SessionOf[c]
<1>a. s \in Sessions /\ messages[s] \in Seq(Message) /\ history[c] \in Seq(Message)
  BY DEF Types
<1>1. s \notin overlapped /\ ~HungUp(s)
  BY DEF Contended, HungUp
<1>2. InFlight(c) /\ InLoop(c) /\ ~InRound(c)
  BY DEF InFlight, InLoop, InRound
<1>3. history[c] = messages[s]
  BY <1>1, <1>2 DEF Conversation, Heard
<1>4. ASSUME NEW i \in DOMAIN messages[s], Asking(s, i)
      PROVE  AnsweredAt(s, i)
  <2>1. SUFFICES ASSUME OpenAt(s, i)
                 PROVE  FALSE
    BY <1>1, <1>4, <1>a DEF Conversation, Attended
  <2>2. PICK d \in Chats : d = messages[s][i].chat
    BY <1>4, KindsDiffer DEF Asking
  <2>3. InRound(d) /\ SessionOf[d] = s
    BY <2>1, <2>2 DEF OpenAt
  <2>4. d # c /\ InFlight(d)
    BY <1>2, <2>3 DEF InRound, InFlight
  <2>5. QED
    BY <1>1, <1>2, <1>a, <2>3, <2>4 DEF Conversation, Alone
<1>5. ASSUME NEW i \in DOMAIN Sent(c), Sent(c)[i].role = "assistant", Sent(c)[i].turn # 0,
             Sent(c)[i].uses # <<>>
      PROVE  /\ i + 1 \in DOMAIN Sent(c)
             /\ Sent(c)[i + 1].role = "user" /\ "results" \in DOMAIN Sent(c)[i + 1]
             /\ Sent(c)[i + 1].chat = Sent(c)[i].chat /\ Sent(c)[i + 1].turn = Sent(c)[i].turn
             /\ Len(Sent(c)[i + 1].results) = Len(Sent(c)[i].uses)
  <2>1. DOMAIN Sent(c) = DOMAIN messages[s] /\ \A k \in DOMAIN messages[s] : Sent(c)[k] = Wire(messages[s][k])
    BY <1>3 DEF Sent
  <2>2. messages[s][i] \in Message
    BY <1>5, <1>a, <2>1, ElementOfSeq, LenProperties
  <2>3. Sent(c)[i] = Wire(messages[s][i])
    BY <1>5, <2>1
  <2>4. messages[s][i] \in Replies /\ Sent(c)[i] = messages[s][i]
    BY <1>5, <2>2, <2>3, WireProperties
  <2>5. Asking(s, i)
    BY <1>5, <2>4 DEF Asking
  <2>6. AnsweredAt(s, i)
    BY <1>4, <1>5, <2>1, <2>5
  <2> DEFINE a == messages[s][i + 1]
  <2>7. /\ i + 1 \in DOMAIN messages[s] /\ a \in Answers
        /\ a.chat = messages[s][i].chat /\ a.turn = messages[s][i].turn
        /\ Len(a.results) = Len(messages[s][i].uses)
    BY <2>6 DEF AnsweredAt
  <2>8. Sent(c)[i + 1] = Wire(a)
    BY <2>1, <2>7
  <2>9. a \in Message
    BY <2>7, MessageKinds
  <2> HIDE DEF a
  <2>10. Sent(c)[i + 1] = [role |-> "user", chat |-> a.chat, turn |-> a.turn, results |-> a.results]
    BY <2>7, <2>8, <2>9, WireProperties
  <2>11. /\ Sent(c)[i + 1].role = "user" /\ "results" \in DOMAIN Sent(c)[i + 1]
         /\ Sent(c)[i + 1].chat = a.chat /\ Sent(c)[i + 1].turn = a.turn
         /\ Sent(c)[i + 1].results = a.results
    BY <2>10
  <2>12. QED
    BY <2>1, <2>4, <2>7, <2>11
<1>6. Paired(Sent(c))
  BY <1>5 DEF Paired
<1>7. QED
  BY <1>3, <1>6

-----------------------------------------------------------------------------
(* The inductive invariant                                                 *)

IInv == Types /\ Loops /\ Approvals /\ NothingLost /\ Conversation

\* The chats start with nothing said, nothing approved and nothing run.
LEMMA Initially == Init => IInv
<1> SUFFICES ASSUME Init
             PROVE  IInv
  OBVIOUS
<1>1. Types
  <2>1. <<>> \in Seq(Message) /\ <<>> \in Seq(Result)
    OBVIOUS
  <2>2. "idle" \in Phase /\ NotAsked \in Closed
    BY DEF Phase, NotAsked, Closed
  <2>3. 0 \in 0..MaxTime /\ 0 \in 0..MaxTurns
    OBVIOUS
  <2>4. QED
    BY <2>1, <2>2, <2>3 DEF Init, Types
<1>2. Loops
  BY DEF Init, Loops, Loop, InLoop, InRound
<1>3. Approvals
  BY DEF Init, Approvals, Windows, Runs, RunsAreApproved
<1>4. NothingLost
  BY DEF Init, NothingLost
<1>5. Conversation
  <2>1. \A s \in Sessions : DOMAIN messages[s] = {}
    BY DEF Init
  <2>2. QED
    BY <2>1 DEF Init, Conversation, Alone, Heard, InFlight, InLoop, Attended
<1>6. QED
  BY <1>1, <1>2, <1>3, <1>4, <1>5 DEF IInv

\* Every step keeps the invariant.
LEMMA Inductively == IInv /\ [Next]_vars => IInv'
BY TypesStep, LoopsStep, ApprovalsStep, NothingLostStep, ConversationStep DEF IInv

\* The invariant holds in every state.
LEMMA Inductive == Spec => []IInv
BY Initially, Inductively, PTL DEF Spec

-----------------------------------------------------------------------------
(* The theorems                                                            *)

\* The variables keep their types, with no bound on chats, sessions or rounds.
THEOREM TypeCorrect == Spec => []TypeOK
<1>1. IInv => TypeOK
  BY TypesAreTypeOK DEF IInv
<1>2. QED
  BY <1>1, Inductive, PTL

\* What a chat told the provider about itself is what the session's transcript
\* says of it, however many chats share the session.
THEOREM NothingIsLost == Spec => []NothingLost
<1>1. IInv => NothingLost
  BY DEF IInv
<1>2. QED
  BY <1>1, Inductive, PTL

\* No tool runs outside the session's scopes, and no mutating one without the
\* user's yes, given to that use or to a window that was still open.
THEOREM RunsHaveLeave == Spec => []RunsAreApproved
<1>1. IInv => RunsAreApproved
  BY DEF IInv, Approvals
<1>2. QED
  BY <1>1, Inductive, PTL

\* The provider is given the whole session with an answer to every tool use, as
\* long as the session's chats came one at a time and none was abandoned.
THEOREM ConversationIsComplete == Spec => []ConversationComplete
<1>1. IInv => ConversationComplete
  BY CompleteFromParts DEF IInv
<1>2. QED
  BY <1>1, Inductive, PTL

\* The store only ever extends a transcript.
THEOREM TranscriptsGrow == Spec => TranscriptGrows
<1>1. ASSUME IInv, [Next]_vars, NEW s \in Sessions
      PROVE  IsPrefix(messages[s], messages'[s])
  <2> DEFINE q == messages[s]
  <2>1. q \in Seq(Message)
    BY <1>1 DEF IInv, Types
  <2>2. PICK said \in Seq(Message) : messages'[s] = q \o said
    BY <1>1, TranscriptExtends DEF IInv
  <2> HIDE DEF q
  <2>3. Len(q) <= Len(q \o said) /\ SubSeq(q \o said, 1, Len(q)) = q
    BY <2>1, SubSeqOfConcat1, SubSeqFull, ConcatProperties, LenProperties
  <2>4. SubSeq(q, 1, Len(q)) = q
    BY <2>1, SubSeqFull
  <2>5. QED
    BY <2>2, <2>3, <2>4 DEF IsPrefix, q
<1>2. IInv /\ [Next]_vars => [\A s \in Sessions : IsPrefix(messages[s], messages'[s])]_vars
  BY <1>1
<1>3. QED
  BY <1>2, Inductive, PTL DEF Spec, TranscriptGrows
==============================================================================
