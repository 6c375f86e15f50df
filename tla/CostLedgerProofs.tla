-------------------------- MODULE CostLedgerProofs --------------------------
(***************************************************************************)
(* Theorems about the cost ledger, for every set of chats, every prices    *)
(* that have a dearest one, every cap, calendar and number of launches.    *)
(***************************************************************************)
EXTENDS CostLedger, SumTheorems, SequenceTheorems, TLAPS

USE LedgerAssumption

-----------------------------------------------------------------------------
(* Arithmetic                                                              *)

\* The dearest turn.
LEMMA DearestPrice == Max(Prices) \in Nat /\ \A p \in Prices : p <= Max(Prices)
<1>1. PICK most \in Prices : \A p \in Prices : p <= most
  OBVIOUS
<1>2. \A p \in Prices : most >= p
  BY <1>1
<1>3. Max(Prices) \in Prices /\ \A p \in Prices : Max(Prices) >= p
  BY <1>2 DEF Max
<1>4. QED
  BY <1>3

\* Prices are naturals, and so is no price.
LEMMA PricesAreNatural == \A p \in Prices \cup {0} : p \in Nat
<1>1. Prices \subseteq Nat
  OBVIOUS
<1>2. QED
  BY <1>1

\* The larger of two numbers.
LEMMA MaxOfTwo ==
  ASSUME NEW a \in Nat, NEW b \in Nat
  PROVE  Max({a, b}) \in Nat /\ a <= Max({a, b}) /\ b <= Max({a, b})
BY DEF Max

\* Products of naturals.
LEMMA Products ==
  ASSUME NEW a \in Nat, NEW b \in Nat, NEW k \in Nat, NEW m \in Nat
  PROVE  /\ a * k \in Nat /\ a * k * m = a * (k * m)
         /\ (a + 1) * k = a * k + k
         /\ a <= b => a * k <= b * k
<1>1. a * k \in Nat /\ a * k * m = a * (k * m) /\ (a + 1) * k = a * k + k
  OBVIOUS
<1>2. ASSUME a <= b
      PROVE  a * k <= b * k
  <2>1. b - a \in Nat
    BY <1>2
  <2>2. (b - a) * k \in Nat
    BY <2>1
  <2>3. b * k = a * k + (b - a) * k
    OBVIOUS
  <2>4. QED
    BY <1>1, <2>2, <2>3
<1>3. QED
  BY <1>1, <1>2

-----------------------------------------------------------------------------
(* The inductive invariant, in layers                                      *)

\* A chat under way is in one of its rounds, and only a turn that was answered
\* and has not reached the rollup has a price.
Rounds ==
  \A c \in Chats :
    /\ InFlight(c) => turn[c] \in 1..MaxTurns
    /\ price[c] \in (IF phase[c] \in {"waiting", "writing", "written"} THEN Prices ELSE {0})

\* No line is of a launch to come.
Lines == \A i \in DOMAIN file : file[i].launch <= launch

\* What a chat that is under way may still add to the rollup: the turn that is
\* on its way there, and the dearest turn for every round that is left.
MayAdd(p, t, cost) ==
  IF p \in {"calling", "waiting", "writing", "written", "tools"}
  THEN cost + ((MaxTurns - t) + (IF p = "calling" THEN 1 ELSE 0)) * Max(Prices)
  ELSE 0
Exposure == [c \in Chats |-> MayAdd(phase[c], turn[c], price[c])]

\* What is spent and what may still be spent stays within what the chats that
\* were admitted side by side below the cap can add to it.
Spending ==
  /\ Cardinality(UnderWay) <= peak
  /\ Cap > 0 =>
       today + SumFunctionOnSet(Exposure, Chats) <= (Cap - 1) + peak * MaxTurns * Max(Prices)

IInv == TypeOK /\ Rounds /\ Lines /\ Spending /\ BooksAgree

-----------------------------------------------------------------------------
(* Types and rounds                                                        *)

\* A step of a chat: the last conjunct of each action is about one chat.
ChatStep(c) ==
  \/ Admit(c) \/ Refuse(c) \/ ProviderReplies(c) \/ ProviderFails(c) \/ Lock(c)
  \/ Write(c) \/ AddUp(c) \/ EndTools(c) \/ HangUp(c)

\* The steps of the launcher.
LEMMA Steps ==
  [Next]_vars => (\E c \in Chats : ChatStep(c)) \/ Restart \/ NextDay \/ UNCHANGED vars
BY DEF Next, Work, ChatStep, Quiescent

\* The phases.
LEMMA Phases ==
  \A p \in {"idle", "calling", "waiting", "writing", "written", "tools", "returned", "refused",
            "failed", "gone"} : p \in Phase
BY DEF Phase

\* A chat moves on, and no other does.
LEMMA ChatMoves ==
  ASSUME TypeOK, NEW c \in Chats, NEW to \in Phase, Go(c, to)
  PROVE  /\ phase' \in [Chats -> Phase] /\ phase'[c] = to
         /\ \A d \in Chats \ {c} : phase'[d] = phase[d]
BY DEF Go, TypeOK

\* The set of chats under way is finite.
LEMMA FewUnderWay ==
  ASSUME NEW c \in Chats
  PROVE  /\ IsFiniteSet(UnderWay) /\ Cardinality(UnderWay) \in Nat
         /\ Cardinality(UnderWay \cup {c}) \in Nat
BY FS_Subset, FS_AddElement, FS_CardinalityType DEF UnderWay

\* A line that joins the file.
LEMMA PutLineTypes ==
  ASSUME TypeOK, NEW c \in Chats, price[c] \in Prices, PutLine(c)
  PROVE  file' \in Seq(Line) /\ UNCHANGED unfiled
<1>1. [day |-> stamp[c], launch |-> launch, cost |-> price[c]] \in Line
  BY DEF TypeOK, Line
<1>2. QED
  BY <1>1, AppendProperties DEF PutLine, TypeOK

\* The last step of a turn.
LEMMA DoneTypes ==
  ASSUME TypeOK, NEW c \in Chats, Done(c)
  PROVE  phase' \in [Chats -> Phase] /\ price' \in [Chats -> Prices \cup {0}]
<1>1. price' \in [Chats -> Prices \cup {0}]
  BY DEF Done, TypeOK
<1>2. phase' \in [Chats -> Phase]
  BY Phases, ChatMoves DEF Done
<1>3. QED
  BY <1>1, <1>2

\* A step keeps the types.
LEMMA TypesStep == TypeOK /\ Rounds /\ [Next]_vars => TypeOK'
<1> SUFFICES ASSUME TypeOK, Rounds, [Next]_vars
             PROVE  TypeOK'
  OBVIOUS
<1>1. ASSUME NEW c \in Chats, Admit(c)
      PROVE  TypeOK'
  <2>1. phase' \in [Chats -> Phase]
    BY <1>1, Phases, ChatMoves DEF Admit
  <2>2. turn' \in [Chats -> 0..MaxTurns]
    BY <1>1 DEF Admit, TypeOK
  <2>3. peak' \in Nat
    BY <1>1, FewUnderWay, MaxOfTwo DEF Admit, TypeOK
  <2>4. QED
    BY <1>1, <2>1, <2>2, <2>3 DEF Admit, TypeOK
<1>2. ASSUME NEW c \in Chats, Refuse(c) \/ ProviderFails(c)
      PROVE  TypeOK'
  <2>1. phase' \in [Chats -> Phase]
    BY <1>2, Phases, ChatMoves DEF Refuse, ProviderFails
  <2>2. QED
    BY <1>2, <2>1 DEF Refuse, ProviderFails, TypeOK
<1>3. ASSUME NEW c \in Chats, ProviderReplies(c)
      PROVE  TypeOK'
  <2>1. phase' \in [Chats -> Phase]
    BY <1>3, Phases, ChatMoves DEF ProviderReplies
  <2>2. price' \in [Chats -> Prices \cup {0}] /\ stamp' \in [Chats -> 0..MaxDay]
    BY <1>3 DEF ProviderReplies, TypeOK
  <2>3. QED
    BY <1>3, <2>1, <2>2 DEF ProviderReplies, TypeOK
<1>4. ASSUME NEW c \in Chats, Lock(c)
      PROVE  TypeOK'
  <2>1. phase' \in [Chats -> Phase]
    BY <1>4, Phases, ChatMoves DEF Lock
  <2>2. QED
    BY <1>4, <2>1 DEF Lock, TypeOK
<1>5. ASSUME NEW c \in Chats, Write(c)
      PROVE  TypeOK'
  <2>1. phase' \in [Chats -> Phase]
    BY <1>5, Phases, ChatMoves DEF Write
  <2>2. price[c] \in Prices
    BY <1>5 DEF Write, Rounds
  <2>3. file' \in Seq(Line) /\ unfiled' \in BOOLEAN
    BY <1>5, <2>2, PutLineTypes DEF Write, LoseLine, TypeOK
  <2>4. QED
    BY <1>5, <2>1, <2>3 DEF Write, TypeOK
<1>6. ASSUME NEW c \in Chats, AddUp(c)
      PROVE  TypeOK'
  <2>1. phase' \in [Chats -> Phase] /\ price' \in [Chats -> Prices \cup {0}]
    BY <1>6, DoneTypes DEF AddUp
  <2>2. price[c] \in Nat
    <3>1. price[c] \in Prices \cup {0}
      BY DEF TypeOK
    <3>2. QED
      BY <3>1, PricesAreNatural
  <2>3. today' \in Nat
    BY <1>6, <2>2 DEF AddUp, TypeOK
  <2>4. QED
    BY <1>6, <2>1, <2>3 DEF AddUp, TypeOK
<1>7. ASSUME NEW c \in Chats, HangUp(c)
      PROVE  TypeOK'
  <2>1. phase' \in [Chats -> Phase]
    BY <1>7, Phases, ChatMoves DEF HangUp
  <2>2. phase[c] = "writing" => price[c] \in Prices
    BY DEF Rounds
  <2>3. file' \in Seq(Line) /\ unfiled' \in BOOLEAN
    BY <1>7, <2>2, PutLineTypes DEF HangUp, TypeOK
  <2>4. price' \in [Chats -> Prices \cup {0}] /\ writer' \in Chats \cup {NoChat}
    BY <1>7 DEF HangUp, TypeOK
  <2>5. QED
    BY <1>7, <2>1, <2>3, <2>4 DEF HangUp, TypeOK
<1>8. CASE Restart
  <2>1. launch' \in 0..MaxLaunch
    BY <1>8 DEF Restart, TypeOK
  <2>2. phase' \in [Chats -> Phase] /\ price' \in [Chats -> Prices \cup {0}]
    BY <1>8, Phases DEF Restart, TypeOK
  <2>3. QED
    BY <1>8, <2>1, <2>2 DEF Restart, TypeOK
<1>9. CASE NextDay
  <2>1. day' \in 0..MaxDay
    BY <1>9 DEF NextDay, TypeOK
  <2>2. QED
    BY <1>9, <2>1 DEF NextDay, TypeOK, chatVars
<1>10. CASE UNCHANGED vars
  BY <1>10 DEF vars, chatVars, TypeOK
<1>11. ASSUME NEW c \in Chats, EndTools(c)
       PROVE  TypeOK'
  <2>1. phase' \in [Chats -> Phase]
    BY <1>11, Phases, ChatMoves DEF EndTools
  <2>2. turn[c] \in 0..MaxTurns /\ (turn[c] < MaxTurns => turn[c] + 1 \in 0..MaxTurns)
    BY DEF TypeOK
  <2>3. turn' \in [Chats -> 0..MaxTurns]
    BY <1>11, <2>2 DEF EndTools, TypeOK
  <2>4. QED
    BY <1>11, <2>1, <2>3 DEF EndTools, TypeOK
<1>12. QED
  BY <1>1, <1>2, <1>3, <1>4, <1>5, <1>6, <1>7, <1>8, <1>9, <1>10, <1>11, Steps DEF ChatStep

\* A chat's step leaves the other chats where they are.
LEMMA OthersStay ==
  ASSUME TypeOK, NEW c \in Chats, ChatStep(c), NEW d \in Chats \ {c}
  PROVE  /\ phase'[d] = phase[d] /\ turn'[d] = turn[d] /\ price'[d] = price[d]
         /\ UNCHANGED launch
<1>1. CASE Admit(c) \/ Refuse(c) \/ ProviderFails(c) \/ Lock(c) \/ Write(c) \/ HangUp(c)
  BY <1>1 DEF Admit, Refuse, ProviderFails, Lock, Write, HangUp, Go, TypeOK
<1>2. CASE ProviderReplies(c)
  BY <1>2 DEF ProviderReplies, Go, TypeOK
<1>3. CASE AddUp(c)
  BY <1>3 DEF AddUp, Done, Go, TypeOK
<1>4. CASE EndTools(c)
  BY <1>4 DEF EndTools, Go, TypeOK
<1>5. QED
  BY <1>1, <1>2, <1>3, <1>4 DEF ChatStep

\* What a step does to the chat that takes it: the phase it goes to, its round,
\* its price and what it adds to the rollup.
LEMMA OwnMove ==
  ASSUME TypeOK, NEW c \in Chats, ChatStep(c)
  PROVE  \/ /\ phase[c] = "idle" /\ phase'[c] = "calling"
            /\ turn'[c] = 1 /\ UNCHANGED <<price, today>>
            /\ ~OverBudget /\ peak' = Max({peak, Cardinality(UnderWay \cup {c})})
         \/ /\ <<phase[c], phase'[c]>> \in {<<"idle", "refused">>, <<"calling", "failed">>}
            /\ UNCHANGED <<turn, price, today, peak>>
         \/ /\ phase[c] = "calling" /\ phase'[c] = "waiting"
            /\ price'[c] \in Prices /\ UNCHANGED <<turn, today, peak>>
         \/ /\ <<phase[c], phase'[c]>> \in {<<"waiting", "writing">>, <<"writing", "written">>}
            /\ UNCHANGED <<turn, price, today, peak>>
         \/ /\ phase[c] = "written" /\ price'[c] = 0 /\ today' = today + price[c]
            /\ phase'[c] \in {"returned", "tools"} /\ UNCHANGED <<turn, peak>>
         \/ /\ phase[c] = "tools" /\ UNCHANGED <<price, today, peak>>
            /\ \/ phase'[c] = "returned" /\ UNCHANGED turn
               \/ phase'[c] = "calling" /\ turn[c] < MaxTurns /\ turn'[c] = turn[c] + 1
         \/ /\ phase[c] \in {"calling", "waiting", "writing", "tools"} /\ phase'[c] = "gone"
            /\ price'[c] = 0 /\ UNCHANGED <<turn, today, peak>>
<1>1. CASE Admit(c)
  BY <1>1, Phases, ChatMoves DEF Admit, TypeOK
<1>2. CASE Refuse(c) \/ ProviderFails(c)
  BY <1>2, Phases, ChatMoves DEF Refuse, ProviderFails
<1>3. CASE ProviderReplies(c)
  BY <1>3, Phases, ChatMoves DEF ProviderReplies, TypeOK
<1>4. CASE AddUp(c)
  BY <1>4, Phases, ChatMoves DEF AddUp, Done, TypeOK
<1>5. CASE HangUp(c)
  BY <1>5, Phases, ChatMoves DEF HangUp, TypeOK
<1>6. CASE Lock(c) \/ Write(c)
  BY <1>6, Phases, ChatMoves DEF Lock, Write
<1>7. CASE EndTools(c)
  BY <1>7, Phases, ChatMoves DEF EndTools, TypeOK
<1>8. QED
  BY <1>1, <1>2, <1>3, <1>4, <1>5, <1>6, <1>7 DEF ChatStep

\* A step keeps the rounds and the prices.
LEMMA RoundsStep == TypeOK /\ Rounds /\ [Next]_vars => Rounds'
<1> SUFFICES ASSUME TypeOK, Rounds, [Next]_vars
             PROVE  Rounds'
  OBVIOUS
<1>1. ASSUME NEW c \in Chats, ChatStep(c)
      PROVE  Rounds'
  <2>1. ASSUME NEW d \in Chats \ {c}
        PROVE  /\ InFlight(d)' => turn'[d] \in 1..MaxTurns
               /\ price'[d] \in (IF phase'[d] \in {"waiting", "writing", "written"} THEN Prices ELSE {0})
    BY <1>1, OthersStay DEF Rounds, InFlight
  <2>2. /\ InFlight(c) => turn[c] \in 1..MaxTurns
        /\ price[c] \in (IF phase[c] \in {"waiting", "writing", "written"} THEN Prices ELSE {0})
        /\ turn[c] \in 0..MaxTurns
    BY DEF Rounds, TypeOK
  <2>3. InFlight(c)' => turn'[c] \in 1..MaxTurns
    <3>1. /\ InFlight(c)' => InFlight(c) \/ turn'[c] = 1
          /\ \/ turn'[c] = 1
             \/ turn'[c] = turn[c]
             \/ turn[c] < MaxTurns /\ turn'[c] = turn[c] + 1
      BY <1>1, OwnMove DEF InFlight
    <3>2. QED
      BY <2>2, <3>1
  <2>4. price'[c] \in (IF phase'[c] \in {"waiting", "writing", "written"} THEN Prices ELSE {0})
    BY <1>1, <2>2, OwnMove
  <2>5. QED
    BY <2>1, <2>3, <2>4 DEF Rounds
<1>2. CASE Restart
  BY <1>2 DEF Restart, Rounds, InFlight, TypeOK
<1>3. CASE NextDay \/ UNCHANGED vars
  BY <1>3 DEF NextDay, vars, chatVars, Rounds, InFlight
<1>4. QED
  BY <1>1, <1>2, <1>3, Steps

\* A step keeps the lines of the file in their launches.
LEMMA LinesStep == TypeOK /\ Lines /\ [Next]_vars => Lines'
<1> SUFFICES ASSUME TypeOK, Lines, [Next]_vars
             PROVE  Lines'
  OBVIOUS
<1>1. ASSUME NEW c \in Chats, PutLine(c), UNCHANGED launch
      PROVE  Lines'
  <2> DEFINE line == [day |-> stamp[c], launch |-> launch, cost |-> price[c]]
             n == Len(file)
  <2>1. file' = Append(file, line) /\ line.launch = launch
    BY <1>1 DEF PutLine
  <2> HIDE DEF line
  <2>2. n \in Nat /\ DOMAIN file = 1..n
    BY LenProperties DEF TypeOK
  <2>3. /\ DOMAIN file' = 1..(n + 1)
        /\ \A i \in 1..n : file'[i] = file[i]
        /\ file'[n + 1] = line
    BY <2>1, <2>2 DEF TypeOK
  <2>4. launch \in Nat
    BY DEF TypeOK
  <2>5. \A i \in 1..(n + 1) : i \in 1..n \/ i = n + 1
    BY <2>2
  <2>6. QED
    BY <1>1, <2>1, <2>2, <2>3, <2>4, <2>5 DEF Lines
<1>2. CASE UNCHANGED <<file, launch>>
  BY <1>2 DEF Lines
<1>3. CASE Restart
  <2>1. \A i \in DOMAIN file : file[i].launch \in Nat
    <3>1. \A i \in DOMAIN file : file[i] \in Line
      BY ElementOfSeq, LenProperties DEF TypeOK
    <3>2. QED
      BY <3>1 DEF Line
  <2>2. launch \in Nat /\ launch' = launch + 1 /\ UNCHANGED file
    BY <1>3 DEF Restart, TypeOK
  <2>3. QED
    BY <2>1, <2>2 DEF Lines
<1>4. ASSUME NEW c \in Chats, ChatStep(c)
      PROVE  UNCHANGED launch /\ (UNCHANGED file \/ PutLine(c))
  BY <1>4 DEF ChatStep, Admit, Refuse, ProviderReplies, ProviderFails, Lock, Write, AddUp, EndTools,
       HangUp, LoseLine
<1>5. CASE NextDay \/ UNCHANGED vars
  BY <1>2, <1>5 DEF NextDay, vars
<1>6. QED
  BY <1>1, <1>2, <1>3, <1>4, <1>5, Steps

-----------------------------------------------------------------------------
(* What is spent and what may be                                           *)

\* What a chat may add is at most every round of it at the dearest price, and
\* nothing when it is not under way.
LEMMA MayAddProperties ==
  ASSUME NEW p \in Phase, NEW t \in 0..MaxTurns, NEW cost,
         p \in {"calling", "waiting", "writing", "written", "tools"} => t \in 1..MaxTurns,
         cost \in (IF p \in {"waiting", "writing", "written"} THEN Prices ELSE {0})
  PROVE  /\ MayAdd(p, t, cost) \in 0..(MaxTurns * Max(Prices))
         /\ p \notin {"calling", "waiting", "writing", "written", "tools"} => MayAdd(p, t, cost) = 0
         /\ cost \in Nat /\ cost <= MayAdd(p, t, cost)
<1> DEFINE M == Max(Prices)
<1>a. M \in Nat /\ \A x \in Prices : x \in Nat /\ x <= M
  BY DearestPrice, PricesAreNatural
<1>b. MaxTurns \in Nat
  OBVIOUS
<1> HIDE DEF M
<1>c. MaxTurns * M \in Nat
  BY <1>a, <1>b, Products
<1>1. CASE p = "calling"
  <2>1. cost = 0 /\ MayAdd(p, t, cost) = cost + ((MaxTurns - t) + 1) * M
    BY <1>1 DEF MayAdd, M
  <2>2. (MaxTurns - t) + 1 \in Nat /\ (MaxTurns - t) + 1 <= MaxTurns
    BY <1>1, <1>b
  <2> DEFINE left == (MaxTurns - t) + 1
  <2> HIDE DEF left
  <2>3. left \in Nat /\ left <= MaxTurns
    BY <2>2 DEF left
  <2>4. left * M \in Nat /\ left * M <= MaxTurns * M
    BY <1>a, <1>b, <2>3, Products
  <2>5. MayAdd(p, t, cost) = left * M
    BY <2>1, <2>4 DEF left
  <2>6. QED
    BY <1>1, <1>c, <2>1, <2>4, <2>5 DEF M
<1>2. CASE p \in {"waiting", "writing", "written"}
  <2>1. cost \in Prices /\ cost \in Nat /\ cost <= M
    BY <1>a, <1>2
  <2>2. MayAdd(p, t, cost) = cost + ((MaxTurns - t) + 0) * M
    BY <1>2 DEF MayAdd, M
  <2> DEFINE left == MaxTurns - t
  <2>3. left \in Nat /\ left + 1 \in Nat /\ left + 1 <= MaxTurns /\ left + 0 = left
    BY <1>2, <1>b
  <2> HIDE DEF left
  <2>4. left * M \in Nat /\ (left + 1) * M <= MaxTurns * M /\ (left + 1) * M = left * M + M
    BY <1>a, <1>b, <2>3, Products
  <2>5. MayAdd(p, t, cost) = cost + left * M
    BY <2>2, <2>3 DEF left
  <2>6. MayAdd(p, t, cost) \in 0..(MaxTurns * M) /\ cost <= MayAdd(p, t, cost)
    BY <1>a, <1>c, <2>1, <2>4, <2>5
  <2>7. QED
    BY <1>2, <2>1, <2>6 DEF M
<1>3. CASE p = "tools"
  <2>1. cost = 0 /\ MayAdd(p, t, cost) = cost + ((MaxTurns - t) + 0) * M
    BY <1>3 DEF MayAdd, M
  <2> DEFINE left == MaxTurns - t
  <2>2. left \in Nat /\ left <= MaxTurns /\ left + 0 = left
    BY <1>3, <1>b
  <2> HIDE DEF left
  <2>3. left * M \in Nat /\ left * M <= MaxTurns * M
    BY <1>a, <1>b, <2>2, Products
  <2>4. MayAdd(p, t, cost) = left * M
    BY <2>1, <2>2, <2>3 DEF left
  <2>5. QED
    BY <1>3, <1>c, <2>1, <2>3, <2>4 DEF M
<1>4. CASE p \notin {"calling", "waiting", "writing", "written", "tools"}
  BY <1>4, <1>c DEF MayAdd, M
<1>5. QED
  BY <1>1, <1>2, <1>3, <1>4

\* No step but an admission raises what is spent and what may be, together.
LEMMA NothingAdded ==
  ASSUME TypeOK, Rounds, NEW c \in Chats, ChatStep(c), phase[c] # "idle"
  PROVE  /\ today' + MayAdd(phase'[c], turn'[c], price'[c])
              <= today + MayAdd(phase[c], turn[c], price[c])
         /\ InFlight(c)' => InFlight(c)
         /\ UNCHANGED peak
<1> DEFINE M == Max(Prices)
           t == turn[c]
           x == price[c]
<1>a. M \in Nat /\ \A y \in Prices : y \in Nat /\ y <= M
  BY DearestPrice, PricesAreNatural
<1>b. /\ MaxTurns \in Nat /\ today \in Nat /\ t \in 0..MaxTurns /\ phase[c] \in Phase
      /\ InFlight(c) => t \in 1..MaxTurns
      /\ x \in (IF phase[c] \in {"waiting", "writing", "written"} THEN Prices ELSE {0})
  BY DEF TypeOK, Rounds
<1>c. MayAdd(phase[c], t, x) \in Nat
  BY <1>b, <1>a, MayAddProperties, Products DEF InFlight
<1>d. InFlight(c)' => InFlight(c)
  BY OwnMove DEF InFlight
<1>e. UNCHANGED peak
  BY OwnMove
<1> HIDE DEF M, t, x
<1>1. CASE phase'[c] \in {"refused", "failed", "gone"} /\ UNCHANGED today
  <2>1. MayAdd(phase'[c], turn'[c], price'[c]) = 0
    BY <1>1 DEF MayAdd
  <2>2. QED
    BY <1>1, <1>b, <1>c, <1>d, <1>e, <2>1 DEF t, x
<1>2. CASE /\ phase[c] = "calling" /\ phase'[c] = "waiting" /\ price'[c] \in Prices
           /\ UNCHANGED <<turn, today>>
  <2> DEFINE left == MaxTurns - t
  <2>1. left \in Nat /\ left + 0 = left
    BY <1>2, <1>b DEF InFlight
  <2>2. /\ MayAdd(phase[c], t, x) = x + (left + 1) * M
        /\ MayAdd(phase'[c], turn'[c], price'[c]) = price'[c] + (left + 0) * M
        /\ x = 0
    BY <1>2, <1>b DEF MayAdd, M, t
  <2> HIDE DEF left
  <2>3. (left + 1) * M = left * M + M /\ left * M \in Nat
    BY <1>a, <2>1, Products
  <2>4. price'[c] \in Nat /\ price'[c] <= M
    BY <1>2, <1>a
  <2>5. MayAdd(phase'[c], turn'[c], price'[c]) <= MayAdd(phase[c], t, x)
    BY <1>a, <2>1, <2>2, <2>3, <2>4
  <2>6. MayAdd(phase'[c], turn'[c], price'[c]) \in Nat
    BY <2>1, <2>2, <2>3, <2>4
  <2>7. QED
    BY <1>2, <1>b, <1>c, <1>d, <1>e, <2>5, <2>6 DEF t, x
<1>3. CASE /\ phase[c] \in {"waiting", "writing"} /\ phase'[c] \in {"writing", "written"}
           /\ UNCHANGED <<turn, price, today>>
  <2>1. MayAdd(phase'[c], turn'[c], price'[c]) = MayAdd(phase[c], t, x)
    BY <1>3 DEF MayAdd, t, x
  <2>2. QED
    BY <1>3, <1>b, <1>c, <1>d, <1>e, <2>1 DEF t, x
<1>4. CASE /\ phase[c] = "written" /\ price'[c] = 0 /\ today' = today + price[c]
           /\ phase'[c] \in {"returned", "tools"} /\ UNCHANGED turn
  <2> DEFINE left == MaxTurns - t
  <2>1. left \in Nat /\ left + 0 = left /\ x \in Nat
    BY <1>4, <1>a, <1>b DEF InFlight
  <2>2. MayAdd(phase[c], t, x) = x + (left + 0) * M
    BY <1>4 DEF MayAdd, M
  <2>3. left * M \in Nat
    BY <1>a, <2>1, Products
  <2>4. MayAdd(phase'[c], turn'[c], price'[c]) \in {0, left * M}
    <3>1. CASE phase'[c] = "returned"
      BY <3>1 DEF MayAdd
    <3>2. CASE phase'[c] = "tools"
      <4>1. MayAdd(phase'[c], turn'[c], price'[c]) = 0 + (left + 0) * M
        BY <1>4, <3>2 DEF MayAdd, M, t
      <4> HIDE DEF left
      <4>2. QED
        BY <2>1, <2>3, <4>1
    <3>3. QED
      BY <1>4, <3>1, <3>2
  <2> HIDE DEF left
  <2>5. /\ today' = today + x
        /\ today' + MayAdd(phase'[c], turn'[c], price'[c]) <= today + MayAdd(phase[c], t, x)
    <3>1. today' = today + x
      BY <1>4 DEF x
    <3>2. MayAdd(phase[c], t, x) = x + left * M
      BY <2>1, <2>2
    <3>3. QED
      BY <1>b, <2>1, <2>3, <2>4, <3>1, <3>2
  <2>6. QED
    BY <1>d, <1>e, <2>5 DEF t, x
<1>5. CASE /\ phase[c] = "tools" /\ UNCHANGED <<price, today>>
           /\ \/ phase'[c] = "returned"
              \/ phase'[c] = "calling" /\ turn[c] < MaxTurns /\ turn'[c] = turn[c] + 1
  <2> DEFINE left == MaxTurns - t
  <2>1. left \in Nat /\ left + 0 = left /\ (MaxTurns - (t + 1)) + 1 = left
    BY <1>5, <1>b DEF InFlight
  <2>2. x = 0
    BY <1>5, <1>b
  <2>3. MayAdd(phase[c], t, x) = 0 + (left + 0) * M
    BY <1>5, <2>2 DEF MayAdd, M
  <2>4. left * M \in Nat
    BY <1>a, <2>1, Products
  <2>5. MayAdd(phase'[c], turn'[c], price'[c]) \in {0, left * M}
    <3>1. CASE phase'[c] = "returned"
      BY <3>1 DEF MayAdd
    <3>2. CASE phase'[c] = "calling" /\ turn'[c] = turn[c] + 1
      <4>1. price'[c] = 0
        BY <1>5, <2>2 DEF x
      <4>2. MayAdd(phase'[c], turn'[c], price'[c]) = 0 + ((MaxTurns - (t + 1)) + 1) * M
        BY <3>2, <4>1 DEF MayAdd, M, t
      <4> HIDE DEF left
      <4>3. MayAdd(phase'[c], turn'[c], price'[c]) = 0 + left * M
        BY <2>1, <4>2
      <4>4. QED
        BY <2>4, <4>3
    <3>3. QED
      BY <1>5, <3>1, <3>2
  <2> HIDE DEF left
  <2>6. MayAdd(phase[c], t, x) = left * M
    BY <2>1, <2>3, <2>4
  <2>7. today' + MayAdd(phase'[c], turn'[c], price'[c]) <= today + MayAdd(phase[c], t, x)
    BY <1>5, <1>b, <2>4, <2>5, <2>6
  <2>8. QED
    BY <1>d, <1>e, <2>7 DEF t, x
<1>6. QED
  BY <1>1, <1>2, <1>3, <1>4, <1>5, OwnMove

\* What the chats may add, and the sum of it.
LEMMA ExposureProperties ==
  ASSUME TypeOK, Rounds
  PROVE  /\ \A c \in Chats : /\ Exposure[c] \in 0..(MaxTurns * Max(Prices))
                             /\ Exposure[c] \in Nat
                             /\ c \notin UnderWay => Exposure[c] = 0
                             /\ price[c] \in Nat /\ price[c] <= Exposure[c]
         /\ SumFunctionOnSet(Exposure, Chats) \in Nat
<1>1. ASSUME NEW c \in Chats
      PROVE  /\ Exposure[c] \in 0..(MaxTurns * Max(Prices))
             /\ c \notin UnderWay => Exposure[c] = 0
             /\ price[c] \in Nat /\ price[c] <= Exposure[c]
  <2>1. /\ phase[c] \in Phase /\ turn[c] \in 0..MaxTurns
        /\ InFlight(c) => turn[c] \in 1..MaxTurns
        /\ price[c] \in (IF phase[c] \in {"waiting", "writing", "written"} THEN Prices ELSE {0})
    BY DEF TypeOK, Rounds
  <2>2. Exposure[c] = MayAdd(phase[c], turn[c], price[c])
    BY DEF Exposure
  <2>3. c \notin UnderWay => ~InFlight(c)
    BY DEF UnderWay
  <2>4. QED
    BY <2>1, <2>2, <2>3, MayAddProperties DEF InFlight
<1>2. MaxTurns * Max(Prices) \in Nat
  BY DearestPrice, Products
<1>3. \A c \in Chats : Exposure[c] \in Nat
  BY <1>1, <1>2
<1>4. SumFunctionOnSet(Exposure, Chats) \in Nat
  BY <1>3, SumOfNaturals
<1>5. QED
  BY <1>1, <1>3, <1>4

\* A step keeps what is spent, and what may be, within the chats' share.
LEMMA SpendingStep ==
  ASSUME TypeOK, Rounds, Spending, [Next]_vars, TypeOK', Rounds'
  PROVE  Spending'
<1> DEFINE M == Max(Prices)
           k == MaxTurns * M
           e == Exposure
           sum == SumFunctionOnSet(Exposure, Chats)
<1>a. /\ M \in Nat /\ k \in Nat /\ MaxTurns \in Nat /\ Cap \in Nat /\ IsFiniteSet(Chats)
      /\ today \in Nat /\ today' \in Nat /\ peak \in Nat /\ peak' \in Nat
  BY DearestPrice, Products DEF TypeOK
<1>b. sum \in Nat /\ \A c \in Chats : Exposure[c] \in Nat
  BY ExposureProperties
<1>c. /\ \A c \in Chats : /\ Exposure'[c] \in 0..(MaxTurns * Max(Prices))
                          /\ Exposure'[c] \in Nat
                          /\ c \notin UnderWay' => Exposure'[c] = 0
      /\ SumFunctionOnSet(Exposure', Chats) \in Nat
  <2>1. ASSUME NEW c \in Chats
        PROVE  /\ Exposure'[c] \in 0..(MaxTurns * Max(Prices))
               /\ c \notin UnderWay' => Exposure'[c] = 0
    <3>1. /\ phase'[c] \in Phase /\ turn'[c] \in 0..MaxTurns
          /\ InFlight(c)' => turn'[c] \in 1..MaxTurns
          /\ price'[c] \in (IF phase'[c] \in {"waiting", "writing", "written"} THEN Prices ELSE {0})
      BY DEF TypeOK, Rounds
    <3>2. Exposure'[c] = MayAdd(phase'[c], turn'[c], price'[c])
      BY DEF Exposure
    <3>3. c \notin UnderWay' => ~InFlight(c)'
      BY DEF UnderWay
    <3>4. QED
      BY <3>1, <3>2, <3>3, MayAddProperties DEF InFlight
  <2>2. \A c \in Chats : Exposure'[c] \in Nat
    BY <1>a, <2>1
  <2>3. SumFunctionOnSet(Exposure', Chats) \in Nat
    BY <2>2, SumOfNaturals
  <2>4. QED
    BY <2>1, <2>2, <2>3
<1>d. UnderWay' \in SUBSET Chats /\ UnderWay \in SUBSET Chats /\ IsFiniteSet(UnderWay)
      /\ IsFiniteSet(UnderWay') /\ Cardinality(UnderWay') \in Nat /\ Cardinality(UnderWay) \in Nat
  <2>1. UnderWay' \in SUBSET Chats /\ UnderWay \in SUBSET Chats
    BY DEF UnderWay
  <2>2. QED
    BY <2>1, FS_Subset, FS_CardinalityType
\* What the chats that are under way can add is their number of shares.
<1>e. SumFunctionOnSet(Exposure', Chats) <= Cardinality(UnderWay') * k
  <2>1. \A c \in Chats : Exposure'[c] \in 0..k
    BY <1>c
  <2>2. \A c \in Chats \ UnderWay' : Exposure'[c] = 0
    BY <1>c
  <2> HIDE DEF k
  <2>3. QED
    BY <1>a, <1>d, <2>1, <2>2, SumIsBounded
<1>1. ASSUME NEW c \in Chats, ChatStep(c), phase[c] # "idle"
      PROVE  Spending'
  <2>1. /\ today' + MayAdd(phase'[c], turn'[c], price'[c])
             <= today + MayAdd(phase[c], turn[c], price[c])
        /\ InFlight(c)' => InFlight(c)
        /\ UNCHANGED peak
    BY <1>1, NothingAdded
  <2>2. /\ Exposure'[c] = MayAdd(phase'[c], turn'[c], price'[c])
        /\ Exposure[c] = MayAdd(phase[c], turn[c], price[c])
    BY DEF Exposure
  <2>3. \A d \in Chats \ {c} : Exposure'[d] = Exposure[d]
    BY <1>1, OthersStay DEF Exposure
  <2>4. SumFunctionOnSet(Exposure', Chats) + Exposure[c] = sum + Exposure'[c]
    BY <1>a, <1>b, <1>c, <2>3, SumOfChanged
  <2>5. today' + SumFunctionOnSet(Exposure', Chats) <= today + sum
    <3> HIDE DEF sum
    <3>1. Exposure'[c] \in Nat /\ Exposure[c] \in Nat
      BY <1>b, <1>c
    <3>2. today' + Exposure'[c] <= today + Exposure[c]
      BY <2>1, <2>2
    <3>3. QED
      BY <1>a, <1>b, <1>c, <2>4, <3>1, <3>2
  <2>6. UnderWay' \subseteq UnderWay
    <3>1. \A d \in Chats : InFlight(d)' => InFlight(d)
      BY <1>1, <2>1, OthersStay DEF InFlight
    <3>2. QED
      BY <3>1 DEF UnderWay
  <2>7. Cardinality(UnderWay') <= peak'
    <3>1. Cardinality(UnderWay') <= Cardinality(UnderWay)
      BY <1>d, <2>6, FS_Subset
    <3>2. Cardinality(UnderWay) <= peak
      BY DEF Spending
    <3>3. QED
      BY <1>a, <1>d, <2>1, <3>1, <3>2
  <2>8. Cap > 0 => today' + SumFunctionOnSet(Exposure', Chats)
                     <= (Cap - 1) + peak' * MaxTurns * Max(Prices)
    <3>1. peak * MaxTurns * M = peak * k /\ peak * k \in Nat
      BY <1>a, Products
    <3>2. SUFFICES ASSUME Cap > 0
                   PROVE  today' + SumFunctionOnSet(Exposure', Chats) <= (Cap - 1) + peak * MaxTurns * M
      BY <2>1
    <3>3. today + sum <= (Cap - 1) + peak * MaxTurns * M
      BY <3>2 DEF Spending
    <3> HIDE DEF sum, k, M
    <3>4. QED
      BY <1>a, <1>b, <1>c, <2>5, <3>1, <3>3
  <2>9. QED
    BY <2>7, <2>8 DEF Spending
<1>2. ASSUME NEW c \in Chats, ChatStep(c), phase[c] = "idle", phase'[c] # "calling"
      PROVE  Spending'
  <2>1. UNCHANGED <<turn, price, today, peak>> /\ phase'[c] = "refused"
    BY <1>2, OwnMove
  <2>2. \A d \in Chats : Exposure'[d] = Exposure[d] /\ (InFlight(d)' <=> InFlight(d))
    BY <1>2, <2>1, OthersStay DEF Exposure, MayAdd, InFlight
  <2>3. Exposure' = Exposure /\ UnderWay' = UnderWay
    BY <2>2 DEF Exposure, UnderWay
  <2>4. QED
    BY <2>1, <2>3 DEF Spending
<1>3. ASSUME NEW c \in Chats, ChatStep(c), phase[c] = "idle", phase'[c] = "calling"
      PROVE  Spending'
  <2>1. /\ UNCHANGED today /\ ~OverBudget
        /\ peak' = Max({peak, Cardinality(UnderWay \cup {c})})
    BY <1>3, OwnMove
  <2>2. UnderWay' = UnderWay \cup {c}
    <3>1. \A d \in Chats : InFlight(d)' <=> InFlight(d) \/ d = c
      BY <1>3, OthersStay DEF InFlight
    <3>2. QED
      BY <3>1 DEF UnderWay
  <2>3. Cardinality(UnderWay') <= peak'
    BY <1>a, <1>d, <2>1, <2>2, MaxOfTwo
  <2>4. Cardinality(UnderWay') * k <= peak' * k
    <3> HIDE DEF k
    <3>1. QED
      BY <1>a, <1>d, <2>3, Products
  <2>5. peak' * MaxTurns * M = peak' * k /\ peak' * k \in Nat
    BY <1>a, Products
  <2>6. Cap > 0 => today <= Cap - 1
    BY <1>a, <2>1 DEF OverBudget
  <2>7. Cardinality(UnderWay') * k \in Nat
    BY <1>a, <1>d, Products
  <2>8. Cap > 0 => today' + SumFunctionOnSet(Exposure', Chats)
                     <= (Cap - 1) + peak' * MaxTurns * M
    <3> DEFINE share == Cardinality(UnderWay') * k
               bound == peak' * k
    <3> HIDE DEF share, bound
    <3>1. share \in Nat /\ bound \in Nat /\ share <= bound
          /\ SumFunctionOnSet(Exposure', Chats) <= share
      BY <1>e, <2>4, <2>5, <2>7 DEF share, bound
    <3>2. peak' * MaxTurns * M = bound
      BY <2>5 DEF bound
    <3> HIDE DEF M, k
    <3>3. today' = today
      BY <2>1
    <3> DEFINE more == SumFunctionOnSet(Exposure', Chats)
    <3>4. more \in Nat /\ more <= share
      BY <1>c, <3>1
    <3> HIDE DEF more
    <3>5. Cap > 0 => today + more <= (Cap - 1) + bound
      BY <1>a, <2>6, <3>1, <3>4
    <3>6. QED
      BY <3>2, <3>3, <3>5 DEF more
  <2>9. QED
    BY <2>3, <2>8 DEF Spending
<1>4. CASE Restart
  <2>1. today' = 0 /\ peak' = 0 /\ UnderWay' = {}
    BY <1>4 DEF Restart, UnderWay, InFlight, TypeOK
  <2>2. Cardinality(UnderWay') = 0
    BY <2>1, FS_EmptySet
  <2>3. SumFunctionOnSet(Exposure', Chats) <= 0 * k
    BY <1>e, <2>2
  <2>4. 0 * k = 0 /\ 0 * MaxTurns * M = 0
    <3>1. \A n \in Nat : 0 * n = 0
      OBVIOUS
    <3> HIDE DEF k, M
    <3>2. QED
      BY <1>a, <3>1
  <2>5. SumFunctionOnSet(Exposure', Chats) <= 0
    <3> HIDE DEF k
    <3>1. QED
      BY <2>3, <2>4
  <2>6. Cap > 0 => today' + SumFunctionOnSet(Exposure', Chats) <= (Cap - 1) + peak' * MaxTurns * M
    <3> HIDE DEF M
    <3>1. QED
      BY <1>a, <1>c, <2>1, <2>4, <2>5
  <2>7. QED
    BY <2>1, <2>2, <2>6 DEF Spending
<1>5. CASE NextDay \/ UNCHANGED vars
  <2>1. UNCHANGED <<phase, turn, price, today, peak>>
    BY <1>5 DEF NextDay, vars, chatVars
  <2>2. Exposure' = Exposure /\ UnderWay' = UnderWay
    BY <2>1 DEF Exposure, UnderWay, InFlight
  <2>3. QED
    BY <2>1, <2>2 DEF Spending
<1>6. QED
  BY <1>1, <1>2, <1>3, <1>4, <1>5, Steps

\* The invariant bounds what is spent.
LEMMA BoundedFromSpending == TypeOK /\ Rounds /\ Spending => OvershootBounded
<1> SUFFICES ASSUME TypeOK, Rounds, Spending, Cap > 0
             PROVE  today + Pending <= (Cap - 1) + peak * MaxTurns * Max(Prices)
  BY DEF OvershootBounded
<1>1. Pending = SumFunctionOnSet(price, Chats)
  BY DEF Pending, SumFunction, TypeOK
<1>2. \A c \in Chats : price[c] \in Nat /\ Exposure[c] \in Nat /\ price[c] <= Exposure[c]
  BY ExposureProperties
<1>3. SumFunctionOnSet(price, Chats) <= SumFunctionOnSet(Exposure, Chats)
  BY <1>2, SumIsMonotone
<1>4. /\ SumFunctionOnSet(price, Chats) \in Nat /\ SumFunctionOnSet(Exposure, Chats) \in Nat
  BY <1>2, SumOfNaturals
<1>5. today + SumFunctionOnSet(Exposure, Chats) <= (Cap - 1) + peak * MaxTurns * Max(Prices)
  BY DEF Spending
<1> DEFINE bound == (Cap - 1) + peak * MaxTurns * Max(Prices)
<1>6. bound \in Int /\ today \in Nat
  BY DearestPrice DEF TypeOK
<1> HIDE DEF bound
<1>7. today + SumFunctionOnSet(Exposure, Chats) <= bound
  BY <1>5 DEF bound
<1>8. today + Pending <= bound
  BY <1>1, <1>3, <1>4, <1>6, <1>7
<1>9. QED
  BY <1>8 DEF bound

-----------------------------------------------------------------------------
(* The books                                                               *)

\* The chats between the file and the rollup, what the rollup is owed for them,
\* and what the file shows of this launch.
Between == {c \in Chats : phase[c] = "written"}
Owed    == SumFunctionOnSet(price, Between)
Shown   == Filed(OfThisLaunch)
NoneGone == \A c \in Chats : phase[c] # "gone"

\* The money on the lines of q that are of launch l.
MoneyOf(q, l) ==
  SumFunctionOnSet([i \in DOMAIN q |-> q[i].cost], {i \in DOMAIN q : q[i].launch = l})

\* The names change nothing.
LEMMA BooksInShort ==
  BooksAgree <=> (~unfiled => today + Owed <= Shown /\ (NoneGone => today + Owed = Shown))
BY DEF BooksAgree, Owed, Between, Shown, NoneGone

\* What the file shows is the money on its lines.
LEMMA ShownIsMoney == Shown = MoneyOf(file, launch)
BY DEF Shown, Filed, OfThisLaunch, MoneyOf

\* The lines of a launch, and their costs.
LEMMA LinesOfLaunch ==
  ASSUME NEW q \in Seq(Line), NEW l
  PROVE  /\ IsFiniteSet({i \in DOMAIN q : q[i].launch = l})
         /\ \A i \in DOMAIN q : q[i].cost \in Nat
         /\ MoneyOf(q, l) \in Nat
<1> DEFINE T == {i \in DOMAIN q : q[i].launch = l}
           costs == [i \in DOMAIN q |-> q[i].cost]
<1>1. Len(q) \in Nat /\ DOMAIN q = 1..Len(q)
  BY LenProperties
<1>2. IsFiniteSet(T)
  <2>1. IsFiniteSet(1..Len(q))
    BY <1>1, FS_Interval
  <2>2. T \in SUBSET (1..Len(q))
    BY <1>1
  <2>3. QED
    BY <2>1, <2>2, FS_Subset
<1>3. \A i \in DOMAIN q : q[i].cost \in Nat
  <2>1. \A i \in DOMAIN q : q[i] \in Line
    BY <1>1, ElementOfSeq
  <2>2. \A i \in DOMAIN q : q[i].cost \in Prices
    BY <2>1 DEF Line
  <2>3. QED
    BY <2>2, PricesAreNatural
<1>4. \A i \in T : costs[i] \in Nat
  BY <1>3
<1> HIDE DEF T, costs
<1>5. SumFunctionOnSet(costs, T) \in Nat
  BY <1>2, <1>4, SumOfNaturals
<1>6. QED
  BY <1>2, <1>3, <1>5 DEF MoneyOf, T, costs

\* A line adds its cost to its launch.
LEMMA MoneyGrows ==
  ASSUME NEW q \in Seq(Line), NEW line \in Line
  PROVE  MoneyOf(Append(q, line), line.launch) = MoneyOf(q, line.launch) + line.cost
<1> DEFINE l == line.launch
           p == Append(q, line)
           n == Len(q)
           T == {i \in DOMAIN q : q[i].launch = l}
           before == [i \in DOMAIN q |-> q[i].cost]
           after == [i \in DOMAIN p |-> p[i].cost]
<1>1. /\ n \in Nat /\ DOMAIN q = 1..n /\ DOMAIN p = 1..(n + 1)
      /\ \A i \in 1..n : p[i] = q[i]
      /\ p[n + 1] = line
  BY AppendProperties, LenProperties
<1>2. IsFiniteSet(T) /\ (\A i \in DOMAIN q : q[i].cost \in Nat) /\ MoneyOf(q, l) \in Nat
  BY LinesOfLaunch
<1> HIDE DEF p
<1>3. {i \in DOMAIN p : p[i].launch = l} = T \cup {n + 1}
  <2>1. \A i : i \in 1..(n + 1) <=> i \in 1..n \/ i = n + 1
    BY <1>1
  <2>2. QED
    BY <1>1, <2>1
<1>4. n + 1 \notin T /\ T \subseteq 1..n
  BY <1>1
<1>5. line.cost \in Nat
  <2>1. line.cost \in Prices
    BY DEF Line
  <2>2. QED
    BY <2>1, PricesAreNatural
<1>6. /\ \A i \in T : after[i] = before[i] /\ after[i] \in Nat
      /\ after[n + 1] = line.cost
  <2>1. \A i \in T : i \in DOMAIN p /\ i \in DOMAIN q /\ p[i] = q[i]
    BY <1>1, <1>4
  <2>2. n + 1 \in DOMAIN p
    BY <1>1
  <2>3. QED
    BY <1>1, <1>2, <2>1, <2>2
<1> HIDE DEF T, before, after
<1>7. SumFunctionOnSet(after, T \cup {n + 1}) = after[n + 1] + SumFunctionOnSet(after, T)
  BY <1>2, <1>4, <1>5, <1>6, SumOfMore
<1>8. SumFunctionOnSet(after, T) = SumFunctionOnSet(before, T)
  BY <1>2, <1>6, SumOfSame
<1>9. MoneyOf(p, l) = SumFunctionOnSet(after, T \cup {n + 1})
  BY <1>3 DEF MoneyOf, after
<1>10. MoneyOf(q, l) = SumFunctionOnSet(before, T)
  BY DEF MoneyOf, before, T
<1>11. MoneyOf(p, l) = MoneyOf(q, l) + line.cost
  BY <1>2, <1>5, <1>6, <1>7, <1>8, <1>9, <1>10
<1>12. QED
  BY <1>11 DEF p

\* A launch that is to come has no lines.
LEMMA NewLaunchIsEmpty ==
  ASSUME TypeOK, Lines
  PROVE  MoneyOf(file, launch + 1) = 0
<1>1. ASSUME NEW i \in DOMAIN file
      PROVE  file[i].launch # launch + 1
  <2>1. file[i] \in Line
    BY <1>1, ElementOfSeq, LenProperties DEF TypeOK
  <2>2. file[i].launch \in Nat /\ file[i].launch <= launch /\ launch \in Nat
    BY <1>1, <2>1 DEF Lines, Line, TypeOK
  <2>3. QED
    BY <2>2
<1>2. {i \in DOMAIN file : file[i].launch = launch + 1} = {}
  BY <1>1
<1>3. QED
  BY <1>2, SumOfNone DEF MoneyOf

\* The chats between the books and what they are owed.
LEMMA OwedProperties ==
  ASSUME TypeOK
  PROVE  /\ IsFiniteSet(Between) /\ Owed \in Nat /\ Shown \in Nat
         /\ today \in Nat /\ \A c \in Chats : price[c] \in Nat
<1>1. IsFiniteSet(Between)
  BY FS_Subset DEF Between
<1>2. \A c \in Chats : price[c] \in Nat
  <2>1. \A c \in Chats : price[c] \in Prices \cup {0}
    BY DEF TypeOK
  <2>2. QED
    BY <2>1, PricesAreNatural
<1>3. \A c \in Between : price[c] \in Nat
  BY <1>2 DEF Between
<1>4. Owed \in Nat
  BY <1>1, <1>3, SumOfNaturals DEF Owed
<1>5. Shown \in Nat
  BY ShownIsMoney, LinesOfLaunch DEF TypeOK
<1>6. QED
  BY <1>1, <1>2, <1>4, <1>5 DEF TypeOK

\* The chats between the books stay the same ones, with the same prices.
LEMMA OwedStays ==
  ASSUME TypeOK, Between' = Between, \A c \in Between : price'[c] = price[c]
  PROVE  Owed' = Owed
<1>1. IsFiniteSet(Between)
  BY OwedProperties
<1>2. SumFunctionOnSet(price', Between) = SumFunctionOnSet(price, Between)
  BY <1>1, SumOfSame
<1>3. QED
  BY <1>2 DEF Owed

\* The file shows the same of the same launch.
LEMMA ShownStays == UNCHANGED <<file, launch>> => Shown' = Shown
BY DEF Shown, Filed, OfThisLaunch

\* A line of this launch joins the file.
LEMMA ShownGrows ==
  ASSUME TypeOK, NEW c \in Chats, price[c] \in Prices, PutLine(c), UNCHANGED launch
  PROVE  Shown' = Shown + price[c]
<1> DEFINE line == [day |-> stamp[c], launch |-> launch, cost |-> price[c]]
<1>1. line \in Line /\ line.launch = launch /\ line.cost = price[c]
  BY DEF TypeOK, Line
<1>2. file' = Append(file, line) /\ file \in Seq(Line)
  BY DEF PutLine, TypeOK
<1> HIDE DEF line
<1>3. MoneyOf(Append(file, line), line.launch) = MoneyOf(file, line.launch) + line.cost
  BY <1>1, <1>2, MoneyGrows
<1>4. Shown' = MoneyOf(file', launch')
  BY DEF Shown, Filed, OfThisLaunch, MoneyOf
<1>5. QED
  BY <1>1, <1>2, <1>3, <1>4, ShownIsMoney

\* A step keeps the two books in agreement.
LEMMA BooksStep ==
  ASSUME TypeOK, Rounds, Lines, BooksAgree, [Next]_vars
  PROVE  BooksAgree'
<1>a. ~unfiled => today + Owed <= Shown /\ (NoneGone => today + Owed = Shown)
  BY BooksInShort
<1>b. SUFFICES ~unfiled' => /\ today' + Owed' <= Shown'
                            /\ NoneGone' => today' + Owed' = Shown'
  BY DEF BooksAgree, Owed, Between, Shown, NoneGone
<1>c. /\ IsFiniteSet(Between) /\ Owed \in Nat /\ Shown \in Nat
      /\ today \in Nat /\ \A c \in Chats : price[c] \in Nat
  BY OwedProperties
\* Neither book changes, nor who is between them.
<1>1. ASSUME NEW c \in Chats, ChatStep(c), phase[c] # "written", phase'[c] # "written",
             UNCHANGED <<today, file, unfiled>>
      PROVE  ~unfiled' => /\ today' + Owed' <= Shown'
                          /\ NoneGone' => today' + Owed' = Shown'
  <2>1. \A d \in Chats : phase'[d] = "written" <=> phase[d] = "written"
    BY <1>1, OthersStay
  <2>2. Between' = Between
    BY <2>1 DEF Between
  <2>3. \A d \in Between : price'[d] = price[d]
    BY <1>1, OthersStay DEF Between
  <2>4. Owed' = Owed
    BY <2>2, <2>3, OwedStays
  <2>5. UNCHANGED launch
    BY <1>1 DEF ChatStep, Admit, Refuse, ProviderReplies, ProviderFails, Lock, Write, AddUp,
         EndTools, HangUp
  <2>6. Shown' = Shown
    BY <1>1, <2>5, ShownStays
  <2>7. phase[c] # "gone"
    BY <1>1, OwnMove
  <2>8. NoneGone' => NoneGone
    BY <1>1, <2>7, OthersStay DEF NoneGone
  <2>9. QED
    BY <1>1, <1>a, <2>4, <2>6, <2>8
\* The line of the turn is written, and the chat is between the books.
<1>2. ASSUME NEW c \in Chats, Write(c), PutLine(c)
      PROVE  ~unfiled' => /\ today' + Owed' <= Shown'
                          /\ NoneGone' => today' + Owed' = Shown'
  <2>a. ChatStep(c)
    BY <1>2 DEF ChatStep
  <2>1. phase[c] = "writing" /\ phase'[c] = "written" /\ UNCHANGED <<launch, today, price, unfiled>>
    BY <1>2, Phases, ChatMoves DEF Write, PutLine
  <2>2. price[c] \in Prices
    BY <2>1 DEF Rounds
  <2>3. Shown' = Shown + price[c]
    BY <1>2, <2>1, <2>2, ShownGrows
  <2>4. Between' = Between \cup {c} /\ c \notin Between
    <3>1. \A d \in Chats : phase'[d] = "written" <=> phase[d] = "written" \/ d = c
      BY <2>a, <2>1, OthersStay
    <3>2. QED
      BY <2>1, <3>1 DEF Between
  <2>5. SumFunctionOnSet(price, Between \cup {c}) = price[c] + SumFunctionOnSet(price, Between)
    <3>1. \A d \in Between : price[d] \in Nat
      BY <1>c DEF Between
    <3>2. price[c] \in Nat
      BY <1>c
    <3>3. QED
      BY <1>c, <2>4, <3>1, <3>2, SumOfMore
  <2>6. Owed' = price[c] + Owed
    BY <2>1, <2>4, <2>5 DEF Owed
  <2>7. NoneGone' => NoneGone
    BY <2>a, <2>1, OthersStay DEF NoneGone
  <2>8. QED
    BY <1>a, <1>c, <2>1, <2>3, <2>6, <2>7
\* The turn joins the rollup.
<1>3. ASSUME NEW c \in Chats, AddUp(c)
      PROVE  ~unfiled' => /\ today' + Owed' <= Shown'
                          /\ NoneGone' => today' + Owed' = Shown'
  <2>a. ChatStep(c)
    BY <1>3 DEF ChatStep
  <2>1. /\ phase[c] = "written" /\ phase'[c] \in {"returned", "tools"}
        /\ today' = today + price[c]
    BY <1>3, <2>a, OwnMove DEF AddUp
  <2>2. UNCHANGED <<file, launch, unfiled>>
    BY <1>3 DEF AddUp
  <2>3. Shown' = Shown
    BY <2>2, ShownStays
  <2>4. Between' = Between \ {c} /\ c \in Between
    <3>1. \A d \in Chats : phase'[d] = "written" <=> phase[d] = "written" /\ d # c
      BY <2>a, <2>1, OthersStay
    <3>2. QED
      BY <2>1, <3>1 DEF Between
  <2> DEFINE rest == Between \ {c}
  <2>5. IsFiniteSet(rest) /\ \A d \in rest : price'[d] = price[d] /\ price[d] \in Nat
    <3>1. IsFiniteSet(rest)
      BY <1>c, FS_RemoveElement
    <3>2. QED
      BY <1>c, <2>a, <3>1, OthersStay DEF Between
  <2>6. SumFunctionOnSet(price, Between) = price[c] + SumFunctionOnSet(price, rest)
    <3>1. \A d \in Between : price[d] \in Nat
      BY <1>c DEF Between
    <3>2. QED
      BY <1>c, <2>4, <3>1, SumWithout
  <2> HIDE DEF rest
  <2>7. SumFunctionOnSet(price', rest) = SumFunctionOnSet(price, rest)
        /\ SumFunctionOnSet(price, rest) \in Nat
    <3>1. \A d \in rest : price'[d] = price[d]
      BY <2>5
    <3>2. \A d \in rest : price[d] \in Nat
      BY <2>5
    <3>3. QED
      BY <2>5, <3>1, <3>2, SumOfSame, SumOfNaturals
  <2>8. Owed = price[c] + Owed' /\ Owed' \in Nat
    BY <2>4, <2>6, <2>7 DEF Owed, rest
  <2>9. NoneGone' => NoneGone
    BY <2>a, <2>1, OthersStay DEF NoneGone
  <2>10. QED
    BY <1>a, <1>c, <2>1, <2>2, <2>3, <2>8, <2>9
\* The client hangs up while the line goes to the disk all the same.
<1>4. ASSUME NEW c \in Chats, HangUp(c), phase[c] = "writing", PutLine(c)
      PROVE  ~unfiled' => /\ today' + Owed' <= Shown'
                          /\ NoneGone' => today' + Owed' = Shown'
  <2>a. ChatStep(c)
    BY <1>4 DEF ChatStep
  <2>1. phase'[c] = "gone" /\ UNCHANGED <<launch, today, unfiled>>
    BY <1>4, Phases, ChatMoves DEF HangUp, PutLine
  <2>2. price[c] \in Prices /\ price[c] \in Nat
    BY <1>4, <1>c DEF Rounds
  <2>3. Shown' = Shown + price[c]
    BY <1>4, <2>1, <2>2, ShownGrows
  <2>4. \A d \in Chats : phase'[d] = "written" <=> phase[d] = "written"
    BY <1>4, <2>a, <2>1, OthersStay
  <2>5. Between' = Between
    BY <2>4 DEF Between
  <2>6. \A d \in Between : price'[d] = price[d]
    BY <1>4, <2>a, OthersStay DEF Between
  <2>7. Owed' = Owed
    BY <2>5, <2>6, OwedStays
  <2>8. ~NoneGone'
    BY <2>1 DEF NoneGone
  <2>9. QED
    BY <1>a, <1>c, <2>1, <2>2, <2>3, <2>7, <2>8
<1>5. CASE Restart
  <2>1. today' = 0 /\ launch' = launch + 1 /\ UNCHANGED file
    BY <1>5 DEF Restart
  <2>2. Shown' = 0
    <3>1. Shown' = MoneyOf(file', launch')
      BY DEF Shown, Filed, OfThisLaunch, MoneyOf
    <3>2. QED
      BY <2>1, <3>1, NewLaunchIsEmpty
  <2>3. Between' = {}
    BY <1>5 DEF Restart, Between, InFlight, TypeOK
  <2>4. Owed' = 0
    BY <2>3, SumOfNone DEF Owed
  <2>5. QED
    BY <2>1, <2>2, <2>4
<1>6. CASE NextDay \/ UNCHANGED vars
  <2>1. UNCHANGED <<phase, price, today, file, launch, unfiled>>
    BY <1>6 DEF NextDay, vars, chatVars
  <2>2. Owed' = Owed /\ (NoneGone' <=> NoneGone)
    BY <2>1 DEF Owed, Between, NoneGone
  <2>3. QED
    BY <1>a, <2>1, <2>2, ShownStays
<1>7. ASSUME NEW c \in Chats, ChatStep(c)
      PROVE  ~unfiled' => /\ today' + Owed' <= Shown'
                          /\ NoneGone' => today' + Owed' = Shown'
  <2>1. CASE \/ Admit(c) \/ Refuse(c) \/ ProviderReplies(c) \/ ProviderFails(c) \/ Lock(c)
             \/ EndTools(c)
    <3>1. phase[c] # "written" /\ UNCHANGED <<today, file, unfiled>>
      BY <2>1 DEF Admit, Refuse, ProviderReplies, ProviderFails, Lock, EndTools
    <3>2. phase'[c] # "written"
      BY <2>1, Phases, ChatMoves DEF Admit, Refuse, ProviderReplies, ProviderFails, Lock, EndTools
    <3>3. QED
      BY <1>1, <1>7, <3>1, <3>2
  <2>2. CASE Write(c)
    <3>1. LoseLine => unfiled' = TRUE
      BY DEF LoseLine
    <3>2. QED
      BY <1>2, <2>2, <3>1 DEF Write
  <2>3. CASE AddUp(c)
    BY <1>3, <2>3
  <2>4. CASE HangUp(c)
    <3>1. CASE phase[c] = "writing" /\ PutLine(c)
      BY <1>4, <2>4, <3>1
    <3>2. CASE UNCHANGED <<file, unfiled>>
      <4>1. phase[c] # "written" /\ UNCHANGED today /\ phase'[c] # "written"
        BY <2>4, Phases, ChatMoves DEF HangUp
      <4>2. QED
        BY <1>1, <1>7, <3>2, <4>1
    <3>3. QED
      BY <2>4, <3>1, <3>2 DEF HangUp
  <2>5. QED
    BY <1>7, <2>1, <2>2, <2>3, <2>4 DEF ChatStep
<1>8. QED
  BY <1>5, <1>6, <1>7, Steps

-----------------------------------------------------------------------------
(* The inductive invariant holds                                           *)

\* The launcher starts with nothing spent and nothing filed.
LEMMA Initially == Init => IInv
<1> SUFFICES ASSUME Init
             PROVE  IInv
  OBVIOUS
<1>1. TypeOK
  <2>1. <<>> \in Seq(Line) /\ 0 \in 0..MaxDay /\ 0 \in 0..MaxLaunch /\ 0 \in 0..MaxTurns
    OBVIOUS
  <2>2. QED
    BY <2>1, Phases DEF Init, TypeOK
<1>2. Rounds
  BY DEF Init, Rounds, InFlight
<1>3. file = <<>> /\ DOMAIN file = {} /\ today = 0 /\ peak = 0
  BY DEF Init
<1>4. Lines
  BY <1>3 DEF Lines
<1>5. UnderWay = {} /\ Between = {}
  BY DEF Init, UnderWay, InFlight, Between
<1>6. Spending
  <2>1. Cardinality(UnderWay) = 0
    BY <1>5, FS_EmptySet
  <2>2. \A c \in Chats : Exposure[c] = 0
    BY <1>1, <1>2, <1>5, ExposureProperties
  <2>3. SumFunctionOnSet(Exposure, Chats) \in Nat /\ IsFiniteSet(Chats)
    BY <1>1, <1>2, ExposureProperties
  <2>4. SumFunctionOnSet(Exposure, Chats) <= Cardinality({}) * 0
    BY <2>2, <2>3, SumIsBounded
  <2>5. SumFunctionOnSet(Exposure, Chats) = 0
    BY <2>3, <2>4, FS_EmptySet
  <2>6. 0 * MaxTurns * Max(Prices) = 0
    BY DearestPrice
  <2>7. QED
    BY <1>3, <2>1, <2>5, <2>6 DEF Spending
<1>7. BooksAgree
  <2>1. Owed = 0
    BY <1>5, SumOfNone DEF Owed
  <2>2. Shown = 0
    <3>1. {i \in DOMAIN file : file[i].launch = launch} = {}
      BY <1>3
    <3>2. QED
      BY <3>1, ShownIsMoney, SumOfNone DEF MoneyOf
  <2>3. QED
    BY <1>3, <2>1, <2>2, BooksInShort
<1>8. QED
  BY <1>1, <1>2, <1>4, <1>6, <1>7 DEF IInv

\* Every step keeps the invariant.
LEMMA Inductively == IInv /\ [Next]_vars => IInv'
<1> SUFFICES ASSUME IInv, [Next]_vars
             PROVE  IInv'
  OBVIOUS
<1>1. TypeOK' /\ Rounds' /\ Lines'
  BY TypesStep, RoundsStep, LinesStep DEF IInv
<1>2. Spending'
  BY <1>1, SpendingStep DEF IInv
<1>3. BooksAgree'
  BY BooksStep DEF IInv
<1>4. QED
  BY <1>1, <1>2, <1>3 DEF IInv

\* The invariant holds in every state.
LEMMA Inductive == Spec => []IInv
BY Initially, Inductively, PTL DEF Spec

-----------------------------------------------------------------------------
(* The theorems                                                            *)

\* The variables keep their types: no sum goes below zero and no chat past its
\* last round.
THEOREM TypeCorrect == Spec => []TypeOK
<1>1. IInv => TypeOK
  BY DEF IInv
<1>2. QED
  BY <1>1, Inductive, PTL

\* In one launch the chats spend past the cap by no more than every round of as
\* many chats as were ever under way at once, at the dearest price.
THEOREM OvershootIsBounded == Spec => []OvershootBounded
<1>1. IInv => OvershootBounded
  BY BoundedFromSpending DEF IInv
<1>2. QED
  BY <1>1, Inductive, PTL

\* The rollup never counts a turn that the file does not show, and the two agree
\* when no line was lost, nobody hung up and what is on its way is counted in.
THEOREM BooksAlwaysAgree == Spec => []BooksAgree
<1>1. IInv => BooksAgree
  BY DEF IInv
<1>2. QED
  BY <1>1, Inductive, PTL

\* Within a launch and a day the rollup only grows, so that a cap that was
\* reached stays so.
THEOREM CapIsKept == Spec => CapStays
<1>1. ASSUME IInv, [Next]_vars, OverBudget, UNCHANGED <<launch, day>>
      PROVE  OverBudget'
  <2>a. TypeOK /\ Cap \in Nat /\ today \in Nat /\ \A c \in Chats : price[c] \in Nat
    BY <1>1, OwedProperties DEF IInv
  <2>1. today' \in Nat /\ today <= today'
    <3>1. ASSUME NEW c \in Chats, ChatStep(c)
          PROVE  today' = today \/ today' = today + price[c]
      BY <2>a, <3>1, OwnMove
    <3>2. CASE Restart
      BY <1>1, <2>a, <3>2 DEF Restart, TypeOK
    <3>3. CASE NextDay
      BY <1>1, <2>a, <3>3 DEF NextDay, TypeOK
    <3>4. CASE UNCHANGED vars
      BY <2>a, <3>4 DEF vars
    <3>5. QED
      BY <1>1, <2>a, <3>1, <3>2, <3>3, <3>4, Steps
  <2>2. QED
    BY <1>1, <2>a, <2>1 DEF OverBudget
<1>2. IInv /\ [Next]_vars => [OverBudget /\ UNCHANGED <<launch, day>> => OverBudget']_vars
  BY <1>1
<1>3. QED
  BY <1>2, Inductive, PTL DEF Spec, CapStays

==============================================================================
