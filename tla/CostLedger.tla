----------------------------- MODULE CostLedger -----------------------------
(***************************************************************************)
(* The cost ledger under the chats that spend: the budget check at entry,  *)
(* one record per provider turn (the file under its mutex, then the        *)
(* in-memory rollup), failing disks, clients that hang up, days that       *)
(* change and a launcher that is started again.                            *)
(*                                                                         *)
(* The rollup's rows are one sum, as every reader of it takes their sum.   *)
(***************************************************************************)
EXTENDS Integers, SequencesExt

CONSTANTS
  Chats,        \* requests to /ai/chat
  Impatient,    \* those whose client may hang up
  Prices,       \* what a turn may cost: cost_for of its usage
  MaxTurns,     \* MAX_TURNS
  Cap,          \* daily_cap_micros; 0 disables the cap
  DiskFails,    \* BOOLEAN: whether a write to the ledger file may fail
  MaxDay,       \* bound: the calendar
  MaxLaunch,    \* bound: starts of the launcher
  NoChat        \* the free file mutex

ASSUME LedgerAssumption ==
  /\ IsFiniteSet(Chats)
  /\ Impatient \subseteq Chats
  /\ Prices \subseteq Nat
  /\ \E most \in Prices : \A p \in Prices : p <= most
  /\ MaxTurns \in Nat \ {0}
  /\ Cap \in Nat
  /\ DiskFails \in BOOLEAN
  /\ MaxDay \in Nat /\ MaxLaunch \in Nat
  /\ NoChat \notin Chats

Phase == {"idle", "calling", "waiting", "writing", "written", "tools",
          "returned", "refused", "failed", "gone"}

VARIABLES
  day,      \* the date
  launch,   \* how often the launcher has been started again
  today,    \* the in-memory rollup: the sum of its rows
  file,     \* the lines of cost.jsonl
  writer,   \* the chat that holds the file mutex
  phase,    \* where each chat is between over_budget and its response
  turn,     \* the round it is in
  price,    \* what the turn that is being recorded costs
  stamp,    \* the date of its entry, taken before the file mutex
  peak,     \* history variable: the most chats under way at once, this launch
  unfiled   \* history variable: whether a line of this launch failed to land

chatVars == <<phase, turn, price, stamp>>
vars == <<day, launch, today, file, writer, chatVars, peak, unfiled>>

Line == [day : 0..MaxDay, launch : 0..MaxLaunch, cost : Prices]

TypeOK ==
  /\ day \in 0..MaxDay
  /\ launch \in 0..MaxLaunch
  /\ today \in Nat
  /\ file \in Seq(Line)
  /\ writer \in Chats \cup {NoChat}
  /\ phase \in [Chats -> Phase]
  /\ turn \in [Chats -> 0..MaxTurns]
  /\ price \in [Chats -> Prices \cup {0}]
  /\ stamp \in [Chats -> 0..MaxDay]
  /\ peak \in Nat
  /\ unfiled \in BOOLEAN

Init ==
  /\ day = 0
  /\ launch = 0
  /\ today = 0
  /\ file = <<>>
  /\ writer = NoChat
  /\ phase = [c \in Chats |-> "idle"]
  /\ turn = [c \in Chats |-> 0]
  /\ price = [c \in Chats |-> 0]
  /\ stamp = [c \in Chats |-> 0]
  /\ peak = 0
  /\ unfiled = FALSE

-----------------------------------------------------------------------------
Go(c, p) == phase' = [phase EXCEPT ![c] = p]

InFlight(c) == phase[c] \in {"calling", "waiting", "writing", "written", "tools"}
UnderWay    == {c \in Chats : InFlight(c)}

\* Mutant: the cap itself may still be spent.
OverBudgetLate == Cap > 0 /\ today > Cap

OverBudget == Cap > 0 /\ today >= Cap

\* The budget is checked once, before the first provider call.
Admit(c) ==
  /\ phase[c] = "idle"
  /\ ~OverBudget
  /\ Go(c, "calling")
  /\ turn' = [turn EXCEPT ![c] = 1]
  /\ peak' = Max({peak, Cardinality(UnderWay \cup {c})})
  /\ UNCHANGED <<day, stamp, launch, today, file, writer, price, unfiled>>

Refuse(c) ==
  /\ phase[c] = "idle"
  /\ OverBudget
  /\ Go(c, "refused")
  /\ UNCHANGED <<day, stamp, launch, today, file, writer, turn, price, peak, unfiled>>

\* The provider replied: record computes the cost and asks for the file mutex.
ProviderReplies(c) ==
  /\ phase[c] = "calling"
  /\ Go(c, "waiting")
  /\ \E p \in Prices : price' = [price EXCEPT ![c] = p]
  /\ stamp' = [stamp EXCEPT ![c] = day]
  /\ UNCHANGED <<day, launch, today, file, writer, turn, peak, unfiled>>

ProviderFails(c) ==
  /\ phase[c] = "calling"
  /\ Go(c, "failed")
  /\ UNCHANGED <<day, stamp, launch, today, file, writer, turn, price, peak, unfiled>>

Lock(c) ==
  /\ phase[c] = "waiting"
  /\ writer = NoChat
  /\ writer' = c
  /\ Go(c, "writing")
  /\ UNCHANGED <<day, stamp, launch, today, file, turn, price, peak, unfiled>>

\* The line of c's turn is in the file.
PutLine(c) ==
  /\ file' = Append(file, [day |-> stamp[c], launch |-> launch, cost |-> price[c]])
  /\ UNCHANGED unfiled

\* `let _ = file.write_all(...)`: an error is ignored.
LoseLine ==
  /\ unfiled' = TRUE
  /\ UNCHANGED file

\* Write and flush, and the mutex is released.
Write(c) ==
  /\ phase[c] = "writing"
  /\ PutLine(c) \/ (DiskFails /\ LoseLine)
  /\ writer' = NoChat
  /\ Go(c, "written")
  /\ UNCHANGED <<day, stamp, launch, today, turn, price, peak>>

\* The chat answers its client, or sets about the tools the model asked for.
Done(c) ==
  /\ price' = [price EXCEPT ![c] = 0]
  /\ Go(c, "returned") \/ Go(c, "tools")

\* Mutant: the rollup row is replaced by the turn.
AddUpReplaces(c) ==
  /\ phase[c] = "written"
  /\ today' = price[c]
  /\ Done(c)
  /\ UNCHANGED <<day, stamp, launch, file, writer, turn, peak, unfiled>>

\* Mutant: the turn is added twice, to its row and to the total.
AddUpTwice(c) ==
  /\ phase[c] = "written"
  /\ today' = today + 2 * price[c]
  /\ Done(c)
  /\ UNCHANGED <<day, stamp, launch, file, writer, turn, peak, unfiled>>

\* The turn joins the rollup.
AddUp(c) ==
  /\ phase[c] = "written"
  /\ today' = today + price[c]
  /\ Done(c)
  /\ UNCHANGED <<day, stamp, launch, file, writer, turn, peak, unfiled>>

\* Mutant: one round too many.
EndToolsLate(c) ==
  /\ phase[c] = "tools"
  /\ IF turn[c] <= MaxTurns
     THEN Go(c, "calling") /\ turn' = [turn EXCEPT ![c] = @ + 1]
     ELSE Go(c, "returned") /\ UNCHANGED turn
  /\ UNCHANGED <<day, stamp, launch, today, file, writer, price, peak, unfiled>>

\* The tools of the round have their results, after dialogs and calls of the
\* worker that may take any time: the provider is called again unless this was
\* the last round.
EndTools(c) ==
  /\ phase[c] = "tools"
  /\ IF turn[c] < MaxTurns
     THEN Go(c, "calling") /\ turn' = [turn EXCEPT ![c] = @ + 1]
     ELSE Go(c, "returned") /\ UNCHANGED turn
  /\ UNCHANGED <<day, stamp, launch, today, file, writer, price, peak, unfiled>>

-----------------------------------------------------------------------------
(* The client hangs up at one of the awaits: a turn under way is paid for  *)
(* and does not reach the rollup, and its line is in the file only if the  *)
(* write had been handed to the disk.                                      *)

\* Mutant: the file mutex is not a guard that the dropped future releases.
HangUpHolding(c) ==
  /\ c \in Impatient
  /\ phase[c] \in {"calling", "waiting", "writing", "tools"}
  /\ \/ phase[c] = "writing" /\ PutLine(c)
     \/ UNCHANGED <<file, unfiled>>
  /\ price' = [price EXCEPT ![c] = 0]
  /\ Go(c, "gone")
  /\ UNCHANGED <<day, stamp, launch, today, turn, peak, writer>>

HangUp(c) ==
  /\ c \in Impatient
  /\ phase[c] \in {"calling", "waiting", "writing", "tools"}
  /\ \/ phase[c] = "writing" /\ PutLine(c)
     \/ UNCHANGED <<file, unfiled>>
  /\ price' = [price EXCEPT ![c] = 0]
  /\ writer' = IF writer = c THEN NoChat ELSE writer
  /\ Go(c, "gone")
  /\ UNCHANGED <<day, stamp, launch, today, turn, peak>>

-----------------------------------------------------------------------------
(* The launcher ends, whatever was under way, and CostLedger::open runs    *)
(* again: the file is appended to and the rollup starts empty.             *)
Restart ==
  /\ launch < MaxLaunch
  /\ launch' = launch + 1
  /\ today' = 0
  /\ writer' = NoChat
  /\ phase' = [c \in Chats |-> IF InFlight(c) THEN "gone" ELSE phase[c]]
  /\ price' = [c \in Chats |-> 0]
  /\ peak' = 0
  /\ unfiled' = FALSE
  /\ UNCHANGED <<day, stamp, file, turn>>

NextDay ==
  /\ day < MaxDay
  /\ day' = day + 1
  /\ UNCHANGED <<launch, today, file, writer, chatVars, peak, unfiled>>

\* Every request has been answered: the launcher idles.
Quiescent ==
  /\ \A c \in Chats : phase[c] # "idle" /\ ~InFlight(c)
  /\ UNCHANGED vars

Work(c) ==
  \/ ProviderReplies(c)
  \/ ProviderFails(c)
  \/ Lock(c)
  \/ Write(c)
  \/ AddUp(c)

Next ==
  \/ \E c \in Chats : Admit(c) \/ Refuse(c) \/ Work(c) \/ EndTools(c) \/ HangUp(c)
  \/ Restart
  \/ NextDay
  \/ Quiescent

Spec == Init /\ [][Next]_vars

\* The runtime polls a ready task, the provider call has a timeout and a file
\* operation ends.  Nothing makes a user answer the dialog of a tool, or the
\* worker take a tool's request.
Fairness == \A c \in Chats : WF_vars(Work(c))

FairSpec == Spec /\ Fairness

-----------------------------------------------------------------------------
(* Properties                                                              *)

\* The money on the lines of the file that satisfy Test.
Filed(Test(_)) ==
  SumFunctionOnSet([i \in DOMAIN file |-> file[i].cost], {i \in DOMAIN file : Test(file[i])})

OfThisLaunch(line) == line.launch = launch

\* What turns have cost that are answered and not yet in the rollup.
Pending == SumFunction(price)

\* In one launch the chats together spend past the cap by no more than every
\* round of as many chats as were ever under way at once: the check at entry
\* bounds what chats admitted side by side can add.
OvershootBounded ==
  Cap > 0 =>
    today + Pending <= (Cap - 1) + peak * MaxTurns * Max(Prices)

\* The rollup never counts a turn that the file does not show, and shows every
\* turn the file does once nobody is between the two and nobody hung up there.
BooksAgree ==
  LET inBetween == {c \in Chats : phase[c] = "written"}
      owed      == SumFunctionOnSet(price, inBetween)
  IN  ~unfiled =>
        /\ today + owed <= Filed(OfThisLaunch)
        /\ (\A c \in Chats : phase[c] # "gone") => today + owed = Filed(OfThisLaunch)

\* Within a launch and a day spending is never forgotten: a cap that was
\* reached stays reached, so no later request of that day slips in.
CapStays ==
  [][OverBudget /\ UNCHANGED <<launch, day>> => OverBudget']_vars

\* Every chat that was let in ends, whoever hangs up around the file mutex,
\* unless it stays with its tools for ever: a dialog nobody answers, or a
\* worker that does not take the request.
ChatEnds ==
  \A c \in Chats :
    [](InFlight(c) => <>(~InFlight(c)) \/ <>[](phase[c] = "tools"))
=============================================================================
