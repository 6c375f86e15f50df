------------------------- MODULE PythonWorkerProofs -------------------------
(***************************************************************************)
(* Theorems about the worker pipeline, for every set of calls and every    *)
(* choice of impatient clients, noisy snippets and large requests.         *)
(* In the lemmas about a step, the numbered steps go through the actions   *)
(* and the lettered ones before them are the facts that they share.        *)
(***************************************************************************)
EXTENDS PythonWorker, SequenceTheorems, TLAPS

USE CallsAssumption

-----------------------------------------------------------------------------
(* The inductive invariant, in layers                                      *)

\* The call is past the mutex.
InCall(c) == phase[c] \in {"locked", "writing", "reading", "killing"}

\* The guard belongs to one call, and the slot is what that call's phase says.
Control ==
  /\ \A c \in Calls : InCall(c) <=> holder = c
  /\ \A c \in Calls : phase[c] \in {"idle", "queued", "locked"} => sentTo[c] = NoCall
  /\ \A c \in Calls : phase[c] \in {"writing", "reading"} =>
                        sentTo[c] = slot /\ slot # NoCall
  /\ \A c \in Calls : phase[c] = "killing" =>
                        slot = NoCall /\ sentTo[c] \in killed

\* The mutex's line holds the waiting calls, each once.
Line ==
  /\ \A i \in 1..Len(queue) : phase[queue[i]] = "queued"
  /\ \A i, j \in 1..Len(queue) : queue[i] = queue[j] => i = j

\* A process is named by a call that has spawned it; before that it has no
\* pipes, no signal and no correspondent.
Processes ==
  /\ slot # NoCall => status[slot] # "unborn" /\ slot \notin killed
  /\ \A c \in Calls :
       phase[c] \in {"idle", "queued"} \/ (phase[c] = "locked" /\ slot = NoCall)
         => status[c] = "unborn"
  /\ \A w \in Calls : status[w] = "unborn" =>
       /\ stdin[w] = <<>> /\ stdout[w] = <<>> /\ w \notin killed
       /\ \A d \in Calls : sentTo[d] # w
  /\ \A w \in Calls : running[w] # NoCall <=> status[w] = "busy"
  /\ \A w \in Calls : status[w] = "dead" => stdin[w] = <<>>

Structure == TypeOK /\ Control /\ Line /\ Processes

-----------------------------------------------------------------------------
(* What the sequence operators of the actions return                       *)

\* RemoveAt shortens a sequence by one and moves what followed one place up.
LEMMA RemoveAtProperties ==
  ASSUME NEW S, NEW s \in Seq(S), NEW i \in 1..Len(s)
  PROVE  /\ RemoveAt(s, i) \in Seq(S)
         /\ Len(RemoveAt(s, i)) = Len(s) - 1
         /\ \A k \in 1..Len(s) - 1 :
              RemoveAt(s, i)[k] = IF k < i THEN s[k] ELSE s[k + 1]
<1> DEFINE a == SubSeq(s, 1, i - 1)
           b == SubSeq(s, i + 1, Len(s))
<1>1. /\ a \in Seq(S) /\ Len(a) = i - 1
      /\ \A k \in 1..i - 1 : a[k] = s[k]
  <2>1. \A k \in 1..i - 1 : s[k] \in S
    OBVIOUS
  <2>2. QED
    BY <2>1, SubSeqProperties
<1>2. /\ b \in Seq(S) /\ Len(b) = Len(s) - i
      /\ \A k \in 1..Len(s) - i : b[k] = s[k + i]
  <2>1. \A k \in i + 1..Len(s) : s[k] \in S
    OBVIOUS
  <2>2. /\ b \in Seq(S)
        /\ Len(b) = IF i + 1 <= Len(s) THEN Len(s) - (i + 1) + 1 ELSE 0
        /\ \A k \in 1..Len(s) - (i + 1) + 1 : b[k] = s[i + 1 + k - 1]
    BY <2>1, SubSeqProperties
  <2>3. \A k \in 1..Len(s) - i : i + 1 + k - 1 = k + i
    OBVIOUS
  <2>4. QED
    BY <2>2, <2>3
<1>3. RemoveAt(s, i) = a \o b
  BY DEF RemoveAt
<1> HIDE DEF a, b
<1>4. /\ a \o b \in Seq(S)
      /\ Len(a \o b) = Len(s) - 1
  <2>1. a \o b \in Seq(S) /\ Len(a \o b) = Len(a) + Len(b)
    BY <1>1, <1>2, ConcatProperties
  <2>2. QED
    BY <1>1, <1>2, <2>1
<1>5. ASSUME NEW k \in 1..Len(s) - 1
      PROVE  (a \o b)[k] = IF k < i THEN s[k] ELSE s[k + 1]
  <2>1. (a \o b)[k] = IF k <= Len(a) THEN a[k] ELSE b[k - Len(a)]
    BY <1>1, <1>2, ConcatProperties
  <2>2. CASE k < i
    BY <1>1, <2>1, <2>2
  <2>3. CASE ~(k < i)
    <3>1. (a \o b)[k] = b[k - (i - 1)]
      BY <1>1, <2>1, <2>3
    <3>2. k - (i - 1) \in 1..Len(s) - i /\ k - (i - 1) + i = k + 1
      BY <2>3
    <3>3. QED
      BY <1>2, <2>3, <3>1, <3>2
  <2>4. QED
    BY <2>2, <2>3
<1>6. QED
  BY <1>3, <1>4, <1>5

\* ReplaceAt at the head changes the head and nothing else.
LEMMA ReplaceFirstProperties ==
  ASSUME NEW S, NEW s \in Seq(S), s # <<>>, NEW e \in S
  PROVE  /\ ReplaceAt(s, 1, e) \in Seq(S)
         /\ Len(ReplaceAt(s, 1, e)) = Len(s)
         /\ ReplaceAt(s, 1, e) # <<>>
         /\ \A i \in 1..Len(s) : ReplaceAt(s, 1, e)[i] = IF i = 1 THEN e ELSE s[i]
BY ExceptSeq DEF ReplaceAt

\* Taking one element out of a sequence without repetitions.
LEMMA RemoveDistinct ==
  ASSUME NEW s \in Seq(Calls), NEW i \in 1..Len(s),
         \A k, l \in 1..Len(s) : s[k] = s[l] => k = l
  PROVE  /\ \A k \in 1..Len(RemoveAt(s, i)) :
              \E m \in 1..Len(s) : m # i /\ RemoveAt(s, i)[k] = s[m]
         /\ \A k, l \in 1..Len(RemoveAt(s, i)) :
              RemoveAt(s, i)[k] = RemoveAt(s, i)[l] => k = l
<1> DEFINE r == RemoveAt(s, i)
<1>1. /\ r \in Seq(Calls) /\ Len(r) = Len(s) - 1
      /\ \A k \in 1..Len(s) - 1 : r[k] = IF k < i THEN s[k] ELSE s[k + 1]
  <2>1. s \in Seq(Calls) /\ i \in 1..Len(s)
    OBVIOUS
  <2>2. QED
    BY ONLY <2>1, RemoveAtProperties
<1> HIDE DEF r
<1>2. \A k \in 1..Len(r) : \E m \in 1..Len(s) :
        m # i /\ r[k] = s[m] /\ m = IF k < i THEN k ELSE k + 1
  <2> SUFFICES ASSUME NEW k \in 1..Len(r)
               PROVE  \E m \in 1..Len(s) :
                        m # i /\ r[k] = s[m] /\ m = IF k < i THEN k ELSE k + 1
    OBVIOUS
  <2>1. k \in 1..Len(s) - 1 /\ i \in 1..Len(s) /\ Len(s) \in Nat
    BY <1>1
  <2>2. r[k] = IF k < i THEN s[k] ELSE s[k + 1]
    BY <1>1, <2>1
  <2>3. CASE k < i
    <3>1. k \in 1..Len(s) /\ k # i
      BY <2>1, <2>3
    <3>2. QED
      BY <2>2, <2>3, <3>1
  <2>4. CASE ~(k < i)
    <3>1. k + 1 \in 1..Len(s) /\ k + 1 # i
      BY <2>1, <2>4
    <3>2. QED
      BY <2>2, <2>4, <3>1
  <2>5. QED
    BY <2>3, <2>4
<1>3. \A k, l \in 1..Len(r) : r[k] = r[l] => k = l
  BY <1>2
<1>4. QED
  BY <1>1, <1>2, <1>3 DEF r

\* Taking the first element out of a sequence without repetitions.
LEMMA TailDistinct ==
  ASSUME NEW s \in Seq(Calls), s # <<>>,
         \A k, l \in 1..Len(s) : s[k] = s[l] => k = l
  PROVE  /\ \A k \in 1..Len(Tail(s)) :
              \E m \in 1..Len(s) : Tail(s)[k] = s[m] /\ s[m] # Head(s)
         /\ \A k, l \in 1..Len(Tail(s)) : Tail(s)[k] = Tail(s)[l] => k = l
<1> DEFINE r == Tail(s)
<1>1. /\ Len(s) \in Nat \ {0} /\ Head(s) = s[1]
      /\ Len(r) = Len(s) - 1
      /\ \A k \in 1..Len(r) : r[k] = s[k + 1]
  BY HeadTailProperties, EmptySeq
<1> HIDE DEF r
<1>2. ASSUME NEW k \in 1..Len(r) PROVE k + 1 \in 1..Len(s) /\ k + 1 # 1 /\ 1 \in 1..Len(s)
  <2>1. Len(s) \in Nat \ {0} /\ Len(r) = Len(s) - 1
    BY <1>1
  <2>2. QED
    BY <2>1
<1>3. ASSUME NEW k \in 1..Len(r) PROVE r[k] = s[k + 1] /\ s[k + 1] # Head(s)
  BY <1>1, <1>2
<1>4. ASSUME NEW k \in 1..Len(r), NEW l \in 1..Len(r), r[k] = r[l] PROVE k = l
  <2>1. k + 1 = l + 1
    BY <1>2, <1>3, <1>4
  <2>2. QED
    BY <2>1
<1>5. QED
  BY <1>2, <1>3, <1>4 DEF r

\* A spoiled line is a line.
LEMMA SpoiledResponse ==
  ASSUME NEW q \in Seq(Response), q # <<>>
  PROVE  ReplaceAt(q, 1, Noise(q[1].call)) \in Seq(Response)
<1>1. q[1] \in Response
  BY EmptySeq
<1>2. Noise(q[1].call) \in Response
  BY <1>1 DEF Noise, Response
<1>3. QED
  BY <1>2, ReplaceFirstProperties, Zenon

\* A sequence of one element has an empty tail.
LEMMA TailOfOne ==
  ASSUME NEW S, NEW s \in Seq(S), Len(s) = 1
  PROVE  Tail(s) = <<>>
<1>1. s # <<>>
  BY EmptySeq
<1>2. Tail(s) \in Seq(S) /\ Len(Tail(s)) = 0
  BY <1>1, HeadTailProperties
<1>3. QED
  BY <1>2, EmptySeq

\* Adding a line to one of the pipes.
LEMMA AppendTo ==
  ASSUME NEW S, NEW f \in [Calls -> Seq(S)], NEW w \in Calls, NEW e \in S
  PROVE  /\ [f EXCEPT ![w] = Append(@, e)] \in [Calls -> Seq(S)]
         /\ Append(f[w], e) # <<>>
BY AppendProperties

-----------------------------------------------------------------------------
(* Types and control                                                       *)

\* Every step of the pipeline keeps the types of its variables.
LEMMA TypeStep == Structure /\ [Next]_vars => TypeOK'
  <2> SUFFICES ASSUME TypeOK, Control, Processes, [Next]_vars PROVE TypeOK'
    BY DEF Structure
  <2> USE DEF TypeOK, Control, Phase, Outcome, Status, callVars,
              workerVars, Return, DropWorker, PutLine, Leave, Die, Alive
  <2>1. ASSUME NEW c \in Calls, Submit(c) PROVE TypeOK'
    BY <2>1 DEF Submit
  <2>2. ASSUME NEW c \in Calls, Acquire(c) PROVE TypeOK'
    BY <2>2 DEF Acquire
  <2>3. ASSUME NEW c \in Calls, Spawn(c) PROVE TypeOK'
    BY <2>3 DEF Spawn
  <2>4. ASSUME NEW c \in Calls, SpawnFails(c) PROVE TypeOK'
    BY <2>4 DEF SpawnFails
  <2>5. ASSUME NEW c \in Calls, Prepare(c) PROVE TypeOK'
    BY <2>5 DEF Prepare
  <2>6. ASSUME NEW c \in Calls, Write(c) PROVE TypeOK'
    <3>1. [call |-> c, kind |-> IF torn[slot] THEN "malformed" ELSE "request"] \in Request
      BY DEF Request
    <3>2. QED
      BY <2>6, <3>1, AppendProperties DEF Write
  <2>7. ASSUME NEW c \in Calls, WriteFails(c) PROVE TypeOK'
    BY <2>7 DEF WriteFails
  <2>8. ASSUME NEW c \in Calls, ReadLine(c) PROVE TypeOK'
    <3>1. stdout[slot] \in Seq(Response) /\ slot \in Calls
      BY <2>8 DEF ReadLine
    <3>2. Head(stdout[slot]) \in Response /\ Tail(stdout[slot]) \in Seq(Response)
      BY <2>8, <3>1, HeadTailProperties DEF ReadLine
    <3>3. Author(Head(stdout[slot])) \in Calls \cup {NoCall}
      BY <3>2 DEF Response, Author
    <3>4. answerOf' \in [Calls -> Calls \cup {NoCall}]
      <4>1. \/ UNCHANGED answerOf
            \/ answerOf' = [answerOf EXCEPT ![c] = Author(Head(stdout[slot]))]
        BY <2>8 DEF ReadLine
      <4>2. CASE answerOf' = [answerOf EXCEPT ![c] = Author(Head(stdout[slot]))]
        BY ONLY TypeOK, <3>3, <4>2
      <4>3. QED
        BY <4>1, <4>2
    <3>5. QED
      BY <2>8, <3>1, <3>2, <3>4 DEF ReadLine
  <2>9. ASSUME NEW c \in Calls, ReadEof(c) PROVE TypeOK'
    BY <2>9 DEF ReadEof
  <2>10. ASSUME NEW c \in Calls, Timeout(c) PROVE TypeOK'
    BY <2>10 DEF Timeout
  <2>11. ASSUME NEW c \in Calls, KillDone(c) PROVE TypeOK'
    BY <2>11 DEF KillDone
  <2>12. ASSUME NEW c \in Calls, HangUpQueued(c) PROVE TypeOK'
    <3>1. PICK i \in 1..Len(queue) : queue' = RemoveAt(queue, i)
      BY <2>12 DEF HangUpQueued
    <3>2. queue' \in Seq(Calls)
      BY <3>1, RemoveAtProperties
    <3>3. QED
      BY <2>12, <3>2 DEF HangUpQueued
  <2>13. ASSUME NEW c \in Calls, HangUpWriting(c) PROVE TypeOK'
    <3>1. [call |-> c, kind |-> IF torn[slot] THEN "malformed" ELSE "request"] \in Request
      BY DEF Request
    <3>2. slot \in Calls
      BY <2>13 DEF HangUpWriting
    <3>3. stdin' \in [Calls -> Seq(Request)] /\ torn' \in [Calls -> BOOLEAN]
      <4>1. CASE UNCHANGED <<stdin, torn>>
        BY <4>1
      <4>2. CASE torn' = [torn EXCEPT ![slot] = TRUE] /\ UNCHANGED stdin
        BY <3>2, <4>2
      <4>3. CASE PutLine(c, slot)
        BY <3>1, <3>2, <4>3, AppendTo
      <4>4. QED
        BY <2>13, <4>1, <4>2, <4>3 DEF HangUpWriting
    <3>4. QED
      BY <2>13, <3>3 DEF HangUpWriting
  <2>14. ASSUME NEW c \in Calls, HangUpReading(c) PROVE TypeOK'
    <3>1. stdout[slot] \in Seq(Response) /\ slot \in Calls
      BY <2>14 DEF HangUpReading
    <3>2. ASSUME stdout[slot] # <<>>
          PROVE  ReplaceAt(stdout[slot], 1, Noise(stdout[slot][1].call)) \in Seq(Response)
      BY <3>1, <3>2, SpoiledResponse
    <3>3. stdout' \in [Calls -> Seq(Response)]
      <4>1. CASE UNCHANGED stdout
        BY <4>1
      <4>2. CASE /\ stdout[slot] # <<>>
                 /\ stdout' = [stdout EXCEPT ![slot] =
                      ReplaceAt(@, 1, Noise(@[1].call))]
        BY <3>1, <3>2, <4>2
      <4>3. QED
        BY <2>14, <4>1, <4>2 DEF HangUpReading
    <3>4. QED
      BY <2>14, <3>3 DEF HangUpReading
  <2>15. ASSUME NEW c \in Calls, HangUpKilling(c) PROVE TypeOK'
    BY <2>15 DEF HangUpKilling
  <2>16. ASSUME NEW w \in Calls, Receive(w) PROVE TypeOK'
    <3>1. Head(stdin[w]) \in Request /\ Tail(stdin[w]) \in Seq(Request)
      BY <2>16, HeadTailProperties DEF Receive
    <3>2. [call |-> Head(stdin[w]).call, kind |-> "bad_json"] \in Response
      BY <3>1 DEF Request, Response
    <3>3. Head(stdin[w]).call \in Calls
      BY <3>1 DEF Request
    <3>4. stdin' \in [Calls -> Seq(Request)]
      BY <2>16, <3>1 DEF Receive
    <3>5. CASE Head(stdin[w]).kind = "request"
      <4>1. /\ status' = [status EXCEPT ![w] = "busy"]
            /\ running' = [running EXCEPT ![w] = Head(stdin[w]).call]
            /\ UNCHANGED stdout
        BY <2>16, <3>5 DEF Receive
      <4>2. QED
        BY <2>16, <3>3, <3>4, <4>1 DEF Receive
    <3>6. CASE Head(stdin[w]).kind # "request"
      <4>1. stdout' \in [Calls -> Seq(Response)]
        <5>1. stdout' = [stdout EXCEPT ![w] = Append(@,
                 [call |-> Head(stdin[w]).call, kind |-> "bad_json"])]
          BY <2>16, <3>6 DEF Receive
        <5>2. QED
          BY <3>2, <5>1, AppendTo
      <4>2. QED
        BY <2>16, <3>4, <3>6, <4>1 DEF Receive
    <3>7. QED
      BY <3>5, <3>6
  <2>17. ASSUME NEW w \in Calls, Finish(w) PROVE TypeOK'
    <3>1. [call |-> running[w], kind |-> "answer"] \in Response
      BY <2>17 DEF Finish, Processes, Response
    <3>2. QED
      BY <2>17, <3>1, AppendProperties DEF Finish
  <2>18. ASSUME NEW w \in Calls, MakeNoise(w) PROVE TypeOK'
    <3>1. Noise(running[w]) \in Response /\ Forged(running[w]) \in Response
      BY <2>18 DEF MakeNoise, Noise, Forged, Response
    <3>2. stdout' \in [Calls -> Seq(Response)]
      BY <2>18, <3>1, AppendTo DEF MakeNoise
    <3>3. QED
      BY <2>18, <3>2 DEF MakeNoise
  <2>19. ASSUME NEW w \in Calls, Swallow(w) PROVE TypeOK'
    BY <2>19 DEF Swallow
  <2>20. ASSUME NEW w \in Calls, Reap(w) PROVE TypeOK'
    BY <2>20 DEF Reap
  <2>21. ASSUME NEW w \in Calls, Crash(w) PROVE TypeOK'
    <3>1. status[w] = "busy" => Noise(running[w]) \in Response
      BY <2>21 DEF Processes, Noise, Response
    <3>2. stdout' \in [Calls -> Seq(Response)]
      <4>1. CASE UNCHANGED stdout
        BY <4>1
      <4>2. CASE /\ status[w] = "busy"
                 /\ stdout' = [stdout EXCEPT ![w] = Append(@, Noise(running[w]))]
        BY <3>1, <4>2, AppendTo
      <4>3. QED
        BY <2>21, <4>1, <4>2 DEF Crash
    <3>3. stdin' \in [Calls -> Seq(Request)]
      BY <2>21 DEF Crash
    <3>4. QED
      BY <2>21, <3>2, <3>3 DEF Crash
  <2>22. CASE UNCHANGED vars
    BY <2>22 DEF vars
  <2>23. QED
    BY <2>1, <2>2, <2>3, <2>4, <2>5, <2>6, <2>7, <2>8, <2>9, <2>10, <2>11,
       <2>12, <2>13, <2>14, <2>15, <2>16, <2>17, <2>18, <2>19, <2>20, <2>21,
       <2>22
    DEF Next, Launcher, HangUp, Process, Quiescent

\* Every step keeps the mutex in the hands of the one call that is past it,
\* and the slot what that call's phase says.
LEMMA ControlStep == Structure /\ [Next]_vars => Control'
  <2> SUFFICES ASSUME TypeOK, Control, Line, [Next]_vars PROVE Control'
    BY DEF Structure
  <2> USE DEF TypeOK, Control, InCall, Phase, callVars, workerVars, Return,
              DropWorker, Leave, Die
  <2>1. ASSUME NEW c \in Calls, Submit(c) PROVE Control'
    BY <2>1 DEF Submit
  <2>2. ASSUME NEW c \in Calls, Acquire(c) PROVE Control'
    <3>1. 1 \in 1..Len(queue) /\ queue[1] = c
      BY <2>2 DEF Acquire
    <3>2. phase[c] = "queued"
      BY <3>1 DEF Line
    <3>3. QED
      BY <2>2, <3>2 DEF Acquire
  <2>3. ASSUME NEW c \in Calls, Spawn(c) PROVE Control'
    BY <2>3 DEF Spawn
  <2>4. ASSUME NEW c \in Calls, SpawnFails(c) PROVE Control'
    BY <2>4 DEF SpawnFails
  <2>5. ASSUME NEW c \in Calls, Prepare(c) PROVE Control'
    BY <2>5 DEF Prepare
  <2>6. ASSUME NEW c \in Calls, Write(c) PROVE Control'
    BY <2>6 DEF Write
  <2>7. ASSUME NEW c \in Calls, WriteFails(c) PROVE Control'
    BY <2>7 DEF WriteFails
  <2>8. ASSUME NEW c \in Calls, ReadLine(c) PROVE Control'
    <3>1. /\ phase' = [phase EXCEPT ![c] = "done"]
          /\ holder' = NoCall
          /\ UNCHANGED <<sentTo, slot, killed>>
      BY <2>8 DEF ReadLine
    <3>2. QED
      BY <2>8, <3>1 DEF ReadLine
  <2>9. ASSUME NEW c \in Calls, ReadEof(c) PROVE Control'
    BY <2>9 DEF ReadEof
  <2>10. ASSUME NEW c \in Calls, Timeout(c) PROVE Control'
    BY <2>10 DEF Timeout
  <2>11. ASSUME NEW c \in Calls, KillDone(c) PROVE Control'
    BY <2>11 DEF KillDone
  <2>12. ASSUME NEW c \in Calls, HangUpQueued(c) PROVE Control'
    BY <2>12 DEF HangUpQueued
  <2>13. ASSUME NEW c \in Calls, HangUpWriting(c) PROVE Control'
    BY <2>13 DEF HangUpWriting
  <2>14. ASSUME NEW c \in Calls, HangUpReading(c) PROVE Control'
    BY <2>14 DEF HangUpReading
  <2>15. ASSUME NEW c \in Calls, HangUpKilling(c) PROVE Control'
    BY <2>15 DEF HangUpKilling
  <2>16. ASSUME NEW w \in Calls, Receive(w) PROVE Control'
    BY <2>16 DEF Receive
  <2>17. ASSUME NEW w \in Calls, Finish(w) PROVE Control'
    BY <2>17 DEF Finish
  <2>18. ASSUME NEW w \in Calls, MakeNoise(w) PROVE Control'
    BY <2>18 DEF MakeNoise
  <2>19. ASSUME NEW w \in Calls, Swallow(w) PROVE Control'
    BY <2>19 DEF Swallow
  <2>20. ASSUME NEW w \in Calls, Reap(w) PROVE Control'
    BY <2>20 DEF Reap
  <2>21. ASSUME NEW w \in Calls, Crash(w) PROVE Control'
    BY <2>21 DEF Crash
  <2>22. CASE UNCHANGED vars
    BY <2>22 DEF vars
  <2>23. QED
    BY <2>1, <2>2, <2>3, <2>4, <2>5, <2>6, <2>7, <2>8, <2>9, <2>10, <2>11,
       <2>12, <2>13, <2>14, <2>15, <2>16, <2>17, <2>18, <2>19, <2>20, <2>21,
       <2>22
    DEF Next, Launcher, HangUp, Process, Quiescent

\* Every step keeps the line at the mutex free of strangers and repetitions.
LEMMA LineStep == Structure /\ [Next]_vars => Line'
  <2> SUFFICES ASSUME TypeOK, Control, Line, [Next]_vars PROVE Line'
    BY DEF Structure
  <2> USE DEF TypeOK, Control, Line, InCall, Phase, callVars, workerVars, Return,
              DropWorker, Leave, Die
  <2>a. ASSUME NEW c \in Calls, phase[c] # "queued", UNCHANGED queue,
               \A d \in Calls : d # c => phase'[d] = phase[d]
        PROVE  Line'
    <3>1. \A k \in 1..Len(queue) : queue[k] \in Calls /\ queue[k] # c
      BY <2>a
    <3>2. QED
      BY <2>a, <3>1
  <2>1. ASSUME NEW c \in Calls, Submit(c) PROVE Line'
    <3>1. /\ phase[c] = "idle" /\ queue' = Append(queue, c)
          /\ phase' = [phase EXCEPT ![c] = "queued"]
      BY <2>1 DEF Submit
    <3>2. /\ Len(queue) \in Nat /\ Len(queue') = Len(queue) + 1
          /\ \A k \in 1..Len(queue) : queue'[k] = queue[k]
          /\ queue'[Len(queue) + 1] = c
      BY <3>1
    <3>3. \A k \in 1..Len(queue) : queue[k] \in Calls /\ queue[k] # c
      BY <3>1
    <3>4. ASSUME NEW k \in 1..Len(queue')
          PROVE  /\ phase'[queue'[k]] = "queued"
                 /\ queue'[k] = c => k = Len(queue) + 1
      <4>1. CASE k \in 1..Len(queue)
        BY <3>1, <3>2, <3>3, <4>1
      <4>2. CASE k = Len(queue) + 1
        BY <3>1, <3>2, <4>2
      <4>3. QED
        BY <3>2, <4>1, <4>2
    <3>5. ASSUME NEW k \in 1..Len(queue'), NEW l \in 1..Len(queue'),
                 queue'[k] = queue'[l]
          PROVE  k = l
      <4>1. CASE k \in 1..Len(queue) /\ l \in 1..Len(queue)
        BY <3>2, <3>5, <4>1
      <4>2. CASE k = Len(queue) + 1 \/ l = Len(queue) + 1
        BY <3>2, <3>4, <3>5, <4>2
      <4>3. QED
        BY <3>2, <4>1, <4>2
    <3>6. QED
      BY <3>4, <3>5
  <2>2. ASSUME NEW c \in Calls, Acquire(c) PROVE Line'
    <3>1. /\ queue # <<>> /\ queue' = Tail(queue) /\ Head(queue) = c
          /\ phase' = [phase EXCEPT ![c] = "locked"]
      BY <2>2 DEF Acquire
    <3>2. /\ queue \in Seq(Calls)
          /\ \A k, l \in 1..Len(queue) : queue[k] = queue[l] => k = l
      OBVIOUS
    <3>3. /\ \A k \in 1..Len(queue') :
               \E m \in 1..Len(queue) : queue'[k] = queue[m] /\ queue[m] # c
          /\ \A k, l \in 1..Len(queue') : queue'[k] = queue'[l] => k = l
      <4>1. /\ \A k \in 1..Len(Tail(queue)) :
                 \E m \in 1..Len(queue) :
                   Tail(queue)[k] = queue[m] /\ queue[m] # Head(queue)
            /\ \A k, l \in 1..Len(Tail(queue)) :
                 Tail(queue)[k] = Tail(queue)[l] => k = l
        <5> HIDE DEF TypeOK, Control, Line
        <5>1. queue # <<>>
          BY <3>1
        <5>2. QED
          BY <3>2, <5>1, TailDistinct
      <4>2. QED
        BY <3>1, <4>1, Zenon
    <3>4. ASSUME NEW k \in 1..Len(queue') PROVE phase'[queue'[k]] = "queued"
      <4>1. PICK m \in 1..Len(queue) : queue'[k] = queue[m] /\ queue[m] # c
        BY <3>3
      <4>2. queue[m] \in Calls /\ phase[queue[m]] = "queued"
        BY <3>2
      <4>3. QED
        BY <3>1, <4>1, <4>2
    <3>5. QED
      BY <3>3, <3>4
  <2>3. ASSUME NEW c \in Calls, Spawn(c) PROVE Line'
    BY <2>3 DEF Spawn
  <2>4. ASSUME NEW c \in Calls, SpawnFails(c) PROVE Line'
    <3>1. /\ phase[c] = "locked" /\ UNCHANGED queue
          /\ \A d \in Calls : d # c => phase'[d] = phase[d]
      BY <2>4 DEF SpawnFails
    <3>2. QED
      BY <2>a, <3>1
  <2>5. ASSUME NEW c \in Calls, Prepare(c) PROVE Line'
    <3>1. /\ phase[c] = "locked" /\ UNCHANGED queue
          /\ \A d \in Calls : d # c => phase'[d] = phase[d]
      BY <2>5 DEF Prepare
    <3>2. QED
      BY <2>a, <3>1
  <2>6. ASSUME NEW c \in Calls, Write(c) PROVE Line'
    <3>1. /\ phase[c] = "writing" /\ UNCHANGED queue
          /\ \A d \in Calls : d # c => phase'[d] = phase[d]
      BY <2>6 DEF Write
    <3>2. QED
      BY <2>a, <3>1
  <2>7. ASSUME NEW c \in Calls, WriteFails(c) PROVE Line'
    <3>1. /\ phase[c] = "writing" /\ UNCHANGED queue
          /\ \A d \in Calls : d # c => phase'[d] = phase[d]
      BY <2>7 DEF WriteFails
    <3>2. QED
      BY <2>a, <3>1
  <2>8. ASSUME NEW c \in Calls, ReadLine(c) PROVE Line'
    <3>1. /\ phase[c] = "reading" /\ UNCHANGED queue
          /\ \A d \in Calls : d # c => phase'[d] = phase[d]
      BY <2>8 DEF ReadLine
    <3>2. QED
      BY <2>a, <3>1
  <2>9. ASSUME NEW c \in Calls, ReadEof(c) PROVE Line'
    <3>1. /\ phase[c] = "reading" /\ UNCHANGED queue
          /\ \A d \in Calls : d # c => phase'[d] = phase[d]
      BY <2>9 DEF ReadEof
    <3>2. QED
      BY <2>a, <3>1
  <2>10. ASSUME NEW c \in Calls, Timeout(c) PROVE Line'
    <3>1. /\ phase[c] = "reading" /\ UNCHANGED queue
          /\ \A d \in Calls : d # c => phase'[d] = phase[d]
      BY <2>10 DEF Timeout
    <3>2. QED
      BY <2>a, <3>1
  <2>11. ASSUME NEW c \in Calls, KillDone(c) PROVE Line'
    <3>1. /\ phase[c] = "killing" /\ UNCHANGED queue
          /\ \A d \in Calls : d # c => phase'[d] = phase[d]
      BY <2>11 DEF KillDone
    <3>2. QED
      BY <2>a, <3>1
  <2>12. ASSUME NEW c \in Calls, HangUpQueued(c) PROVE Line'
    <3>1. PICK i \in 1..Len(queue) : queue[i] = c /\ queue' = RemoveAt(queue, i)
      BY <2>12 DEF HangUpQueued
    <3>2. /\ \A k \in 1..Len(RemoveAt(queue, i)) :
               \E m \in 1..Len(queue) : m # i /\ RemoveAt(queue, i)[k] = queue[m]
          /\ \A k, l \in 1..Len(RemoveAt(queue, i)) :
               RemoveAt(queue, i)[k] = RemoveAt(queue, i)[l] => k = l
      <4>1. /\ queue \in Seq(Calls)
            /\ \A k, l \in 1..Len(queue) : queue[k] = queue[l] => k = l
        OBVIOUS
      <4>2. QED
        BY <3>1, <4>1, RemoveDistinct
    <3>3. phase' = [phase EXCEPT ![c] = "hungup"]
      BY <2>12 DEF HangUpQueued
    <3>4. ASSUME NEW m \in 1..Len(queue), m # i PROVE phase'[queue[m]] = "queued"
      <4>1. queue[m] \in Calls /\ queue[m] # c
        <5>1. queue \in Seq(Calls)
          OBVIOUS
        <5>2. \A k, l \in 1..Len(queue) : queue[k] = queue[l] => k = l
          OBVIOUS
        <5> HIDE DEF TypeOK, Control, Line
        <5>3. QED
          BY <3>1, <3>4, <5>1, <5>2
      <4>2. QED
        BY <3>3, <4>1
    <3>5. ASSUME NEW k \in 1..Len(RemoveAt(queue, i))
          PROVE  phase'[RemoveAt(queue, i)[k]] = "queued"
      <4>1. PICK m \in 1..Len(queue) : m # i /\ RemoveAt(queue, i)[k] = queue[m]
        BY <3>2
      <4>2. QED
        BY <3>4, <4>1
    <3>6. QED
      BY <3>1, <3>2, <3>5
  <2>13. ASSUME NEW c \in Calls, HangUpWriting(c) PROVE Line'
    <3>1. /\ phase[c] = "writing" /\ UNCHANGED queue
          /\ \A d \in Calls : d # c => phase'[d] = phase[d]
      BY <2>13 DEF HangUpWriting
    <3>2. QED
      BY <2>a, <3>1
  <2>14. ASSUME NEW c \in Calls, HangUpReading(c) PROVE Line'
    <3>1. /\ phase[c] = "reading" /\ UNCHANGED queue
          /\ \A d \in Calls : d # c => phase'[d] = phase[d]
      BY <2>14 DEF HangUpReading
    <3>2. QED
      BY <2>a, <3>1
  <2>15. ASSUME NEW c \in Calls, HangUpKilling(c) PROVE Line'
    <3>1. /\ phase[c] = "killing" /\ UNCHANGED queue
          /\ \A d \in Calls : d # c => phase'[d] = phase[d]
      BY <2>15 DEF HangUpKilling
    <3>2. QED
      BY <2>a, <3>1
  <2>16. ASSUME NEW w \in Calls, Receive(w) PROVE Line'
    BY <2>16 DEF Receive
  <2>17. ASSUME NEW w \in Calls, Finish(w) PROVE Line'
    BY <2>17 DEF Finish
  <2>18. ASSUME NEW w \in Calls, MakeNoise(w) PROVE Line'
    BY <2>18 DEF MakeNoise
  <2>19. ASSUME NEW w \in Calls, Swallow(w) PROVE Line'
    BY <2>19 DEF Swallow
  <2>20. ASSUME NEW w \in Calls, Reap(w) PROVE Line'
    BY <2>20 DEF Reap
  <2>21. ASSUME NEW w \in Calls, Crash(w) PROVE Line'
    BY <2>21 DEF Crash
  <2>22. CASE UNCHANGED vars
    BY <2>22 DEF vars
  <2>23. QED
    BY <2>1, <2>2, <2>3, <2>4, <2>5, <2>6, <2>7, <2>8, <2>9, <2>10, <2>11,
       <2>12, <2>13, <2>14, <2>15, <2>16, <2>17, <2>18, <2>19, <2>20, <2>21,
       <2>22
    DEF Next, Launcher, HangUp, Process, Quiescent

\* Every step keeps what is known of born, busy and dead processes.
LEMMA ProcessesStep == Structure /\ [Next]_vars => Processes'
  <2> SUFFICES ASSUME TypeOK, Control, Line, Processes, [Next]_vars PROVE Processes'
    BY DEF Structure
  <2> USE DEF TypeOK, Control, InCall, Processes, Phase, Status, callVars, workerVars,
              Return, DropWorker, PutLine, Leave, Noise, Die, Alive
  <2>1. ASSUME NEW c \in Calls, Submit(c) PROVE Processes'
    BY <2>1 DEF Submit
  <2>2. ASSUME NEW c \in Calls, Acquire(c) PROVE Processes'
    <3>1. 1 \in 1..Len(queue) /\ queue[1] = c
      BY <2>2 DEF Acquire
    <3>2. phase[c] = "queued"
      BY <3>1 DEF Line
    <3>3. QED
      BY <2>2, <3>2 DEF Acquire
  <2>3. ASSUME NEW c \in Calls, Spawn(c) PROVE Processes'
    BY <2>3 DEF Spawn
  <2>4. ASSUME NEW c \in Calls, SpawnFails(c) PROVE Processes'
    BY <2>4 DEF SpawnFails
  <2>5. ASSUME NEW c \in Calls, Prepare(c) PROVE Processes'
    BY <2>5 DEF Prepare
  <2>6. ASSUME NEW c \in Calls, Write(c) PROVE Processes'
    BY <2>6 DEF Write
  <2>7. ASSUME NEW c \in Calls, WriteFails(c) PROVE Processes'
    BY <2>7 DEF WriteFails
  <2>8. ASSUME NEW c \in Calls, ReadLine(c) PROVE Processes'
    BY <2>8 DEF ReadLine
  <2>9. ASSUME NEW c \in Calls, ReadEof(c) PROVE Processes'
    BY <2>9 DEF ReadEof
  <2>10. ASSUME NEW c \in Calls, Timeout(c) PROVE Processes'
    BY <2>10 DEF Timeout
  <2>11. ASSUME NEW c \in Calls, KillDone(c) PROVE Processes'
    BY <2>11 DEF KillDone
  <2>12. ASSUME NEW c \in Calls, HangUpQueued(c) PROVE Processes'
    BY <2>12 DEF HangUpQueued
  <2>13. ASSUME NEW c \in Calls, HangUpWriting(c) PROVE Processes'
    BY <2>13 DEF HangUpWriting
  <2>14. ASSUME NEW c \in Calls, HangUpReading(c) PROVE Processes'
    <3>1. \A w \in Calls : stdout[w] = <<>> => stdout'[w] = <<>>
      BY <2>14 DEF HangUpReading
    <3>2. /\ phase' = [phase EXCEPT ![c] = "hungup"]
          /\ phase[c] = "reading"
          /\ UNCHANGED <<slot, sentTo, status, killed, running, stdin>>
      BY <2>14 DEF HangUpReading
    <3>3. QED
      BY <3>1, <3>2
  <2>15. ASSUME NEW c \in Calls, HangUpKilling(c) PROVE Processes'
    BY <2>15 DEF HangUpKilling
  <2>16. ASSUME NEW w \in Calls, Receive(w) PROVE Processes'
    <3>1. Head(stdin[w]).call \in Calls /\ Head(stdin[w]) \in Request
      <4>1. Head(stdin[w]) \in Request
        BY <2>16, HeadTailProperties DEF Receive
      <4>2. QED
        BY <4>1 DEF Request
    <3>2. CASE Head(stdin[w]).kind = "request"
      <4>1. /\ status' = [status EXCEPT ![w] = "busy"]
            /\ running' = [running EXCEPT ![w] = Head(stdin[w]).call]
            /\ stdin' = [stdin EXCEPT ![w] = Tail(@)]
            /\ UNCHANGED <<phase, slot, sentTo, killed, stdout>>
        BY <2>16, <3>2 DEF Receive
      <4>2. QED
        BY <2>16, <3>1, <4>1 DEF Receive
    <3>3. CASE Head(stdin[w]).kind # "request"
      <4>1. /\ UNCHANGED <<phase, slot, sentTo, status, running, killed>>
            /\ stdin' = [stdin EXCEPT ![w] = Tail(@)]
            /\ \A v \in Calls : v # w => stdout'[v] = stdout[v]
        BY <2>16, <3>3 DEF Receive
      <4>2. QED
        BY <2>16, <4>1 DEF Receive
    <3>4. QED
      BY <3>2, <3>3
  <2>17. ASSUME NEW w \in Calls, Finish(w) PROVE Processes'
    BY <2>17 DEF Finish
  <2>18. ASSUME NEW w \in Calls, MakeNoise(w) PROVE Processes'
    <3>1. /\ \A v \in Calls : v # w => stdout'[v] = stdout[v]
          /\ status[w] = "busy"
          /\ UNCHANGED <<phase, slot, sentTo, status, running, killed, stdin>>
      BY <2>18 DEF MakeNoise
    <3>2. QED
      BY <3>1
  <2>19. ASSUME NEW w \in Calls, Swallow(w) PROVE Processes'
    BY <2>19 DEF Swallow
  <2>20. ASSUME NEW w \in Calls, Reap(w) PROVE Processes'
    BY <2>20 DEF Reap
  <2>21. ASSUME NEW w \in Calls, Crash(w) PROVE Processes'
    BY <2>21 DEF Crash
  <2>22. CASE UNCHANGED vars
    BY <2>22 DEF vars
  <2>23. QED
    BY <2>1, <2>2, <2>3, <2>4, <2>5, <2>6, <2>7, <2>8, <2>9, <2>10, <2>11,
       <2>12, <2>13, <2>14, <2>15, <2>16, <2>17, <2>18, <2>19, <2>20, <2>21,
       <2>22
    DEF Next, Launcher, HangUp, Process, Quiescent

-----------------------------------------------------------------------------
(* Theorem 1: types                                                        *)

\* Structure is invariant.
LEMMA StructureInvariant == Spec => []Structure
<1>1. Init => Structure
  BY DEF Init, Structure, TypeOK, Control, Line, Processes, InCall, Phase,
         Outcome, Status
<1>2. Structure /\ [Next]_vars => Structure'
  BY TypeStep, ControlStep, LineStep, ProcessesStep DEF Structure
<1>3. QED
  BY <1>1, <1>2, PTL DEF Spec

\* Every variable keeps its type, for every set of calls.
THEOREM TypeCorrect == Spec => []TypeOK
<1>1. Structure => TypeOK
  BY DEF Structure
<1>2. QED
  BY <1>1, StructureInvariant, PTL

-----------------------------------------------------------------------------
(* Theorem 2: an undisturbed worker answers every call with its own answer *)

\* Who has disturbed a process stays on record.
LEMMA DisturbedStays ==
  ASSUME Structure, [Next]_vars, NEW v \in Calls, Disturbed(v)
  PROVE  Disturbed(v)'
<1>1. PICK d \in Calls : sentTo[d] = v /\ (phase[d] = "hungup" \/ d \in Noisy)
  BY DEF Disturbed
<1>2. phase[d] \notin {"idle", "queued", "locked"}
  BY <1>1 DEF Structure, Control
<1> DEFINE Kept == sentTo'[d] = v /\ (phase'[d] = "hungup" \/ d \in Noisy)
<1>3. Kept
  <2> SUFFICES ASSUME TypeOK, Control, Line, [Next]_vars
               PROVE  Kept
    BY DEF Structure
  <2> USE <1>1, <1>2 DEF TypeOK, Control, InCall, Phase, callVars, workerVars,
                         Return, Leave, Die
  <2>1. ASSUME NEW c \in Calls, Submit(c) PROVE Kept
    BY <2>1 DEF Submit
  <2>2. ASSUME NEW c \in Calls, Acquire(c) PROVE Kept
    <3>1. 1 \in 1..Len(queue) /\ queue[1] = c
      BY <2>2 DEF Acquire
    <3>2. phase[c] = "queued"
      BY <3>1 DEF Line
    <3>3. QED
      BY <2>2, <3>2 DEF Acquire
  <2>3. ASSUME NEW c \in Calls, Spawn(c) PROVE Kept
    BY <2>3 DEF Spawn
  <2>4. ASSUME NEW c \in Calls, SpawnFails(c) PROVE Kept
    BY <2>4 DEF SpawnFails
  <2>5. ASSUME NEW c \in Calls, Prepare(c) PROVE Kept
    BY <2>5 DEF Prepare
  <2>6. ASSUME NEW c \in Calls, Write(c) PROVE Kept
    BY <2>6 DEF Write
  <2>7. ASSUME NEW c \in Calls, WriteFails(c) PROVE Kept
    BY <2>7 DEF WriteFails
  <2>8. ASSUME NEW c \in Calls, ReadLine(c) PROVE Kept
    BY <2>8 DEF ReadLine
  <2>9. ASSUME NEW c \in Calls, ReadEof(c) PROVE Kept
    BY <2>9 DEF ReadEof
  <2>10. ASSUME NEW c \in Calls, Timeout(c) PROVE Kept
    BY <2>10 DEF Timeout
  <2>11. ASSUME NEW c \in Calls, KillDone(c) PROVE Kept
    BY <2>11 DEF KillDone
  <2>12. ASSUME NEW c \in Calls, HangUpQueued(c) PROVE Kept
    BY <2>12 DEF HangUpQueued
  <2>13. ASSUME NEW c \in Calls, HangUpWriting(c) PROVE Kept
    BY <2>13 DEF HangUpWriting
  <2>14. ASSUME NEW c \in Calls, HangUpReading(c) PROVE Kept
    BY <2>14 DEF HangUpReading
  <2>15. ASSUME NEW c \in Calls, HangUpKilling(c) PROVE Kept
    BY <2>15 DEF HangUpKilling
  <2>16. ASSUME NEW w \in Calls, Receive(w) PROVE Kept
    BY <2>16 DEF Receive
  <2>17. ASSUME NEW w \in Calls, Finish(w) PROVE Kept
    BY <2>17 DEF Finish
  <2>18. ASSUME NEW w \in Calls, MakeNoise(w) PROVE Kept
    BY <2>18 DEF MakeNoise
  <2>19. ASSUME NEW w \in Calls, Swallow(w) PROVE Kept
    BY <2>19 DEF Swallow
  <2>20. ASSUME NEW w \in Calls, Reap(w) PROVE Kept
    BY <2>20 DEF Reap
  <2>21. ASSUME NEW w \in Calls, Crash(w) PROVE Kept
    BY <2>21 DEF Crash
  <2>22. CASE UNCHANGED vars
    BY <2>22 DEF vars
  <2>23. QED
    BY <2>1, <2>2, <2>3, <2>4, <2>5, <2>6, <2>7, <2>8, <2>9, <2>10, <2>11,
       <2>12, <2>13, <2>14, <2>15, <2>16, <2>17, <2>18, <2>19, <2>20, <2>21,
       <2>22
    DEF Next, Launcher, HangUp, Process, Quiescent
<1>4. QED
  BY <1>3 DEF Disturbed

\* The conversation with an undisturbed worker: nothing is under way, or the
\* one request of the call that reads is in one of three places.
Silent(w) == stdin[w] = <<>> /\ running[w] = NoCall /\ stdout[w] = <<>>

Asked(w, c) ==
  Len(stdin[w]) = 1 /\ stdin[w][1].call = c /\ running[w] = NoCall /\ stdout[w] = <<>>

Working(w, c) == stdin[w] = <<>> /\ running[w] = c /\ stdout[w] = <<>>

Replied(w, c) ==
  /\ stdin[w] = <<>> /\ running[w] = NoCall
  /\ Len(stdout[w]) = 1 /\ stdout[w][1].call = c /\ stdout[w][1].kind # "forged"

Conversation ==
  slot # NoCall /\ ~Disturbed(slot) =>
    \/ Silent(slot)
    \/ \E c \in Calls :
         /\ phase[c] = "reading"
         /\ Asked(slot, c) \/ Working(slot, c) \/ Replied(slot, c)

\* Every step keeps the conversation with an undisturbed process in one of
\* its three states: silent, working on the reader's request, or answered.
LEMMA ConversationStep == Structure /\ Conversation /\ [Next]_vars => Conversation'
  <2> SUFFICES ASSUME Structure, Conversation, [Next]_vars, slot' # NoCall, ~Disturbed(slot)'
               PROVE  \/ Silent(slot)'
                      \/ \E c \in Calls :
                           /\ phase'[c] = "reading"
                           /\ Asked(slot, c)' \/ Working(slot, c)' \/ Replied(slot, c)'
    BY DEF Conversation
  <2> DEFINE Goal == \/ Silent(slot)'
                     \/ \E c \in Calls :
                          /\ phase'[c] = "reading"
                          /\ Asked(slot, c)' \/ Working(slot, c)' \/ Replied(slot, c)'
  <2> USE DEF callVars, workerVars
  <2>a. TypeOK /\ Control /\ Processes
    BY DEF Structure
  <2>b. slot' \in Calls
    BY TypeStep DEF TypeOK
  <2>c. slot' = slot =>
          \/ Silent(slot)
          \/ \E c \in Calls :
               /\ phase[c] = "reading"
               /\ Asked(slot, c) \/ Working(slot, c) \/ Replied(slot, c)
    BY <2>b, DisturbedStays DEF Conversation
  <2>d. ASSUME slot' = slot, UNCHANGED <<stdin[slot], running[slot], stdout[slot]>>,
               \A c \in Calls : phase[c] = "reading" => phase'[c] = "reading"
        PROVE  Goal
    BY <2>c, <2>d DEF Silent, Asked, Working, Replied
  <2>1. ASSUME NEW c \in Calls, Submit(c) PROVE Goal
    <3>1. UNCHANGED <<slot, stdin, running, stdout>>
      BY <2>1 DEF Submit
    <3>2. \A d \in Calls : phase[d] = "reading" => phase'[d] = "reading"
      BY <2>1, <2>a DEF Submit, TypeOK, Leave
    <3>3. QED
      BY <2>d, <3>1, <3>2
  <2>2. ASSUME NEW c \in Calls, Acquire(c) PROVE Goal
    <3>1. UNCHANGED <<slot, stdin, running, stdout>>
      BY <2>2 DEF Acquire
    <3>2. 1 \in 1..Len(queue) /\ queue[1] = c
      BY <2>2, <2>a DEF Acquire, TypeOK
    <3>3. phase[c] = "queued"
      BY <3>2 DEF Structure, Line
    <3>4. \A d \in Calls : phase[d] = "reading" => phase'[d] = "reading"
      BY <2>2, <2>a, <3>3 DEF Acquire, TypeOK
    <3>5. QED
      BY <2>d, <3>1, <3>4
  <2>3. ASSUME NEW c \in Calls, Spawn(c) PROVE Goal
    <3>1. status[c] = "unborn" /\ slot' = c
      BY <2>3, <2>a DEF Spawn, Processes
    <3>2. Silent(c)
      BY <2>a, <3>1 DEF Processes, Silent
    <3>3. QED
      BY <2>3, <3>1, <3>2 DEF Spawn, Silent
  <2>4. ASSUME NEW c \in Calls, SpawnFails(c) PROVE Goal
    BY <2>4 DEF SpawnFails
  <2>5. ASSUME NEW c \in Calls, Prepare(c) PROVE Goal
    <3>1. UNCHANGED <<slot, stdin, running, stdout>>
      BY <2>5 DEF Prepare
    <3>2. \A d \in Calls : phase[d] = "reading" => phase'[d] = "reading"
      BY <2>5, <2>a DEF Prepare, TypeOK, Leave
    <3>3. QED
      BY <2>d, <3>1, <3>2
  <2>6. ASSUME NEW c \in Calls, Write(c) PROVE Goal
    <3>1. slot' = slot /\ phase'[c] = "reading"
      BY <2>6, <2>a DEF Write, TypeOK
    <3>2. \A d \in Calls : phase[d] # "reading"
      BY <2>6, <2>a DEF Write, Control, InCall
    <3>3. Silent(slot)
      BY <2>c, <3>1, <3>2
    <3>4. stdin'[slot] = <<[call |-> c,
                            kind |-> IF torn[slot] THEN "malformed" ELSE "request"]>>
      BY <2>6, <2>a, <2>b, <3>1, <3>3 DEF Write, PutLine, TypeOK, Silent
    <3>5. Asked(slot, c)'
      BY <2>6, <3>1, <3>3, <3>4 DEF Write, Silent, Asked
    <3>6. QED
      BY <3>1, <3>5
  <2>7. ASSUME NEW c \in Calls, WriteFails(c) PROVE Goal
    BY <2>7 DEF WriteFails, DropWorker
  <2>8. ASSUME NEW c \in Calls, ReadLine(c) PROVE Goal
    <3>1. slot' = slot /\ UNCHANGED <<stdin, running>> /\ stdout[slot] # <<>>
      BY <2>8 DEF ReadLine
    <3>2. PICK d \in Calls : Replied(slot, d)
      BY <2>c, <3>1 DEF Silent, Asked, Working
    <3>3. stdout'[slot] = Tail(stdout[slot]) /\ stdout[slot] \in Seq(Response)
      BY <2>8, <2>a, <2>b, <3>1 DEF ReadLine, TypeOK
    <3>4. stdout'[slot] = <<>>
      BY <3>2, <3>3, TailOfOne DEF Replied
    <3>5. QED
      BY <3>1, <3>2, <3>4 DEF Silent, Replied
  <2>9. ASSUME NEW c \in Calls, ReadEof(c) PROVE Goal
    BY <2>9 DEF ReadEof, DropWorker
  <2>10. ASSUME NEW c \in Calls, Timeout(c) PROVE Goal
    BY <2>10 DEF Timeout, DropWorker
  <2>11. ASSUME NEW c \in Calls, KillDone(c) PROVE Goal
    BY <2>11, <2>a DEF KillDone, Control
  <2>12. ASSUME NEW c \in Calls, HangUpQueued(c) PROVE Goal
    <3>1. UNCHANGED <<slot, stdin, running, stdout>>
      BY <2>12 DEF HangUpQueued
    <3>2. \A d \in Calls : phase[d] = "reading" => phase'[d] = "reading"
      BY <2>12, <2>a DEF HangUpQueued, TypeOK, Leave
    <3>3. QED
      BY <2>d, <3>1, <3>2
  <2>13. ASSUME NEW c \in Calls, HangUpWriting(c) PROVE Goal
    <3>1. slot' = slot /\ sentTo'[c] = slot
      BY <2>13, <2>a DEF HangUpWriting, Control
    <3>2. phase'[c] = "hungup"
      BY <2>13, <2>a DEF HangUpWriting, Leave, TypeOK
    <3>3. QED
      BY <3>1, <3>2 DEF Disturbed
  <2>14. ASSUME NEW c \in Calls, HangUpReading(c) PROVE Goal
    <3>1. slot' = slot /\ sentTo'[c] = slot
      BY <2>14, <2>a DEF HangUpReading, Control
    <3>2. phase'[c] = "hungup"
      BY <2>14, <2>a DEF HangUpReading, Leave, TypeOK
    <3>3. QED
      BY <3>1, <3>2 DEF Disturbed
  <2>15. ASSUME NEW c \in Calls, HangUpKilling(c) PROVE Goal
    BY <2>15, <2>a DEF HangUpKilling, Control
  <2>16. ASSUME NEW w \in Calls, Receive(w) PROVE Goal
    <3>1. UNCHANGED <<slot, phase>>
      BY <2>16 DEF Receive, Die
    <3>2. CASE w # slot
      <4>1. UNCHANGED <<stdin[slot], running[slot], stdout[slot]>>
        BY <2>16, <2>a, <2>b, <3>1, <3>2 DEF Receive, TypeOK, Die
      <4>2. QED
        BY <2>d, <3>1, <4>1
    <3>3. CASE w = slot
      <4>1. PICK c \in Calls : phase[c] = "reading" /\ Asked(slot, c)
        BY <2>16, <2>c, <3>1, <3>3 DEF Receive, Silent, Working, Replied
      <4>2. stdin[slot] \in Seq(Request) /\ Head(stdin[slot]).call = c
        BY <2>a, <2>b, <3>1, <4>1 DEF Asked, TypeOK
      <4>3. stdin'[slot] = <<>>
        <5>1. stdin'[slot] = Tail(stdin[slot])
          BY <2>16, <2>a, <2>b, <3>1, <3>3 DEF Receive, TypeOK
        <5>2. QED
          BY <4>1, <4>2, <5>1, TailOfOne DEF Asked
      <4>4. CASE Head(stdin[w]).kind = "request"
        <5>1. running'[slot] = c /\ stdout'[slot] = <<>>
          BY <2>16, <2>a, <2>b, <3>1, <3>3, <4>1, <4>2, <4>4 DEF Receive, TypeOK, Asked
        <5>2. QED
          BY <3>1, <4>1, <4>3, <5>1 DEF Working
      <4>5. CASE Head(stdin[w]).kind # "request"
        <5>1. running'[slot] = NoCall
          BY <2>16, <2>a, <2>b, <3>1, <3>3, <4>1, <4>5 DEF Receive, TypeOK, Asked
        <5>2. stdout'[slot] = <<[call |-> c, kind |-> "bad_json"]>>
          BY <2>16, <2>a, <2>b, <3>1, <3>3, <4>1, <4>2, <4>5 DEF Receive, TypeOK, Asked
        <5>3. QED
          BY <3>1, <4>1, <4>3, <5>1, <5>2 DEF Replied
      <4>6. QED
        BY <4>4, <4>5
    <3>4. QED
      BY <3>2, <3>3
  <2>17. ASSUME NEW w \in Calls, Finish(w) PROVE Goal
    <3>1. UNCHANGED <<slot, phase>>
      BY <2>17 DEF Finish, Die
    <3>2. CASE w # slot
      <4>1. UNCHANGED <<stdin[slot], running[slot], stdout[slot]>>
        BY <2>17, <2>a, <2>b, <3>1, <3>2 DEF Finish, TypeOK, Die
      <4>2. QED
        BY <2>d, <3>1, <4>1
    <3>3. CASE w = slot
      <4>1. running[slot] # NoCall
        BY <2>17, <2>a, <2>b, <3>1, <3>3 DEF Finish, Processes
      <4>2. PICK c \in Calls : phase[c] = "reading" /\ Working(slot, c)
        BY <2>c, <3>1, <4>1 DEF Silent, Asked, Replied
      <4>3. /\ stdout'[slot] = <<[call |-> c, kind |-> "answer"]>>
            /\ running'[slot] = NoCall
            /\ stdin'[slot] = <<>>
        BY <2>17, <2>a, <2>b, <3>1, <3>3, <4>2 DEF Finish, TypeOK, Working
      <4>4. QED
        BY <3>1, <4>2, <4>3 DEF Replied
    <3>4. QED
      BY <3>2, <3>3
  <2>18. ASSUME NEW w \in Calls, MakeNoise(w) PROVE Goal
    <3>1. UNCHANGED <<slot, phase>>
      BY <2>18 DEF MakeNoise, Die
    <3>2. CASE w # slot
      <4>1. UNCHANGED <<stdin[slot], running[slot], stdout[slot]>>
        BY <2>18, <2>a, <2>b, <3>1, <3>2 DEF MakeNoise, TypeOK, Die
      <4>2. QED
        BY <2>d, <3>1, <4>1
    <3>3. CASE w = slot
      <4>1. running[w] \in Calls /\ running[w] \in Noisy
        BY <2>18 DEF MakeNoise
      <4>2. Working(slot, running[w]) /\ phase[running[w]] = "reading"
        BY <2>c, <3>1, <3>3, <4>1 DEF Silent, Asked, Working, Replied
      <4>3. sentTo'[running[w]] = slot
        BY <2>18, <2>a, <4>1, <4>2 DEF MakeNoise, Control
      <4>4. QED
        BY <3>1, <4>1, <4>3 DEF Disturbed
    <3>4. QED
      BY <3>2, <3>3
  <2>19. ASSUME NEW w \in Calls, Swallow(w) PROVE Goal
    <3>1. UNCHANGED <<slot, phase>>
      BY <2>19 DEF Swallow, Die
    <3>2. CASE w # slot
      <4>1. UNCHANGED <<stdin[slot], running[slot], stdout[slot]>>
        BY <2>19, <2>a, <2>b, <3>1, <3>2 DEF Swallow, TypeOK, Die
      <4>2. QED
        BY <2>d, <3>1, <4>1
    <3>3. CASE w = slot
      <4>1. running[w] \in Calls /\ running[w] \in Noisy
        BY <2>19 DEF Swallow
      <4>2. Working(slot, running[w]) /\ phase[running[w]] = "reading"
        BY <2>c, <3>1, <3>3, <4>1 DEF Silent, Asked, Working, Replied
      <4>3. sentTo'[running[w]] = slot
        BY <2>19, <2>a, <4>1, <4>2 DEF Swallow, Control
      <4>4. QED
        BY <3>1, <4>1, <4>3 DEF Disturbed
    <3>4. QED
      BY <3>2, <3>3
  <2>20. ASSUME NEW w \in Calls, Reap(w) PROVE Goal
    <3>1. UNCHANGED <<slot, phase>>
      BY <2>20 DEF Reap, Die
    <3>2. CASE w # slot
      <4>1. UNCHANGED <<stdin[slot], running[slot], stdout[slot]>>
        BY <2>20, <2>a, <2>b, <3>1, <3>2 DEF Reap, TypeOK, Die
      <4>2. QED
        BY <2>d, <3>1, <4>1
    <3>3. CASE w = slot
      <4> QED
        BY <2>20, <2>a, <2>b, <3>1, <3>3 DEF Reap, Processes
    <3>4. QED
      BY <3>2, <3>3
  <2>21. ASSUME NEW w \in Calls, Crash(w) PROVE Goal
    <3>1. UNCHANGED <<slot, phase>>
      BY <2>21 DEF Crash, Die
    <3>2. CASE w # slot
      <4>1. UNCHANGED <<stdin[slot], running[slot], stdout[slot]>>
        BY <2>21, <2>a, <2>b, <3>1, <3>2 DEF Crash, TypeOK, Die
      <4>2. QED
        BY <2>d, <3>1, <4>1
    <3>3. CASE w = slot
      <4>1. stdin'[slot] = <<>> /\ running'[slot] = NoCall
        BY <2>21, <2>a, <2>b, <3>1, <3>3 DEF Crash, Die, TypeOK
      <4>2. CASE running[slot] # NoCall
        <5>1. PICK c \in Calls : phase[c] = "reading" /\ Working(slot, c)
          BY <2>c, <3>1, <4>2 DEF Silent, Asked, Replied
        <5>2. stdout'[slot] = <<>> \/ stdout'[slot] = <<Noise(c)>>
          BY <2>21, <2>a, <2>b, <3>1, <3>3, <5>1 DEF Crash, TypeOK, Working
        <5>3. CASE stdout'[slot] = <<>>
          BY <3>1, <4>1, <5>3 DEF Silent
        <5>4. CASE stdout'[slot] = <<Noise(c)>>
          <6>1. /\ Len(stdout'[slot]) = 1 /\ stdout'[slot][1].call = c
                /\ stdout'[slot][1].kind # "forged"
            BY <5>4 DEF Noise
          <6>2. QED
            BY <3>1, <4>1, <5>1, <6>1 DEF Replied
        <5>5. QED
          BY <5>2, <5>3, <5>4
      <4>3. CASE running[slot] = NoCall
        <5>1. stdout'[slot] = stdout[slot]
          BY <2>21, <2>a, <2>b, <3>1, <3>3, <4>3 DEF Crash, TypeOK, Processes
        <5>2. QED
          BY <2>c, <3>1, <4>1, <4>3, <5>1 DEF Silent, Asked, Working, Replied
      <4>4. QED
        BY <4>2, <4>3
    <3>4. QED
      BY <3>2, <3>3
  <2>22. CASE UNCHANGED vars
    BY <2>22, <2>d DEF vars
  <2>23. QED
    BY <2>1, <2>2, <2>3, <2>4, <2>5, <2>6, <2>7, <2>8, <2>9, <2>10, <2>11,
       <2>12, <2>13, <2>14, <2>15, <2>16, <2>17, <2>18, <2>19, <2>20, <2>21,
       <2>22
    DEF Next, Launcher, HangUp, Process, Quiescent

\* Conversation is invariant.
LEMMA ConversationInvariant == Spec => []Conversation
<1>1. Init => Conversation
  BY DEF Init, Conversation
<1>2. QED
  BY <1>1, ConversationStep, StructureInvariant, PTL DEF Spec

\* A call that returned keeps its result and its place in the record, and no
\* step but a read makes a call successful.
Final(d) ==
  phase[d] = "done" =>
    /\ phase'[d] = "done"
    /\ sentTo'[d] = sentTo[d]
    /\ outcome'[d] = outcome[d]
    /\ answerOf'[d] = answerOf[d]

\* What a call returned, it and its answer keep for ever.
LEMMA ResultsAreFinal ==
  ASSUME Structure, [Next]_vars, NEW d \in Calls
  PROVE  /\ Final(d)
         /\ outcome'[d] = "ok" => outcome[d] = "ok" \/ ReadLine(d)
         /\ answerOf'[d] # answerOf[d] => ReadLine(d)
<1> DEFINE Goal == /\ Final(d)
                   /\ outcome'[d] = "ok" => outcome[d] = "ok" \/ ReadLine(d)
                   /\ answerOf'[d] # answerOf[d] => ReadLine(d)
<1>1. Goal
  <2> SUFFICES ASSUME TypeOK, Control, Line, [Next]_vars PROVE Goal
    BY DEF Structure
  <2> USE DEF TypeOK, Control, InCall, Phase, callVars, workerVars, Return,
              Leave, Die, Final
  <2>1. ASSUME NEW c \in Calls, Submit(c) PROVE Goal
    BY <2>1 DEF Submit
  <2>2. ASSUME NEW c \in Calls, Acquire(c) PROVE Goal
    <3>1. 1 \in 1..Len(queue) /\ queue[1] = c
      BY <2>2 DEF Acquire
    <3>2. phase[c] = "queued"
      BY <3>1 DEF Line
    <3>3. QED
      BY <2>2, <3>2 DEF Acquire
  <2>3. ASSUME NEW c \in Calls, Spawn(c) PROVE Goal
    BY <2>3 DEF Spawn
  <2>4. ASSUME NEW c \in Calls, SpawnFails(c) PROVE Goal
    BY <2>4 DEF SpawnFails
  <2>5. ASSUME NEW c \in Calls, Prepare(c) PROVE Goal
    BY <2>5 DEF Prepare
  <2>6. ASSUME NEW c \in Calls, Write(c) PROVE Goal
    BY <2>6 DEF Write
  <2>7. ASSUME NEW c \in Calls, WriteFails(c) PROVE Goal
    BY <2>7 DEF WriteFails
  <2>8. ASSUME NEW c \in Calls, ReadLine(c) PROVE Goal
    BY <2>8 DEF ReadLine
  <2>9. ASSUME NEW c \in Calls, ReadEof(c) PROVE Goal
    BY <2>9 DEF ReadEof
  <2>10. ASSUME NEW c \in Calls, Timeout(c) PROVE Goal
    BY <2>10 DEF Timeout
  <2>11. ASSUME NEW c \in Calls, KillDone(c) PROVE Goal
    BY <2>11 DEF KillDone
  <2>12. ASSUME NEW c \in Calls, HangUpQueued(c) PROVE Goal
    BY <2>12 DEF HangUpQueued
  <2>13. ASSUME NEW c \in Calls, HangUpWriting(c) PROVE Goal
    BY <2>13 DEF HangUpWriting
  <2>14. ASSUME NEW c \in Calls, HangUpReading(c) PROVE Goal
    BY <2>14 DEF HangUpReading
  <2>15. ASSUME NEW c \in Calls, HangUpKilling(c) PROVE Goal
    BY <2>15 DEF HangUpKilling
  <2>16. ASSUME NEW w \in Calls, Receive(w) PROVE Goal
    BY <2>16 DEF Receive
  <2>17. ASSUME NEW w \in Calls, Finish(w) PROVE Goal
    BY <2>17 DEF Finish
  <2>18. ASSUME NEW w \in Calls, MakeNoise(w) PROVE Goal
    BY <2>18 DEF MakeNoise
  <2>19. ASSUME NEW w \in Calls, Swallow(w) PROVE Goal
    BY <2>19 DEF Swallow
  <2>20. ASSUME NEW w \in Calls, Reap(w) PROVE Goal
    BY <2>20 DEF Reap
  <2>21. ASSUME NEW w \in Calls, Crash(w) PROVE Goal
    BY <2>21 DEF Crash
  <2>22. CASE UNCHANGED vars
    BY <2>22 DEF vars
  <2>23. QED
    BY <2>1, <2>2, <2>3, <2>4, <2>5, <2>6, <2>7, <2>8, <2>9, <2>10, <2>11,
       <2>12, <2>13, <2>14, <2>15, <2>16, <2>17, <2>18, <2>19, <2>20, <2>21,
       <2>22
    DEF Next, Launcher, HangUp, Process, Quiescent
<1>2. QED
  BY <1>1

\* A successful call was given its own answer, by a process nobody disturbed.
AnsweredWell ==
  \A c \in Calls : outcome[c] = "ok" =>
    /\ phase[c] = "done"
    /\ sentTo[c] # NoCall
    /\ answerOf[c] = c \/ Disturbed(sentTo[c])

\* Every step keeps the answers that calls of undisturbed processes were given
\* their own: one taken in this step was the only line of its process.
LEMMA AnsweredWellStep ==
  Structure /\ Conversation /\ AnsweredWell /\ [Next]_vars => AnsweredWell'
<1> SUFFICES ASSUME Structure, Conversation, AnsweredWell, [Next]_vars,
                    NEW d \in Calls, outcome'[d] = "ok"
             PROVE  /\ phase'[d] = "done"
                    /\ sentTo'[d] # NoCall
                    /\ answerOf'[d] = d \/ Disturbed(sentTo[d])'
  BY DEF AnsweredWell
<1>1. TypeOK /\ Control
  BY DEF Structure
<1>2. CASE outcome[d] = "ok"
  <2>1. /\ phase[d] = "done"
        /\ sentTo[d] \in Calls
        /\ answerOf[d] = d \/ Disturbed(sentTo[d])
    BY <1>1, <1>2 DEF AnsweredWell, TypeOK
  <2>2. phase'[d] = "done" /\ sentTo'[d] = sentTo[d] /\ answerOf'[d] = answerOf[d]
    BY <2>1, ResultsAreFinal DEF Final
  <2>3. Disturbed(sentTo[d]) => Disturbed(sentTo[d])'
    <3>1. \A v \in Calls : Disturbed(v) => Disturbed(v)'
      BY DisturbedStays
    <3>2. QED
      BY <2>1, <2>2, <3>1 DEF Disturbed
  <2>4. QED
    BY <2>1, <2>2, <2>3
<1>3. CASE ReadLine(d)
  <2>1. /\ slot \in Calls
        /\ sentTo[d] = slot
        /\ sentTo'[d] = slot
        /\ phase[d] = "reading"
        /\ phase'[d] = "done"
        /\ stdout[slot] # <<>>
    BY <1>1, <1>3 DEF ReadLine, Return, TypeOK, Control
  <2>2. answerOf'[d] = Author(Head(stdout[slot]))
    BY <1>1, <1>3 DEF ReadLine, Return, TypeOK
  <2>3. CASE Disturbed(slot)
    BY <2>1, <2>3, DisturbedStays DEF Disturbed
  <2>4. CASE ~Disturbed(slot)
    <3>1. PICK c \in Calls : phase[c] = "reading" /\ Replied(slot, c)
      BY <2>1, <2>4 DEF Conversation, Silent, Asked, Working
    <3>2. c = d
      BY <1>1, <2>1, <3>1 DEF Control, InCall
    <3>3. Author(Head(stdout[slot])) = c
      BY <1>1, <2>1, <3>1 DEF Replied, Author, TypeOK
    <3>4. QED
      BY <2>1, <2>2, <3>2, <3>3
  <2>5. QED
    BY <2>3, <2>4
<1>4. QED
  BY <1>2, <1>3, ResultsAreFinal

\* Whatever the calls and the moments at which clients leave, a worker that
\* nobody has disturbed never hands one call the answer of another.
THEOREM AnswersMatch == Spec => []OwnAnswer
<1>1. Init => AnsweredWell
  BY DEF Init, AnsweredWell
<1>2. AnsweredWell => OwnAnswer
  BY DEF AnsweredWell, OwnAnswer
<1>3. QED
  BY <1>1, <1>2, AnsweredWellStep, StructureInvariant, ConversationInvariant, PTL DEF Spec

-----------------------------------------------------------------------------
(* Theorem 3: no process runs on unattended                                *)

\* Every step that empties or fills the slot has the process it held killed.
LEMMA NoOrphanStep == Structure /\ NoOrphan /\ [Next]_vars => NoOrphan'
  <2> SUFFICES ASSUME TypeOK, Control, Line, Processes, NoOrphan, [Next]_vars PROVE NoOrphan'
    BY DEF Structure
  <2> USE DEF TypeOK, Control, Processes, NoOrphan, Alive, Status, callVars, workerVars,
              Return, DropWorker, Leave, Die
  <2>1. ASSUME NEW c \in Calls, Submit(c) PROVE NoOrphan'
    BY <2>1 DEF Submit
  <2>2. ASSUME NEW c \in Calls, Acquire(c) PROVE NoOrphan'
    BY <2>2 DEF Acquire
  <2>3. ASSUME NEW c \in Calls, Spawn(c) PROVE NoOrphan'
    BY <2>3 DEF Spawn
  <2>4. ASSUME NEW c \in Calls, SpawnFails(c) PROVE NoOrphan'
    BY <2>4 DEF SpawnFails
  <2>5. ASSUME NEW c \in Calls, Prepare(c) PROVE NoOrphan'
    BY <2>5 DEF Prepare
  <2>6. ASSUME NEW c \in Calls, Write(c) PROVE NoOrphan'
    BY <2>6 DEF Write
  <2>7. ASSUME NEW c \in Calls, WriteFails(c) PROVE NoOrphan'
    BY <2>7 DEF WriteFails
  <2>8. ASSUME NEW c \in Calls, ReadLine(c) PROVE NoOrphan'
    BY <2>8 DEF ReadLine
  <2>9. ASSUME NEW c \in Calls, ReadEof(c) PROVE NoOrphan'
    BY <2>9 DEF ReadEof
  <2>10. ASSUME NEW c \in Calls, Timeout(c) PROVE NoOrphan'
    BY <2>10 DEF Timeout
  <2>11. ASSUME NEW c \in Calls, KillDone(c) PROVE NoOrphan'
    BY <2>11 DEF KillDone
  <2>12. ASSUME NEW c \in Calls, HangUpQueued(c) PROVE NoOrphan'
    BY <2>12 DEF HangUpQueued
  <2>13. ASSUME NEW c \in Calls, HangUpWriting(c) PROVE NoOrphan'
    BY <2>13 DEF HangUpWriting
  <2>14. ASSUME NEW c \in Calls, HangUpReading(c) PROVE NoOrphan'
    BY <2>14 DEF HangUpReading
  <2>15. ASSUME NEW c \in Calls, HangUpKilling(c) PROVE NoOrphan'
    BY <2>15 DEF HangUpKilling
  <2>16. ASSUME NEW w \in Calls, Receive(w) PROVE NoOrphan'
    BY <2>16 DEF Receive
  <2>17. ASSUME NEW w \in Calls, Finish(w) PROVE NoOrphan'
    BY <2>17 DEF Finish
  <2>18. ASSUME NEW w \in Calls, MakeNoise(w) PROVE NoOrphan'
    BY <2>18 DEF MakeNoise
  <2>19. ASSUME NEW w \in Calls, Swallow(w) PROVE NoOrphan'
    BY <2>19 DEF Swallow
  <2>20. ASSUME NEW w \in Calls, Reap(w) PROVE NoOrphan'
    BY <2>20 DEF Reap
  <2>21. ASSUME NEW w \in Calls, Crash(w) PROVE NoOrphan'
    BY <2>21 DEF Crash
  <2>22. CASE UNCHANGED vars
    BY <2>22 DEF vars
  <2>23. QED
    BY <2>1, <2>2, <2>3, <2>4, <2>5, <2>6, <2>7, <2>8, <2>9, <2>10, <2>11,
       <2>12, <2>13, <2>14, <2>15, <2>16, <2>17, <2>18, <2>19, <2>20, <2>21,
       <2>22
    DEF Next, Launcher, HangUp, Process, Quiescent

\* No process is left running outside the slot without having been killed.
THEOREM NoOrphans == Spec => []NoOrphan
<1>1. Init => NoOrphan
  BY DEF Init, NoOrphan, Alive
<1>2. QED
  BY <1>1, NoOrphanStep, StructureInvariant, PTL DEF Spec

-----------------------------------------------------------------------------
(* Theorem 4: snippets never run side by side                              *)

\* Left alone, a process is in the slot, or its killer is waiting for it.
Attended ==
  Impatient \cup Noisy = {} =>
    \A w \in Calls : Alive(w) =>
      w = slot \/ \E c \in Calls : phase[c] = "killing" /\ sentTo[c] = w

\* Without hang-ups and noise, every step keeps each busy process waited for.
LEMMA AttendedStep == Structure /\ Attended /\ [Next]_vars => Attended'
  <2> SUFFICES ASSUME TypeOK, Control, Line, Processes, Attended, [Next]_vars,
                      Impatient \cup Noisy = {}
               PROVE  Attended'
    BY DEF Structure, Attended
  <2> USE DEF TypeOK, Control, InCall, Processes, Attended, Alive, Status, callVars,
              workerVars, Return, DropWorker, Leave, Die
  <2>1. ASSUME NEW c \in Calls, Submit(c) PROVE Attended'
    BY <2>1 DEF Submit
  <2>2. ASSUME NEW c \in Calls, Acquire(c) PROVE Attended'
    <3>1. 1 \in 1..Len(queue) /\ queue[1] = c
      BY <2>2 DEF Acquire
    <3>2. phase[c] = "queued"
      BY <3>1 DEF Line
    <3>3. \A d \in Calls : phase[d] = "killing" => d # c /\ phase'[d] = "killing"
      BY <2>2, <3>2 DEF Acquire
    <3>4. UNCHANGED <<status, slot, sentTo>>
      BY <2>2 DEF Acquire
    <3>5. QED
      BY <3>3, <3>4
  <2>3. ASSUME NEW c \in Calls, Spawn(c) PROVE Attended'
    <3>1. \A d \in Calls : phase[d] # "killing"
      BY <2>3 DEF Spawn
    <3>2. \A w \in Calls : ~Alive(w)
      BY <2>3, <3>1 DEF Spawn
    <3>3. slot' = c /\ \A w \in Calls : w # c => status'[w] = status[w]
      BY <2>3 DEF Spawn
    <3>4. QED
      BY <3>2, <3>3
  <2>4. ASSUME NEW c \in Calls, SpawnFails(c) PROVE Attended'
    BY <2>4 DEF SpawnFails
  <2>5. ASSUME NEW c \in Calls, Prepare(c) PROVE Attended'
    BY <2>5 DEF Prepare
  <2>6. ASSUME NEW c \in Calls, Write(c) PROVE Attended'
    BY <2>6 DEF Write
  <2>7. ASSUME NEW c \in Calls, WriteFails(c) PROVE Attended'
    BY <2>7 DEF WriteFails
  <2>8. ASSUME NEW c \in Calls, ReadLine(c) PROVE Attended'
    BY <2>8 DEF ReadLine
  <2>9. ASSUME NEW c \in Calls, ReadEof(c) PROVE Attended'
    BY <2>9 DEF ReadEof
  <2>10. ASSUME NEW c \in Calls, Timeout(c) PROVE Attended'
    BY <2>10 DEF Timeout
  <2>11. ASSUME NEW c \in Calls, KillDone(c) PROVE Attended'
    BY <2>11 DEF KillDone
  <2>12. ASSUME NEW c \in Calls, HangUpQueued(c) PROVE Attended'
    BY <2>12 DEF HangUpQueued
  <2>13. ASSUME NEW c \in Calls, HangUpWriting(c) PROVE Attended'
    BY <2>13 DEF HangUpWriting
  <2>14. ASSUME NEW c \in Calls, HangUpReading(c) PROVE Attended'
    BY <2>14 DEF HangUpReading
  <2>15. ASSUME NEW c \in Calls, HangUpKilling(c) PROVE Attended'
    BY <2>15 DEF HangUpKilling
  <2>16. ASSUME NEW w \in Calls, Receive(w) PROVE Attended'
    <3>1. \A v \in Calls : Alive(v)' => Alive(v)
      BY <2>16 DEF Receive
    <3>2. UNCHANGED <<slot, phase, sentTo>>
      BY <2>16 DEF Receive
    <3>3. QED
      BY <3>1, <3>2
  <2>17. ASSUME NEW w \in Calls, Finish(w) PROVE Attended'
    BY <2>17 DEF Finish
  <2>18. ASSUME NEW w \in Calls, MakeNoise(w) PROVE Attended'
    BY <2>18 DEF MakeNoise
  <2>19. ASSUME NEW w \in Calls, Swallow(w) PROVE Attended'
    BY <2>19 DEF Swallow
  <2>20. ASSUME NEW w \in Calls, Reap(w) PROVE Attended'
    BY <2>20 DEF Reap
  <2>21. ASSUME NEW w \in Calls, Crash(w) PROVE Attended'
    BY <2>21 DEF Crash
  <2>22. CASE UNCHANGED vars
    BY <2>22 DEF vars
  <2>23. QED
    BY <2>1, <2>2, <2>3, <2>4, <2>5, <2>6, <2>7, <2>8, <2>9, <2>10, <2>11,
       <2>12, <2>13, <2>14, <2>15, <2>16, <2>17, <2>18, <2>19, <2>20, <2>21,
       <2>22
    DEF Next, Launcher, HangUp, Process, Quiescent

\* Two snippets never execute at the same time when no client hangs up and no
\* snippet closes its standard output: a respawn waits for the death it follows.
THEOREM SnippetsSerialized == Spec => []Serialized
<1>1. Init => Attended
  BY DEF Init, Attended, Alive
<1>2. Structure /\ Attended => Serialized
  <2> SUFFICES ASSUME Control, Attended, Impatient \cup Noisy = {},
                      NEW v \in Calls, NEW w \in Calls,
                      status[v] = "busy", status[w] = "busy"
               PROVE  v = w
    BY DEF Structure, Serialized
  <2>1. /\ v = slot \/ \E c \in Calls : phase[c] = "killing" /\ sentTo[c] = v
        /\ w = slot \/ \E c \in Calls : phase[c] = "killing" /\ sentTo[c] = w
    BY DEF Attended, Alive
  <2>2. \A c \in Calls : phase[c] = "killing" => holder = c /\ slot = NoCall
    BY DEF Control, InCall
  <2>3. QED
    BY <2>1, <2>2
<1>3. QED
  BY <1>1, <1>2, AttendedStep, StructureInvariant, PTL DEF Spec

-----------------------------------------------------------------------------
(* Theorem 5: no answer reaches two calls or crosses between processes     *)

\* The lines that are no request and answer none.
Strange == {"noise", "forged"}

\* The calls whose requests or answers are in a pipe, and that each is there once.
Origins(q) == {q[i].call : i \in {j \in 1..Len(q) : q[j].kind \notin Strange}}

Distinct(q) ==
  \A i, j \in 1..Len(q) :
    /\ q[i].kind \notin Strange
    /\ q[j].kind \notin Strange
    /\ q[i].call = q[j].call
    => i = j

\* Appending a line of a call that no line of the pipe is of keeps the calls of
\* the pipe's lines apart.
LEMMA AddedLine ==
  ASSUME NEW S, NEW q \in Seq(S), NEW e \in S, Distinct(q),
         e.kind \in Strange \/ e.call \notin Origins(q)
  PROVE  /\ Distinct(Append(q, e))
         /\ Origins(Append(q, e)) =
              IF e.kind \in Strange THEN Origins(q) ELSE Origins(q) \cup {e.call}
<1> DEFINE r == Append(q, e)
<1>1. /\ Len(r) = Len(q) + 1 /\ Len(q) \in Nat
      /\ \A i \in 1..Len(q) : r[i] = q[i]
      /\ r[Len(q) + 1] = e
  BY AppendProperties
<1> HIDE DEF r
<1>2. \A i \in 1..Len(r) : i \in 1..Len(q) \/ i = Len(q) + 1
  BY <1>1
<1>3. Distinct(r)
  BY <1>1, <1>2 DEF Distinct, Origins
<1>4. Origins(r) = IF e.kind \in Strange THEN Origins(q) ELSE Origins(q) \cup {e.call}
  BY <1>1, <1>2 DEF Origins
<1>5. QED
  BY <1>3, <1>4 DEF r

\* Taking the first line keeps the calls of the others, and they stay apart.
LEMMA TakenLine ==
  ASSUME NEW S, NEW q \in Seq(S), q # <<>>, Distinct(q)
  PROVE  /\ Distinct(Tail(q))
         /\ Origins(Tail(q)) \subseteq Origins(q)
         /\ Head(q).kind \notin Strange =>
              Head(q).call \in Origins(q) /\ Head(q).call \notin Origins(Tail(q))
<1> DEFINE r == Tail(q)
<1>1. /\ Len(r) = Len(q) - 1 /\ Len(q) \in Nat \ {0}
      /\ \A i \in 1..Len(r) : r[i] = q[i + 1]
      /\ Head(q) = q[1]
  <2>1. Len(q) \in Nat \ {0}
    BY EmptySeq
  <2>2. Head(q) = q[1] /\ Len(r) = Len(q) - 1 /\ \A i \in 1..Len(q) - 1 : r[i] = q[i + 1]
    BY HeadTailProperties
  <2>3. QED
    BY <2>1, <2>2
<1> HIDE DEF r
<1>2. \A i \in 1..Len(r) : i + 1 \in 1..Len(q) /\ i + 1 # 1
  <2>1. Len(r) = Len(q) - 1 /\ Len(q) \in Nat \ {0}
    BY <1>1
  <2> SUFFICES ASSUME NEW i \in 1..Len(r) PROVE i + 1 \in 1..Len(q) /\ i + 1 # 1
    OBVIOUS
  <2>2. QED
    BY <2>1
<1>3. Distinct(r)
  <2> SUFFICES ASSUME NEW i \in 1..Len(r), NEW j \in 1..Len(r),
                      r[i].kind \notin Strange, r[j].kind \notin Strange, r[i].call = r[j].call
               PROVE  i = j
    BY DEF Distinct
  <2>1. i + 1 = j + 1
    BY <1>1, <1>2 DEF Distinct
  <2>2. QED
    BY <2>1
<1>4. Origins(r) \subseteq Origins(q)
  BY <1>1, <1>2 DEF Origins
<1>5. Head(q).kind \notin Strange => Head(q).call \in Origins(q) /\ Head(q).call \notin Origins(r)
  BY <1>1, <1>2 DEF Origins, Distinct
<1>6. QED
  BY <1>3, <1>4, <1>5 DEF r

\* Spoiling the first line takes its call off the pipe's calls.
LEMMA SpoiledLine ==
  ASSUME NEW q \in Seq(Response), q # <<>>, Distinct(q)
  PROVE  LET r == ReplaceAt(q, 1, Noise(q[1].call))
         IN  Distinct(r) /\ Origins(r) \subseteq Origins(q)
<1> DEFINE r == ReplaceAt(q, 1, Noise(q[1].call))
<1>1. q[1] \in Response
  BY EmptySeq
<1>2. Noise(q[1].call) \in Response /\ Noise(q[1].call).kind \in Strange
  BY <1>1 DEF Response, Noise, Strange
<1>3. /\ Len(r) = Len(q)
      /\ \A i \in 1..Len(q) : r[i] = IF i = 1 THEN Noise(q[1].call) ELSE q[i]
  BY <1>2, ReplaceFirstProperties
<1> HIDE DEF r
<1>4. \A i \in 1..Len(r) : r[i].kind \notin Strange => r[i] = q[i]
  BY <1>2, <1>3
<1>5. Distinct(r) /\ Origins(r) \subseteq Origins(q)
  BY <1>3, <1>4 DEF Distinct, Origins
<1>6. QED
  BY <1>5 DEF r

\* The request line of the call has, or may have, left the launcher.
Sent(x) == phase[x] \in {"reading", "killing", "done", "hungup"}

\* A call that has put its line in a pipe stays past that point.
LEMMA SentStays ==
  ASSUME Structure, [Next]_vars, NEW x \in Calls
  PROVE  /\ sentTo[x] # NoCall => sentTo'[x] = sentTo[x]
         /\ Sent(x) => Sent(x)'
<1> DEFINE Goal == /\ sentTo[x] # NoCall => sentTo'[x] = sentTo[x]
                   /\ Sent(x) => Sent(x)'
<1>1. Goal
  <2> SUFFICES ASSUME TypeOK, Control, Line, [Next]_vars PROVE Goal
    BY DEF Structure
  <2> USE DEF TypeOK, Control, InCall, Phase, callVars, workerVars, Return,
              Leave, Die, Sent
  <2>1. ASSUME NEW c \in Calls, Submit(c) PROVE Goal
    BY <2>1 DEF Submit
  <2>2. ASSUME NEW c \in Calls, Acquire(c) PROVE Goal
    <3>1. 1 \in 1..Len(queue) /\ queue[1] = c
      BY <2>2 DEF Acquire
    <3>2. phase[c] = "queued"
      BY <3>1 DEF Line
    <3>3. QED
      BY <2>2, <3>2 DEF Acquire
  <2>3. ASSUME NEW c \in Calls, Spawn(c) PROVE Goal
    BY <2>3 DEF Spawn
  <2>4. ASSUME NEW c \in Calls, SpawnFails(c) PROVE Goal
    BY <2>4 DEF SpawnFails
  <2>5. ASSUME NEW c \in Calls, Prepare(c) PROVE Goal
    BY <2>5 DEF Prepare
  <2>6. ASSUME NEW c \in Calls, Write(c) PROVE Goal
    BY <2>6 DEF Write
  <2>7. ASSUME NEW c \in Calls, WriteFails(c) PROVE Goal
    BY <2>7 DEF WriteFails
  <2>8. ASSUME NEW c \in Calls, ReadLine(c) PROVE Goal
    BY <2>8 DEF ReadLine
  <2>9. ASSUME NEW c \in Calls, ReadEof(c) PROVE Goal
    BY <2>9 DEF ReadEof
  <2>10. ASSUME NEW c \in Calls, Timeout(c) PROVE Goal
    BY <2>10 DEF Timeout
  <2>11. ASSUME NEW c \in Calls, KillDone(c) PROVE Goal
    BY <2>11 DEF KillDone
  <2>12. ASSUME NEW c \in Calls, HangUpQueued(c) PROVE Goal
    BY <2>12 DEF HangUpQueued
  <2>13. ASSUME NEW c \in Calls, HangUpWriting(c) PROVE Goal
    BY <2>13 DEF HangUpWriting
  <2>14. ASSUME NEW c \in Calls, HangUpReading(c) PROVE Goal
    BY <2>14 DEF HangUpReading
  <2>15. ASSUME NEW c \in Calls, HangUpKilling(c) PROVE Goal
    BY <2>15 DEF HangUpKilling
  <2>16. ASSUME NEW w \in Calls, Receive(w) PROVE Goal
    BY <2>16 DEF Receive
  <2>17. ASSUME NEW w \in Calls, Finish(w) PROVE Goal
    BY <2>17 DEF Finish
  <2>18. ASSUME NEW w \in Calls, MakeNoise(w) PROVE Goal
    BY <2>18 DEF MakeNoise
  <2>19. ASSUME NEW w \in Calls, Swallow(w) PROVE Goal
    BY <2>19 DEF Swallow
  <2>20. ASSUME NEW w \in Calls, Reap(w) PROVE Goal
    BY <2>20 DEF Reap
  <2>21. ASSUME NEW w \in Calls, Crash(w) PROVE Goal
    BY <2>21 DEF Crash
  <2>22. CASE UNCHANGED vars
    BY <2>22 DEF vars
  <2>23. QED
    BY <2>1, <2>2, <2>3, <2>4, <2>5, <2>6, <2>7, <2>8, <2>9, <2>10, <2>11,
       <2>12, <2>13, <2>14, <2>15, <2>16, <2>17, <2>18, <2>19, <2>20, <2>21,
       <2>22
    DEF Next, Launcher, HangUp, Process, Quiescent
<1>2. QED
  BY <1>1

\* Every call whose line or snippet is at a process was sent to it, and is
\* there once.
Outstanding(w) ==
  Origins(stdin[w]) \cup Origins(stdout[w]) \cup ({running[w]} \ {NoCall})

Traced(w) ==
  /\ Distinct(stdin[w]) /\ Distinct(stdout[w])
  /\ Origins(stdin[w]) \cap Origins(stdout[w]) = {}
  /\ running[w] \notin Origins(stdin[w]) \cup Origins(stdout[w])
  /\ \A x \in Outstanding(w) : x \in Calls /\ sentTo[x] = w /\ Sent(x)

Pipes == \A w \in Calls : Traced(w)

\* Every step keeps each request in at most one place of its own process's
\* pipes: unread, in execution, or answered and unread.
LEMMA PipesStep ==
  ASSUME Structure, Pipes, [Next]_vars
  PROVE  \A v \in Calls :
           Traced(v)' /\ Outstanding(v)' \subseteq Outstanding(v) \cup {x \in Calls : ~Sent(x)}
  <2> DEFINE Flow(v) == /\ Traced(v)'
                        /\ Outstanding(v)' \subseteq Outstanding(v) \cup {x \in Calls : ~Sent(x)}
             Goal == \A v \in Calls : Flow(v)
  <2> USE DEF callVars, workerVars
  <2>a. TypeOK /\ Control /\ Processes
    BY DEF Structure
  <2>b. Pipes
    OBVIOUS
  <2>e. \A x, v \in Calls : sentTo[x] = v /\ Sent(x) => (sentTo[x] = v)' /\ Sent(x)'
    BY SentStays
  <2>f. ASSUME NEW w \in Calls, Flow(w),
               \A v \in Calls : v # w => /\ stdin'[v] = stdin[v]
                                         /\ running'[v] = running[v]
                                         /\ stdout'[v] = stdout[v]
        PROVE  Goal
    <3>1. ASSUME NEW v \in Calls, v # w PROVE Flow(v)
      BY <2>b, <2>e, <2>f, <3>1 DEF Pipes, Traced, Outstanding
    <3>2. QED
      BY <2>f, <3>1
  <2>c. ASSUME UNCHANGED <<stdin, running, stdout>> PROVE Goal
    BY <2>b, <2>c, <2>e DEF Pipes, Traced, Outstanding
  <2>d. ASSUME NEW c \in Calls,
               phase[c] = "writing", Sent(c)', NEW s \in Calls, sentTo'[c] = s,
               stdin' = [stdin EXCEPT ![s] = Append(@,
                 [call |-> c, kind |-> IF torn[s] THEN "malformed" ELSE "request"])],
               UNCHANGED <<running, stdout>>
        PROVE  Goal
    <3> DEFINE req == [call |-> c, kind |-> IF torn[s] THEN "malformed" ELSE "request"]
    <3>1. /\ stdin'[s] = Append(stdin[s], req)
          /\ \A v \in Calls : v # s => stdin'[v] = stdin[v]
      BY <2>a, <2>d DEF TypeOK
    <3>2. req \in Request /\ req.call = c /\ req.kind \notin Strange /\ stdin[s] \in Seq(Request)
      BY <2>a, <2>d DEF TypeOK, Request, Strange
    <3> HIDE DEF req
    <3>3. ~Sent(c)
      BY <2>d DEF Sent
    <3>4. c \notin Outstanding(s)
      BY <2>b, <2>d, <3>3 DEF Pipes, Traced
    <3>5. /\ Distinct(Append(stdin[s], req))
          /\ Origins(Append(stdin[s], req)) = Origins(stdin[s]) \cup {c}
      BY <2>b, <2>d, <3>2, <3>4, AddedLine DEF Pipes, Traced, Outstanding
    <3>6. Flow(s)
      BY <2>b, <2>d, <2>e, <3>1, <3>3, <3>4, <3>5 DEF Pipes, Traced, Outstanding
    <3>7. QED
      BY <2>d, <2>f, <3>1, <3>6
  <2>i. ASSUME NEW w \in Calls, running[w] \in Calls,
               NEW line \in {Noise(running[w]), Forged(running[w])}
        PROVE  /\ Distinct(Append(stdout[w], line))
               /\ Origins(Append(stdout[w], line)) = Origins(stdout[w])
    <3>1. /\ Noise(running[w]) \in Response /\ Noise(running[w]).kind \in Strange
          /\ Forged(running[w]) \in Response /\ Forged(running[w]).kind \in Strange
      BY <2>i DEF Response, Noise, Forged, Strange
    <3>2. line \in Response /\ line.kind \in Strange
      BY <2>i, <3>1
    <3>3. stdout[w] \in Seq(Response)
      BY <2>a DEF TypeOK
    <3>4. QED
      BY <2>b, <3>2, <3>3, AddedLine DEF Pipes, Traced
  <2>g. ASSUME NEW w \in Calls, running[w] \in Calls,
               NEW line \in {Noise(running[w]), Forged(running[w])},
               stdout'[w] = Append(stdout[w], line),
               \A v \in Calls : v # w => stdout'[v] = stdout[v],
               UNCHANGED <<stdin, running>>
        PROVE  Goal
    <3>1. Distinct(stdout'[w]) /\ Origins(stdout'[w]) = Origins(stdout[w])
      BY <2>g, <2>i
    <3>2. Flow(w)
      BY <2>b, <2>e, <2>g, <3>1 DEF Pipes, Traced, Outstanding
    <3>3. QED
      BY <2>f, <2>g, <3>2
  <2>j. Distinct(<<>>) /\ Origins(<<>>) = {}
    BY DEF Distinct, Origins
  <2>h. ASSUME NEW w \in Calls, Die(w), UNCHANGED stdout PROVE Goal
    <3>1. /\ stdin'[w] = <<>> /\ running'[w] = NoCall
          /\ \A v \in Calls : v # w => stdin'[v] = stdin[v] /\ running'[v] = running[v]
      BY <2>a, <2>h DEF Die, TypeOK
    <3>2. NoCall \notin Origins(stdout[w])
      BY <2>b DEF Pipes, Traced, Outstanding
    <3>3. Flow(w)
      BY <2>b, <2>e, <2>h, <2>j, <3>1, <3>2 DEF Pipes, Traced, Outstanding
    <3>4. QED
      BY <2>f, <2>h, <3>1, <3>3
  <2>1. ASSUME NEW c \in Calls, Submit(c) PROVE Goal
    <3>1. UNCHANGED <<stdin, running, stdout>>
      BY <2>1 DEF Submit
    <3>2. QED
      BY <2>c, <3>1
  <2>2. ASSUME NEW c \in Calls, Acquire(c) PROVE Goal
    <3>1. UNCHANGED <<stdin, running, stdout>>
      BY <2>2 DEF Acquire
    <3>2. QED
      BY <2>c, <3>1
  <2>3. ASSUME NEW c \in Calls, Spawn(c) PROVE Goal
    <3>1. UNCHANGED <<stdin, running, stdout>>
      BY <2>3 DEF Spawn
    <3>2. QED
      BY <2>c, <3>1
  <2>4. ASSUME NEW c \in Calls, SpawnFails(c) PROVE Goal
    <3>1. UNCHANGED <<stdin, running, stdout>>
      BY <2>4 DEF SpawnFails
    <3>2. QED
      BY <2>c, <3>1
  <2>5. ASSUME NEW c \in Calls, Prepare(c) PROVE Goal
    <3>1. UNCHANGED <<stdin, running, stdout>>
      BY <2>5 DEF Prepare
    <3>2. QED
      BY <2>c, <3>1
  <2>6. ASSUME NEW c \in Calls, Write(c) PROVE Goal
    <3> DEFINE req == [call |-> c, kind |-> IF torn[slot] THEN "malformed" ELSE "request"]
    <3>1. /\ stdin' = [stdin EXCEPT ![slot] = Append(@, req)]
          /\ UNCHANGED <<running, stdout>>
      BY <2>6 DEF Write, PutLine
    <3>2. slot \in Calls /\ phase[c] = "writing" /\ Sent(c)' /\ sentTo'[c] = slot
      BY <2>6, <2>a DEF Write, TypeOK, Control, Sent
    <3>3. QED
      BY <2>d, <3>1, <3>2
  <2>7. ASSUME NEW c \in Calls, WriteFails(c) PROVE Goal
    <3>1. UNCHANGED <<stdin, running, stdout>>
      BY <2>7 DEF WriteFails
    <3>2. QED
      BY <2>c, <3>1
  <2>8. ASSUME NEW c \in Calls, ReadLine(c) PROVE Goal
    <3>0. PICK s \in Calls : s = slot
      BY <2>8, <2>a DEF ReadLine, TypeOK, Control
    <3>1. /\ stdout[s] # <<>>
          /\ stdout' = [stdout EXCEPT ![s] = Tail(@)]
          /\ UNCHANGED <<stdin, running>>
      BY <2>8, <3>0 DEF ReadLine
    <3>2. stdout[s] \in Seq(Response)
      BY <2>a, <3>1 DEF TypeOK
    <3>3. /\ Distinct(Tail(stdout[s]))
          /\ Origins(Tail(stdout[s])) \subseteq Origins(stdout[s])
      BY <2>b, <3>1, <3>2, TakenLine DEF Pipes, Traced
    <3>4. stdout'[s] = Tail(stdout[s]) /\ \A v \in Calls : v # s => stdout'[v] = stdout[v]
      BY <2>a, <3>1 DEF TypeOK
    <3>5. Flow(s)
      BY <2>b, <2>e, <3>1, <3>3, <3>4 DEF Pipes, Traced, Outstanding
    <3>6. QED
      BY <2>f, <3>1, <3>4, <3>5
  <2>9. ASSUME NEW c \in Calls, ReadEof(c) PROVE Goal
    <3>1. UNCHANGED <<stdin, running, stdout>>
      BY <2>9 DEF ReadEof
    <3>2. QED
      BY <2>c, <3>1
  <2>10. ASSUME NEW c \in Calls, Timeout(c) PROVE Goal
    <3>1. UNCHANGED <<stdin, running, stdout>>
      BY <2>10 DEF Timeout
    <3>2. QED
      BY <2>c, <3>1
  <2>11. ASSUME NEW c \in Calls, KillDone(c) PROVE Goal
    <3>1. UNCHANGED <<stdin, running, stdout>>
      BY <2>11 DEF KillDone
    <3>2. QED
      BY <2>c, <3>1
  <2>12. ASSUME NEW c \in Calls, HangUpQueued(c) PROVE Goal
    <3>1. UNCHANGED <<stdin, running, stdout>>
      BY <2>12 DEF HangUpQueued
    <3>2. QED
      BY <2>c, <3>1
  <2>13. ASSUME NEW c \in Calls, HangUpWriting(c) PROVE Goal
    <3>1. CASE UNCHANGED stdin
      <4>1. UNCHANGED <<running, stdout>>
        BY <2>13 DEF HangUpWriting
      <4>2. QED
        BY <2>c, <3>1, <4>1
    <3>2. CASE PutLine(c, slot)
      <4> DEFINE req == [call |-> c, kind |-> IF torn[slot] THEN "malformed" ELSE "request"]
      <4>1. /\ stdin' = [stdin EXCEPT ![slot] = Append(@, req)]
            /\ UNCHANGED <<running, stdout>>
        BY <2>13, <3>2 DEF HangUpWriting, PutLine
      <4>2. slot \in Calls /\ phase[c] = "writing" /\ Sent(c)' /\ sentTo'[c] = slot
        BY <2>13, <2>a DEF HangUpWriting, Leave, TypeOK, Control, Sent
      <4>3. QED
        BY <2>d, <4>1, <4>2
    <3>3. QED
      BY <2>13, <3>1, <3>2 DEF HangUpWriting
  <2>14. ASSUME NEW c \in Calls, HangUpReading(c) PROVE Goal
    <3>0. PICK s \in Calls : s = slot
      BY <2>14, <2>a DEF HangUpReading, TypeOK, Control
    <3>1. UNCHANGED <<stdin, running>>
      BY <2>14 DEF HangUpReading
    <3>2. CASE UNCHANGED stdout
      BY <2>c, <3>1, <3>2
    <3>3. CASE /\ stdout[s] # <<>>
               /\ stdout' = [stdout EXCEPT ![s] = ReplaceAt(@, 1, Noise(@[1].call))]
      <4>1. stdout[s] \in Seq(Response)
        BY <2>a, <3>1 DEF TypeOK
      <4>2. /\ stdout'[s] = ReplaceAt(stdout[s], 1, Noise(stdout[s][1].call))
            /\ \A v \in Calls : v # s => stdout'[v] = stdout[v]
        BY <2>a, <3>1, <3>3 DEF TypeOK
      <4>3. Distinct(stdout'[s]) /\ Origins(stdout'[s]) \subseteq Origins(stdout[s])
        BY <2>b, <3>1, <3>3, <4>1, <4>2, SpoiledLine DEF Pipes, Traced
      <4>4. Flow(s)
        BY <2>b, <2>e, <3>1, <4>3 DEF Pipes, Traced, Outstanding
      <4>5. QED
        BY <2>f, <3>1, <4>2, <4>4
    <3>4. QED
      BY <2>14, <3>0, <3>2, <3>3 DEF HangUpReading
  <2>15. ASSUME NEW c \in Calls, HangUpKilling(c) PROVE Goal
    <3>1. UNCHANGED <<stdin, running, stdout>>
      BY <2>15 DEF HangUpKilling
    <3>2. QED
      BY <2>c, <3>1
  <2>16. ASSUME NEW w \in Calls, Receive(w) PROVE Goal
    <3>1. /\ status[w] = "idle" /\ running[w] = NoCall /\ stdin[w] # <<>>
          /\ stdin' = [stdin EXCEPT ![w] = Tail(@)]
      BY <2>16, <2>a DEF Receive, Processes
    <3>2. stdin[w] \in Seq(Request) /\ stdout[w] \in Seq(Response)
      BY <2>a DEF TypeOK
    <3>3. Head(stdin[w]) \in Request
      BY <3>1, <3>2, HeadTailProperties
    <3>4. Head(stdin[w]).kind \notin Strange /\ Head(stdin[w]).call \in Calls
      BY <3>3 DEF Request, Strange
    <3>5. /\ Distinct(Tail(stdin[w]))
          /\ Origins(Tail(stdin[w])) \subseteq Origins(stdin[w])
          /\ Head(stdin[w]).call \in Origins(stdin[w])
          /\ Head(stdin[w]).call \notin Origins(Tail(stdin[w]))
      BY <2>b, <3>1, <3>2, <3>4, TakenLine DEF Pipes, Traced
    <3>6. stdin'[w] = Tail(stdin[w]) /\ \A v \in Calls : v # w => stdin'[v] = stdin[v]
      BY <2>a, <3>1 DEF TypeOK
    <3>7. CASE Head(stdin[w]).kind = "request"
      <4>1. running' = [running EXCEPT ![w] = Head(stdin[w]).call] /\ UNCHANGED stdout
        BY <2>16, <3>7 DEF Receive
      <4>2. running'[w] = Head(stdin[w]).call /\ \A v \in Calls : v # w => running'[v] = running[v]
        BY <2>a, <4>1 DEF TypeOK
      <4>3. Flow(w)
        BY <2>b, <2>e, <3>5, <3>6, <4>1, <4>2 DEF Pipes, Traced, Outstanding
      <4>4. QED
        BY <2>f, <3>6, <4>1, <4>2, <4>3
    <3>8. CASE Head(stdin[w]).kind # "request"
      <4> DEFINE reply == [call |-> Head(stdin[w]).call, kind |-> "bad_json"]
      <4>1. stdout' = [stdout EXCEPT ![w] = Append(@, reply)] /\ UNCHANGED running
        BY <2>16, <3>8 DEF Receive
      <4>2. stdout'[w] = Append(stdout[w], reply) /\ \A v \in Calls : v # w => stdout'[v] = stdout[v]
        BY <2>a, <4>1 DEF TypeOK
      <4>3. reply \in Response /\ reply.kind \notin Strange /\ reply.call = Head(stdin[w]).call
        BY <3>4 DEF Response, Strange
      <4> HIDE DEF reply
      <4>x. reply.call \notin Origins(stdout[w])
        BY <2>b, <3>5, <4>3 DEF Pipes, Traced
      <4>4. /\ Distinct(Append(stdout[w], reply))
            /\ Origins(Append(stdout[w], reply)) = Origins(stdout[w]) \cup {reply.call}
        BY <2>b, <3>2, <4>3, <4>x, AddedLine DEF Pipes, Traced
      <4>y. Head(stdin[w]).call \in Outstanding(w) /\ reply.call \notin Origins(stdin'[w])
        BY <3>5, <3>6, <4>3 DEF Outstanding
      <4>z. Outstanding(w)' \subseteq Outstanding(w)
        BY <3>5, <3>6, <4>1, <4>2, <4>3, <4>4, <4>y DEF Outstanding
      <4>u. /\ (Distinct(stdin[w]) /\ Distinct(stdout[w]))'
            /\ (Origins(stdin[w]) \cap Origins(stdout[w]) = {})'
            /\ (running[w] \notin Origins(stdin[w]) \cup Origins(stdout[w]))'
        BY <2>b, <3>5, <3>6, <4>1, <4>2, <4>3, <4>4, <4>y DEF Pipes, Traced
      <4>5. Flow(w)
        BY <2>b, <2>e, <4>z, <4>u DEF Pipes, Traced
      <4>6. QED
        BY <2>f, <3>6, <4>1, <4>2, <4>5
    <3>9. QED
      BY <3>7, <3>8
  <2>17. ASSUME NEW w \in Calls, Finish(w) PROVE Goal
    <3> DEFINE reply == [call |-> running[w], kind |-> "answer"]
    <3>1. running[w] \in Calls
      BY <2>17, <2>a DEF Finish, Processes, TypeOK
    <3>2. /\ stdout'[w] = Append(stdout[w], reply) /\ running'[w] = NoCall
          /\ \A v \in Calls : v # w => stdout'[v] = stdout[v] /\ running'[v] = running[v]
          /\ UNCHANGED stdin
      BY <2>17, <2>a DEF Finish, TypeOK
    <3>3. /\ reply \in Response /\ reply.kind \notin Strange /\ reply.call = running[w]
          /\ stdout[w] \in Seq(Response)
      BY <2>a, <3>1 DEF Response, TypeOK, Strange
    <3> HIDE DEF reply
    <3>4. /\ Distinct(Append(stdout[w], reply))
          /\ Origins(Append(stdout[w], reply)) = Origins(stdout[w]) \cup {running[w]}
      BY <2>b, <3>1, <3>3, AddedLine DEF Pipes, Traced, Outstanding
    <3>5. Flow(w)
      BY <2>b, <2>e, <3>1, <3>2, <3>4 DEF Pipes, Traced, Outstanding
    <3>6. QED
      BY <2>f, <3>2, <3>5
  <2>18. ASSUME NEW w \in Calls, MakeNoise(w) PROVE Goal
    <3>1. running[w] \in Calls
      BY <2>18 DEF MakeNoise
    <3>2. PICK line \in {Noise(running[w]), Forged(running[w])} :
            stdout' = [stdout EXCEPT ![w] = Append(@, line)]
      BY <2>18 DEF MakeNoise
    <3>3. /\ stdout'[w] = Append(stdout[w], line)
          /\ \A v \in Calls : v # w => stdout'[v] = stdout[v]
          /\ UNCHANGED <<stdin, running>>
      BY <2>18, <2>a, <3>2 DEF MakeNoise, TypeOK
    <3>4. QED
      BY <2>g, <3>1, <3>3
  <2>19. ASSUME NEW w \in Calls, Swallow(w) PROVE Goal
    <3>1. stdin[w] # <<>> /\ stdin[w] \in Seq(Request)
      BY <2>19, <2>a DEF Swallow, TypeOK
    <3>2. /\ stdin'[w] = Tail(stdin[w])
          /\ \A v \in Calls : v # w => stdin'[v] = stdin[v]
          /\ UNCHANGED <<stdout, running>>
      BY <2>19, <2>a DEF Swallow, TypeOK
    <3>3. Distinct(Tail(stdin[w])) /\ Origins(Tail(stdin[w])) \subseteq Origins(stdin[w])
      BY <2>b, <3>1, TakenLine DEF Pipes, Traced
    <3>4. Flow(w)
      BY <2>b, <2>e, <3>2, <3>3 DEF Pipes, Traced, Outstanding
    <3>5. QED
      BY <2>f, <3>2, <3>4
  <2>20. ASSUME NEW w \in Calls, Reap(w) PROVE Goal
    BY <2>20, <2>h DEF Reap
  <2>21. ASSUME NEW w \in Calls, Crash(w) PROVE Goal
    <3>1. CASE UNCHANGED stdout
      BY <2>21, <2>h, <3>1 DEF Crash
    <3>2. CASE /\ status[w] = "busy"
               /\ stdout' = [stdout EXCEPT ![w] = Append(@, Noise(running[w]))]
      <4>1. running[w] \in Calls
        BY <2>a, <3>2 DEF Processes, TypeOK
      <4>2. /\ stdin'[w] = <<>> /\ running'[w] = NoCall
            /\ stdout'[w] = Append(stdout[w], Noise(running[w]))
            /\ \A v \in Calls : v # w => /\ stdin'[v] = stdin[v]
                                         /\ running'[v] = running[v]
                                         /\ stdout'[v] = stdout[v]
        BY <2>21, <2>a, <3>2 DEF Crash, Die, TypeOK
      <4>3. /\ Distinct(stdout'[w])
            /\ Origins(stdout'[w]) = Origins(stdout[w])
        BY <2>i, <4>1, <4>2
      <4>4. Flow(w)
        BY <2>b, <2>e, <2>j, <4>2, <4>3 DEF Pipes, Traced, Outstanding
      <4>5. QED
        BY <2>f, <4>2, <4>4
    <3>3. QED
      BY <2>21, <3>1, <3>2 DEF Crash
  <2>22. CASE UNCHANGED vars
    BY <2>22, <2>c DEF vars
  <2>23. QED
    BY <2>1, <2>2, <2>3, <2>4, <2>5, <2>6, <2>7, <2>8, <2>9, <2>10, <2>11,
       <2>12, <2>13, <2>14, <2>15, <2>16, <2>17, <2>18, <2>19, <2>20, <2>21,
       <2>22
    DEF Next, Launcher, HangUp, Process, Quiescent

\* Pipes is invariant.
LEMMA PipesInvariant == Spec => []Pipes
<1>1. Init => Pipes
  <2> SUFFICES ASSUME Init, NEW w \in Calls PROVE Traced(w)
    BY DEF Pipes
  <2>1. Distinct(<<>>) /\ Origins(<<>>) = {}
    BY DEF Distinct, Origins
  <2>2. QED
    BY <2>1 DEF Init, Traced, Outstanding
<1>2. Structure /\ Pipes /\ [Next]_vars => Pipes'
  BY PipesStep DEF Pipes
<1>3. QED
  BY <1>1, <1>2, StructureInvariant, PTL DEF Spec

\* The answer x has been taken out of the pipes of process w for good.
Spent(x, w) ==
  /\ x \in Calls /\ w \in Calls
  /\ Sent(x) /\ sentTo[x] = w
  /\ \A v \in Calls : x \notin Outstanding(v)

\* Each call that was given an answer holds one that left the pipes for it alone.
Delivered ==
  \A c \in Calls :
    /\ outcome[c] = "ok" => phase[c] = "done"
    /\ answerOf[c] # NoCall =>
         /\ outcome[c] = "ok"
         /\ Spent(answerOf[c], sentTo[c])
         /\ \A d \in Calls : answerOf[d] = answerOf[c] => d = c

\* A spent answer stays spent: nothing puts a line of its call in a pipe again.
LEMMA SpentStays ==
  ASSUME Structure, Pipes, [Next]_vars, NEW x, NEW w, Spent(x, w)
  PROVE  Spent(x, w)'
<1>1. x \in Calls /\ w \in Calls /\ w # NoCall /\ Sent(x) /\ sentTo[x] = w
  BY DEF Spent
<1>2. (Sent(x) /\ sentTo[x] = w)'
  BY <1>1, SentStays
<1>3. \A v \in Calls : x \notin Outstanding(v)'
  BY <1>1, PipesStep DEF Spent
<1>4. QED
  BY <1>1, <1>2, <1>3 DEF Spent

\* The answer a call reads, if the line is one, becomes spent.
LEMMA ReadSpends ==
  ASSUME Structure, Pipes, [Next]_vars, NEW d \in Calls, ReadLine(d)
  PROVE  /\ phase'[d] = "done"
         /\ \A c \in Calls : c # d => answerOf'[c] = answerOf[c] /\ outcome'[c] = outcome[c]
         /\ \/ answerOf'[d] \in {answerOf[d], NoCall}
            \/ /\ outcome'[d] = "ok"
               /\ Spent(answerOf[d], sentTo[d])'
               /\ answerOf'[d] \in Outstanding(sentTo[d])
         /\ sentTo[d] \in Calls
<1>1. TypeOK /\ Control
  BY DEF Structure
<1>2. PICK s \in Calls : s = slot
  BY <1>1 DEF ReadLine, TypeOK, Control
<1>3. /\ sentTo[d] = s /\ sentTo'[d] = s
      /\ phase'[d] = "done"
      /\ stdout[s] # <<>> /\ stdout[s] \in Seq(Response)
      /\ stdout'[s] = Tail(stdout[s])
      /\ UNCHANGED <<stdin, running>>
      /\ \A c \in Calls : c # d => answerOf'[c] = answerOf[c] /\ outcome'[c] = outcome[c]
  BY <1>1, <1>2 DEF ReadLine, Return, TypeOK, Control
<1>4. CASE Head(stdout[s]).kind \in Strange
  <2>1. answerOf'[d] \in {answerOf[d], NoCall}
    BY <1>1, <1>2, <1>4 DEF ReadLine, Author, Strange, TypeOK
  <2>2. QED
    BY <1>3, <2>1
<1>5. CASE Head(stdout[s]).kind \notin Strange
  <2>0. PICK x : x = Head(stdout[s]).call
    OBVIOUS
  <2>1. outcome'[d] = "ok" /\ answerOf'[d] = x
    BY <1>1, <1>2, <1>5, <2>0 DEF ReadLine, Return, Author, Strange, TypeOK
  <2>2. x \in Origins(stdout[s]) /\ x \notin Origins(Tail(stdout[s]))
    BY <1>3, <1>5, <2>0, TakenLine DEF Pipes, Traced
  <2>3. x \in Outstanding(s) /\ x \in Calls /\ sentTo[x] = s /\ Sent(x)
    BY <2>2 DEF Pipes, Traced, Outstanding
  <2>4. (Sent(x) /\ sentTo[x] = s)'
    BY <2>3, SentStays
  <2>5. x \notin Outstanding(s)'
    BY <1>3, <2>2 DEF Pipes, Traced, Outstanding
  <2>6. ASSUME NEW v \in Calls, v # s PROVE x \notin Outstanding(v)'
    <3>1. x \notin Outstanding(v)
      BY <2>3, <2>6 DEF Pipes, Traced
    <3>2. QED
      BY <2>3, <3>1, PipesStep
  <2>7. Spent(x, s)'
    BY <2>3, <2>4, <2>5, <2>6 DEF Spent
  <2>8. Spent(answerOf[d], sentTo[d])'
    BY <1>3, <2>1, <2>7 DEF Spent
  <2>9. QED
    BY <1>3, <2>1, <2>3, <2>8
<1>6. QED
  BY <1>4, <1>5

\* Every step keeps delivered answers spent and apart.
LEMMA DeliveredStep == Structure /\ Pipes /\ Delivered /\ [Next]_vars => Delivered'
<1> SUFFICES ASSUME Structure, Pipes, Delivered, [Next]_vars PROVE Delivered'
  OBVIOUS
<1> DEFINE Given(c) == answerOf[c] # NoCall
<1>0. \A c \in Calls : outcome[c] = "ok" => phase'[c] = "done"
  BY ResultsAreFinal DEF Delivered, Final
<1>1. \A c \in Calls : Given(c) =>
        /\ outcome'[c] = "ok"
        /\ answerOf'[c] = answerOf[c] /\ sentTo'[c] = sentTo[c]
        /\ Spent(answerOf[c], sentTo[c])
  BY ResultsAreFinal DEF Delivered, Final
<1>2. \A c \in Calls : Given(c) => Spent(answerOf[c], sentTo[c])'
  <2> SUFFICES ASSUME NEW c \in Calls, Given(c)
               PROVE  Spent(answerOf[c], sentTo[c])'
    OBVIOUS
  <2>1. PICK x, w : x = answerOf[c] /\ w = sentTo[c]
    OBVIOUS
  <2>2. Spent(x, w)
    BY <1>1, <2>1
  <2>3. Spent(x, w)'
    BY <2>2, SpentStays
  <2>4. QED
    BY <1>1, <2>1, <2>3 DEF Spent
<1>3. \A c \in Calls : outcome'[c] = "ok" => phase'[c] = "done"
  BY <1>0, ReadSpends, ResultsAreFinal
<1>4. ASSUME \A d \in Calls : answerOf'[d] = answerOf[d] PROVE Delivered'
  BY <1>1, <1>2, <1>3, <1>4 DEF Delivered
<1>5. CASE \E d \in Calls : ReadLine(d)
  <2>1. PICK d \in Calls : ReadLine(d)
    BY <1>5
  <2>2. \A c \in Calls : c # d => answerOf'[c] = answerOf[c]
    BY <2>1, ReadSpends
  <2>3. answerOf[d] = NoCall
    BY <2>1 DEF ReadLine, Delivered
  <2>4. CASE answerOf'[d] \in {answerOf[d], NoCall}
    BY <1>4, <2>2, <2>3, <2>4
  <2>5. CASE /\ outcome'[d] = "ok"
             /\ Spent(answerOf[d], sentTo[d])'
             /\ answerOf'[d] \in Outstanding(sentTo[d])
    <3>1. \A c \in Calls : Given(c) => answerOf[c] # answerOf'[d]
      BY <1>1, <2>1, <2>5, ReadSpends DEF Spent
    <3>2. answerOf'[d] \in Calls
      BY <2>5 DEF Spent
    <3>3. \A c \in Calls : answerOf'[c] = answerOf'[d] => c = d
      BY <2>2, <3>1, <3>2
    <3>4. QED
      BY <1>1, <1>2, <1>3, <2>2, <2>5, <3>3 DEF Delivered
  <2>6. QED
    BY <2>1, <2>4, <2>5, ReadSpends
<1>6. CASE ~ \E d \in Calls : ReadLine(d)
  BY <1>4, <1>6, ResultsAreFinal
<1>7. QED
  BY <1>5, <1>6

\* No answer is given to two calls, and none is given to a call of another
\* process: a worker that was killed has nothing left to say to a later one, and
\* neither has a snippet that prints lines of its own among the answers.
THEOREM AnswersOnce == Spec => []AnswerOnce
<1>1. Init => Delivered
  BY DEF Init, Delivered
<1>2. Delivered => AnswerOnce
  BY DEF Delivered, AnswerOnce, Spent
<1>3. QED
  BY <1>1, <1>2, DeliveredStep, PipesInvariant, StructureInvariant, PTL DEF Spec

-----------------------------------------------------------------------------
(* Theorem 6: the pipeline implements the service                          *)

Patient == Impatient \cup Noisy = {}

\* The calls, as their callers see them.
Seen == [c \in Calls |-> ServiceState(c)]

\* A client that is not impatient never hangs up.
LEMMA NobodyLeaves ==
  ASSUME Patient, TypeOK, [Next]_vars, \A d \in Calls : phase[d] # "hungup"
  PROVE  \A d \in Calls : phase'[d] # "hungup"
<1>1. \A c \in Calls : ~ HangUp(c)
  BY DEF Patient, HangUp, HangUpQueued, HangUpWriting, HangUpReading,
         HangUpKilling, Leave
<1>2. ASSUME NEW c \in Calls, Submit(c) PROVE \A d \in Calls : phase'[d] # "hungup"
  BY <1>2 DEF Submit, TypeOK
<1>3. ASSUME NEW c \in Calls, Launcher(c) PROVE \A d \in Calls : phase'[d] # "hungup"
  BY <1>3 DEF Launcher, TypeOK, Acquire, Spawn, SpawnFails, Prepare, Write,
              WriteFails, ReadLine, ReadEof, Timeout, KillDone, Return, callVars
<1>4. ASSUME NEW w \in Calls, Process(w) PROVE \A d \in Calls : phase'[d] # "hungup"
  BY <1>4 DEF Process, Receive, Finish, MakeNoise, Swallow, Reap, Crash, Die, callVars
<1>5. CASE UNCHANGED vars
  BY <1>5 DEF vars, callVars
<1>6. QED
  BY <1>1, <1>2, <1>3, <1>4, <1>5 DEF Next, Quiescent

\* A change of one call's state, seen by its caller, is a move of the service.
LEMMA SeenMove ==
  ASSUME NEW c \in Calls, NEW from, NEW to,
         ServiceState(c) = from, ServiceState(c)' = to,
         \A d \in Calls : d # c => ServiceState(d)' = ServiceState(d)
  PROVE  Service!Move(c, from, to)
<1>1. Seen[c] = from
  BY DEF Seen
<1>2. Seen' = [Seen EXCEPT ![c] = to]
  BY DEF Seen
<1>3. QED
  BY <1>1, <1>2 DEF Service!Move, Seen

\* When clients and snippets leave the pipes alone, every step of the pipeline
\* is a step of the service or one that its callers do not see.
LEMMA ServiceStep ==
  ASSUME Patient, Structure, AnsweredWell', \A d \in Calls : phase'[d] # "hungup",
         [Next]_vars
  PROVE  [Service!Next]_(Service!vars)
<1> DEFINE Goal == [Service!Next]_(Service!vars)
<1>a. TypeOK /\ Control /\ Line
  BY DEF Structure
<1>b. ASSUME NEW d \in Calls, phase'[d] = phase[d],
             outcome'[d] = outcome[d], answerOf'[d] = answerOf[d]
      PROVE  ServiceState(d)' = ServiceState(d)
  BY <1>b DEF ServiceState
<1>c. \A d \in Calls : InCall(d) <=> ServiceState(d) = "served"
  BY <1>a DEF ServiceState, InCall, TypeOK, Phase
<1>d. ASSUME NEW c \in Calls, InCall(c), InCall(c)', UNCHANGED <<queue, outcome, answerOf>>,
             \A d \in Calls : d # c => phase'[d] = phase[d]
      PROVE  Goal
  <2>1. ServiceState(c) = "served" /\ ServiceState(c)' = "served"
    BY <1>d DEF ServiceState, InCall
  <2>2. \A d \in Calls : ServiceState(d)' = ServiceState(d)
    BY <1>b, <1>d, <2>1
  <2>3. Seen' = Seen
    BY <2>2 DEF Seen
  <2>4. QED
    BY <1>d, <2>3 DEF Service!vars, Seen
<1>e. ASSUME UNCHANGED callVars PROVE Goal
  <2>1. \A d \in Calls : ServiceState(d)' = ServiceState(d)
    BY <1>b, <1>e DEF callVars
  <2>2. Seen' = Seen
    BY <2>1 DEF Seen
  <2>3. QED
    BY <1>e, <2>2 DEF Service!vars, Seen, callVars
<1>f. ASSUME NEW c \in Calls, NEW r \in Outcome \ {"ok", "none"}, InCall(c),
             Return(c, r), UNCHANGED <<queue, answerOf>>
      PROVE  Goal
  <2>1. phase'[c] = "done" /\ outcome'[c] = r
    BY <1>a, <1>f DEF Return, TypeOK
  <2>2. ServiceState(c) = "served" /\ ServiceState(c)' = "failed"
    BY <1>c, <1>f, <2>1 DEF ServiceState
  <2>3. \A d \in Calls : d # c => ServiceState(d)' = ServiceState(d)
    BY <1>a, <1>b, <1>f DEF Return, TypeOK
  <2>4. Service!Move(c, "served", "failed")
    BY <2>2, <2>3, SeenMove
  <2>5. QED
    BY <1>f, <2>4 DEF Service!Next, Service!Fail
<1>1. ASSUME NEW c \in Calls, Submit(c) PROVE Goal
  <2>1. phase[c] = "idle" /\ phase'[c] = "queued" /\ queue' = Append(queue, c)
    BY <1>a, <1>1 DEF Submit, TypeOK
  <2>2. ServiceState(c) = "new" /\ ServiceState(c)' = "waiting"
    BY <2>1 DEF ServiceState
  <2>3. \A d \in Calls : d # c => ServiceState(d)' = ServiceState(d)
    BY <1>a, <1>b, <1>1 DEF Submit, TypeOK
  <2>4. Service!Move(c, "new", "waiting")
    BY <2>2, <2>3, SeenMove
  <2>5. QED
    BY <2>1, <2>4 DEF Service!Next, Service!Arrive
<1>2. ASSUME NEW c \in Calls, Acquire(c) PROVE Goal
  <2>1. queue # <<>> /\ Head(queue) = c /\ queue' = Tail(queue) /\ phase'[c] = "locked"
    BY <1>a, <1>2 DEF Acquire, TypeOK
  <2>2. phase[c] = "queued"
    <3>1. 1 \in 1..Len(queue) /\ queue[1] = c
      BY <1>a, <2>1, EmptySeq DEF TypeOK
    <3>2. QED
      BY <1>a, <3>1 DEF Line
  <2>3. ServiceState(c) = "waiting" /\ ServiceState(c)' = "served"
    BY <2>1, <2>2 DEF ServiceState
  <2>4. \A d \in Calls : d # c => ServiceState(d)' = ServiceState(d)
    BY <1>a, <1>b, <1>2 DEF Acquire, TypeOK
  <2>5. Service!Move(c, "waiting", "served")
    BY <2>3, <2>4, SeenMove
  <2>6. \A d \in Calls : ~ InCall(d)
    BY <1>a, <1>2 DEF Acquire, Control
  <2>7. \A d \in Calls : Seen[d] # "served"
    BY <1>c, <2>6 DEF Seen
  <2>8. QED
    BY <2>1, <2>5, <2>7 DEF Service!Next, Service!Begin, Seen
<1>3. ASSUME NEW c \in Calls, Spawn(c) PROVE Goal
  BY <1>3, <1>e DEF Spawn
<1>4. ASSUME NEW c \in Calls, SpawnFails(c) PROVE Goal
  BY <1>4, <1>f DEF SpawnFails, InCall, Outcome
<1>5. ASSUME NEW c \in Calls, Prepare(c) PROVE Goal
  BY <1>a, <1>5, <1>d DEF Prepare, InCall, TypeOK
<1>6. ASSUME NEW c \in Calls, Write(c) PROVE Goal
  BY <1>a, <1>6, <1>d DEF Write, InCall, TypeOK
<1>7. ASSUME NEW c \in Calls, WriteFails(c) PROVE Goal
  BY <1>7, <1>f DEF WriteFails, InCall, Outcome
<1>8. ASSUME NEW c \in Calls, ReadLine(c) PROVE Goal
  <2>1. InCall(c) /\ UNCHANGED queue
    BY <1>8 DEF ReadLine, InCall
  <2>2. CASE Return(c, "internal") /\ UNCHANGED answerOf
    BY <1>f, <2>1, <2>2 DEF Outcome
  <2>3. CASE /\ Return(c, "ok")
             /\ answerOf' = [answerOf EXCEPT ![c] = Author(Head(stdout[slot]))]
    <3>1. phase'[c] = "done" /\ outcome'[c] = "ok"
      BY <1>a, <2>3 DEF Return, TypeOK
    <3>2. \A w : ~ Disturbed(w)'
      BY DEF Disturbed, Patient
    <3>3. answerOf'[c] = c
      BY <3>1, <3>2 DEF AnsweredWell, Disturbed
    <3>4. ServiceState(c) = "served" /\ ServiceState(c)' = "answered"
      BY <1>c, <2>1, <3>1, <3>3 DEF ServiceState
    <3>5. \A d \in Calls : d # c => ServiceState(d)' = ServiceState(d)
      BY <1>a, <1>b, <2>3 DEF Return, TypeOK
    <3>6. Service!Move(c, "served", "answered")
      BY <3>4, <3>5, SeenMove
    <3>7. QED
      BY <2>1, <3>6 DEF Service!Next, Service!Answer
  <2>4. QED
    BY <1>8, <2>2, <2>3 DEF ReadLine
<1>9. ASSUME NEW c \in Calls, ReadEof(c) PROVE Goal
  BY <1>9, <1>f DEF ReadEof, InCall, Outcome
<1>10. ASSUME NEW c \in Calls, Timeout(c) PROVE Goal
  BY <1>a, <1>10, <1>d DEF Timeout, InCall, TypeOK
<1>11. ASSUME NEW c \in Calls, KillDone(c) PROVE Goal
  BY <1>11, <1>f DEF KillDone, InCall, Outcome
<1>12. \A c \in Calls : ~ HangUp(c)
  BY DEF Patient, HangUp, HangUpQueued, HangUpWriting, HangUpReading,
         HangUpKilling, Leave
<1>13. ASSUME NEW w \in Calls, Process(w) PROVE Goal
  BY <1>13, <1>e DEF Process, Receive, Finish, MakeNoise, Swallow, Reap, Crash, Die
<1>14. CASE UNCHANGED vars
  BY <1>14, <1>e DEF vars
<1>15. QED
  BY <1>1, <1>2, <1>3, <1>4, <1>5, <1>6, <1>7, <1>8, <1>9, <1>10, <1>11,
     <1>12, <1>13, <1>14
  DEF Next, Launcher, Quiescent

\* With no client that hangs up and no snippet on the pipes, the pipeline of
\* mutex, slot, pipes, timeout and kill is a first-come first-served service
\* that gives each call its own answer or an error.
THEOREM ServiceIsImplemented ==
  ASSUME Patient
  PROVE  Spec => ImplementsService
<1> DEFINE Present == \A d \in Calls : phase[d] # "hungup"
<1>1. Init => AnsweredWell /\ Present
  BY DEF Init, AnsweredWell
<1>2. Init => Service!Init
  <2> SUFFICES ASSUME Init PROVE Service!Init
    OBVIOUS
  <2>1. \A c \in Calls : ServiceState(c) = "new"
    BY DEF Init, ServiceState
  <2>2. QED
    BY <2>1 DEF Init, Service!Init
<1>3. TypeOK /\ Present /\ [Next]_vars => Present'
  BY NobodyLeaves
<1>4. Structure /\ Present' /\ AnsweredWell' /\ [Next]_vars
        => [Service!Next]_(Service!vars)
  BY ServiceStep
<1>5. Structure => TypeOK
  BY DEF Structure
<1> HIDE DEF Present
<1>6. QED
  BY <1>1, <1>2, <1>3, <1>4, <1>5, AnsweredWellStep, StructureInvariant,
     ConversationInvariant, PTL
  DEF Spec, ImplementsService, Service!Spec
=============================================================================
