---------------------------- MODULE PythonWorker ----------------------------
(***************************************************************************)
(* The shared Python worker of the launcher: the tokio mutex in front of   *)
(* it, the slot that holds the child process, the two pipes, the embedded  *)
(* loop on the other side, the read timeout, the kill, and clients that    *)
(* hang up while their call is in flight.                                  *)
(*                                                                         *)
(* One element of Calls is one invocation of PythonWorker::call.  A child  *)
(* process is named by the call that spawned it (a call spawns at most     *)
(* one), and the JSON-RPC id of a request by the call that sent it (ids    *)
(* are unique within a process and are compared by nobody).                *)
(***************************************************************************)
EXTENDS Naturals, SequencesExt

CONSTANTS
  Calls,       \* invocations of PythonWorker::call
  Impatient,   \* those whose HTTP client may disconnect before the answer
  Noisy,       \* those whose snippet uses file descriptors 0 and 1 itself
  Large,       \* those whose request line does not fit in the pipe buffer
  MaxNoise,    \* bound: a snippet adds noise to at most this many unread lines
  NoCall       \* "nobody": the None of the slot, the free mutex

ASSUME CallsAssumption ==
  /\ Impatient \subseteq Calls
  /\ Noisy \subseteq Calls
  /\ Large \subseteq Calls
  /\ NoCall \notin Calls
  /\ MaxNoise \in Nat

Phase   == {"idle", "queued", "locked", "writing", "reading", "killing",
            "done", "hungup"}
Outcome == {"none", "ok", "internal", "crashed", "timeout", "spawn_failed"}
Status  == {"unborn", "idle", "busy", "dead"}

\* A request line; it is malformed when it follows a fragment that was cut off.
Request  == [call : Calls, kind : {"request", "malformed"}]
\* A line of the worker's stdout: the loop's answer or its complaint about a
\* malformed request, or what the snippet of a call put there itself, which is
\* a valid JSON document (forged) or is not (noise).
Response == [call : Calls, kind : {"answer", "bad_json", "noise", "forged"}]

Noise(c)  == [call |-> c, kind |-> "noise"]
Forged(c) == [call |-> c, kind |-> "forged"]

\* The request that a line answers: a forged one answers none.
Author(line) == IF line.kind = "forged" THEN NoCall ELSE line.call

VARIABLES
  phase,     \* where each call is in PythonWorker::call
  queue,     \* calls waiting in self.inner.lock(), in order (tokio is FIFO)
  holder,    \* the call whose MutexGuard is alive
  slot,      \* the Option<WorkerInner> under the mutex
  outcome,   \* what each call returned
  answerOf,  \* the call whose answer each successful call was given, if any
  sentTo,    \* the process each call took its id from
  status,    \* the operating system's view of each process
  killed,    \* processes that were sent a kill
  running,   \* the request each process is executing
  stdin,     \* complete request lines in the pipe to each process
  torn,      \* the pipe to a process ends in an unterminated fragment
  stdout     \* complete lines in the pipe from each process

callVars   == <<phase, queue, holder, outcome, answerOf, sentTo>>
workerVars == <<status, killed, running, stdin, torn, stdout>>
vars       == <<callVars, slot, workerVars>>

TypeOK ==
  /\ phase \in [Calls -> Phase]
  /\ queue \in Seq(Calls)
  /\ holder \in Calls \cup {NoCall}
  /\ slot \in Calls \cup {NoCall}
  /\ outcome \in [Calls -> Outcome]
  /\ answerOf \in [Calls -> Calls \cup {NoCall}]
  /\ sentTo \in [Calls -> Calls \cup {NoCall}]
  /\ status \in [Calls -> Status]
  /\ killed \in SUBSET Calls
  /\ running \in [Calls -> Calls \cup {NoCall}]
  /\ stdin \in [Calls -> Seq(Request)]
  /\ torn \in [Calls -> BOOLEAN]
  /\ stdout \in [Calls -> Seq(Response)]

Init ==
  /\ phase = [c \in Calls |-> "idle"]
  /\ queue = <<>>
  /\ holder = NoCall
  /\ slot = NoCall
  /\ outcome = [c \in Calls |-> "none"]
  /\ answerOf = [c \in Calls |-> NoCall]
  /\ sentTo = [c \in Calls |-> NoCall]
  /\ status = [c \in Calls |-> "unborn"]
  /\ killed = {}
  /\ running = [c \in Calls |-> NoCall]
  /\ stdin = [c \in Calls |-> <<>>]
  /\ torn = [c \in Calls |-> FALSE]
  /\ stdout = [c \in Calls |-> <<>>]

-----------------------------------------------------------------------------
(* The launcher: PythonWorker::call                                        *)

\* The call returns r, and dropping its guard releases the mutex.
Return(c, r) ==
  /\ phase' = [phase EXCEPT ![c] = "done"]
  /\ outcome' = [outcome EXCEPT ![c] = r]
  /\ holder' = NoCall

\* Mutant: kill_on_drop(false).
DropUnkilled ==
  /\ slot' = NoCall
  /\ UNCHANGED killed

\* `*guard = None`: the WorkerInner is dropped, and kill_on_drop signals the
\* child without waiting for it.
DropWorker ==
  /\ slot' = NoCall
  /\ killed' = killed \cup {slot}

\* A request reaches `call` and lines up for the mutex.
Submit(c) ==
  /\ phase[c] = "idle"
  /\ phase' = [phase EXCEPT ![c] = "queued"]
  /\ queue' = Append(queue, c)
  /\ UNCHANGED <<holder, slot, outcome, answerOf, sentTo, workerVars>>

\* Mutant: an unfair mutex wakes any waiter.
AcquireUnfair(c) ==
  /\ holder = NoCall
  /\ \E i \in DOMAIN queue : queue[i] = c /\ queue' = RemoveAt(queue, i)
  /\ holder' = c
  /\ phase' = [phase EXCEPT ![c] = "locked"]
  /\ UNCHANGED <<slot, outcome, answerOf, sentTo, workerVars>>

Acquire(c) ==
  /\ holder = NoCall
  /\ queue # <<>>
  /\ Head(queue) = c
  /\ queue' = Tail(queue)
  /\ holder' = c
  /\ phase' = [phase EXCEPT ![c] = "locked"]
  /\ UNCHANGED <<slot, outcome, answerOf, sentTo, workerVars>>

\* The slot is empty: a fresh child with empty pipes, numbered from one.
Spawn(c) ==
  /\ phase[c] = "locked"
  /\ slot = NoCall
  /\ slot' = c
  /\ status' = [status EXCEPT ![c] = "idle"]
  /\ UNCHANGED <<callVars, killed, running, stdin, torn, stdout>>

\* None of the interpreter names starts.
SpawnFails(c) ==
  /\ phase[c] = "locked"
  /\ slot = NoCall
  /\ Return(c, "spawn_failed")
  /\ UNCHANGED <<queue, answerOf, sentTo, slot, workerVars>>

\* The id is taken from the worker in the slot and the line is built.
Prepare(c) ==
  /\ phase[c] = "locked"
  /\ slot # NoCall
  /\ phase' = [phase EXCEPT ![c] = "writing"]
  /\ sentTo' = [sentTo EXCEPT ![c] = slot]
  /\ UNCHANGED <<queue, holder, outcome, answerOf, slot, workerVars>>

\* The bytes of c's whole line enter the pipe: behind a fragment they make
\* one malformed line with it.
PutLine(c, w) ==
  /\ stdin' = [stdin EXCEPT ![w] = Append(@,
       [call |-> c, kind |-> IF torn[w] THEN "malformed" ELSE "request"])]
  /\ torn' = [torn EXCEPT ![w] = FALSE]

\* write_all and flush.  A line larger than the pipe is only accepted by a
\* process that is reading it, and this await is under no timeout.
Write(c) ==
  /\ phase[c] = "writing"
  /\ status[slot] # "dead"
  /\ c \in Large => status[slot] = "idle" /\ stdin[slot] = <<>>
  /\ phase' = [phase EXCEPT ![c] = "reading"]
  /\ PutLine(c, slot)
  /\ UNCHANGED <<queue, holder, outcome, answerOf, sentTo, slot,
                 status, killed, running, stdout>>

WriteFails(c) ==
  /\ phase[c] = "writing"
  /\ status[slot] = "dead"
  /\ Return(c, "crashed")
  /\ DropWorker
  /\ UNCHANGED <<queue, answerOf, sentTo, status, running, stdin, torn, stdout>>

\* Mutant: the line is looked at and left in the buffer.
PeekLine(c) ==
  /\ phase[c] = "reading"
  /\ stdout[slot] # <<>>
  /\ Return(c, "ok")
  /\ answerOf' = [answerOf EXCEPT ![c] = Author(Head(stdout[slot]))]
  /\ UNCHANGED <<queue, sentTo, slot, workerVars>>

\* read_line returned a line: whatever its id and whoever wrote it, it is this
\* call's answer; if it does not parse as JSON, the call fails and the slot keeps
\* its worker.
ReadLine(c) ==
  /\ phase[c] = "reading"
  /\ stdout[slot] # <<>>
  /\ LET line == Head(stdout[slot])
     IN  IF line.kind = "noise"
         THEN /\ Return(c, "internal")
              /\ UNCHANGED answerOf
         ELSE /\ Return(c, "ok")
              /\ answerOf' = [answerOf EXCEPT ![c] = Author(line)]
  /\ stdout' = [stdout EXCEPT ![slot] = Tail(@)]
  /\ UNCHANGED <<queue, sentTo, slot, status, killed, running, stdin, torn>>

\* End of file: the process is gone, or its snippet closed descriptor 1.
ReadEof(c) ==
  /\ phase[c] = "reading"
  /\ stdout[slot] = <<>>
  /\ status[slot] = "dead" \/ running[slot] \in Noisy
  /\ Return(c, "crashed")
  /\ DropWorker
  /\ UNCHANGED <<queue, answerOf, sentTo, status, running, stdin, torn, stdout>>

\* Mutant: the timeout is reported and the worker kept.
TimeoutKeepsWorker(c) ==
  /\ phase[c] = "reading"
  /\ stdout[slot] = <<>>
  /\ Return(c, "timeout")
  /\ UNCHANGED <<queue, answerOf, sentTo, slot, workerVars>>

\* Mutant: read_line under no timeout.
NoTimeout(c) ==
  /\ c \notin Calls
  /\ UNCHANGED vars

\* The timeout elapsed with no line to read: take the worker, signal it, and
\* wait for it with the mutex still held.
Timeout(c) ==
  /\ phase[c] = "reading"
  /\ stdout[slot] = <<>>
  /\ phase' = [phase EXCEPT ![c] = "killing"]
  /\ DropWorker
  /\ UNCHANGED <<queue, holder, outcome, answerOf, sentTo,
                 status, running, stdin, torn, stdout>>

\* Mutant: start_kill without child.wait().
KillDoneUnawaited(c) ==
  /\ phase[c] = "killing"
  /\ Return(c, "timeout")
  /\ UNCHANGED <<queue, answerOf, sentTo, slot, workerVars>>

\* Mutant: the emptied slot is dropped a second time.
KillDoneDropsAgain(c) ==
  /\ phase[c] = "killing"
  /\ status[sentTo[c]] = "dead"
  /\ Return(c, "timeout")
  /\ DropWorker
  /\ UNCHANGED <<queue, answerOf, sentTo, status, running, stdin, torn, stdout>>

KillDone(c) ==
  /\ phase[c] = "killing"
  /\ status[sentTo[c]] = "dead"
  /\ Return(c, "timeout")
  /\ UNCHANGED <<queue, answerOf, sentTo, slot, workerVars>>

-----------------------------------------------------------------------------
(* The client hangs up: hyper drops the handler's future at the await it   *)
(* is parked on, which drops the guard and nothing else.                   *)

Leave(c) ==
  /\ c \in Impatient
  /\ phase' = [phase EXCEPT ![c] = "hungup"]

HangUpQueued(c) ==
  /\ phase[c] = "queued"
  /\ Leave(c)
  /\ \E i \in DOMAIN queue : queue[i] = c /\ queue' = RemoveAt(queue, i)
  /\ UNCHANGED <<holder, slot, outcome, answerOf, sentTo, workerVars>>

\* At the write: none of the line is in the pipe yet, or a fragment, or all.
HangUpWriting(c) ==
  /\ phase[c] = "writing"
  /\ Leave(c)
  /\ holder' = NoCall
  /\ \/ UNCHANGED <<stdin, torn>>
     \/ /\ status[slot] # "dead"
        /\ torn' = [torn EXCEPT ![slot] = TRUE]
        /\ UNCHANGED stdin
     \/ /\ status[slot] # "dead"
        /\ PutLine(c, slot)
  /\ UNCHANGED <<queue, slot, outcome, answerOf, sentTo,
                 status, killed, running, stdout>>

\* At the read: the answer is still to come, or the part of it that the
\* cancelled read_line had taken is lost and the rest no longer parses.
HangUpReading(c) ==
  /\ phase[c] = "reading"
  /\ Leave(c)
  /\ holder' = NoCall
  /\ \/ UNCHANGED stdout
     \/ /\ stdout[slot] # <<>>
        /\ stdout' = [stdout EXCEPT ![slot] = ReplaceAt(@, 1, Noise(@[1].call))]
  /\ UNCHANGED <<queue, slot, outcome, answerOf, sentTo,
                 status, killed, running, stdin, torn>>

\* At child.wait(): the slot is already empty and the kill already sent.
HangUpKilling(c) ==
  /\ phase[c] = "killing"
  /\ Leave(c)
  /\ holder' = NoCall
  /\ UNCHANGED <<queue, slot, outcome, answerOf, sentTo, workerVars>>

-----------------------------------------------------------------------------
(* The embedded loop, python_worker.py                                     *)

Alive(w) == status[w] \in {"idle", "busy"}

\* readline and json.loads: a malformed line is answered, a request dispatched.
Receive(w) ==
  /\ status[w] = "idle"
  /\ stdin[w] # <<>>
  /\ LET line == Head(stdin[w])
     IN  IF line.kind = "request"
         THEN /\ status' = [status EXCEPT ![w] = "busy"]
              /\ running' = [running EXCEPT ![w] = line.call]
              /\ UNCHANGED stdout
         ELSE /\ stdout' = [stdout EXCEPT
                   ![w] = Append(@, [call |-> line.call, kind |-> "bad_json"])]
              /\ UNCHANGED <<status, running>>
  /\ stdin' = [stdin EXCEPT ![w] = Tail(@)]
  /\ UNCHANGED <<callVars, slot, killed, torn>>

\* The method ended, by value or by exception: one line, tagged with the id.
Finish(w) ==
  /\ status[w] = "busy"
  /\ status' = [status EXCEPT ![w] = "idle"]
  /\ running' = [running EXCEPT ![w] = NoCall]
  /\ stdout' = [stdout EXCEPT
       ![w] = Append(@, [call |-> running[w], kind |-> "answer"])]
  /\ UNCHANGED <<callVars, slot, killed, stdin, torn>>

\* redirect_stdout does not reach descriptor 1: os.write(1, ...) and every
\* subprocess of the snippet write into the pipe, JSON documents included.
MakeNoise(w) ==
  /\ running[w] \in Noisy
  /\ Len(stdout[w]) < MaxNoise
  /\ \E line \in {Noise(running[w]), Forged(running[w])} :
       stdout' = [stdout EXCEPT ![w] = Append(@, line)]
  /\ UNCHANGED <<callVars, slot, status, killed, running, stdin, torn>>

\* input() in a snippet reads the next request line.
Swallow(w) ==
  /\ running[w] \in Noisy
  /\ stdin[w] # <<>>
  /\ stdin' = [stdin EXCEPT ![w] = Tail(@)]
  /\ UNCHANGED <<callVars, slot, status, killed, running, torn, stdout>>

\* A process ends: what it had not read is gone, what it had written is not.
Die(w) ==
  /\ Alive(w)
  /\ status' = [status EXCEPT ![w] = "dead"]
  /\ running' = [running EXCEPT ![w] = NoCall]
  /\ stdin' = [stdin EXCEPT ![w] = <<>>]
  /\ torn' = [torn EXCEPT ![w] = FALSE]
  /\ UNCHANGED <<callVars, slot, killed>>

\* The kill takes effect.
Reap(w) ==
  /\ w \in killed
  /\ Die(w)
  /\ UNCHANGED stdout

\* Segmentation fault, os._exit, out of memory; perhaps in the middle of the
\* answer's line.
Crash(w) ==
  /\ w \notin killed
  /\ Die(w)
  /\ \/ UNCHANGED stdout
     \/ /\ status[w] = "busy"
        /\ stdout' = [stdout EXCEPT ![w] = Append(@, Noise(running[w]))]

-----------------------------------------------------------------------------
Launcher(c) ==
  \/ Acquire(c)
  \/ Spawn(c)
  \/ SpawnFails(c)
  \/ Prepare(c)
  \/ Write(c)
  \/ WriteFails(c)
  \/ ReadLine(c)
  \/ ReadEof(c)
  \/ Timeout(c)
  \/ KillDone(c)

HangUp(c) ==
  \/ HangUpQueued(c)
  \/ HangUpWriting(c)
  \/ HangUpReading(c)
  \/ HangUpKilling(c)

Process(w) ==
  \/ Receive(w)
  \/ Finish(w)
  \/ MakeNoise(w)
  \/ Swallow(w)
  \/ Reap(w)
  \/ Crash(w)

\* Every call has returned and every process is at rest: the launcher idles.
Quiescent ==
  /\ \A c \in Calls : phase[c] \in {"done", "hungup"}
  /\ \A w \in Calls : status[w] = "dead" \/ status[w] = "unborn"
  /\ UNCHANGED vars

Next ==
  \/ \E c \in Calls : Submit(c) \/ Launcher(c) \/ HangUp(c)
  \/ \E w \in Calls : Process(w)
  \/ Quiescent

Spec == Init /\ [][Next]_vars

\* The tokio runtime keeps polling a ready task, the timer fires and a killed
\* process ends.  Nothing is assumed of clients, snippets or the loop.
Fairness ==
  /\ \A c \in Calls : WF_vars(Launcher(c))
  /\ \A w \in Calls : WF_vars(Reap(w))

FairSpec == Spec /\ Fairness

-----------------------------------------------------------------------------
(* Properties                                                              *)

\* Somebody has disturbed the conversation with process w: a client hung up
\* on it, or it was given a snippet that uses the pipes' descriptors.
Disturbed(w) ==
  \E d \in Calls : sentTo[d] = w /\ (phase[d] = "hungup" \/ d \in Noisy)

\* A successful call was given its own answer, and not another call's or a line
\* that a snippet printed, unless its process had been disturbed: nothing but
\* the serialization matches requests to responses.
OwnAnswer ==
  \A c \in Calls :
    outcome[c] = "ok" => answerOf[c] = c \/ Disturbed(sentTo[c])

\* No answer reaches two calls, and none crosses from one process to another:
\* a killed worker cannot deliver its eventual response into a later request.
\* Lines that a snippet forged among the answers do not change that.
AnswerOnce ==
  \A c, d \in Calls :
    outcome[c] = "ok" /\ answerOf[c] # NoCall =>
      /\ answerOf[c] = answerOf[d] => c = d
      /\ sentTo[answerOf[c]] = sentTo[c]

\* Every process but the one in the slot has been sent a kill: a slot is
\* never cleared or replaced over a process that goes on running.
NoOrphan ==
  \A w \in Calls : Alive(w) => w = slot \/ w \in killed

\* Calls are serialized: two snippets never execute at the same time, as long
\* as no client hangs up during a kill and no snippet closes its stdout.
Serialized ==
  Impatient \cup Noisy = {} =>
    \A v, w \in Calls : status[v] = "busy" /\ status[w] = "busy" => v = w

\* A call that waits for the mutex returns, or its client gives up on it.
EveryCallReturns ==
  \A c \in Calls : phase[c] = "queued" ~> phase[c] \in {"done", "hungup"}

\* A successful call has been answered only if the answer is its own.
ServiceState(c) ==
  CASE phase[c] = "idle"   -> "new"
    [] phase[c] = "queued" -> "waiting"
    [] phase[c] \in {"locked", "writing", "reading", "killing"} -> "served"
    [] phase[c] = "hungup" -> "gone"
    [] phase[c] = "done"   ->
         IF outcome[c] # "ok" THEN "failed"
         ELSE IF answerOf[c] = c THEN "answered" ELSE "misled"

Service == INSTANCE SerialService WITH
  line  <- queue,
  state <- [c \in Calls |-> ServiceState(c)]

\* With no client hanging up and no snippet on the pipes, the pipeline of
\* mutex, slot, pipes and kill is a first-come first-served service.
ImplementsService == Service!Spec
=============================================================================
