---------------------------- MODULE SerialService ----------------------------
(***************************************************************************)
(* What the shared worker promises its callers when nobody disturbs it:    *)
(* calls are served one at a time, in the order in which they arrived, and *)
(* each ends with the answer to its own request or with an error.          *)
(***************************************************************************)
EXTENDS Naturals, Sequences

CONSTANT Calls

VARIABLES
  line,   \* the calls that wait, oldest first
  state   \* where each call is

vars == <<line, state>>

TypeOK ==
  /\ line \in Seq(Calls)
  /\ state \in [Calls -> {"new", "waiting", "served", "answered", "failed"}]

Init ==
  /\ line = <<>>
  /\ state = [c \in Calls |-> "new"]

Move(c, from, to) ==
  /\ state[c] = from
  /\ state' = [state EXCEPT ![c] = to]

Arrive(c) ==
  /\ Move(c, "new", "waiting")
  /\ line' = Append(line, c)

\* The oldest waiting call is served once nobody else is.
Begin(c) ==
  /\ line # <<>>
  /\ Head(line) = c
  /\ \A d \in Calls : state[d] # "served"
  /\ Move(c, "waiting", "served")
  /\ line' = Tail(line)

Answer(c) ==
  /\ Move(c, "served", "answered")
  /\ UNCHANGED line

Fail(c) ==
  /\ Move(c, "served", "failed")
  /\ UNCHANGED line

Next == \E c \in Calls : Arrive(c) \/ Begin(c) \/ Answer(c) \/ Fail(c)

Spec == Init /\ [][Next]_vars
=============================================================================
