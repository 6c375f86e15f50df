----------------------------- MODULE RateLimiter -----------------------------
(***************************************************************************)
(* The per-token sliding window of rate_limit.rs.  A request reads the     *)
(* clock first and takes the lock afterwards, so requests may enter the    *)
(* bucket in another order than that of their timestamps.  Gateway composes *)
(* these steps with the token store around them.                           *)
(***************************************************************************)
EXTENDS Integers, FiniteSets, SequencesExt

CONSTANTS
  Requests,   \* calls of RateLimiter::check
  Keys,       \* token ids
  KeyOf,      \* the token id each request carries
  Limit,      \* RATE_LIMIT_PER_SEC
  Window,     \* WINDOW, in ticks
  MaxSkew,    \* the longest a request waits between the clock and the lock
  MaxTime     \* bound: the clock

ASSUME LimiterAssumption ==
  /\ KeyOf \in [Requests -> Keys]
  /\ Limit \in Nat \ {0}
  /\ Window \in Nat \ {0}
  /\ MaxSkew \in Nat
  /\ MaxTime \in Nat

VARIABLES
  now,      \* the monotonic clock
  step,     \* where each request is in check
  stamp,    \* the time each request read
  bucket,   \* per token, the timestamps let through, oldest arrival first
  entered   \* history variable: when each request got its verdict

limiterVars == <<now, step, stamp, bucket, entered>>

LimiterInit ==
  /\ now = 0
  /\ step = [r \in Requests |-> "idle"]
  /\ stamp = [r \in Requests |-> 0]
  /\ bucket = [k \in Keys |-> <<>>]
  /\ entered = [r \in Requests |-> 0]

LimiterTypeOK ==
  /\ now \in Nat
  /\ step \in [Requests -> {"idle", "stamped", "admitted", "limited"}]
  /\ stamp \in [Requests -> Nat]
  /\ bucket \in [Keys -> Seq(Nat)]
  /\ entered \in [Requests -> Nat]

-----------------------------------------------------------------------------
\* let now = Instant::now()
Stamp(r) ==
  /\ step[r] = "idle"
  /\ step' = [step EXCEPT ![r] = "stamped"]
  /\ stamp' = [stamp EXCEPT ![r] = now]
  /\ UNCHANGED <<now, bucket, entered>>

\* The index of the first entry that the cutoff leaves in the bucket.
FirstKept(q, cutoff) ==
  CHOOSE i \in 1..(Len(q) + 1) :
    /\ i <= Len(q) => q[i] >= cutoff
    /\ \A j \in 1..(i - 1) : q[j] < cutoff

\* Entries older than the cutoff are popped from the front, up to the first
\* that is not.
Pruned(q, cutoff) == SubSeq(q, FirstKept(q, cutoff), Len(q))

\* Mutant: the bucket is pruned only when it lets a request in.
CheckUnpruned(r) ==
  /\ step[r] = "stamped"
  /\ LET k == KeyOf[r]
     IN  IF Len(bucket[k]) >= Limit
         THEN /\ step' = [step EXCEPT ![r] = "limited"]
              /\ UNCHANGED bucket
         ELSE /\ step' = [step EXCEPT ![r] = "admitted"]
              /\ bucket' = [bucket EXCEPT
                   ![k] = Append(Pruned(@, stamp[r] - Window), stamp[r])]
  /\ entered' = [entered EXCEPT ![r] = now]
  /\ UNCHANGED <<now, stamp>>

\* Mutant: the limit is compared with > instead of >=.
CheckLate(r) ==
  /\ step[r] = "stamped"
  /\ LET k    == KeyOf[r]
         kept == Pruned(bucket[k], stamp[r] - Window)
     IN  IF Len(kept) > Limit
         THEN /\ step' = [step EXCEPT ![r] = "limited"]
              /\ bucket' = [bucket EXCEPT ![k] = kept]
         ELSE /\ step' = [step EXCEPT ![r] = "admitted"]
              /\ bucket' = [bucket EXCEPT ![k] = Append(kept, stamp[r])]
  /\ entered' = [entered EXCEPT ![r] = now]
  /\ UNCHANGED <<now, stamp>>

\* Under the lock: prune, then refuse or record.
Check(r) ==
  /\ step[r] = "stamped"
  /\ LET k    == KeyOf[r]
         kept == Pruned(bucket[k], stamp[r] - Window)
     IN  IF Len(kept) >= Limit
         THEN /\ step' = [step EXCEPT ![r] = "limited"]
              /\ bucket' = [bucket EXCEPT ![k] = kept]
         ELSE /\ step' = [step EXCEPT ![r] = "admitted"]
              /\ bucket' = [bucket EXCEPT ![k] = Append(kept, stamp[r])]
  /\ entered' = [entered EXCEPT ![r] = now]
  /\ UNCHANGED <<now, stamp>>

\* Time passes; a stamped request gets the lock before it is MaxSkew late.
Tick ==
  /\ now < MaxTime
  /\ \A r \in Requests : step[r] = "stamped" => now < stamp[r] + MaxSkew
  /\ now' = now + 1
  /\ UNCHANGED <<step, stamp, bucket, entered>>

-----------------------------------------------------------------------------
(* Properties                                                              *)

\* The requests of token k that were let through at a time in from..to.
Admitted(k, from, to) ==
  {r \in Requests : KeyOf[r] = k /\ step[r] = "admitted" /\ entered[r] \in from..to}

\* No interval that is shorter than the window by the lock's delay lets more
\* than Limit requests of a token through, in whatever order they entered.
RateHolds ==
  \A k \in Keys : \A t \in 0..now :
    Cardinality(Admitted(k, t, t + Window - MaxSkew)) <= Limit

\* A request is refused only when its token really used up the limit, within
\* the window before the request and the delay of the lock.
RefusalsAreDue ==
  \A r \in Requests : step[r] = "limited" =>
    Cardinality({q \in Requests :
      /\ KeyOf[q] = KeyOf[r] /\ step[q] = "admitted"
      /\ stamp[q] >= stamp[r] - Window - MaxSkew}) >= Limit
=============================================================================
