---------------------------- MODULE GatewayProofs ----------------------------
(***************************************************************************)
(* Theorems about the way of a call through the launcher, for every set of *)
(* handshakes and requests, every limit, window and lifetime of a token.   *)
(***************************************************************************)
EXTENDS Gateway, FiniteSetTheorems, SequenceTheorems, TLAPS

-----------------------------------------------------------------------------
(* The inductive invariant, in layers                                      *)

\* A token that is in the store was issued, once, by a handshake for no scope or
\* one that the user approved, and is there as long as a request that it
\* admitted waits for the limiter.
Store ==
  /\ \A k \in Keys : tokens[k] # None =>
       /\ phase[k] \notin {"idle", "asking"}
       /\ tokens[k].scopes = {} \/ dialog[k] = "yes"
  /\ \A r \in Requests : phase[r] = "idle" => step[r] = "idle"
  /\ \A r \in Requests : step[r] = "stamped" => phase[r] = "checking"
  /\ \A r \in Requests : phase[r] = "checking" =>
       /\ step[r] = "stamped"
       /\ tokens[KeyOf[r]] # None
       /\ stamp[r] < tokens[KeyOf[r]].expires
  /\ \A r \in Requests : step[r] # "idle" => phase[KeyOf[r]] \notin {"idle", "asking"}

\* A token has the scopes its handshake asked for.
Granted == \A k \in Keys : tokens[k] # None => tokens[k].scopes = asked[k]

\* A call whose handler is through has a status.
Decided == \A c \in Calls : phase[c] = "replied" => reply[c] # None

\* A request reads the clock, and gets its verdict at most the delay of the lock later.
Clock ==
  \A r \in Requests :
    /\ step[r] = "stamped" => stamp[r] <= now /\ now <= stamp[r] + MaxSkew
    /\ step[r] = "admitted" =>
         stamp[r] <= entered[r] /\ entered[r] <= stamp[r] + MaxSkew /\ entered[r] <= now

\* A torn line is a loss to come.
Losses ==
  /\ IsFiniteSet(Unrecorded)
  /\ Cardinality(Unrecorded) + (IF torn THEN 1 ELSE 0) <= 2 * faults

\* Each entry of a bucket is the stamp of an admitted request, no two of the
\* same one, and is out of order by no more than the delay of the lock.
Stands(k, f) ==
  /\ f \in [1..Len(bucket[k]) -> Requests]
  /\ \A i, j \in 1..Len(bucket[k]) : f[i] = f[j] => i = j
  /\ \A i \in 1..Len(bucket[k]) :
       KeyOf[f[i]] = k /\ step[f[i]] = "admitted" /\ stamp[f[i]] = bucket[k][i]
  /\ \A i, j \in 1..Len(bucket[k]) : i < j => bucket[k][i] <= bucket[k][j] + MaxSkew

\* An admitted request that has no entry any more is older than the window.
Gone(k, f) ==
  \A r \in Requests :
    /\ KeyOf[r] = k
    /\ step[r] = "admitted"
    /\ \A i \in 1..Len(bucket[k]) : f[i] # r
    => stamp[r] + Window < now

\* The launcher has lost the token, so nothing more is asked of its bucket.
Retired(k) == tokens[k] = None /\ phase[k] \notin {"idle", "asking"}

Buckets ==
  \A k \in Keys :
    /\ Len(bucket[k]) <= Limit
    /\ Retired(k) \/ \E f \in [1..Len(bucket[k]) -> Requests] : Stands(k, f) /\ Gone(k, f)

Verdicts ==
  /\ IsFiniteSet({r \in Requests : step[r] = "admitted"})
  /\ RateHolds
  /\ RefusalsAreDue

IInv == TypeOK /\ Decided /\ Store /\ Granted /\ Clock /\ Losses /\ Buckets /\ Verdicts

-----------------------------------------------------------------------------
(* What the operators of the model return                                  *)

\* A set of naturals has a least element.
LEMMA LeastNatural ==
  ASSUME NEW T \in SUBSET Nat, T # {}
  PROVE  \E n \in T : \A m \in T : n <= m
<1>1. PICK n \in T : \A m \in T : <<m, n>> \notin OpToRel(<, Nat)
  BY NatLessThanWellFounded, WFMin, Zenon
<1>2. \A m \in T : ~(m < n)
  BY <1>1 DEF OpToRel
<1>3. QED
  BY <1>2

\* Pruning drops, from the front, entries older than the cutoff, and stops at
\* the first that is not.
LEMMA PrunedProperties ==
  ASSUME NEW q \in Seq(Nat), NEW cutoff \in Int
  PROVE  \E n \in 0..Len(q) :
           /\ Pruned(q, cutoff) \in Seq(Nat)
           /\ Len(Pruned(q, cutoff)) = Len(q) - n
           /\ \A i \in 1..Len(q) - n : Pruned(q, cutoff)[i] = q[i + n]
           /\ \A j \in 1..n : q[j] < cutoff
           /\ n < Len(q) => q[n + 1] >= cutoff
<1> DEFINE T == {i \in 1..Len(q) + 1 : i <= Len(q) => q[i] >= cutoff}
<1>1. /\ Len(q) \in Nat
      /\ \A i \in 1..Len(q) : q[i] \in Nat
  OBVIOUS
<1>2. Len(q) + 1 \in T /\ T \in SUBSET Nat
  BY <1>1
<1>3. PICK m \in T : \A i \in T : m <= i
  BY <1>2, LeastNatural
<1>4. /\ m \in 1..Len(q) + 1
      /\ m <= Len(q) => q[m] >= cutoff
      /\ \A j \in 1..(m - 1) : q[j] < cutoff
  <2>1. m \in 1..Len(q) + 1 /\ (m <= Len(q) => q[m] >= cutoff)
    OBVIOUS
  <2>2. ASSUME NEW j \in 1..(m - 1)
        PROVE  q[j] < cutoff
    <3>1. j \notin T /\ j \in 1..Len(q)
      BY <1>1, <1>3, <2>1
    <3>2. q[j] \in Nat /\ ~(q[j] >= cutoff)
      BY <1>1, <3>1
    <3>3. QED
      BY <3>2
  <2>3. QED
    BY <2>1, <2>2
<1> DEFINE f == FirstKept(q, cutoff)
<1>5. /\ f \in 1..Len(q) + 1
      /\ f <= Len(q) => q[f] >= cutoff
      /\ \A j \in 1..(f - 1) : q[j] < cutoff
  BY <1>4 DEF FirstKept
<1> HIDE DEF f, T
<1>6. /\ SubSeq(q, f, Len(q)) \in Seq(Nat)
      /\ Len(SubSeq(q, f, Len(q))) = IF f <= Len(q) THEN Len(q) - f + 1 ELSE 0
      /\ \A i \in 1..Len(q) - f + 1 : SubSeq(q, f, Len(q))[i] = q[f + i - 1]
  <2>1. f \in Int /\ Len(q) \in Int /\ \A i \in f..Len(q) : q[i] \in Nat
    BY <1>1, <1>5
  <2>2. QED
    BY <2>1, SubSeqProperties
<1>7. Pruned(q, cutoff) = SubSeq(q, f, Len(q))
  BY DEF Pruned, f
<1>8. /\ f - 1 \in 0..Len(q)
      /\ Len(SubSeq(q, f, Len(q))) = Len(q) - (f - 1)
      /\ \A i \in 1..Len(q) - (f - 1) : SubSeq(q, f, Len(q))[i] = q[i + (f - 1)]
      /\ \A j \in 1..(f - 1) : q[j] < cutoff
      /\ f - 1 < Len(q) => q[(f - 1) + 1] >= cutoff
  <2>1. /\ f - 1 \in 0..Len(q)
        /\ Len(SubSeq(q, f, Len(q))) = Len(q) - (f - 1)
        /\ f - 1 < Len(q) => q[(f - 1) + 1] >= cutoff
    BY <1>1, <1>5, <1>6
  <2>2. ASSUME NEW i \in 1..Len(q) - (f - 1)
        PROVE  SubSeq(q, f, Len(q))[i] = q[i + (f - 1)]
    <3>1. i \in 1..Len(q) - f + 1 /\ f + i - 1 = i + (f - 1)
      BY <1>1, <1>5
    <3>2. QED
      BY <1>6, <3>1
  <2>3. QED
    BY <1>5, <2>1, <2>2
<1>9. QED
  BY <1>6, <1>7, <1>8

\* The results of a call.
Codes == {"ok", "bad_request", "unauthorized", "origin_not_allowed", "scope_denied",
          "consent_denied", "rate_limited", "internal"}

\* Each result has a status.
LEMMA CodesHaveStatuses == \A code \in Codes : StatusOf[code] \in Statuses
BY DEF Codes, Statuses, StatusOf

-----------------------------------------------------------------------------
(* Types                                                                   *)

\* What the limiter does in a step of the launcher.
LimiterNext ==
  \/ UNCHANGED limiterVars
  \/ \E r \in Requests : Stamp(r)
  \/ \E r \in Requests : Check(r)
  \/ Restart
  \/ Tick

\* The steps of the launcher, seen from the limiter.
LEMMA StepsOfTheLimiter == [Next]_vars => LimiterNext
<1> SUFFICES ASSUME [Next]_vars
             PROVE  LimiterNext
  OBVIOUS
<1>1. ASSUME NEW r \in Requests, Present(r) \/ Serve(r) \/ Work(r)
      PROVE  LimiterNext
  BY <1>1 DEF Present, Serve, Work, LimiterNext
<1>2. ASSUME NEW c \in Calls,
             \/ TurnAway(c) \/ UserAnswers(c) \/ Proceed(c) \/ Record(c) \/ HangUp(c)
             \/ c \in Keys /\ Handshake(c)
      PROVE  LimiterNext
  BY <1>2 DEF TurnAway, UserAnswers, Proceed, Record, HangUp, Handshake, LimiterNext
<1>3. CASE Restart \/ Pass
  BY <1>3 DEF Restart, Pass, LimiterNext
<1>4. CASE UNCHANGED vars
  BY <1>4 DEF vars, LimiterNext
<1>5. QED
  BY <1>1, <1>2, <1>3, <1>4 DEF Next, Quiescent, Calls

\* The verdict: the bucket of the request's token is pruned, and takes the
\* stamp of the request if it is not full.
LEMMA CheckProperties ==
  ASSUME LimiterTypeOK, NEW r \in Requests, Check(r)
  PROVE  /\ step[r] = "stamped"
         /\ \A x \in Requests \ {r} : step'[x] = step[x] /\ entered'[x] = entered[x]
         /\ entered'[r] = now
         /\ UNCHANGED <<now, stamp>>
         /\ \A k \in Keys \ {KeyOf[r]} : bucket'[k] = bucket[k]
         /\ LET kept == Pruned(bucket[KeyOf[r]], stamp[r] - Window)
            IN  \/ /\ Len(kept) >= Limit
                   /\ step'[r] = "limited"
                   /\ bucket'[KeyOf[r]] = kept
                \/ /\ Len(kept) < Limit
                   /\ step'[r] = "admitted"
                   /\ bucket'[KeyOf[r]] = Append(kept, stamp[r])
<1>1. KeyOf[r] \in Keys
  BY LimiterAssumption
<1>2. Pruned(bucket[KeyOf[r]], stamp[r] - Window) \in Seq(Nat)
  <2>1. bucket[KeyOf[r]] \in Seq(Nat) /\ stamp[r] - Window \in Int
    BY <1>1, LimiterAssumption DEF LimiterTypeOK
  <2>2. QED
    BY <2>1, PrunedProperties
<1>3. Len(Pruned(bucket[KeyOf[r]], stamp[r] - Window)) \in Nat /\ Limit \in Nat
  BY <1>2, LimiterAssumption
<1>4. QED
  BY <1>1, <1>3 DEF Check, LimiterTypeOK

\* A step keeps the types of the limiter.
LEMMA LimiterTypesStep == LimiterTypeOK /\ LimiterNext => LimiterTypeOK'
<1> SUFFICES ASSUME LimiterTypeOK, LimiterNext
             PROVE  LimiterTypeOK'
  OBVIOUS
<1>1. CASE UNCHANGED limiterVars
  BY <1>1 DEF limiterVars, LimiterTypeOK
<1>2. ASSUME NEW r \in Requests, Stamp(r)
      PROVE  LimiterTypeOK'
  BY <1>2 DEF Stamp, LimiterTypeOK
<1>3. ASSUME NEW r \in Requests, Check(r)
      PROVE  LimiterTypeOK'
  <2>1. KeyOf[r] \in Keys /\ stamp[r] \in Nat /\ stamp[r] - Window \in Int
    BY LimiterAssumption DEF LimiterTypeOK
  <2>2. Pruned(bucket[KeyOf[r]], stamp[r] - Window) \in Seq(Nat)
    <3>1. bucket[KeyOf[r]] \in Seq(Nat)
      BY <2>1 DEF LimiterTypeOK
    <3>2. QED
      BY <2>1, <3>1, PrunedProperties
  <2>3. Append(Pruned(bucket[KeyOf[r]], stamp[r] - Window), stamp[r]) \in Seq(Nat)
    BY <2>1, <2>2, AppendProperties
  <2>4. bucket' \in [Keys -> Seq(Nat)]
    BY <1>3, <2>1, <2>2, <2>3 DEF Check, LimiterTypeOK
  <2>5. step' \in [Requests -> {"idle", "stamped", "admitted", "limited"}]
    BY <1>3 DEF Check, LimiterTypeOK
  <2>6. entered' \in [Requests -> Nat]
    BY <1>3 DEF Check, LimiterTypeOK
  <2>7. QED
    BY <1>3, <2>4, <2>5, <2>6 DEF Check, LimiterTypeOK
<1>4. CASE Restart
  <2>1. bucket' \in [Keys -> Seq(Nat)]
    BY <1>4, EmptySeq DEF Restart
  <2>2. QED
    BY <1>4, <2>1 DEF Restart, LimiterTypeOK
<1>5. CASE Tick
  BY <1>5 DEF Tick, LimiterTypeOK
<1>6. QED
  BY <1>1, <1>2, <1>3, <1>4, <1>5 DEF LimiterNext

\* A call moves on, with or without a status.
LEMMA CallMoves ==
  ASSUME TypeOK, NEW c \in Calls, NEW to \in Phase, Go(c, to)
  PROVE  /\ phase' \in [Calls -> Phase]
         /\ phase'[c] = to
         /\ \A d \in Calls \ {c} : phase'[d] = phase[d]
BY DEF Go, TypeOK

\* A call is decided, and its status goes to the audit line.
LEMMA CallReplies ==
  ASSUME TypeOK, NEW c \in Calls, NEW code \in Codes, Reply(c, code)
  PROVE  /\ phase' \in [Calls -> Phase] /\ reply' \in [Calls -> Statuses \cup {None}]
         /\ phase'[c] = "replied" /\ reply'[c] \in Statuses
         /\ \A d \in Calls \ {c} : phase'[d] = phase[d] /\ reply'[d] = reply[d]
<1>1. StatusOf[code] \in Statuses
  BY CodesHaveStatuses
<1>2. "replied" \in Phase
  BY DEF Phase
<1>3. QED
  BY <1>1, <1>2, CallMoves DEF Reply, TypeOK

\* A call waits for the user, with a dialog on the screen.
LEMMA DialogOpens ==
  ASSUME TypeOK, NEW c \in Calls, OpenDialog(c)
  PROVE  /\ phase' \in [Calls -> Phase] /\ dialog' \in [Calls -> Dialog]
         /\ phase'[c] = "asking"
         /\ \A d \in Calls \ {c} : phase'[d] = phase[d] /\ dialog'[d] = dialog[d]
         /\ UNCHANGED reply
<1>1. "asking" \in Phase /\ "open" \in Dialog
  BY DEF Phase, Dialog
<1>2. QED
  BY <1>1, CallMoves DEF OpenDialog, TypeOK

\* A token is issued for scopes that may be asked for.
LEMMA TokenIssued ==
  ASSUME TypeOK, NEW h \in Keys, NEW scopes \in SUBSET Scopes, Issue(h, scopes)
  PROVE  /\ tokens' \in [Keys -> Token \cup {None}]
         /\ tokens'[h] = [scopes |-> scopes, expires |-> now + TTL]
         /\ \A k \in Keys \ {h} : tokens'[k] = tokens[k]
<1>1. [scopes |-> scopes, expires |-> now + TTL] \in Token
  BY GatewayAssumption DEF Token, TypeOK, LimiterTypeOK
<1>2. QED
  BY <1>1 DEF Issue, TypeOK

\* A line that is written is that of a call with a status.
LEMMA LineWritten ==
  ASSUME TypeOK, NEW c \in Calls, NEW how \in {"whole", "cut", "none"}, PutLine(c, how),
         how = "whole" => reply[c] \in Statuses
  PROVE  entry' \in [Calls -> Entry \cup {None}] /\ torn' \in BOOLEAN
<1>1. ASSUME reply[c] \in Statuses
      PROVE  Line(c) \in Entry
  BY <1>1, LimiterAssumption DEF Line, Entry
<1>2. QED
  BY <1>1 DEF PutLine, TypeOK

\* A step keeps the types, and gives a status to every call it ends.
LEMMA TypesStep == TypeOK /\ Decided /\ [Next]_vars => TypeOK' /\ Decided'
<1> SUFFICES ASSUME TypeOK, Decided, [Next]_vars
             PROVE  TypeOK' /\ Decided'
  OBVIOUS
<1>a. LimiterTypeOK'
  BY StepsOfTheLimiter, LimiterTypesStep DEF TypeOK
<1>b. Keys \subseteq Calls /\ Requests \subseteq Calls
  BY DEF Calls
<1>c. \A n \in 0..MaxFaults : n + 1 <= MaxFaults => n + 1 \in 0..MaxFaults
  BY GatewayAssumption
<1>d. None \notin Statuses
  BY GatewayAssumption DEF Statuses, StatusOf
<1>e. /\ \A code \in {"ok", "bad_request", "unauthorized", "origin_not_allowed", "scope_denied",
                       "consent_denied", "rate_limited", "internal"} : code \in Codes
      /\ \A to \in {"checking", "running", "answered", "gone"} : to \in Phase
      /\ \A answer \in {"yes", "no", "closed"} : answer \in Dialog
  BY DEF Codes, Phase, Dialog
<1>f. ASSUME NEW c \in Calls, NEW code \in Codes, Reply(c, code)
      PROVE  /\ phase' \in [Calls -> Phase]
             /\ reply' \in [Calls -> Statuses \cup {None}]
             /\ Decided'
  BY <1>d, <1>f, CallReplies DEF Decided
<1>g. ASSUME NEW c \in Calls, OpenDialog(c)
      PROVE  /\ phase' \in [Calls -> Phase]
             /\ reply' \in [Calls -> Statuses \cup {None}]
             /\ dialog' \in [Calls -> Dialog]
             /\ Decided'
  BY <1>g, DialogOpens DEF Decided, TypeOK
<1>h. ASSUME NEW c \in Calls, NEW to \in {"checking", "running", "answered", "gone"}, Go(c, to),
             UNCHANGED reply
      PROVE  phase' \in [Calls -> Phase] /\ Decided'
  BY <1>e, <1>h, CallMoves DEF Decided
<1>1. ASSUME NEW h \in Keys, Handshake(h)
      PROVE  TypeOK' /\ Decided'
  <2>1. CASE Reply(h, "bad_request") /\ UNCHANGED <<asked, tokens, dialog>>
    BY <1>1, <1>a, <1>b, <1>e, <1>f, <2>1 DEF Handshake, TypeOK
  <2>2. ASSUME NEW scopes \in Offers,
               asked' = [asked EXCEPT ![h] = scopes],
               IF scopes = {}
               THEN Issue(h, scopes) /\ Reply(h, "ok") /\ UNCHANGED dialog
               ELSE OpenDialog(h) /\ UNCHANGED tokens
        PROVE  TypeOK' /\ Decided'
    <3>1. scopes \in SUBSET Scopes
      BY GatewayAssumption
    <3>2. asked' \in [Keys -> SUBSET Scopes]
      BY <2>2, <3>1 DEF TypeOK
    <3>3. CASE scopes = {}
      <4>1. tokens' \in [Keys -> Token \cup {None}]
        BY <2>2, <3>1, <3>3, TokenIssued
      <4>2. QED
        BY <1>1, <1>a, <1>b, <1>e, <1>f, <2>2, <3>2, <3>3, <4>1 DEF Handshake, TypeOK
    <3>4. CASE scopes # {}
      BY <1>1, <1>a, <1>b, <1>g, <2>2, <3>2, <3>4 DEF Handshake, TypeOK
    <3>5. QED
      BY <3>3, <3>4
  <2>3. QED
    BY <1>1, <2>1, <2>2 DEF Handshake
<1>2. ASSUME NEW r \in Requests, Present(r)
      PROVE  TypeOK' /\ Decided'
  BY <1>2, <1>a, <1>b, <1>e, <1>f, <1>h DEF Present, TypeOK
<1>3. ASSUME NEW r \in Requests, Serve(r)
      PROVE  TypeOK' /\ Decided'
  <2>1. \/ UNCHANGED dialog /\ \E code \in Codes : Reply(r, code)
        \/ UNCHANGED <<dialog, reply>> /\ Go(r, "running")
        \/ OpenDialog(r)
    BY <1>3, <1>e DEF Serve, Begin
  <2>2. /\ phase' \in [Calls -> Phase]
        /\ reply' \in [Calls -> Statuses \cup {None}]
        /\ dialog' \in [Calls -> Dialog]
        /\ Decided'
    BY <1>b, <1>f, <1>g, <1>h, <2>1 DEF TypeOK
  <2>3. QED
    BY <1>3, <1>a, <2>2 DEF Serve, TypeOK
<1>4. ASSUME NEW r \in Requests, Work(r)
      PROVE  TypeOK' /\ Decided'
  BY <1>4, <1>a, <1>b, <1>e, <1>f DEF Work, TypeOK
<1>5. ASSUME NEW c \in Calls, TurnAway(c)
      PROVE  TypeOK' /\ Decided'
  BY <1>5, <1>a, <1>e, <1>f DEF TurnAway, TypeOK
<1>6. ASSUME NEW c \in Calls, UserAnswers(c)
      PROVE  TypeOK' /\ Decided'
  BY <1>6, <1>a, <1>e DEF UserAnswers, TypeOK, Decided
<1>7. ASSUME NEW c \in Calls, Proceed(c)
      PROVE  TypeOK' /\ Decided'
  <2>1. \E code \in Codes : Reply(c, code)
    BY <1>7, <1>e DEF Proceed, Effect, KeychainFails
  <2>2. tokens' \in [Keys -> Token \cup {None}] /\ key' \in Requests \cup {None}
    <3>1. CASE c \in Keys /\ Issue(c, asked[c]) /\ UNCHANGED key
      BY <3>1, TokenIssued DEF TypeOK
    <3>2. CASE /\ c \in Requests /\ key' = (IF Kind[c] = "set_key" THEN c ELSE None)
               /\ UNCHANGED tokens
      BY <3>2 DEF TypeOK
    <3>3. CASE UNCHANGED <<tokens, key>>
      BY <3>3 DEF TypeOK
    <3>4. QED
      BY <1>7, <3>1, <3>2, <3>3 DEF Proceed, Effect, KeychainFails
  <2>3. QED
    BY <1>7, <1>a, <1>f, <2>1, <2>2 DEF Proceed, TypeOK
<1>8. ASSUME NEW c \in Calls, Record(c)
      PROVE  TypeOK' /\ Decided'
  <2>1. PICK how \in {"whole", "cut", "none"} :
          PutLine(c, how) /\ faults' = IF how = "whole" THEN faults ELSE faults + 1
    BY <1>8 DEF Record
  <2>2. reply[c] \in Statuses
    BY <1>8 DEF Record, Decided, TypeOK
  <2>3. faults' \in 0..MaxFaults
    BY <1>8, <1>c, <2>1 DEF Record, TypeOK
  <2>4. entry' \in [Calls -> Entry \cup {None}] /\ torn' \in BOOLEAN
    BY <2>1, <2>2, LineWritten
  <2>5. QED
    BY <1>8, <1>a, <1>h, <2>3, <2>4 DEF Record, TypeOK
<1>9. ASSUME NEW c \in Calls, HangUp(c)
      PROVE  TypeOK' /\ Decided'
  <2>1. PICK how \in {"whole", "none"} : PutLine(c, how) /\ (how = "whole" => phase[c] = "replied")
    BY <1>9 DEF HangUp
  <2>2. entry' \in [Calls -> Entry \cup {None}] /\ torn' \in BOOLEAN
    BY <2>1, LineWritten DEF Decided, TypeOK
  <2>3. QED
    BY <1>9, <1>a, <1>h, <2>2 DEF HangUp, TypeOK
<1>10. CASE Restart
  <2>1. tokens' \in [Keys -> Token \cup {None}] /\ key' \in Requests \cup {None}
    BY <1>10 DEF Restart
  <2>2. phase' \in [Calls -> Phase] /\ dialog' \in [Calls -> Dialog]
    BY <1>10, <1>e DEF Restart, TypeOK
  <2>3. entry' \in [Calls -> Entry \cup {None}] /\ torn' \in BOOLEAN /\ faults' \in 0..MaxFaults
    <3>1. CASE UNCHANGED <<entry, torn, faults>>
      BY <3>1 DEF TypeOK
    <3>2. ASSUME NEW c \in Calls, faults < MaxFaults, PutLine(c, "cut"), faults' = faults + 1
          PROVE  /\ entry' \in [Calls -> Entry \cup {None}] /\ torn' \in BOOLEAN
                 /\ faults' \in 0..MaxFaults
      <4>1. entry' = entry /\ torn' = TRUE
        BY <3>2 DEF PutLine
      <4>2. faults' \in 0..MaxFaults
        BY <3>2, GatewayAssumption DEF TypeOK
      <4>3. QED
        BY <4>1, <4>2 DEF TypeOK
    <3>3. QED
      BY <1>10, <3>1, <3>2 DEF Restart
  <2>4. restarts' \in 0..MaxRestarts
    BY <1>10, GatewayAssumption DEF Restart, TypeOK
  <2>5. Decided'
    BY <1>10 DEF Restart, Decided, TypeOK, InService
  <2>6. QED
    BY <1>10, <1>a, <2>1, <2>2, <2>3, <2>4, <2>5 DEF Restart, TypeOK
<1>11. CASE Pass
  BY <1>11, <1>a DEF Pass, gateVars, TypeOK, Decided
<1>12. CASE UNCHANGED vars
  BY <1>12, <1>a DEF vars, gateVars, TypeOK, Decided
<1>13. QED
  BY <1>1, <1>2, <1>3, <1>4, <1>5, <1>6, <1>7, <1>8, <1>9, <1>10, <1>11, <1>12
     DEF Next, Quiescent

-----------------------------------------------------------------------------
(* The token store                                                         *)

\* A call that is through with its token leaves the store as it is.
LEMMA StoreStays ==
  ASSUME TypeOK, Store, NEW c \in Calls,
         UNCHANGED <<tokens, limiterVars, dialog>>,
         phase[c] # "checking",
         phase'[c] \notin {"idle", "asking", "checking"},
         \A d \in Calls \ {c} : phase'[d] = phase[d]
  PROVE  Store'
<1>1. Keys \subseteq Calls /\ Requests \subseteq Calls
  BY DEF Calls
<1>2. \A r \in Requests : KeyOf[r] \in Keys
  BY LimiterAssumption
<1>3. \A d \in Calls : /\ phase'[d] = "idle" => phase[d] = "idle"
                       /\ phase'[d] = "checking" <=> phase[d] = "checking"
                       /\ phase[d] \notin {"idle", "asking"} => phase'[d] \notin {"idle", "asking"}
  OBVIOUS
<1>4. \A k \in Keys : tokens'[k] # None =>
        /\ phase'[k] \notin {"idle", "asking"}
        /\ tokens'[k].scopes = {} \/ dialog'[k] = "yes"
  BY <1>1, <1>3 DEF Store
<1>5. QED
  BY <1>1, <1>2, <1>3, <1>4 DEF Store, limiterVars

\* A step keeps the token store and the calls that hold its tokens.
LEMMA StoreStep == TypeOK /\ Decided /\ Store /\ [Next]_vars => Store'
<1> SUFFICES ASSUME TypeOK, Decided, Store, [Next]_vars
             PROVE  Store'
  OBVIOUS
<1>a. Keys \subseteq Calls /\ Requests \subseteq Calls /\ Keys \cap Requests = {}
  BY GatewayAssumption DEF Calls
<1>b. \A r \in Requests : KeyOf[r] \in Keys
  BY LimiterAssumption
<1>c. /\ \A code \in {"ok", "bad_request", "unauthorized", "origin_not_allowed", "scope_denied",
                       "consent_denied", "rate_limited", "internal"} : code \in Codes
      /\ \A to \in {"checking", "running", "answered", "gone"} : to \in Phase
  BY DEF Codes, Phase
<1>d. ASSUME NEW h \in Keys, NEW scopes \in SUBSET Scopes, Issue(h, scopes),
             phase[h] \in {"idle", "asking"}, phase'[h] = "replied",
             \A d \in Calls \ {h} : phase'[d] = phase[d],
             scopes = {} \/ dialog[h] = "yes",
             UNCHANGED <<limiterVars, dialog>>
      PROVE  Store'
  <2>1. /\ tokens'[h] = [scopes |-> scopes, expires |-> now + TTL]
        /\ \A k \in Keys \ {h} : tokens'[k] = tokens[k]
    BY <1>d, TokenIssued
  <2>2. tokens'[h].scopes = scopes
    BY <2>1
  <2>3. \A r \in Requests : KeyOf[r] = h => step[r] = "idle"
    BY <1>a, <1>d DEF Store
  <2>4. \A k \in Keys : tokens'[k] # None =>
          /\ phase'[k] \notin {"idle", "asking"}
          /\ tokens'[k].scopes = {} \/ dialog'[k] = "yes"
    BY <1>a, <1>d, <2>1, <2>2 DEF Store
  <2>5. \A r \in Requests : phase'[r] = phase[r]
    BY <1>a, <1>d
  <2>6. \A r \in Requests : phase'[r] = "checking" =>
          /\ step'[r] = "stamped"
          /\ tokens'[KeyOf[r]] # None
          /\ stamp'[r] < tokens'[KeyOf[r]].expires
    BY <1>b, <1>d, <2>1, <2>3, <2>5 DEF Store, limiterVars
  <2>7. \A r \in Requests : step'[r] # "idle" => phase'[KeyOf[r]] \notin {"idle", "asking"}
    BY <1>a, <1>b, <1>d DEF Store, limiterVars
  <2>8. QED
    BY <1>d, <2>4, <2>5, <2>6, <2>7 DEF Store, limiterVars
<1>1. ASSUME NEW h \in Keys, Handshake(h)
      PROVE  Store'
  <2>1. phase[h] = "idle" /\ UNCHANGED limiterVars
    BY <1>1 DEF Handshake
  <2>2. CASE Reply(h, "bad_request") /\ UNCHANGED <<asked, tokens, dialog>>
    BY <1>a, <1>c, <2>1, <2>2, CallReplies, StoreStays
  <2>3. ASSUME NEW scopes \in Offers, scopes = {}, Issue(h, scopes), Reply(h, "ok"),
               UNCHANGED dialog
        PROVE  Store'
    BY <1>a, <1>c, <1>d, <2>1, <2>3, CallReplies
  <2>4. CASE OpenDialog(h) /\ UNCHANGED tokens
    <3>1. /\ phase'[h] = "asking"
          /\ \A d \in Calls \ {h} : phase'[d] = phase[d] /\ dialog'[d] = dialog[d]
      BY <1>a, <2>4, DialogOpens
    <3>2. tokens[h] = None /\ \A r \in Requests : KeyOf[r] = h => step[r] = "idle"
      BY <2>1 DEF Store
    <3>3. \A k \in Keys : tokens'[k] # None =>
            /\ phase'[k] \notin {"idle", "asking"}
            /\ tokens'[k].scopes = {} \/ dialog'[k] = "yes"
      BY <1>a, <2>4, <3>1, <3>2 DEF Store
    <3>4. QED
      BY <1>a, <1>b, <2>1, <2>4, <3>1, <3>2, <3>3 DEF Store, limiterVars
  <2>5. QED
    BY <1>1, <2>2, <2>3, <2>4 DEF Handshake
<1>2. ASSUME NEW r \in Requests, Present(r)
      PROVE  Store'
  <2>1. CASE Holds(KeyOf[r]) /\ Live(KeyOf[r])
    <3>1. /\ phase'[r] = "checking"
          /\ \A d \in Calls \ {r} : phase'[d] = phase[d]
      BY <1>2, <1>a, <1>c, <2>1, CallMoves DEF Present
    <3>2. /\ step'[r] = "stamped" /\ stamp'[r] = now
          /\ \A q \in Requests \ {r} : step'[q] = step[q] /\ stamp'[q] = stamp[q]
      BY <1>2, <2>1 DEF Present, Stamp, TypeOK, LimiterTypeOK
    <3>3. tokens[KeyOf[r]] # None /\ now < tokens[KeyOf[r]].expires /\ phase[KeyOf[r]] = "answered"
      BY <2>1 DEF Live, Holds
    <3>4. UNCHANGED <<tokens, dialog>>
      BY <1>2 DEF Present
    <3>5. \A k \in Keys : tokens'[k] # None =>
            /\ phase'[k] \notin {"idle", "asking"}
            /\ tokens'[k].scopes = {} \/ dialog'[k] = "yes"
      BY <1>a, <3>1, <3>4 DEF Store
    <3>6. \A q \in Requests : step'[q] # "idle" => phase'[KeyOf[q]] \notin {"idle", "asking"}
      BY <1>a, <1>b, <3>1, <3>2, <3>3 DEF Store
    <3>7. QED
      BY <1>a, <1>b, <3>1, <3>2, <3>3, <3>4, <3>5, <3>6 DEF Store
  <2>2. CASE Reply(r, "unauthorized") /\ UNCHANGED limiterVars
    BY <1>2, <1>a, <1>c, <2>2, CallReplies, StoreStays DEF Present
  <2>3. QED
    BY <1>2, <2>1, <2>2 DEF Present
<1>3. ASSUME NEW r \in Requests, Serve(r)
      PROVE  Store'
  <2>1. /\ phase'[r] \in {"replied", "running", "asking"}
        /\ \A d \in Calls \ {r} : phase'[d] = phase[d]
        /\ \A d \in Calls \ {r} : dialog'[d] = dialog[d]
    <3>1. \/ UNCHANGED dialog /\ \E code \in Codes : Reply(r, code)
          \/ UNCHANGED <<dialog, reply>> /\ Go(r, "running")
          \/ OpenDialog(r)
      BY <1>3, <1>c DEF Serve, Begin
    <3>2. QED
      BY <1>a, <1>c, <3>1, CallReplies, CallMoves, DialogOpens
  <2>2. /\ step'[r] \in {"admitted", "limited"} /\ step[r] = "stamped"
        /\ \A x \in Requests \ {r} : step'[x] = step[x]
        /\ UNCHANGED stamp
    BY <1>3, CheckProperties DEF Serve, TypeOK
  <2>3. UNCHANGED tokens /\ phase[r] = "checking"
    BY <1>3 DEF Serve
  <2>4. \A k \in Keys : phase'[k] = phase[k] /\ dialog'[k] = dialog[k]
    BY <1>a, <2>1
  <2>5. QED
    BY <1>a, <1>b, <2>1, <2>2, <2>3, <2>4 DEF Store
<1>4. ASSUME NEW r \in Requests, Work(r)
      PROVE  Store'
  BY <1>4, <1>a, <1>c, CallReplies, StoreStays DEF Work
<1>5. ASSUME NEW c \in Calls, TurnAway(c)
      PROVE  Store'
  BY <1>5, <1>a, <1>c, CallReplies, StoreStays DEF TurnAway
<1>6. ASSUME NEW c \in Calls, UserAnswers(c)
      PROVE  Store'
  <2>1. \A k \in Keys : dialog[k] = "yes" => dialog'[k] = "yes"
    BY <1>6, <1>a DEF UserAnswers, TypeOK
  <2>2. QED
    BY <1>6, <2>1 DEF UserAnswers, Store, limiterVars
<1>7. ASSUME NEW c \in Calls, Proceed(c)
      PROVE  Store'
  <2>1. /\ phase[c] = "asking" /\ phase'[c] = "replied"
        /\ \A d \in Calls \ {c} : phase'[d] = phase[d]
    BY <1>7, <1>c, CallReplies DEF Proceed, Effect, KeychainFails
  <2>2. UNCHANGED <<limiterVars, dialog>>
    BY <1>7 DEF Proceed
  <2>3. CASE UNCHANGED tokens
    BY <2>1, <2>2, <2>3, StoreStays
  <2>4. CASE c \in Keys /\ Issue(c, asked[c]) /\ dialog[c] = "yes"
    BY <1>d, <2>1, <2>2, <2>4 DEF TypeOK
  <2>5. QED
    BY <1>7, <2>3, <2>4 DEF Proceed, Effect, KeychainFails
<1>8. ASSUME NEW c \in Calls, Record(c)
      PROVE  Store'
  BY <1>8, <1>c, CallMoves, StoreStays DEF Record
<1>9. ASSUME NEW c \in Calls, HangUp(c)
      PROVE  Store'
  BY <1>9, <1>c, CallMoves, StoreStays DEF HangUp
<1>10. CASE Restart
  <2>1. \A k \in Keys : tokens'[k] = None
    BY <1>10 DEF Restart
  <2>2. \A c \in Calls : /\ phase'[c] \notin {"checking", "asking"}
                         /\ phase'[c] = "idle" <=> phase[c] = "idle"
    BY <1>10 DEF Restart, InService
  <2>3. \A r \in Requests : step'[r] = IF step[r] = "stamped" THEN "idle" ELSE step[r]
    BY <1>10 DEF Restart
  <2>4. QED
    BY <1>a, <1>b, <2>1, <2>2, <2>3 DEF Store
<1>11. CASE Pass
  BY <1>11 DEF Pass, Tick, gateVars, Store
<1>12. CASE UNCHANGED vars
  BY <1>12 DEF vars, gateVars, limiterVars, Store
<1>13. QED
  BY <1>1, <1>2, <1>3, <1>4, <1>5, <1>6, <1>7, <1>8, <1>9, <1>10, <1>11, <1>12
     DEF Next, Quiescent

\* A step keeps tokens and what was asked for them together.
LEMMA GrantedStep == TypeOK /\ Store /\ Granted /\ [Next]_vars => Granted'
<1> SUFFICES ASSUME TypeOK, Store, Granted, [Next]_vars
             PROVE  Granted'
  OBVIOUS
<1>1. ASSUME NEW h \in Keys, Handshake(h)
      PROVE  Granted'
  <2>1. tokens[h] = None
    BY <1>1 DEF Handshake, Store
  <2>2. CASE UNCHANGED <<asked, tokens>>
    BY <2>2 DEF Granted
  <2>3. ASSUME NEW scopes \in Offers, asked' = [asked EXCEPT ![h] = scopes],
               IF scopes = {} THEN Issue(h, scopes) ELSE UNCHANGED tokens
        PROVE  Granted'
    <3>1. asked'[h] = scopes /\ \A k \in Keys \ {h} : asked'[k] = asked[k]
      BY <2>3 DEF TypeOK
    <3>2. CASE UNCHANGED tokens
      BY <2>1, <3>1, <3>2 DEF Granted
    <3>3. CASE scopes = {} /\ Issue(h, scopes)
      <4>1. /\ tokens'[h] = [scopes |-> scopes, expires |-> now + TTL]
            /\ \A k \in Keys \ {h} : tokens'[k] = tokens[k]
        BY <3>3, TokenIssued
      <4>2. tokens'[h].scopes = scopes
        BY <4>1
      <4>3. QED
        BY <3>1, <4>1, <4>2 DEF Granted
    <3>4. QED
      BY <2>3, <3>2, <3>3
  <2>4. QED
    BY <1>1, <2>2, <2>3 DEF Handshake
<1>2. ASSUME NEW c \in Calls, Proceed(c)
      PROVE  Granted'
  <2>1. UNCHANGED asked
    BY <1>2 DEF Proceed
  <2>2. CASE UNCHANGED tokens
    BY <2>1, <2>2 DEF Granted
  <2>3. CASE c \in Keys /\ Issue(c, asked[c])
    <3>1. asked[c] \in SUBSET Scopes
      BY <2>3 DEF TypeOK
    <3>2. /\ tokens'[c] = [scopes |-> asked[c], expires |-> now + TTL]
          /\ \A k \in Keys \ {c} : tokens'[k] = tokens[k]
      BY <2>3, <3>1, TokenIssued
    <3>3. tokens'[c].scopes = asked[c]
      BY <3>2
    <3>4. QED
      BY <2>1, <3>2, <3>3 DEF Granted
  <2>4. QED
    BY <1>2, <2>2, <2>3 DEF Proceed, Effect, KeychainFails
<1>3. CASE Restart
  BY <1>3 DEF Restart, Granted
<1>4. CASE UNCHANGED <<asked, tokens>>
  BY <1>4 DEF Granted
<1>5. \/ \E h \in Keys : Handshake(h)
      \/ \E c \in Calls : Proceed(c)
      \/ Restart
      \/ UNCHANGED <<asked, tokens>>
  BY DEF Next, Present, Serve, Work, TurnAway, UserAnswers, Record, HangUp, Pass, gateVars,
       Quiescent, vars
<1>6. QED
  BY <1>1, <1>2, <1>3, <1>4, <1>5

-----------------------------------------------------------------------------
(* The clock                                                               *)

\* A step keeps every request's delay between the clock and the lock.
LEMMA ClockStep == LimiterTypeOK /\ Clock /\ LimiterNext => Clock'
<1> SUFFICES ASSUME LimiterTypeOK, Clock, LimiterNext
             PROVE  Clock'
  OBVIOUS
<1>1. CASE UNCHANGED limiterVars
  BY <1>1 DEF limiterVars, Clock
<1>2. ASSUME NEW r \in Requests, Stamp(r)
      PROVE  Clock'
  BY <1>2, LimiterAssumption DEF Stamp, LimiterTypeOK, Clock
<1>3. ASSUME NEW r \in Requests, Check(r)
      PROVE  Clock'
  <2>1. /\ step[r] = "stamped" /\ step'[r] \in {"admitted", "limited"}
        /\ \A x \in Requests \ {r} : step'[x] = step[x] /\ entered'[x] = entered[x]
        /\ entered'[r] = now
        /\ UNCHANGED <<now, stamp>>
    BY <1>3, CheckProperties
  <2>2. QED
    BY <2>1, LimiterAssumption DEF LimiterTypeOK, Clock
<1>4. CASE Restart
  BY <1>4 DEF Restart, LimiterTypeOK, Clock
<1>5. CASE Tick
  BY <1>5, LimiterAssumption DEF Tick, LimiterTypeOK, Clock
<1>6. QED
  BY <1>1, <1>2, <1>3, <1>4, <1>5 DEF LimiterNext

-----------------------------------------------------------------------------
(* The audit log                                                           *)

\* A call has its answer only when its line was tried, and nothing that its line
\* tells changes after that.
LEMMA LinesStand ==
  ASSUME TypeOK, Store, [Next]_vars, NEW c \in Calls
  PROVE  /\ phase[c] = "answered" => phase'[c] = "answered" /\ Line(c)' = Line(c)
         /\ phase'[c] = "answered" => phase[c] = "answered" \/ Record(c)
<1> DEFINE LineStands ==
      /\ phase[c] = "answered" => phase'[c] = "answered" /\ Line(c)' = Line(c)
      /\ phase'[c] = "answered" => phase[c] = "answered" \/ Record(c)
<1>a. Keys \subseteq Calls /\ Requests \subseteq Calls
  BY DEF Calls
<1>b. /\ \A code \in {"ok", "bad_request", "unauthorized", "origin_not_allowed", "scope_denied",
                       "consent_denied", "rate_limited", "internal"} : code \in Codes
      /\ \A to \in {"checking", "running", "answered", "gone"} : to \in Phase
  BY DEF Codes, Phase
<1>c. ASSUME NEW d \in Calls, phase[d] # "answered", phase'[d] # "answered",
             \A x \in Calls \ {d} : phase'[x] = phase[x] /\ reply'[x] = reply[x],
             \A x \in Requests \ {d} : step'[x] = step[x]
      PROVE  LineStands
  BY <1>c DEF Line
<1>1. ASSUME NEW h \in Keys, Handshake(h)
      PROVE  LineStands
  <2>1. phase[h] # "answered" /\ UNCHANGED limiterVars
    BY <1>1 DEF Handshake
  <2>2. (\E code \in Codes : Reply(h, code)) \/ OpenDialog(h)
    BY <1>1, <1>b DEF Handshake
  <2>3. /\ phase'[h] # "answered"
        /\ \A x \in Calls \ {h} : phase'[x] = phase[x] /\ reply'[x] = reply[x]
    BY <1>a, <2>2, CallReplies, DialogOpens
  <2>4. QED
    BY <1>a, <1>c, <2>1, <2>3 DEF limiterVars
<1>2. ASSUME NEW r \in Requests, Present(r)
      PROVE  LineStands
  <2>1. phase[r] # "answered" /\ \A x \in Requests \ {r} : step'[x] = step[x]
    BY <1>2 DEF Present, Stamp, limiterVars, TypeOK, LimiterTypeOK
  <2>2. Reply(r, "unauthorized") \/ (Go(r, "checking") /\ UNCHANGED reply)
    BY <1>2 DEF Present
  <2>3. /\ phase'[r] # "answered"
        /\ \A x \in Calls \ {r} : phase'[x] = phase[x] /\ reply'[x] = reply[x]
    BY <1>a, <1>b, <2>2, CallReplies, CallMoves
  <2>4. QED
    BY <1>a, <1>c, <2>1, <2>3
<1>3. ASSUME NEW r \in Requests, Serve(r)
      PROVE  LineStands
  <2>1. phase[r] # "answered" /\ \A x \in Requests \ {r} : step'[x] = step[x]
    BY <1>3, CheckProperties DEF Serve, TypeOK
  <2>2. \/ \E code \in Codes : Reply(r, code)
        \/ UNCHANGED reply /\ Go(r, "running")
        \/ OpenDialog(r)
    BY <1>3, <1>b DEF Serve, Begin
  <2>3. /\ phase'[r] # "answered"
        /\ \A x \in Calls \ {r} : phase'[x] = phase[x] /\ reply'[x] = reply[x]
    BY <1>a, <1>b, <2>2, CallReplies, CallMoves, DialogOpens
  <2>4. QED
    BY <1>a, <1>c, <2>1, <2>3
<1>4. ASSUME NEW r \in Requests, Work(r)
      PROVE  LineStands
  BY <1>4, <1>a, <1>b, <1>c, CallReplies DEF Work, limiterVars
<1>5. ASSUME NEW d \in Calls, TurnAway(d)
      PROVE  LineStands
  BY <1>5, <1>b, <1>c, CallReplies DEF TurnAway, limiterVars
<1>6. ASSUME NEW d \in Calls, UserAnswers(d)
      PROVE  LineStands
  BY <1>6 DEF UserAnswers, Line, limiterVars
<1>7. ASSUME NEW d \in Calls, Proceed(d)
      PROVE  LineStands
  <2>1. phase[d] # "answered" /\ UNCHANGED limiterVars
    BY <1>7 DEF Proceed
  <2>2. \E code \in Codes : Reply(d, code)
    BY <1>7, <1>b DEF Proceed, Effect, KeychainFails
  <2>3. QED
    BY <1>c, <2>1, <2>2, CallReplies DEF limiterVars
<1>8. ASSUME NEW d \in Calls, Record(d)
      PROVE  LineStands
  <2>1. /\ phase[d] = "replied"
        /\ \A x \in Calls \ {d} : phase'[x] = phase[x]
    BY <1>8, <1>b, CallMoves DEF Record
  <2>2. \A x \in Calls : Line(x)' = Line(x)
    BY <1>8 DEF Record, Line, limiterVars
  <2>3. QED
    BY <1>8, <2>1, <2>2
<1>9. ASSUME NEW d \in Calls, HangUp(d)
      PROVE  LineStands
  BY <1>9, <1>b, <1>c, CallMoves DEF HangUp, limiterVars
<1>10. CASE Restart
  <2>1. /\ phase'[c] = "answered" <=> phase[c] = "answered"
        /\ UNCHANGED reply
    BY <1>10 DEF Restart, InService
  <2>2. c \in Requests /\ phase[c] = "answered" => step'[c] = step[c]
    BY <1>10 DEF Restart, Store
  <2>3. QED
    BY <2>1, <2>2 DEF Line
<1>11. CASE Pass
  BY <1>11 DEF Pass, Tick, gateVars, Line
<1>12. CASE UNCHANGED vars
  BY <1>12 DEF vars, gateVars, limiterVars, Line
<1>13. QED
  BY <1>1, <1>2, <1>3, <1>4, <1>5, <1>6, <1>7, <1>8, <1>9, <1>10, <1>11, <1>12
     DEF Next, Quiescent

\* A set that gains at most one element.
LEMMA OneMore ==
  ASSUME NEW S, IsFiniteSet(S), NEW x, NEW T, T \subseteq S \cup {x}
  PROVE  /\ IsFiniteSet(T)
         /\ Cardinality(S) \in Nat /\ Cardinality(T) \in Nat
         /\ Cardinality(T) <= Cardinality(S) + 1
         /\ T \subseteq S => Cardinality(T) <= Cardinality(S)
<1>1. /\ IsFiniteSet(S \cup {x})
      /\ Cardinality(S \cup {x}) \in Nat /\ Cardinality(S) \in Nat
      /\ Cardinality(S \cup {x}) <= Cardinality(S) + 1
  BY FS_AddElement, FS_CardinalityType
<1>2. /\ IsFiniteSet(T) /\ Cardinality(T) \in Nat
      /\ Cardinality(T) <= Cardinality(S \cup {x})
  BY <1>1, FS_Subset, FS_CardinalityType
<1>3. T \subseteq S => Cardinality(T) <= Cardinality(S)
  BY FS_Subset
<1>4. QED
  BY <1>1, <1>2, <1>3

\* A step pays for every line it costs: the one it fails to write and the one
\* that the torn end of the file will swallow.
LEMMA LossesStep == TypeOK /\ Decided /\ Store /\ Losses /\ [Next]_vars => Losses'
<1> SUFFICES ASSUME TypeOK, Decided, Store, Losses, [Next]_vars
             PROVE  Losses'
  OBVIOUS
<1>a. faults \in Nat /\ torn \in BOOLEAN /\ Cardinality(Unrecorded) \in Nat
  BY GatewayAssumption, FS_CardinalityType DEF TypeOK, Losses
<1>b. ASSUME Unrecorded' \subseteq Unrecorded, UNCHANGED faults, torn' => torn
      PROVE  Losses'
  <2>1. IsFiniteSet(Unrecorded') /\ Cardinality(Unrecorded') <= Cardinality(Unrecorded)
        /\ Cardinality(Unrecorded') \in Nat
    BY <1>b, OneMore DEF Losses
  <2>2. QED
    BY <1>a, <1>b, <2>1 DEF Losses
<1>c. ASSUME NEW c \in Calls, Unrecorded' \subseteq Unrecorded \cup {c}, faults' = faults + 1
      PROVE  Losses'
  <2>1. IsFiniteSet(Unrecorded') /\ Cardinality(Unrecorded') <= Cardinality(Unrecorded) + 1
        /\ Cardinality(Unrecorded') \in Nat
    BY <1>c, OneMore DEF Losses
  <2>2. Cardinality(Unrecorded') + 1 <= 2 * faults'
    BY <1>a, <1>c, <2>1 DEF Losses
  <2>3. QED
    BY <1>a, <1>c, <2>1, <2>2 DEF Losses
<1>1. ASSUME NEW c \in Calls, Record(c)
      PROVE  Losses'
  <2>1. PICK how \in {"whole", "cut", "none"} :
          PutLine(c, how) /\ faults' = IF how = "whole" THEN faults ELSE faults + 1
    BY <1>1 DEF Record
  <2>2. \A d \in Calls \ {c} : entry'[d] = entry[d]
    BY <2>1 DEF PutLine, TypeOK
  <2>3. \A d \in Calls \ {c} : phase'[d] = phase[d] /\ Line(d)' = Line(d)
    BY <1>1, CallMoves DEF Record, Line, limiterVars, Phase
  <2>4. Unrecorded' \subseteq Unrecorded \cup {c}
    BY <2>2, <2>3 DEF Unrecorded
  <2>5. CASE how = "whole" /\ ~torn
    <3>1. entry'[c] = Line(c) /\ Line(c)' = Line(c)
      BY <1>1, <2>1, <2>5 DEF PutLine, TypeOK, Record, Line, limiterVars
    <3>2. Unrecorded' \subseteq Unrecorded /\ UNCHANGED faults /\ ~torn'
      BY <2>1, <2>4, <2>5, <3>1 DEF Unrecorded, PutLine
    <3>3. QED
      BY <1>b, <3>2
  <2>6. CASE how = "whole" /\ torn
    <3>1. UNCHANGED faults /\ torn' = FALSE
      BY <2>1, <2>6 DEF PutLine
    <3>2. IsFiniteSet(Unrecorded') /\ Cardinality(Unrecorded') <= Cardinality(Unrecorded) + 1
          /\ Cardinality(Unrecorded') \in Nat
      BY <2>4, OneMore DEF Losses
    <3>3. QED
      BY <1>a, <2>6, <3>1, <3>2 DEF Losses
  <2>7. CASE how # "whole"
    BY <1>c, <2>1, <2>4, <2>7
  <2>8. QED
    BY <2>5, <2>6, <2>7
<1>2. ASSUME \A c \in Calls : ~Record(c)
      PROVE  Losses'
  <2>1. \A c \in Calls : /\ phase'[c] = "answered" => phase[c] = "answered"
                         /\ phase[c] = "answered" => Line(c)' = Line(c)
    BY <1>2, LinesStand
  <2>2. ASSUME \A c \in Calls : phase[c] = "answered" => entry'[c] = entry[c]
        PROVE  Unrecorded' \subseteq Unrecorded
    BY <2>1, <2>2 DEF Unrecorded
  <2>3. ASSUME NEW c \in Calls, HangUp(c)
        PROVE  Losses'
    <3>1. PICK how \in {"whole", "none"} : PutLine(c, how)
      BY <2>3 DEF HangUp
    <3>2. phase[c] # "answered" /\ \A d \in Calls \ {c} : entry'[d] = entry[d]
      BY <2>3, <3>1 DEF HangUp, PutLine, TypeOK
    <3>3. UNCHANGED faults /\ (torn' => torn)
      BY <2>3, <3>1 DEF HangUp, PutLine
    <3>4. QED
      BY <1>b, <2>2, <3>2, <3>3
  <2>4. ASSUME Restart, NEW c \in Calls, PutLine(c, "cut"), faults' = faults + 1
        PROVE  Losses'
    <3>1. UNCHANGED entry
      BY <2>4 DEF PutLine
    <3>2. QED
      BY <1>c, <2>2, <2>4, <3>1
  <2>5. ASSUME UNCHANGED <<entry, torn, faults>>
        PROVE  Losses'
    BY <1>b, <2>2, <2>5
  <2>6. (\E c \in Calls : HangUp(c)) \/ Restart \/ UNCHANGED <<entry, torn, faults>>
    BY <1>2 DEF Next, Handshake, Present, Serve, Work, TurnAway, UserAnswers, Proceed, Pass,
         gateVars, Quiescent, vars
  <2>7. QED
    BY <2>3, <2>4, <2>5, <2>6 DEF Restart
<1>3. QED
  BY <1>1, <1>2

-----------------------------------------------------------------------------
(* The buckets                                                             *)

\* The store never gets a token back that it has lost.
LEMMA RetiredStays ==
  ASSUME TypeOK, [Next]_vars, NEW k \in Keys, Retired(k)
  PROVE  Retired(k)'
<1>a. k \in Calls /\ Keys \subseteq Calls /\ Requests \subseteq Calls /\ k \notin Requests
  BY GatewayAssumption DEF Calls
<1>b. /\ \A code \in {"ok", "bad_request", "unauthorized", "origin_not_allowed", "scope_denied",
                       "consent_denied", "rate_limited", "internal"} : code \in Codes
      /\ \A to \in {"checking", "running", "answered", "gone"} : to \in Phase
  BY DEF Codes, Phase
<1>1. ASSUME NEW h \in Keys, Handshake(h)
      PROVE  Retired(k)'
  <2>1. h # k
    BY <1>1 DEF Handshake, Retired
  <2>2. (\E code \in Codes : Reply(h, code)) \/ OpenDialog(h)
    BY <1>1, <1>b DEF Handshake
  <2>3. phase'[k] = phase[k]
    BY <1>a, <2>1, <2>2, CallReplies, DialogOpens
  <2>4. tokens'[k] = tokens[k]
    BY <1>1, <2>1 DEF Handshake, Issue, TypeOK
  <2>5. QED
    BY <2>3, <2>4 DEF Retired
<1>2. ASSUME NEW r \in Requests, Present(r)
      PROVE  Retired(k)'
  BY <1>2, <1>a DEF Present, Go, Reply, Retired, TypeOK
<1>3. ASSUME NEW r \in Requests, Serve(r)
      PROVE  Retired(k)'
  BY <1>3, <1>a DEF Serve, Begin, OpenDialog, Go, Reply, Retired, TypeOK
<1>4. ASSUME NEW r \in Requests, Work(r)
      PROVE  Retired(k)'
  BY <1>4, <1>a DEF Work, Go, Reply, Retired, TypeOK
<1>5. ASSUME NEW c \in Calls, TurnAway(c)
      PROVE  Retired(k)'
  BY <1>5, <1>a DEF TurnAway, Go, Reply, Retired, TypeOK
<1>6. ASSUME NEW c \in Calls, UserAnswers(c)
      PROVE  Retired(k)'
  BY <1>6 DEF UserAnswers, Retired
<1>7. ASSUME NEW c \in Calls, Proceed(c)
      PROVE  Retired(k)'
  <2>1. c # k
    BY <1>7 DEF Proceed, Retired
  <2>2. \E code \in Codes : Reply(c, code)
    BY <1>7, <1>b DEF Proceed, Effect, KeychainFails
  <2>3. phase'[k] = phase[k]
    BY <1>a, <2>1, <2>2, CallReplies
  <2>4. tokens'[k] = tokens[k]
    BY <1>7, <2>1 DEF Proceed, Effect, KeychainFails, Issue, TypeOK
  <2>5. QED
    BY <2>3, <2>4 DEF Retired
<1>8. ASSUME NEW c \in Calls, Record(c) \/ HangUp(c)
      PROVE  Retired(k)'
  BY <1>8, <1>a DEF Record, HangUp, Go, Retired, TypeOK
<1>9. CASE Restart
  BY <1>9, <1>a DEF Restart, Retired, InService
<1>10. CASE Pass \/ UNCHANGED vars
  BY <1>10 DEF Pass, gateVars, vars, Retired
<1>11. QED
  BY <1>1, <1>2, <1>3, <1>4, <1>5, <1>6, <1>7, <1>8, <1>9, <1>10 DEF Next, Quiescent

\* A bucket that a verdict prunes, and grows, still tells of its requests.
LEMMA BucketChecked ==
  ASSUME LimiterTypeOK, Clock, NEW r \in Requests, Check(r),
         NEW f \in [1..Len(bucket[KeyOf[r]]) -> Requests],
         Stands(KeyOf[r], f), Gone(KeyOf[r], f)
  PROVE  \E g \in [1..Len(bucket'[KeyOf[r]]) -> Requests] :
           Stands(KeyOf[r], g)' /\ Gone(KeyOf[r], g)'
<1> DEFINE k == KeyOf[r]
           q == bucket[k]
           kept == Pruned(q, stamp[r] - Window)
<1>1. /\ k \in Keys /\ q \in Seq(Nat) /\ now \in Nat /\ MaxSkew \in Nat /\ Window \in Nat
      /\ \A x \in Requests : stamp[x] \in Nat /\ entered[x] \in Nat
      /\ stamp[r] - Window \in Int
  BY LimiterAssumption DEF LimiterTypeOK
<1>2. PICK n \in 0..Len(q) :
        /\ kept \in Seq(Nat)
        /\ Len(kept) = Len(q) - n
        /\ \A i \in 1..Len(q) - n : kept[i] = q[i + n]
        /\ \A j \in 1..n : q[j] < stamp[r] - Window
  BY <1>1, PrunedProperties
<1>3. /\ step[r] = "stamped"
      /\ \A x \in Requests \ {r} : step'[x] = step[x]
      /\ UNCHANGED <<now, stamp>>
      /\ \/ step'[r] = "limited" /\ bucket'[k] = kept
         \/ step'[r] = "admitted" /\ bucket'[k] = Append(kept, stamp[r])
  BY CheckProperties
<1>l. Len(q) \in Nat
  BY <1>1
<1>m. PICK m \in Nat : m = Len(q) - n
  <2>1. Len(q) - n \in Nat
    BY <1>l
  <2>2. QED
    BY <2>1
<1>4. Len(q) \in Nat /\ n \in Nat /\ Len(q) = m + n /\ Len(kept) = m
  BY <1>1, <1>2, <1>m
<1>5. /\ \A i \in 1..Len(q) : /\ f[i] \in Requests /\ f[i] # r
                              /\ KeyOf[f[i]] = k /\ step[f[i]] = "admitted"
                              /\ step'[f[i]] = "admitted" /\ stamp'[f[i]] = q[i]
      /\ \A i, j \in 1..Len(q) : f[i] = f[j] => i = j
      /\ \A i, j \in 1..Len(q) : i < j => q[i] <= q[j] + MaxSkew
  BY <1>3 DEF Stands
<1>6. stamp[r] <= now /\ now <= stamp[r] + MaxSkew
  BY <1>3 DEF Clock
\* Whoever lost its entry had been admitted before the window.
<1>7. ASSUME NEW x \in Requests, x # r, KeyOf[x] = k, step'[x] = "admitted",
             \A i \in 1..m : f[i + n] # x
      PROVE  stamp'[x] + Window < now'
  <2>1. step[x] = "admitted" /\ stamp'[x] = stamp[x] /\ now' = now
    BY <1>3, <1>7
  <2>2. CASE \A i \in 1..Len(q) : f[i] # x
    BY <1>7, <2>1, <2>2 DEF Gone
  <2>3. ASSUME NEW i \in 1..Len(q), f[i] = x
        PROVE  stamp'[x] + Window < now'
    <3>1. i \in 1..n
      <4>1. CASE i > n
        <5>1. i - n \in 1..m /\ (i - n) + n = i
          BY <1>4, <4>1
        <5>2. QED
          BY <1>7, <2>3, <5>1
      <4>2. QED
        BY <1>4, <4>1
    <3>2. stamp[x] < stamp[r] - Window
      BY <1>2, <1>5, <2>1, <2>3, <3>1
    <3>3. QED
      BY <1>1, <1>6, <2>1, <3>2
  <2>4. QED
    BY <2>2, <2>3
<1>8. CASE step'[r] = "limited" /\ bucket'[k] = kept
  <2>1. Len(bucket'[k]) = m /\ \A i \in 1..m : bucket'[k][i] = q[i + n]
    BY <1>2, <1>4, <1>8
  <2>2. \A i \in 1..m : i + n \in 1..Len(q)
    BY <1>4
  <2>3. PICK g \in [1..m -> Requests] : \A i \in 1..m : g[i] = f[i + n]
    <3>1. [i \in 1..m |-> f[i + n]] \in [1..m -> Requests]
      BY <1>5, <2>2
    <3>2. QED
      BY <3>1
  <2> HIDE DEF q, kept
  <2>4. \A i, j \in 1..m : g[i] = g[j] => i = j
    <3>1. ASSUME NEW i \in 1..m, NEW j \in 1..m, g[i] = g[j]
          PROVE  i = j
      <4>1. i + n = j + n
        <5>1. f[i + n] = f[j + n] /\ i + n \in 1..Len(q) /\ j + n \in 1..Len(q)
          BY <2>2, <2>3, <3>1
        <5>2. \A x, y \in 1..Len(q) : f[x] = f[y] => x = y
          BY <1>5
        <5>3. QED
          BY ONLY <5>1, <5>2, Zenon
      <4>2. QED
        BY <1>4, <4>1
    <3>2. QED
      BY <3>1
  <2>5. \A i \in 1..m :
          KeyOf[g[i]] = k /\ step'[g[i]] = "admitted" /\ stamp'[g[i]] = bucket'[k][i]
    BY <1>5, <2>1, <2>2, <2>3
  <2>6. \A i, j \in 1..m : i < j => bucket'[k][i] <= bucket'[k][j] + MaxSkew
    <3>1. ASSUME NEW i \in 1..m, NEW j \in 1..m, i < j
          PROVE  q[i + n] <= q[j + n] + MaxSkew
      <4>1. i + n < j + n
        BY <1>4, <3>1
      <4>2. QED
        BY <1>5, <2>2, <4>1
    <3>2. QED
      BY <2>1, <3>1
  <2>7. Stands(k, g)'
    BY <2>1, <2>3, <2>4, <2>5, <2>6 DEF Stands
  <2>8. Gone(k, g)'
    <3>1. ASSUME NEW x \in Requests, KeyOf[x] = k, step'[x] = "admitted",
                 \A i \in 1..m : g[i] # x
          PROVE  stamp'[x] + Window < now'
      BY <1>7, <1>8, <2>2, <2>3, <3>1
    <3>2. QED
      BY <2>1, <3>1 DEF Gone
  <2>9. QED
    BY <2>1, <2>3, <2>7, <2>8 DEF k
<1>9. CASE step'[r] = "admitted" /\ bucket'[k] = Append(kept, stamp[r])
  <2>1. /\ Len(bucket'[k]) = m + 1
        /\ \A i \in 1..m : bucket'[k][i] = q[i + n]
        /\ bucket'[k][m + 1] = stamp[r]
    <3>1. /\ Len(bucket'[k]) = Len(kept) + 1
          /\ \A i \in 1..Len(kept) : bucket'[k][i] = kept[i]
          /\ bucket'[k][Len(kept) + 1] = stamp[r]
      BY <1>1, <1>2, <1>9, AppendProperties
    <3>2. QED
      BY <1>2, <1>4, <3>1
  <2>2. /\ \A i \in 1..m : i + n \in 1..Len(q) /\ i # m + 1 /\ i \in 1..m + 1
        /\ m + 1 \in 1..m + 1
        /\ \A i \in 1..m + 1 : i = m + 1 \/ i \in 1..m
    BY <1>4
  <2>3. PICK g \in [1..m + 1 -> Requests] : (\A i \in 1..m : g[i] = f[i + n]) /\ g[m + 1] = r
    <3> DEFINE h == [i \in 1..m + 1 |-> IF i = m + 1 THEN r ELSE f[i + n]]
    <3>1. h \in [1..m + 1 -> Requests]
      BY <1>5, <2>2
    <3>2. (\A i \in 1..m : h[i] = f[i + n]) /\ h[m + 1] = r
      BY <2>2
    <3>3. QED
      BY <3>1, <3>2
  <2> HIDE DEF q, kept
  <2>4. \A i, j \in 1..m + 1 : g[i] = g[j] => i = j
    <3>1. ASSUME NEW i \in 1..m, NEW j \in 1..m, g[i] = g[j]
          PROVE  i = j
      <4>1. i + n = j + n
        <5>1. f[i + n] = f[j + n] /\ i + n \in 1..Len(q) /\ j + n \in 1..Len(q)
          BY <2>2, <2>3, <3>1
        <5>2. \A x, y \in 1..Len(q) : f[x] = f[y] => x = y
          BY <1>5
        <5>3. QED
          BY ONLY <5>1, <5>2, Zenon
      <4>2. QED
        BY <1>4, <4>1
    <3>2. \A i \in 1..m : g[i] # r
      BY <1>5, <2>2, <2>3
    <3>3. QED
      BY <2>2, <2>3, <3>1, <3>2
  <2>5. \A i \in 1..m + 1 :
          KeyOf[g[i]] = k /\ step'[g[i]] = "admitted" /\ stamp'[g[i]] = bucket'[k][i]
    <3>1. \A i \in 1..m :
            KeyOf[g[i]] = k /\ step'[g[i]] = "admitted" /\ stamp'[g[i]] = bucket'[k][i]
      BY <1>5, <2>1, <2>2, <2>3
    <3>2. KeyOf[r] = k /\ stamp'[r] = stamp[r]
      BY <1>3 DEF k
    <3>3. QED
      BY <1>9, <2>1, <2>2, <2>3, <3>1, <3>2
  <2>6. \A i, j \in 1..m + 1 : i < j => bucket'[k][i] <= bucket'[k][j] + MaxSkew
    <3>1. ASSUME NEW i \in 1..m, NEW j \in 1..m, i < j
          PROVE  q[i + n] <= q[j + n] + MaxSkew
      <4>1. i + n < j + n
        BY <1>4, <3>1
      <4>2. QED
        BY <1>5, <2>2, <4>1
    <3>2. ASSUME NEW i \in 1..m
          PROVE  q[i + n] <= stamp[r] + MaxSkew
      <4>1. f[i + n] \in Requests /\ step[f[i + n]] = "admitted" /\ stamp[f[i + n]] = q[i + n]
        BY <1>3, <1>5, <2>2
      <4>2. stamp[f[i + n]] <= now
        <5>1. stamp[f[i + n]] <= entered[f[i + n]] /\ entered[f[i + n]] <= now
          BY <4>1 DEF Clock
        <5>2. QED
          BY <1>1, <4>1, <5>1
      <4>3. q[i + n] <= now /\ now <= stamp[r] + MaxSkew
        BY <1>6, <4>1, <4>2
      <4>4. q[i + n] \in Nat /\ now \in Nat /\ stamp[r] + MaxSkew \in Nat
        <5>1. now \in Nat /\ MaxSkew \in Nat
          BY <1>1
        <5>2. \A x \in Requests : stamp[x] \in Nat
          BY DEF LimiterTypeOK
        <5>3. stamp[f[i + n]] \in Nat /\ stamp[r] \in Nat
          BY <4>1, <5>2, Zenon
        <5>4. QED
          BY ONLY <4>1, <5>1, <5>3
      <4>5. QED
        BY ONLY <4>3, <4>4
    <3>3. \A i \in 1..m + 1 : ~(m + 1 < i)
      BY <1>4
    <3>4. QED
      BY <2>1, <2>2, <3>1, <3>2, <3>3
  <2>7. Stands(k, g)'
    BY <2>1, <2>3, <2>4, <2>5, <2>6 DEF Stands
  <2>8. Gone(k, g)'
    <3>1. ASSUME NEW x \in Requests, KeyOf[x] = k, step'[x] = "admitted",
                 \A i \in 1..m + 1 : g[i] # x
          PROVE  stamp'[x] + Window < now'
      <4>1. x # r /\ \A i \in 1..m : f[i + n] # x
        BY <1>4, <2>2, <2>3, <3>1
      <4>2. QED
        BY <1>7, <3>1, <4>1
    <3>2. QED
      BY <2>1, <3>1 DEF Gone
  <2>9. QED
    BY <2>1, <2>3, <2>7, <2>8 DEF k
<1>10. QED
  BY <1>3, <1>8, <1>9

\* A step that leaves a bucket alone, and the requests of its token too, leaves
\* what the bucket tells.
LEMMA BucketStays ==
  ASSUME LimiterTypeOK, NEW k \in Keys,
         bucket'[k] = bucket[k], now' \in Nat, now <= now',
         \A r \in Requests :
           /\ step[r] = "admitted" => step'[r] = "admitted" /\ stamp'[r] = stamp[r]
           /\ KeyOf[r] = k /\ step'[r] = "admitted" => step[r] = "admitted",
         NEW f \in [1..Len(bucket[k]) -> Requests], Stands(k, f), Gone(k, f)
  PROVE  \E g \in [1..Len(bucket'[k]) -> Requests] : Stands(k, g)' /\ Gone(k, g)'
<1>1. Stands(k, f)'
  BY DEF Stands
<1>2. Gone(k, f)'
  <2>1. ASSUME NEW r \in Requests, KeyOf[r] = k, step'[r] = "admitted",
               \A i \in 1..Len(bucket[k]) : f[i] # r
        PROVE  stamp'[r] + Window < now'
    <3>1. stamp[r] + Window < now /\ stamp'[r] = stamp[r]
      BY <2>1 DEF Gone
    <3>2. stamp[r] \in Nat /\ Window \in Nat /\ now \in Nat
      BY LimiterAssumption DEF LimiterTypeOK
    <3>3. QED
      BY <3>1, <3>2
  <2>2. QED
    BY <2>1 DEF Gone
<1>3. QED
  BY <1>1, <1>2

\* The bucket of a request that gets its verdict holds no more than the limit,
\* and tells of its requests.
LEMMA VerdictBucket ==
  ASSUME LimiterTypeOK, Store, Clock, Buckets, NEW r \in Requests, Check(r)
  PROVE  /\ Len(bucket'[KeyOf[r]]) <= Limit
         /\ \E g \in [1..Len(bucket'[KeyOf[r]]) -> Requests] :
              Stands(KeyOf[r], g)' /\ Gone(KeyOf[r], g)'
<1>1. KeyOf[r] \in Keys /\ Limit \in Nat /\ step[r] = "stamped"
  BY LimiterAssumption DEF Check
<1>2. ~Retired(KeyOf[r])
  BY <1>1 DEF Store, Retired
<1>3. PICK f \in [1..Len(bucket[KeyOf[r]]) -> Requests] :
        Stands(KeyOf[r], f) /\ Gone(KeyOf[r], f)
  BY <1>1, <1>2 DEF Buckets
<1>4. \E g \in [1..Len(bucket'[KeyOf[r]]) -> Requests] :
        Stands(KeyOf[r], g)' /\ Gone(KeyOf[r], g)'
  BY <1>3, BucketChecked
<1>5. Len(bucket'[KeyOf[r]]) <= Limit
  <2> DEFINE b == bucket[KeyOf[r]]
             kept == Pruned(b, stamp[r] - Window)
  <2>1. b \in Seq(Nat) /\ stamp[r] - Window \in Int /\ stamp[r] \in Nat
    BY <1>1, LimiterAssumption DEF LimiterTypeOK
  <2>2. Len(b) <= Limit
    BY <1>1 DEF Buckets
  <2>3. \/ bucket'[KeyOf[r]] = kept
        \/ Len(kept) < Limit /\ bucket'[KeyOf[r]] = Append(kept, stamp[r])
    BY CheckProperties
  <2>4. PICK n \in 0..Len(b) : kept \in Seq(Nat) /\ Len(kept) = Len(b) - n
    BY <2>1, PrunedProperties
  <2> HIDE DEF b, kept
  <2>5. Len(kept) \in Nat /\ Len(kept) <= Len(b) /\ Len(b) \in Nat
    BY <2>1, <2>4
  <2>6. Len(Append(kept, stamp[r])) = Len(kept) + 1
    BY <2>1, <2>4, AppendProperties
  <2>7. QED
    BY <1>1, <2>2, <2>3, <2>5, <2>6
<1>6. QED
  BY <1>4, <1>5

\* A step keeps what the buckets tell of the requests.
LEMMA BucketsStep == TypeOK /\ Store /\ Clock /\ Buckets /\ [Next]_vars => Buckets'
<1> SUFFICES ASSUME TypeOK, Store, Clock, Buckets, [Next]_vars
             PROVE  Buckets'
  OBVIOUS
<1>a. LimiterTypeOK /\ Limit \in Nat /\ \A r \in Requests : KeyOf[r] \in Keys
  BY LimiterAssumption DEF TypeOK
<1>b. ASSUME NEW k \in Keys,
             bucket'[k] = bucket[k], now' \in Nat, now <= now',
             \A r \in Requests :
               /\ step[r] = "admitted" => step'[r] = "admitted" /\ stamp'[r] = stamp[r]
               /\ KeyOf[r] = k /\ step'[r] = "admitted" => step[r] = "admitted"
      PROVE  /\ Len(bucket'[k]) <= Limit
             /\ Retired(k)' \/ \E g \in [1..Len(bucket'[k]) -> Requests] :
                                 Stands(k, g)' /\ Gone(k, g)'
  <2>1. CASE Retired(k)
    BY <1>b, <2>1, RetiredStays DEF Buckets
  <2>2. CASE ~Retired(k)
    <3>1. PICK f \in [1..Len(bucket[k]) -> Requests] : Stands(k, f) /\ Gone(k, f)
      BY <2>2 DEF Buckets
    <3>2. QED
      BY <1>a, <1>b, <3>1, BucketStays DEF Buckets
  <2>3. QED
    BY <2>1, <2>2
<1>1. CASE UNCHANGED limiterVars
  <2>1. ASSUME NEW k \in Keys
        PROVE  /\ bucket'[k] = bucket[k] /\ now' \in Nat /\ now <= now'
               /\ \A r \in Requests :
                    /\ step[r] = "admitted" => step'[r] = "admitted" /\ stamp'[r] = stamp[r]
                    /\ KeyOf[r] = k /\ step'[r] = "admitted" => step[r] = "admitted"
    BY <1>1, <1>a DEF limiterVars, LimiterTypeOK
  <2>2. QED
    BY <1>b, <2>1 DEF Buckets
<1>2. ASSUME NEW q \in Requests, Stamp(q)
      PROVE  Buckets'
  <2>1. ASSUME NEW k \in Keys
        PROVE  /\ bucket'[k] = bucket[k] /\ now' \in Nat /\ now <= now'
               /\ \A r \in Requests :
                    /\ step[r] = "admitted" => step'[r] = "admitted" /\ stamp'[r] = stamp[r]
                    /\ KeyOf[r] = k /\ step'[r] = "admitted" => step[r] = "admitted"
    BY <1>2, <1>a DEF Stamp, LimiterTypeOK
  <2>2. QED
    BY <1>b, <2>1 DEF Buckets
<1>3. ASSUME NEW q \in Requests, Check(q)
      PROVE  Buckets'
  <2>1. /\ step[q] = "stamped"
        /\ \A x \in Requests \ {q} : step'[x] = step[x]
        /\ UNCHANGED <<now, stamp>>
        /\ \A k \in Keys \ {KeyOf[q]} : bucket'[k] = bucket[k]
    BY <1>3, <1>a, CheckProperties
  <2>2. ASSUME NEW k \in Keys \ {KeyOf[q]}
        PROVE  /\ bucket'[k] = bucket[k] /\ now' \in Nat /\ now <= now'
               /\ \A r \in Requests :
                    /\ step[r] = "admitted" => step'[r] = "admitted" /\ stamp'[r] = stamp[r]
                    /\ KeyOf[r] = k /\ step'[r] = "admitted" => step[r] = "admitted"
    BY <1>a, <2>1 DEF LimiterTypeOK
  <2>3. QED
    BY <1>3, <1>a, <1>b, <2>2, VerdictBucket DEF Buckets
<1>4. CASE Restart
  <2>1. ASSUME NEW k \in Keys
        PROVE  /\ Len(bucket'[k]) = 0
               /\ Retired(k)' \/ \E g \in [1..Len(bucket'[k]) -> Requests] :
                                   Stands(k, g)' /\ Gone(k, g)'
    <3>1. bucket'[k] = <<>> /\ Len(bucket'[k]) = 0 /\ 1..Len(bucket'[k]) = {}
      BY <1>4 DEF Restart
    <3>2. CASE phase[k] = "idle"
      <4>1. \A r \in Requests : KeyOf[r] = k => step'[r] # "admitted"
        BY <1>4, <3>2 DEF Restart, Store
      <4>2. PICK g \in [{} -> Requests] : TRUE
        <5>1. [i \in {} |-> CHOOSE r \in Requests : TRUE] \in [{} -> Requests]
          OBVIOUS
        <5>2. QED
          BY <5>1
      <4>3. Stands(k, g)' /\ Gone(k, g)'
        BY <3>1, <4>1, <4>2 DEF Stands, Gone
      <4>4. QED
        BY <3>1, <4>3
    <3>3. CASE phase[k] # "idle"
      BY <1>4, <3>1, <3>3 DEF Restart, Retired, InService, Calls
    <3>4. QED
      BY <3>2, <3>3
  <2>2. QED
    BY <1>a, <2>1 DEF Buckets
<1>5. CASE Tick
  <2>1. ASSUME NEW k \in Keys
        PROVE  /\ bucket'[k] = bucket[k] /\ now' \in Nat /\ now <= now'
               /\ \A r \in Requests :
                    /\ step[r] = "admitted" => step'[r] = "admitted" /\ stamp'[r] = stamp[r]
                    /\ KeyOf[r] = k /\ step'[r] = "admitted" => step[r] = "admitted"
    BY <1>5, <1>a DEF Tick, LimiterTypeOK
  <2>2. QED
    BY <1>b, <2>1 DEF Buckets
<1>6. QED
  BY <1>1, <1>2, <1>3, <1>4, <1>5, StepsOfTheLimiter DEF LimiterNext

-----------------------------------------------------------------------------
(* The verdicts                                                            *)

\* A set that n indices reach has at most n elements.
LEMMA ReachedByIndices ==
  ASSUME NEW n \in Nat, NEW S, NEW f \in [1..n -> S], NEW T,
         \A x \in T : \E i \in 1..n : f[i] = x
  PROVE  Cardinality(T) \in Nat /\ Cardinality(T) <= n
<1> DEFINE R == {f[i] : i \in 1..n}
           g == [i \in 1..n |-> f[i]]
<1>1. IsFiniteSet(1..n) /\ Cardinality(1..n) = n
  BY FS_Interval
<1>2. g \in Surjection(1..n, R)
  BY DEF Surjection
<1>3. IsFiniteSet(R) /\ Cardinality(R) <= n
  BY <1>1, <1>2, FS_Surjection
<1>4. T \subseteq R
  OBVIOUS
<1>5. IsFiniteSet(T) /\ Cardinality(T) <= Cardinality(R)
  BY <1>3, <1>4, FS_Subset
<1>6. Cardinality(R) \in Nat /\ Cardinality(T) \in Nat
  BY <1>3, <1>5, FS_CardinalityType
<1> HIDE DEF R
<1>7. QED
  BY <1>3, <1>5, <1>6

\* A set that n indices reach, no two of them the same element, has at least n.
LEMMA ReachedByDistinctIndices ==
  ASSUME NEW n \in Nat, NEW S, NEW f \in [1..n -> S], NEW T, IsFiniteSet(T),
         \A i \in 1..n : f[i] \in T,
         \A i, j \in 1..n : f[i] = f[j] => i = j
  PROVE  n <= Cardinality(T) /\ Cardinality(T) \in Nat
<1>1. IsFiniteSet(1..n) /\ Cardinality(1..n) = n
  BY FS_Interval
<1>2. f \in [1..n -> T]
  OBVIOUS
<1>3. f \in Injection(1..n, T)
  BY <1>2 DEF Injection, IsInjective
<1>4. Cardinality(1..n) <= Cardinality(T)
  BY <1>3, FS_Injection
<1>5. QED
  BY <1>1, <1>4, FS_CardinalityType

\* The requests that were let through.
Through == {r \in Requests : step[r] = "admitted"}

\* The requests that filled the bucket that refused r.
Fillers(r) ==
  {q \in Requests :
    /\ KeyOf[q] = KeyOf[r] /\ step[q] = "admitted"
    /\ stamp[q] >= stamp[r] - Window - MaxSkew}

\* As long as no more requests are let through and the clock goes on, the rate
\* holds.
LEMMA RateStays ==
  ASSUME LimiterTypeOK, Clock, Verdicts, now' = now \/ now' = now + 1,
         \A r \in Requests :
           /\ step'[r] = "admitted" <=> step[r] = "admitted"
           /\ step[r] = "admitted" => entered'[r] = entered[r]
  PROVE  RateHolds'
<1>1. SUFFICES ASSUME NEW k \in Keys, NEW t \in 0..now'
               PROVE  Cardinality(Admitted(k, t, t + Window - MaxSkew)') <= Limit
  BY DEF RateHolds
<1>2. Admitted(k, t, t + Window - MaxSkew)' = Admitted(k, t, t + Window - MaxSkew)
  BY DEF Admitted
<1>3. CASE t \in 0..now
  BY <1>2, <1>3 DEF Verdicts, RateHolds
<1>4. CASE t \notin 0..now
  <2>1. t = now + 1 /\ now \in Nat
    BY <1>4 DEF LimiterTypeOK
  <2>2. \A r \in Requests : step[r] = "admitted" => entered[r] <= now /\ entered[r] \in Nat
    BY DEF Clock, LimiterTypeOK
  <2>3. \A r \in Requests : step[r] = "admitted" => ~(entered[r] >= t)
    BY <2>1, <2>2
  <2>4. Admitted(k, t, t + Window - MaxSkew) = {}
    BY <2>1, <2>2, <2>3, LimiterAssumption DEF Admitted
  <2>5. QED
    BY <1>2, <2>4, FS_EmptySet, LimiterAssumption
<1>5. QED
  BY <1>3, <1>4

\* As long as the refused stay the same, and those let through stay so, every
\* refusal stays due.
LEMMA RefusalsStay ==
  ASSUME NEW r \in Requests, IsFiniteSet(Through'),
         Cardinality(Fillers(r)) >= Limit,
         stamp'[r] = stamp[r],
         \A q \in Requests : step[q] = "admitted" => step'[q] = "admitted" /\ stamp'[q] = stamp[q]
  PROVE  Cardinality(Fillers(r)') >= Limit
<1>1. Fillers(r) \subseteq Fillers(r)' /\ Fillers(r)' \subseteq Through'
  BY DEF Fillers, Through
<1>2. IsFiniteSet(Fillers(r)')
  BY <1>1, FS_Subset
<1>3. /\ IsFiniteSet(Fillers(r))
      /\ Cardinality(Fillers(r)) <= Cardinality(Fillers(r)')
  BY <1>1, <1>2, FS_Subset
<1>4. Cardinality(Fillers(r)) \in Nat /\ Cardinality(Fillers(r)') \in Nat /\ Limit \in Nat
  BY <1>2, <1>3, FS_CardinalityType, LimiterAssumption
<1>5. QED
  BY <1>3, <1>4

\* A request that is let through is one of at most as many as its bucket holds,
\* in every interval shorter than the window by the delay of the lock.
LEMMA RateOfVerdict ==
  ASSUME LimiterTypeOK, Store, Clock, Clock', LimiterTypeOK', Buckets, Verdicts,
         NEW r \in Requests, Check(r), step'[r] = "admitted"
  PROVE  RateHolds'
<1>a. /\ step[r] = "stamped" /\ entered'[r] = now /\ UNCHANGED <<now, stamp>>
      /\ \A x \in Requests \ {r} : step'[x] = step[x] /\ entered'[x] = entered[x]
  BY CheckProperties
<1>b. /\ now \in Nat /\ Window \in Nat /\ MaxSkew \in Nat /\ Limit \in Nat
      /\ \A x \in Requests : stamp'[x] \in Nat /\ entered'[x] \in Nat
  BY LimiterAssumption DEF LimiterTypeOK
<1>1. SUFFICES ASSUME NEW k \in Keys, NEW t \in 0..now
               PROVE  Cardinality(Admitted(k, t, t + Window - MaxSkew)') <= Limit
  BY <1>a DEF RateHolds
<1>2. CASE r \notin Admitted(k, t, t + Window - MaxSkew)'
  <2>1. Admitted(k, t, t + Window - MaxSkew)' = Admitted(k, t, t + Window - MaxSkew)
    BY <1>2, <1>a DEF Admitted
  <2>2. QED
    BY <2>1 DEF Verdicts, RateHolds
<1>3. CASE r \in Admitted(k, t, t + Window - MaxSkew)'
  <2>1. KeyOf[r] = k /\ now <= t + Window - MaxSkew
    BY <1>3, <1>a, <1>b DEF Admitted
  <2>2. PICK g \in [1..Len(bucket'[k]) -> Requests] : Stands(k, g)' /\ Gone(k, g)'
    BY <2>1, VerdictBucket
  <2>3. ASSUME NEW x \in Admitted(k, t, t + Window - MaxSkew)'
        PROVE  \E i \in 1..Len(bucket'[k]) : g[i] = x
    <3>1. x \in Requests /\ KeyOf[x] = k /\ step'[x] = "admitted" /\ t <= entered'[x]
      BY <1>b DEF Admitted
    <3>2. entered'[x] <= stamp'[x] + MaxSkew
      BY <3>1 DEF Clock
    <3>3. ~(stamp'[x] + Window < now')
      BY <1>a, <1>b, <2>1, <3>1, <3>2
    <3>4. QED
      BY <2>2, <3>1, <3>3 DEF Gone
  <2>4. Len(bucket'[k]) \in Nat /\ Len(bucket'[k]) <= Limit
    <3>1. Len(bucket'[k]) <= Limit
      BY <2>1, VerdictBucket
    <3>2. bucket'[k] \in Seq(Nat)
      BY DEF LimiterTypeOK
    <3>3. QED
      BY <3>1, <3>2
  <2>5. /\ Cardinality(Admitted(k, t, t + Window - MaxSkew)') <= Len(bucket'[k])
        /\ Cardinality(Admitted(k, t, t + Window - MaxSkew)') \in Nat
    BY <2>2, <2>3, <2>4, ReachedByIndices, Zenon
  <2>6. QED
    BY <1>b, <2>4, <2>5
<1>4. QED
  BY <1>2, <1>3

\* A request that is refused finds its bucket full of requests that were let
\* through within the window before it and the delay of the lock.
LEMMA RefusalOfVerdict ==
  ASSUME LimiterTypeOK, LimiterTypeOK', Store, Clock, Buckets, IsFiniteSet(Through'),
         NEW r \in Requests, Check(r), step'[r] = "limited"
  PROVE  Cardinality(Fillers(r)') >= Limit
<1> DEFINE k == KeyOf[r]
<1>a. /\ k \in Keys /\ bucket[k] \in Seq(Nat) /\ bucket'[k] \in Seq(Nat)
      /\ stamp[r] - Window \in Int /\ Limit \in Nat \ {0} /\ MaxSkew \in Nat /\ Window \in Nat
      /\ stamp[r] \in Nat /\ stamp'[r] = stamp[r]
  <2>1. k \in Keys
    BY LimiterAssumption
  <2>2. bucket[k] \in Seq(Nat) /\ bucket'[k] \in Seq(Nat)
    BY <2>1 DEF LimiterTypeOK
  <2>3. stamp[r] \in Nat
    BY DEF LimiterTypeOK
  <2>4. stamp'[r] = stamp[r]
    BY DEF Check
  <2>5. QED
    BY <2>1, <2>2, <2>3, <2>4, LimiterAssumption
<1>b. Len(bucket'[k]) >= Limit /\ bucket'[k] = Pruned(bucket[k], stamp[r] - Window)
  BY CheckProperties
<1>c. PICK g \in [1..Len(bucket'[k]) -> Requests] : Stands(k, g)' /\ Gone(k, g)'
  BY VerdictBucket
<1>d. bucket'[k][1] >= stamp[r] - Window
  <2> DEFINE kept == Pruned(bucket[k], stamp[r] - Window)
  <2>1. PICK n \in 0..Len(bucket[k]) :
          /\ Len(kept) = Len(bucket[k]) - n
          /\ \A i \in 1..Len(bucket[k]) - n : kept[i] = bucket[k][i + n]
          /\ n < Len(bucket[k]) => bucket[k][n + 1] >= stamp[r] - Window
    BY <1>a, PrunedProperties
  <2>k. bucket'[k] = kept
    BY <1>b
  <2> HIDE DEF kept
  <2>2. Len(bucket[k]) \in Nat
    BY <1>a
  <2>3. 1 \in 1..Len(bucket[k]) - n /\ n < Len(bucket[k]) /\ 1 + n = n + 1
    <3>1. Len(kept) >= Limit /\ Limit \in Nat \ {0}
      BY <1>a, <1>b, <2>k
    <3>2. n \in Nat /\ Len(kept) = Len(bucket[k]) - n
      BY <2>1, <2>2
    <3>3. QED
      BY ONLY <2>2, <3>1, <3>2
  <2>4. kept[1] = bucket[k][n + 1] /\ bucket[k][n + 1] >= stamp[r] - Window
    BY ONLY <2>1, <2>3
  <2>5. QED
    BY ONLY <2>4, <2>k
<1>e. Len(bucket'[k]) \in Nat /\ \A i \in 1..Len(bucket'[k]) : bucket'[k][i] \in Nat
  <2>1. bucket'[k] \in Seq(Nat)
    BY <1>a
  <2>2. QED
    BY ONLY <2>1
<1> HIDE DEF k
<1>1. ASSUME NEW i \in 1..Len(bucket'[k])
      PROVE  g[i] \in Fillers(r)'
  <2>1. g[i] \in Requests /\ KeyOf[g[i]] = k /\ step'[g[i]] = "admitted"
        /\ stamp'[g[i]] = bucket'[k][i]
    BY <1>c DEF Stands
  <2>2. bucket'[k][1] <= bucket'[k][i] + MaxSkew
    <3>1. CASE i = 1
      BY <1>a, <1>e, <3>1
    <3>2. CASE i # 1
      <4>1. 1 < i /\ 1 \in 1..Len(bucket'[k])
        BY <1>e, <3>2
      <4>2. QED
        BY <1>c, <4>1 DEF Stands
    <3>3. QED
      BY <3>1, <3>2
  <2>3. 1 \in 1..Len(bucket'[k])
    BY <1>e
  <2>4. bucket'[k][i] >= stamp[r] - Window - MaxSkew
    <3>1. bucket'[k][1] \in Nat /\ bucket'[k][i] \in Nat
      BY <1>e, <2>3
    <3>2. stamp[r] \in Nat /\ Window \in Nat /\ MaxSkew \in Nat
      BY <1>a
    <3>3. QED
      BY ONLY <1>d, <2>2, <3>1, <3>2
  <2>5. QED
    BY <1>a, <2>1, <2>4 DEF Fillers, k
<1>2. IsFiniteSet(Fillers(r)')
  <2>1. Fillers(r)' \subseteq Through'
    BY DEF Fillers, Through
  <2>2. QED
    BY <2>1, FS_Subset
<1>3. \A i, j \in 1..Len(bucket'[k]) : g[i] = g[j] => i = j
  BY <1>c DEF Stands
<1>4. Len(bucket'[k]) <= Cardinality(Fillers(r)') /\ Cardinality(Fillers(r)') \in Nat
  BY <1>1, <1>2, <1>3, <1>c, <1>e, ReachedByDistinctIndices, Zenon
<1>5. Limit \in Nat /\ Len(bucket'[k]) \in Nat /\ Len(bucket'[k]) >= Limit
  BY <1>a, <1>b, <1>e
<1>6. QED
  BY ONLY <1>4, <1>5

\* A step keeps the verdicts right.
LEMMA VerdictsStep ==
  TypeOK /\ TypeOK' /\ Store /\ Clock /\ Clock' /\ Buckets /\ Verdicts /\ [Next]_vars => Verdicts'
<1> SUFFICES ASSUME TypeOK, TypeOK', Store, Clock, Clock', Buckets, Verdicts, [Next]_vars
             PROVE  Verdicts'
  OBVIOUS
<1>a. LimiterTypeOK /\ LimiterTypeOK' /\ IsFiniteSet(Through)
  BY DEF TypeOK, Verdicts, Through
<1>b. \A r \in Requests : step[r] = "limited" => Cardinality(Fillers(r)) >= Limit
  BY DEF Verdicts, RefusalsAreDue, Fillers
<1>c. ASSUME now' = now \/ now' = now + 1,
             \A r \in Requests :
               /\ step'[r] = "admitted" <=> step[r] = "admitted"
               /\ step'[r] = "limited" <=> step[r] = "limited"
               /\ step[r] = "admitted" => entered'[r] = entered[r]
               /\ step[r] \in {"admitted", "limited"} => stamp'[r] = stamp[r]
      PROVE  Verdicts'
  <2>1. Through' = Through
    BY <1>c DEF Through
  <2>2. RateHolds'
    BY <1>a, <1>c, RateStays
  <2>3. \A r \in Requests : step'[r] = "limited" => Cardinality(Fillers(r)') >= Limit
    BY <1>a, <1>b, <1>c, <2>1, RefusalsStay
  <2>4. RefusalsAreDue'
    BY <2>3 DEF RefusalsAreDue, Fillers
  <2>5. QED
    BY <1>a, <2>1, <2>2, <2>4 DEF Verdicts, Through
<1>1. CASE UNCHANGED limiterVars
  BY <1>1, <1>c DEF limiterVars
<1>2. ASSUME NEW r \in Requests, Stamp(r)
      PROVE  Verdicts'
  BY <1>2, <1>a, <1>c DEF Stamp, LimiterTypeOK
<1>3. ASSUME NEW r \in Requests, Check(r)
      PROVE  Verdicts'
  <2>1. /\ step[r] = "stamped" /\ step'[r] \in {"admitted", "limited"}
        /\ UNCHANGED <<now, stamp>>
        /\ \A x \in Requests \ {r} : step'[x] = step[x] /\ entered'[x] = entered[x]
    BY <1>3, <1>a, CheckProperties
  <2>2. IsFiniteSet(Through')
    <3>1. Through' \subseteq Through \cup {r}
      BY <2>1 DEF Through
    <3>2. QED
      BY <1>a, <3>1, OneMore
  <2>3. RateHolds'
    <3>1. CASE step'[r] = "admitted"
      BY <1>3, <1>a, <3>1, RateOfVerdict
    <3>2. CASE step'[r] = "limited"
      BY <1>a, <2>1, <3>2, RateStays
    <3>3. QED
      BY <2>1, <3>1, <3>2
  <2>4. ASSUME NEW q \in Requests, step'[q] = "limited"
        PROVE  Cardinality(Fillers(q)') >= Limit
    <3>1. CASE q = r
      BY <1>3, <1>a, <2>2, <2>4, <3>1, RefusalOfVerdict
    <3>2. CASE q # r
      <4>1. step[q] = "limited" /\ stamp'[q] = stamp[q]
        BY <2>1, <2>4, <3>2
      <4>2. \A x \in Requests : step[x] = "admitted" => step'[x] = "admitted" /\ stamp'[x] = stamp[x]
        BY <2>1
      <4>3. QED
        BY <1>b, <2>2, <4>1, <4>2, RefusalsStay
    <3>3. QED
      BY <3>1, <3>2
  <2>5. RefusalsAreDue'
    BY <2>4 DEF RefusalsAreDue, Fillers
  <2>6. QED
    BY <2>2, <2>3, <2>5 DEF Verdicts, Through
<1>4. CASE Restart
  BY <1>4, <1>c DEF Restart
<1>5. CASE Tick
  BY <1>5, <1>c DEF Tick
<1>6. QED
  BY <1>1, <1>2, <1>3, <1>4, <1>5, StepsOfTheLimiter DEF LimiterNext

-----------------------------------------------------------------------------
(* The inductive invariant                                                 *)

\* It holds when the launcher has started.
LEMMA Initially == Init => IInv
<1> SUFFICES ASSUME Init
             PROVE  IInv
  OBVIOUS
<1> USE LimiterAssumption, GatewayAssumption
<1>a. Keys \subseteq Calls /\ Requests \subseteq Calls
  BY DEF Calls
<1>1. TypeOK
  <2>1. LimiterTypeOK
    <3>1. bucket \in [Keys -> Seq(Nat)]
      BY EmptySeq DEF Init, LimiterInit
    <3>2. QED
      BY <3>1 DEF Init, LimiterInit, LimiterTypeOK
  <2>2. phase \in [Calls -> Phase] /\ dialog \in [Calls -> Dialog]
    BY DEF Init, Phase, Dialog
  <2>3. faults \in 0..MaxFaults /\ restarts \in 0..MaxRestarts
    BY DEF Init
  <2>4. QED
    BY <2>1, <2>2, <2>3 DEF Init, TypeOK
<1>2. Decided /\ Store /\ Granted /\ Clock
  BY <1>a DEF Init, LimiterInit, Decided, Store, Granted, Clock
<1>3. Losses
  <2>1. Unrecorded = {}
    BY DEF Init, Unrecorded
  <2>2. torn = FALSE /\ faults = 0
    BY DEF Init
  <2>3. QED
    BY <2>1, <2>2, FS_EmptySet DEF Losses
<1>4. Buckets
  <2>1. ASSUME NEW k \in Keys
        PROVE  /\ Len(bucket[k]) = 0
               /\ \E f \in [1..Len(bucket[k]) -> Requests] : Stands(k, f) /\ Gone(k, f)
    <3>1. bucket[k] = <<>> /\ Len(bucket[k]) = 0 /\ 1..Len(bucket[k]) = {}
      BY DEF Init, LimiterInit
    <3>2. \A r \in Requests : step[r] = "idle"
      BY DEF Init, LimiterInit
    <3>3. PICK f \in [{} -> Requests] : TRUE
      <4>1. [i \in {} |-> CHOOSE r \in Requests : TRUE] \in [{} -> Requests]
        OBVIOUS
      <4>2. QED
        BY <4>1
    <3>4. Stands(k, f) /\ Gone(k, f)
      BY <3>1, <3>2, <3>3 DEF Stands, Gone
    <3>5. QED
      BY <3>1, <3>4
  <2>2. QED
    BY <2>1 DEF Buckets
<1>5. Verdicts
  <2>1. \A r \in Requests : step[r] = "idle"
    BY DEF Init, LimiterInit
  <2>2. {r \in Requests : step[r] = "admitted"} = {}
    BY <2>1
  <2>3. \A k \in Keys : \A t \in 0..now : Admitted(k, t, t + Window - MaxSkew) = {}
    BY <2>1 DEF Admitted
  <2>4. RateHolds
    <3>1. Cardinality({}) = 0 /\ 0 <= Limit
      BY FS_EmptySet, LimiterAssumption
    <3>2. \A k \in Keys : \A t \in 0..now : Cardinality(Admitted(k, t, t + Window - MaxSkew)) <= Limit
      BY ONLY <2>3, <3>1
    <3>3. QED
      BY ONLY <3>2 DEF RateHolds
  <2>5. QED
    BY <2>1, <2>2, <2>4, FS_EmptySet DEF Verdicts, RefusalsAreDue
<1>6. QED
  BY <1>1, <1>2, <1>3, <1>4, <1>5 DEF IInv

\* Every step keeps it.
LEMMA Inductively == IInv /\ [Next]_vars => IInv'
<1> SUFFICES ASSUME IInv, [Next]_vars
             PROVE  IInv'
  OBVIOUS
<1>a. TypeOK /\ Decided /\ Store /\ Granted /\ Clock /\ Losses /\ Buckets /\ Verdicts
  BY DEF IInv
<1>1. TypeOK' /\ Decided'
  BY <1>a, TypesStep
<1>2. Store' /\ Granted'
  BY <1>a, StoreStep, GrantedStep
<1>3. Clock'
  BY <1>a, StepsOfTheLimiter, ClockStep DEF TypeOK
<1>4. Losses'
  BY <1>a, LossesStep
<1>5. Buckets'
  BY <1>a, BucketsStep
<1>6. Verdicts'
  BY <1>a, <1>1, <1>3, VerdictsStep
<1>7. QED
  BY <1>1, <1>2, <1>3, <1>4, <1>5, <1>6 DEF IInv

\* So it holds in every state.
LEMMA Inductive == Spec => []IInv
BY Initially, Inductively, PTL DEF Spec

-----------------------------------------------------------------------------
(* What a reader may rely on                                               *)

\* The launcher's state has its types.
THEOREM TypeCorrect == Spec => []TypeOK
<1>1. IInv => TypeOK
  BY DEF IInv
<1>2. QED
  BY <1>1, Inductive, PTL

\* rate_limit.rs: no interval shorter than the window by the lock's delay lets
\* more requests of a token through than the limit.
THEOREM RateIsLimited == Spec => []RateHolds
<1>1. IInv => RateHolds
  BY DEF IInv, Verdicts
<1>2. QED
  BY <1>1, Inductive, PTL

\* rate_limit.rs: nobody is refused whose token did not use up the limit.
THEOREM RefusalsHaveCauses == Spec => []RefusalsAreDue
<1>1. IInv => RefusalsAreDue
  BY DEF IInv, Verdicts
<1>2. QED
  BY <1>1, Inductive, PTL

\* audit_wrap: a failure of the disk or a crash costs at most two answered calls
\* their lines.
THEOREM LossesArePaidFor == Spec => []LossBounded
<1>1. IInv => LossBounded
  <2> SUFFICES ASSUME IInv
               PROVE  LossBounded
    OBVIOUS
  <2>1. faults \in Nat
    BY GatewayAssumption DEF IInv, TypeOK
  <2>2. Cardinality(Unrecorded) \in Nat
    BY FS_CardinalityType DEF IInv, Losses
  <2>3. QED
    BY <2>1, <2>2 DEF IInv, Losses, LossBounded
<1>2. QED
  BY <1>1, Inductive, PTL

\* bearer_guard, require_scope: a handler starts only for a token in the store, in
\* time but for the delay of the lock; a route that requires a scope finds it in the
\* token, and the scopes of a token are those the user said yes to.
THEOREM HandlersHaveLeave == Spec => HandlersAuthorized
<1>1. IInv /\ [Next]_vars =>
        [\A r \in Requests :
           phase[r] = "checking" /\ phase'[r] \in {"running", "asking"} =>
             LET k == KeyOf[r]
             IN  /\ tokens[k] # None
                 /\ now < tokens[k].expires + MaxSkew
                 /\ Needs[r] # None => Needs[r] \in tokens[k].scopes
                 /\ tokens[k].scopes # {} =>
                      dialog[k] = "yes" /\ tokens[k].scopes = asked[k]]_vars
  <2> SUFFICES ASSUME IInv, [Next]_vars, NEW r \in Requests,
                      phase[r] = "checking", phase'[r] \in {"running", "asking"}
               PROVE  /\ tokens[KeyOf[r]] # None
                      /\ now < tokens[KeyOf[r]].expires + MaxSkew
                      /\ Needs[r] # None => Needs[r] \in tokens[KeyOf[r]].scopes
                      /\ tokens[KeyOf[r]].scopes # {} =>
                           dialog[KeyOf[r]] = "yes" /\ tokens[KeyOf[r]].scopes = asked[KeyOf[r]]
    OBVIOUS
  <2>a. TypeOK /\ Store /\ Granted /\ Clock /\ KeyOf[r] \in Keys /\ r \in Calls
    BY LimiterAssumption DEF IInv, Calls
  <2>b. \A code \in {"ok", "bad_request", "unauthorized", "origin_not_allowed", "scope_denied",
                     "consent_denied", "rate_limited", "internal"} : code \in Codes
    BY DEF Codes
  <2>1. tokens[KeyOf[r]] # None /\ step[r] = "stamped" /\ stamp[r] < tokens[KeyOf[r]].expires
    BY <2>a DEF Store
  <2>2. now < tokens[KeyOf[r]].expires + MaxSkew
    <3>1. now <= stamp[r] + MaxSkew
      BY <2>1, <2>a DEF Clock
    <3>2. tokens[KeyOf[r]] \in Token
      BY <2>1, <2>a DEF TypeOK
    <3>3. tokens[KeyOf[r]].expires \in Nat
      BY <3>2 DEF Token
    <3>4. now \in Nat /\ stamp[r] \in Nat /\ MaxSkew \in Nat
      BY <2>a, LimiterAssumption DEF TypeOK, LimiterTypeOK
    <3>5. QED
      BY <2>1, <3>1, <3>3, <3>4
  <2>3. Serve(r)
    \* No other call's step, and no other step of r, gets r out of the guards.
    <3>1. \A c \in Calls, to \in Phase : Go(c, to) /\ c # r => phase'[r] = phase[r]
      BY <2>a DEF Go, TypeOK
    <3>2. \A c \in Calls : /\ \A code \in Codes : Reply(c, code) /\ c # r => phase'[r] = phase[r]
                           /\ OpenDialog(c) /\ c # r => phase'[r] = phase[r]
      BY <3>1 DEF Reply, OpenDialog, Phase
    <3>3. ASSUME NEW h \in Keys
          PROVE  ~Handshake(h)
      <4>1. h \in Calls /\ h # r
        BY GatewayAssumption DEF Calls
      <4>2. Handshake(h) => OpenDialog(h) \/ \E code \in Codes : Reply(h, code)
        BY <2>b DEF Handshake
      <4>3. QED
        BY <3>2, <4>1, <4>2
    <3>4. ASSUME NEW x \in Requests
          PROVE  ~Present(x) /\ ~Work(x) /\ (Serve(x) => x = r)
      <4>1. x \in Calls
        BY DEF Calls
      <4>2. Present(x) => x # r /\ (Go(x, "checking") \/ Reply(x, "unauthorized"))
        BY DEF Present
      <4>3. Work(x) => x # r /\ Reply(x, "ok")
        BY DEF Work
      <4>4. Serve(x) => \/ \E code \in Codes : Reply(x, code)
                        \/ Go(x, "running")
                        \/ OpenDialog(x)
        BY <2>b DEF Serve, Begin
      <4>5. "checking" \in Phase /\ "running" \in Phase
        BY DEF Phase
      <4>6. QED
        BY <2>b, <3>1, <3>2, <4>1, <4>2, <4>3, <4>4, <4>5
    <3>5. ASSUME NEW c \in Calls
          PROVE  ~TurnAway(c) /\ ~UserAnswers(c) /\ ~Proceed(c) /\ ~Record(c) /\ ~HangUp(c)
      <4>1. TurnAway(c) \/ Proceed(c) => c # r /\ \E code \in Codes : Reply(c, code)
        BY <2>b DEF TurnAway, Proceed, Effect, KeychainFails
      <4>2. Record(c) \/ HangUp(c) => c # r /\ (Go(c, "answered") \/ Go(c, "gone"))
        BY DEF Record, HangUp
      <4>3. ~UserAnswers(c)
        BY DEF UserAnswers
      <4>4. "answered" \in Phase /\ "gone" \in Phase
        BY DEF Phase
      <4>5. QED
        BY <3>1, <3>2, <4>1, <4>2, <4>3, <4>4
    <3>6. ~Restart /\ ~Pass /\ ~UNCHANGED vars
      BY <2>a DEF Restart, InService, Pass, gateVars, vars
    <3>7. QED
      BY <3>3, <3>4, <3>5, <3>6 DEF Next, Quiescent
  <2>4. Needs[r] # None => Needs[r] \in tokens[KeyOf[r]].scopes
    <3>1. Suffice(tokens[KeyOf[r]].scopes, r) \/ \E code \in Codes : Reply(r, code)
      BY <2>3, <2>b DEF Serve
    <3>2. QED
      BY <2>a, <3>1, CallReplies DEF Suffice
  <2>5. tokens[KeyOf[r]].scopes # {} =>
          dialog[KeyOf[r]] = "yes" /\ tokens[KeyOf[r]].scopes = asked[KeyOf[r]]
    BY <2>1, <2>a DEF Store, Granted
  <2>6. QED
    BY <2>1, <2>2, <2>4, <2>5
<1>2. QED
  BY <1>1, Inductive, PTL DEF Spec, HandlersAuthorized

\* handshake, the key routes: a token with scopes appears, and the keychain
\* changes, only for a client that is there and whose own dialog the user approved.
THEOREM EffectsHaveLeave == Spec => EffectsApproved
<1>1. IInv /\ [Next]_vars =>
        [\/ restarts' # restarts
         \/ /\ \A k \in Keys : tokens'[k] # tokens[k] =>
                 \/ tokens'[k].scopes = {}
                 \/ phase[k] = "asking" /\ dialog[k] = "yes" /\ tokens'[k].scopes = asked[k]
            /\ key' # key =>
                 \E r \in Requests :
                   phase[r] = "asking" /\ dialog[r] = "yes" /\ phase'[r] = "replied"]_vars
  <2> SUFFICES ASSUME IInv, [Next]_vars
               PROVE  \/ restarts' # restarts
                      \/ /\ \A k \in Keys : tokens'[k] # tokens[k] =>
                              \/ tokens'[k].scopes = {}
                              \/ /\ phase[k] = "asking" /\ dialog[k] = "yes"
                                 /\ tokens'[k].scopes = asked[k]
                         /\ key' # key =>
                              \E r \in Requests :
                                phase[r] = "asking" /\ dialog[r] = "yes" /\ phase'[r] = "replied"
    OBVIOUS
  <2>a. TypeOK
    BY DEF IInv
  <2>1. ASSUME NEW h \in Keys, Handshake(h), NEW k \in Keys, tokens'[k] # tokens[k]
        PROVE  tokens'[k].scopes = {}
    <3>1. Issue(h, {})
      BY <2>1 DEF Handshake
    <3>2. /\ tokens'[h] = [scopes |-> {}, expires |-> now + TTL]
          /\ \A x \in Keys \ {h} : tokens'[x] = tokens[x]
      BY <2>a, <3>1, TokenIssued
    <3>3. QED
      BY <2>1, <3>2
  <2>2. ASSUME NEW c \in Calls, Proceed(c), NEW k \in Keys, tokens'[k] # tokens[k]
        PROVE  phase[k] = "asking" /\ dialog[k] = "yes" /\ tokens'[k].scopes = asked[k]
    <3>1. c \in Keys /\ Issue(c, asked[c]) /\ dialog[c] = "yes" /\ phase[c] = "asking"
      BY <2>2 DEF Proceed, Effect, KeychainFails
    <3>2. asked[c] \in SUBSET Scopes
      BY <2>a, <3>1 DEF TypeOK
    <3>3. /\ tokens'[c] = [scopes |-> asked[c], expires |-> now + TTL]
          /\ \A x \in Keys \ {c} : tokens'[x] = tokens[x]
      BY <2>a, <3>1, <3>2, TokenIssued
    <3>4. QED
      BY <2>2, <3>1, <3>3
  <2>3. ASSUME NEW c \in Calls, Proceed(c), key' # key
        PROVE  \E r \in Requests :
                 phase[r] = "asking" /\ dialog[r] = "yes" /\ phase'[r] = "replied"
    <3>1. c \in Requests /\ dialog[c] = "yes" /\ phase[c] = "asking" /\ Reply(c, "ok")
      BY <2>3 DEF Proceed, Effect, KeychainFails
    <3>2. phase'[c] = "replied"
      BY <2>a, <3>1 DEF Reply, Go, TypeOK
    <3>3. QED
      BY <3>1, <3>2
  <2>4. \/ \E h \in Keys : Handshake(h) /\ UNCHANGED key
        \/ \E c \in Calls : Proceed(c)
        \/ Restart
        \/ UNCHANGED <<tokens, key>>
    BY DEF Next, Handshake, Present, Serve, Work, TurnAway, UserAnswers, Record, HangUp, Pass,
         gateVars, Quiescent, vars
  <2>5. Restart => restarts' # restarts
    BY <2>a, GatewayAssumption DEF Restart, TypeOK
  <2>6. QED
    BY <2>1, <2>2, <2>3, <2>4, <2>5
<1>2. QED
  BY <1>1, Inductive, PTL DEF Spec, EffectsApproved
==============================================================================
