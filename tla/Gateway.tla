------------------------------- MODULE Gateway -------------------------------
(***************************************************************************)
(* The way of a call through the launcher: the guards of middleware.rs in  *)
(* the order of routes.rs, the token store, the consent dialogs of the     *)
(* handshake and of the key routes, and the audit line that is written     *)
(* after the handler and before the answer.  A token bears the name of the *)
(* handshake that issues it; a request is of the token KeyOf gives it.     *)
(***************************************************************************)
EXTENDS RateLimiter

CONSTANTS
  Scopes,
  Offers,       \* the sets of scopes a handshake may ask for
  Needs,        \* the scope the route of each request requires, if it does one
  Kind,         \* what the handler of each request does
  Strangers,    \* calls that may come with a Host or Origin not on the lists
  Flawed,       \* calls that may come with a body the handler refuses
  Impatient,    \* calls whose client may hang up
  TTL,          \* TOKEN_TTL_SECS, in ticks
  MaxFaults,    \* bound: failures of the disk
  MaxRestarts,  \* bound: restarts of the launcher
  None

Calls == Keys \cup Requests

ASSUME GatewayAssumption ==
  /\ Keys \cap Requests = {}
  /\ Offers \subseteq SUBSET Scopes
  /\ Needs \in [Requests -> Scopes \cup {None}]
  /\ Kind \in [Requests -> {"work", "set_key", "delete_key"}]
  /\ \A r \in Requests : Needs[r] = None => Kind[r] = "work"
  /\ Strangers \subseteq Calls
  /\ Flawed \subseteq Calls
  /\ Impatient \subseteq Calls
  /\ TTL \in Nat \ {0}
  /\ MaxFaults \in Nat
  /\ MaxRestarts \in Nat
  /\ None \notin Nat \cup Calls \cup Scopes

VARIABLES
  phase,     \* where each call is
  reply,     \* the status of its answer
  dialog,    \* the consent dialog of each call; it outlives the call
  asked,     \* the scopes each handshake asked for
  tokens,    \* the token store: scopes and expiry of each token
  key,       \* the keychain: the request whose key it holds
  entry,     \* the readable audit line of each call
  torn,      \* the audit file does not end with a newline
  faults,    \* disk failures so far
  restarts

gateVars == <<phase, reply, dialog, asked, tokens, key, entry, torn, faults, restarts>>
vars == <<limiterVars, gateVars>>

Phase == {"idle", "checking", "asking", "running", "replied", "answered", "gone"}
Dialog == {"none", "open", "yes", "no", "closed"}

\* The status of each result the launcher answers with.
StatusOf ==
  [ok |-> 200, bad_request |-> 400, unauthorized |-> 401, origin_not_allowed |-> 403,
   scope_denied |-> 403, consent_denied |-> 403, rate_limited |-> 429, internal |-> 500]
Statuses == {StatusOf[code] : code \in DOMAIN StatusOf}

Token == [scopes : SUBSET Scopes, expires : Nat]
Entry == [status : Statuses, token : Keys \cup {None}]

Init ==
  /\ LimiterInit
  /\ phase = [c \in Calls |-> "idle"]
  /\ reply = [c \in Calls |-> None]
  /\ dialog = [c \in Calls |-> "none"]
  /\ asked = [k \in Keys |-> {}]
  /\ tokens = [k \in Keys |-> None]
  /\ key = None
  /\ entry = [c \in Calls |-> None]
  /\ torn = FALSE
  /\ faults = 0
  /\ restarts = 0

TypeOK ==
  /\ LimiterTypeOK
  /\ phase \in [Calls -> Phase]
  /\ reply \in [Calls -> Statuses \cup {None}]
  /\ dialog \in [Calls -> Dialog]
  /\ asked \in [Keys -> SUBSET Scopes]
  /\ tokens \in [Keys -> Token \cup {None}]
  /\ key \in Requests \cup {None}
  /\ entry \in [Calls -> Entry \cup {None}]
  /\ torn \in BOOLEAN
  /\ faults \in 0..MaxFaults
  /\ restarts \in 0..MaxRestarts

-----------------------------------------------------------------------------
(* Steps of a call                                                         *)

Go(c, to) == phase' = [phase EXCEPT ![c] = to]

Reply(c, code) ==
  /\ Go(c, "replied")
  /\ reply' = [reply EXCEPT ![c] = StatusOf[code]]

OpenDialog(c) ==
  /\ Go(c, "asking")
  /\ dialog' = [dialog EXCEPT ![c] = "open"]
  /\ UNCHANGED reply

\* host_guard and origin_guard stand before everything else.
TurnAway(c) ==
  /\ phase[c] = "idle"
  /\ c \in Strangers
  /\ Reply(c, "origin_not_allowed")
  /\ UNCHANGED <<limiterVars, dialog, asked, tokens, key, entry, torn, faults, restarts>>

Issue(h, scopes) ==
  tokens' = [tokens EXCEPT ![h] = [scopes |-> scopes, expires |-> now + TTL]]

\* A handshake for no scope is granted at once, any other asks the user.  One
\* that wants files and names no root that exists is refused.
Handshake(h) ==
  /\ phase[h] = "idle"
  /\ \/ /\ h \in Flawed
        /\ Reply(h, "bad_request")
        /\ UNCHANGED <<asked, tokens, dialog>>
     \/ \E scopes \in Offers :
          /\ asked' = [asked EXCEPT ![h] = scopes]
          /\ IF scopes = {}
             THEN Issue(h, scopes) /\ Reply(h, "ok") /\ UNCHANGED dialog
             ELSE OpenDialog(h) /\ UNCHANGED tokens
  /\ UNCHANGED <<limiterVars, key, entry, torn, faults, restarts>>

\* The client was given the token.
Holds(k) == phase[k] = "answered" /\ reply[k] = StatusOf["ok"]

\* Mutant: the token is good until its expiry has passed.
LiveAtExpiry(k) == tokens[k] # None /\ now <= tokens[k].expires

\* Unknown and expired tokens are refused.
Live(k) == tokens[k] # None /\ now < tokens[k].expires

\* The bearer guard looks the token up; then the limiter reads the clock.
Present(r) ==
  /\ phase[r] = "idle"
  /\ IF Holds(KeyOf[r]) /\ Live(KeyOf[r])
     THEN /\ Stamp(r)
          /\ Go(r, "checking")
          /\ UNCHANGED reply
     ELSE /\ Reply(r, "unauthorized")
          /\ UNCHANGED limiterVars
  /\ UNCHANGED <<dialog, asked, tokens, key, entry, torn, faults, restarts>>

\* The handler starts: the key routes ask the user, unless the request is not
\* one they can read; the others just work.
Begin(r) ==
  \/ /\ Kind[r] = "work"
     /\ Go(r, "running")
     /\ UNCHANGED <<reply, dialog>>
  \/ /\ Kind[r] # "work"
     /\ r \in Flawed
     /\ Reply(r, "bad_request")
     /\ UNCHANGED dialog
  \/ /\ Kind[r] # "work"
     /\ OpenDialog(r)

\* The route of r lets a token with these scopes through: /launcher/version and
\* /ws ask for none, every other route behind the bearer guard for one.
Suffice(scopes, r) == Needs[r] = None \/ Needs[r] \in scopes

\* The limiter's verdict, then the scope guard, then the handler.
Serve(r) ==
  /\ phase[r] = "checking"
  /\ Check(r)
  /\ IF step'[r] = "limited"
     THEN Reply(r, "rate_limited") /\ UNCHANGED dialog
     ELSE IF ~Suffice(tokens[KeyOf[r]].scopes, r)
     THEN Reply(r, "scope_denied") /\ UNCHANGED dialog
     ELSE Begin(r)
  /\ UNCHANGED <<asked, tokens, key, entry, torn, faults, restarts>>

\* An ordinary handler ends; its result or error is one status here.
Work(r) ==
  /\ r \in Requests
  /\ phase[r] = "running"
  /\ Reply(r, "ok")
  /\ UNCHANGED <<limiterVars, dialog, asked, tokens, key, entry, torn, faults, restarts>>

\* The user answers a dialog, whether or not its call is still there.
UserAnswers(c) ==
  /\ dialog[c] = "open"
  /\ \E answer \in {"yes", "no"} : dialog' = [dialog EXCEPT ![c] = answer]
  /\ UNCHANGED <<limiterVars, phase, reply, asked, tokens, key, entry, torn, faults, restarts>>

\* The effect of an approved call: a token, or a change of the keychain.
Effect(c) ==
  \/ /\ c \in Keys
     /\ Issue(c, asked[c])
     /\ Reply(c, "ok")
     /\ UNCHANGED key
  \/ /\ c \in Requests
     /\ key' = IF Kind[c] = "set_key" THEN c ELSE None
     /\ Reply(c, "ok")
     /\ UNCHANGED tokens

KeychainFails(c) ==
  /\ c \in Requests
  /\ Reply(c, "internal")
  /\ UNCHANGED <<tokens, key>>

\* Mutant: the effect is taken by the task that shows the dialog.
ProceedDetached(c) ==
  /\ phase[c] \in {"asking", "gone"}
  /\ \/ /\ dialog[c] = "yes"
        /\ Effect(c) \/ KeychainFails(c)
     \/ /\ dialog[c] = "no"
        /\ Reply(c, "consent_denied")
        /\ UNCHANGED <<tokens, key>>
  /\ UNCHANGED <<limiterVars, dialog, asked, entry, torn, faults, restarts>>

\* The handler goes on with the answer of the dialog.
Proceed(c) ==
  /\ phase[c] = "asking"
  /\ \/ /\ dialog[c] = "yes"
        /\ Effect(c) \/ KeychainFails(c)
     \/ /\ dialog[c] = "no"
        /\ Reply(c, "consent_denied")
        /\ UNCHANGED <<tokens, key>>
  /\ UNCHANGED <<limiterVars, dialog, asked, entry, torn, faults, restarts>>

-----------------------------------------------------------------------------
(* The audit line                                                          *)

\* Mutant: the line names the call where the token belongs.
LineOfCall(c) ==
  [status |-> reply[c],
   token  |-> IF c \in Requests /\ step[c] = "admitted" THEN c ELSE None]

\* Only a request that passed the bearer guard has a token id in its line.
Line(c) ==
  [status |-> reply[c],
   token  |-> IF c \in Requests /\ step[c] = "admitted" THEN KeyOf[c] ELSE None]

\* The line of c reaches the file whole, in part or not at all.  A line that
\* follows a part of another is glued to it and unreadable like it.
PutLine(c, how) ==
  /\ entry' = IF how = "whole" /\ ~torn THEN [entry EXCEPT ![c] = Line(c)] ELSE entry
  /\ torn' = (how = "cut" \/ (how = "none" /\ torn))

\* Mutant: the answer does not wait for the line.
RecordLater(c) ==
  /\ phase[c] = "replied"
  /\ Go(c, "answered")
  /\ \E how \in {"whole", "cut", "none"} :
       /\ PutLine(c, how)
       /\ faults' = IF how = "cut" THEN faults + 1 ELSE faults
  /\ faults' <= MaxFaults
  /\ UNCHANGED <<limiterVars, reply, dialog, asked, tokens, key, restarts>>

\* audit_wrap: the line first, then the answer; a disk error is swallowed.
Record(c) ==
  /\ phase[c] = "replied"
  /\ Go(c, "answered")
  /\ \E how \in {"whole", "cut", "none"} :
       /\ PutLine(c, how)
       /\ faults' = IF how = "whole" THEN faults ELSE faults + 1
  /\ faults' <= MaxFaults
  /\ UNCHANGED <<limiterVars, reply, dialog, asked, tokens, key, restarts>>

\* The client leaves: the handler is dropped where it waits, its dialog is
\* not.  A line that was waiting for the file may have got there.
HangUp(c) ==
  /\ c \in Impatient
  /\ phase[c] \in {"asking", "running", "replied"}
  /\ Go(c, "gone")
  /\ \E how \in IF phase[c] = "replied" THEN {"whole", "none"} ELSE {"none"} : PutLine(c, how)
  /\ UNCHANGED <<limiterVars, reply, dialog, asked, tokens, key, faults, restarts>>

InService(c) == phase[c] \in {"checking", "asking", "running", "replied"}

\* The process ends and starts again: tokens, buckets, keys and dialogs are
\* lost; of the lines that were to be written one may be cut.
Restart ==
  /\ restarts < MaxRestarts
  /\ restarts' = restarts + 1
  /\ tokens' = [k \in Keys |-> None]
  /\ bucket' = [k \in Keys |-> <<>>]
  /\ step' = [r \in Requests |-> IF step[r] = "stamped" THEN "idle" ELSE step[r]]
  /\ key' = None
  /\ phase' = [c \in Calls |-> IF InService(c) THEN "gone" ELSE phase[c]]
  /\ dialog' = [c \in Calls |-> IF dialog[c] = "open" THEN "closed" ELSE dialog[c]]
  /\ \/ UNCHANGED <<entry, torn, faults>>
     \/ \E c \in Calls :
          /\ phase[c] = "replied"
          /\ faults < MaxFaults
          /\ PutLine(c, "cut")
          /\ faults' = faults + 1
  /\ UNCHANGED <<now, stamp, entered, reply, asked>>

\* Bound: time passes only while it matters: a token may expire and a request
\* is still to be served.
Pass ==
  /\ \E k \in Keys : tokens[k] # None
  /\ \E r \in Requests : phase[r] \in {"idle", "checking"}
  /\ Tick
  /\ UNCHANGED gateVars

Quiescent ==
  /\ \A c \in Calls : phase[c] \in {"answered", "gone"}
  /\ UNCHANGED vars

Next ==
  \/ \E h \in Keys : Handshake(h)
  \/ \E r \in Requests : Present(r) \/ Serve(r) \/ Work(r)
  \/ \E c \in Calls : TurnAway(c) \/ UserAnswers(c) \/ Proceed(c) \/ Record(c) \/ HangUp(c)
  \/ Restart
  \/ Pass
  \/ Quiescent

Spec == Init /\ [][Next]_vars

\* Handlers end and lines are written; clients, users and the process need
\* not do anything.
Fairness ==
  /\ \A r \in Requests : WF_vars(Serve(r)) /\ WF_vars(Work(r))
  /\ \A c \in Calls : WF_vars(Proceed(c)) /\ WF_vars(Record(c))

FairSpec == Spec /\ Fairness

-----------------------------------------------------------------------------
(* Properties                                                              *)

\* A handler starts only for a token that is in the store and expired less than
\* the limiter's lock ago.  A route that requires a scope starts its handler
\* only for a token with that scope, and whatever scope a token has the user
\* said yes to in the dialog of its own handshake.
HandlersAuthorized ==
  [][\A r \in Requests :
       phase[r] = "checking" /\ phase'[r] \in {"running", "asking"} =>
         LET k == KeyOf[r]
         IN  /\ tokens[k] # None
             /\ now < tokens[k].expires + MaxSkew
             /\ Needs[r] # None => Needs[r] \in tokens[k].scopes
             /\ tokens[k].scopes # {} =>
                  dialog[k] = "yes" /\ tokens[k].scopes = asked[k]]_vars

\* A token with scopes appears, and the keychain changes, only by a call
\* whose client is still there and whose own dialog the user approved; the
\* end of the process is the one exception.
EffectsApproved ==
  [][\/ restarts' # restarts
     \/ /\ \A k \in Keys : tokens'[k] # tokens[k] =>
             \/ tokens'[k].scopes = {}
             \/ phase[k] = "asking" /\ dialog[k] = "yes" /\ tokens'[k].scopes = asked[k]
        /\ key' # key =>
             \E r \in Requests :
               phase[r] = "asking" /\ dialog[r] = "yes" /\ phase'[r] = "replied"]_vars

\* The calls that have their answer and no line that tells of it.
Unrecorded == {c \in Calls : phase[c] = "answered" /\ entry[c] # Line(c)}

\* A failure of the disk or a crash costs at most two answered calls their
\* lines: its own and the one glued to it.
LossBounded == Cardinality(Unrecorded) <= 2 * faults

\* lib.rs: the keychain is the one of Windows, which keeps a key until the
\* user approves another or its deletion.
KeyKept ==
  [][key # None /\ key' # key =>
       \E r \in Requests : dialog[r] = "yes" /\ phase'[r] # phase[r]]_vars
=============================================================================
