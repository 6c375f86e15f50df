------------------------------- MODULE LocalCa -------------------------------
(***************************************************************************)
(* ca::ensure of ca.rs, run by every launch of the launcher: it reads the  *)
(* local certificate authority from the disk or generates one, has Windows *)
(* trust it, and issues a fresh server certificate, which the TLS layer    *)
(* loads.  A launch may break off at any step, and the user may refuse or  *)
(* remove the trust.                                                       *)
(***************************************************************************)
EXTENDS Naturals

CONSTANTS
  Launches,   \* each generates at most one CA and one server key pair, named as it is
  Absent,     \* a file that is not there
  Empty,      \* a file that was created and not filled
  MaxBreaks,  \* bound: launches that break off
  MaxRemovals \* bound: removals of the trusted root by the user

ASSUME LocalCaAssumption ==
  /\ Absent \notin Launches
  /\ Empty \notin Launches \cup {Absent}
  /\ MaxBreaks \in Nat
  /\ MaxRemovals \in Nat

VARIABLES
  files,     \* what each file of CaPaths holds
  trusted,   \* the roots of the current user
  launch,    \* each launch: where it is and the CA it has in memory
  breaks,
  removals,
  refused,   \* history variable: the launches whose root the user refused
  overlap    \* history variable: two launches were under way at once

vars == <<files, trusted, launch, breaks, removals, refused, overlap>>

Names == {"ca_cert", "ca_key", "thumbprint_file", "server_cert", "server_key"}
Resting == {"waiting", "listening", "failed", "broken"}
Phases == Resting \cup Names \cup {"look", "read_key", "install", "reinstall", "load"}

Init ==
  /\ files = [n \in Names |-> Absent]
  /\ trusted = {}
  /\ launch = [l \in Launches |->
       [at |-> "waiting", open |-> FALSE, cert |-> Absent, key |-> Absent]]
  /\ breaks = 0
  /\ removals = 0
  /\ refused = {}
  /\ overlap = FALSE

TypeOK ==
  /\ files \in [Names -> Launches \cup {Absent, Empty}]
  /\ trusted \subseteq Launches
  /\ launch \in [Launches -> [at : Phases, open : BOOLEAN,
                              cert : Launches \cup {Absent, Empty},
                              key : Launches \cup {Absent, Empty}]]
  /\ breaks \in 0..MaxBreaks
  /\ removals \in 0..MaxRemovals
  /\ refused \subseteq Launches
  /\ overlap \in BOOLEAN

-----------------------------------------------------------------------------
At(l) == launch[l].at
UnderWay(l) == At(l) \notin Resting
Go(l, phase) == launch' = [launch EXCEPT ![l].at = phase]

Start(l) ==
  /\ At(l) = "waiting"
  /\ Go(l, "look")
  /\ overlap' = (overlap \/ \E k \in Launches : UnderWay(k))
  /\ UNCHANGED <<files, trusted, breaks, removals, refused>>

\* Mutant: the certificate alone tells that there is a CA.
FoundCert == files["ca_cert"] # Absent

Found == files["ca_cert"] # Absent /\ files["ca_key"] # Absent

\* The certificate is read before the key.  Nothing is checked of it: an
\* empty one decodes to an empty certificate.
ReadCert(l) ==
  /\ At(l) = "look"
  /\ Found
  /\ launch' = [launch EXCEPT ![l].at = "read_key", ![l].cert = files["ca_cert"]]
  /\ UNCHANGED <<files, trusted, breaks, removals, refused, overlap>>

\* KeyPair::from_pem refuses an empty key.
ReadKey(l) ==
  /\ At(l) = "read_key"
  /\ IF files["ca_key"] \in Launches
     THEN launch' = [launch EXCEPT ![l].at = "reinstall", ![l].key = files["ca_key"]]
     ELSE Go(l, "failed")
  /\ UNCHANGED <<files, trusted, breaks, removals, refused, overlap>>

GenerateRootCa(l) ==
  /\ At(l) = "look"
  /\ ~Found
  /\ launch' = [launch EXCEPT ![l].at = "ca_cert", ![l].cert = l, ![l].key = l]
  /\ UNCHANGED <<files, trusted, breaks, removals, refused, overlap>>

\* Mutant: the root is installed before its key is stored.
AfterInstallFirst(name) ==
  CASE name = "ca_cert" -> "install"
    [] name = "ca_key" -> "thumbprint_file"
    [] name = "thumbprint_file" -> "reinstall"
    [] name = "server_cert" -> "server_key"
    [] name = "server_key" -> "load"
    [] name = "install" -> "ca_key"

\* The order of the steps of ensure.
After(name) ==
  CASE name = "ca_cert" -> "ca_key"
    [] name = "ca_key" -> "thumbprint_file"
    [] name = "thumbprint_file" -> "install"
    [] name = "install" -> "reinstall"
    [] name = "server_cert" -> "server_key"
    [] name = "server_key" -> "load"

\* fs::write creates or empties the file, then fills it.
Create(l) ==
  /\ At(l) \in Names
  /\ ~launch[l].open
  /\ launch' = [launch EXCEPT ![l].open = TRUE]
  /\ files' = [files EXCEPT ![At(l)] = Empty]
  /\ UNCHANGED <<trusted, breaks, removals, refused, overlap>>

Fill(l) ==
  /\ At(l) \in Names
  /\ launch[l].open
  /\ launch' = [launch EXCEPT ![l].at = After(At(l)), ![l].open = FALSE]
  /\ files' = [files EXCEPT ![At(l)] = l]
  /\ UNCHANGED <<trusted, breaks, removals, refused, overlap>>

\* install_user_root of a new CA: a refusal ends the launch and leaves the files.
Install(l) ==
  /\ At(l) = "install"
  /\ \/ /\ trusted' = trusted \cup {launch[l].cert}
        /\ Go(l, After("install"))
        /\ UNCHANGED refused
     \/ /\ refused' = refused \cup {l}
        /\ Go(l, "failed")
        /\ UNCHANGED trusted
  /\ UNCHANGED <<files, breaks, removals, overlap>>

\* Mutant: a certificate that Windows cannot decode counts as installed.
ReinstallUnchecked(l) ==
  /\ At(l) = "reinstall"
  /\ Go(l, "server_cert")
  /\ \/ trusted' = trusted \cup {launch[l].cert} /\ UNCHANGED refused
     \/ refused' = refused \cup {l} /\ UNCHANGED trusted
  /\ UNCHANGED <<files, breaks, removals, overlap>>

\* Mutant: a CA that was read is taken to be trusted.
ReinstallSkipped(l) ==
  /\ At(l) = "reinstall"
  /\ Go(l, "server_cert")
  /\ UNCHANGED <<files, trusted, breaks, removals, refused, overlap>>

\* The root is installed again on every launch, and a failure is passed over:
\* the user refuses it, or Windows cannot decode an empty certificate.
Reinstall(l) ==
  /\ At(l) = "reinstall"
  /\ Go(l, "server_cert")
  /\ \/ launch[l].cert \in Launches
        /\ trusted' = trusted \cup {launch[l].cert}
        /\ UNCHANGED refused
     \/ refused' = refused \cup {l} /\ UNCHANGED trusted
  /\ UNCHANGED <<files, breaks, removals, overlap>>

\* tls::load wants the pair of one server.
Load(l) ==
  /\ At(l) = "load"
  /\ Go(l, IF files["server_cert"] \in Launches /\ files["server_key"] = files["server_cert"]
           THEN "listening" ELSE "failed")
  /\ UNCHANGED <<files, trusted, breaks, removals, refused, overlap>>

\* A crash, or an error of the disk, ends a launch where it stands.
Break(l) ==
  /\ UnderWay(l)
  /\ breaks < MaxBreaks
  /\ breaks' = breaks + 1
  /\ Go(l, "broken")
  /\ UNCHANGED <<files, trusted, removals, refused, overlap>>

\* The user deletes the roots by hand while no launch is under way.
RemoveRoots ==
  /\ removals < MaxRemovals
  /\ trusted # {}
  /\ \A l \in Launches : ~UnderWay(l)
  /\ removals' = removals + 1
  /\ trusted' = {}
  /\ UNCHANGED <<files, launch, breaks, refused, overlap>>

Quiescent ==
  /\ \A l \in Launches : At(l) \in Resting \ {"waiting"}
  /\ UNCHANGED vars

Ensure(l) ==
  \/ Start(l) \/ ReadCert(l) \/ ReadKey(l) \/ GenerateRootCa(l)
  \/ Create(l) \/ Fill(l) \/ Install(l) \/ Reinstall(l) \/ Load(l)

Next ==
  \/ \E l \in Launches : Ensure(l) \/ Break(l)
  \/ RemoveRoots
  \/ Quiescent

Spec == Init /\ [][Next]_vars

-----------------------------------------------------------------------------
(* Properties                                                              *)

\* What the TLS layer is about to load belongs together: the server key is
\* that of the server certificate, its signer is the CA on the disk, key and
\* certificate, and the user trusts that CA or refused it to this very launch.
\* Two launches at once can mix the files of two CAs.
ChainComplete ==
  \A l \in Launches : At(l) = "load" /\ ~overlap =>
    /\ files["server_cert"] = l
    /\ files["server_key"] = l
    /\ files["ca_key"] = launch[l].key
    /\ files["ca_cert"] = launch[l].key
    /\ launch[l].key \in trusted \/ l \in refused

\* A thumbprint that is there names every root the launcher has installed, so
\* the removal that ca.rs plans, by thumbprint, leaves none behind.
ThumbprintNamesRoots ==
  files["thumbprint_file"] \in Launches /\ ~overlap =>
    trusted \subseteq {files["thumbprint_file"]}

\* A launch fails only where the user refused the root of a new CA or where
\* an earlier launch broke off between creating the key file and filling it.
FailsForCause ==
  \A l \in Launches : At(l) = "failed" /\ ~overlap =>
    l \in refused \/ (files["ca_key"] = Empty /\ breaks > 0)
=============================================================================
