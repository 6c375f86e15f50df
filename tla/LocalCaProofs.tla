---------------------------- MODULE LocalCaProofs ----------------------------
(***************************************************************************)
(* Theorems about ca::ensure, for every set of launches: wherever launches *)
(* break off, one that runs alone loads a complete chain or fails for one  *)
(* of two reasons.                                                         *)
(***************************************************************************)
EXTENDS LocalCa, TLAPS

USE LocalCaAssumption

-----------------------------------------------------------------------------
(* The inductive invariant, in layers                                      *)

\* The phases of a launch that generates a CA, and those of one that has it.
Generating == {"ca_cert", "ca_key", "thumbprint_file", "install"}
Holding    == {"reinstall", "server_cert", "server_key", "load"}

\* A launch that generates has its own CA in memory; one that goes on has a key.
Memory ==
  \A l \in Launches :
    /\ At(l) \in Generating => launch[l].cert = l /\ launch[l].key = l
    /\ At(l) \in Holding => launch[l].key \in Launches

\* As long as no two launches were under way at once.
Alone == \A k, l \in Launches : UnderWay(k) /\ UnderWay(l) => k = l

\* On the disk a key never goes without its certificate, and a thumbprint not
\* without its key; nothing but that CA is trusted.
Disk ==
  /\ files["ca_key"] \in Launches => files["ca_cert"] = files["ca_key"]
  /\ files["ca_key"] = Empty => files["ca_cert"] \in Launches
  /\ files["thumbprint_file"] # Absent => files["ca_key"] \in Launches
  /\ files["thumbprint_file"] \in Launches => files["thumbprint_file"] = files["ca_key"]
  /\ trusted \subseteq {files["ca_key"]}

\* What a launch has put on the disk or read from it, phase by phase.
Stage(l) ==
  /\ At(l) = "ca_cert" => files["ca_key"] = Absent
  /\ At(l) = "ca_key" =>
       /\ files["ca_cert"] = l
       /\ files["ca_key"] = IF launch[l].open THEN Empty ELSE Absent
  /\ At(l) \in {"thumbprint_file", "install"} => files["ca_key"] = l
  /\ At(l) = "install" => files["thumbprint_file"] = l
  /\ At(l) = "read_key" =>
       files["ca_key"] # Absent /\ launch[l].cert = files["ca_cert"]
  /\ At(l) \in Holding => files["ca_key"] = launch[l].key /\ launch[l].cert = launch[l].key
  /\ At(l) \in Holding \ {"reinstall"} => launch[l].key \in trusted \/ l \in refused
  /\ At(l) \in {"server_key", "load"} => files["server_cert"] = l
  /\ At(l) = "load" => files["server_key"] = l

Progress == \A l \in Launches : Stage(l)

\* An empty key file is being filled or was left by a launch that broke off,
\* and then stays: whoever failed of it will not be contradicted.
Failures ==
  /\ files["ca_key"] = Empty => breaks > 0 \/ \E l \in Launches : At(l) = "ca_key"
  /\ \A l \in Launches : At(l) = "failed" /\ l \notin refused =>
       /\ files["ca_key"] = Empty /\ breaks > 0
       /\ \A k \in Launches : At(k) \notin {"ca_cert", "ca_key"}

\* Only a launch that writes a file, or that broke off at it, has one half written.
Closed ==
  \A l \in Launches : launch[l].open => At(l) \in Names \cup {"broken"}

Order == Alone /\ Disk /\ Progress /\ Failures
Core  == TypeOK /\ Memory /\ Closed
IInv  == Core /\ (~overlap => Order)

-----------------------------------------------------------------------------
(* Types and memory                                                        *)

\* What is known of a launch.
Records == [at : Phases, open : BOOLEAN,
            cert : Launches \cup {Absent, Empty}, key : Launches \cup {Absent, Empty}]

\* The type invariant, with that name.
Types ==
  /\ files \in [Names -> Launches \cup {Absent, Empty}]
  /\ trusted \subseteq Launches
  /\ launch \in [Launches -> Records]
  /\ breaks \in 0..MaxBreaks
  /\ removals \in 0..MaxRemovals
  /\ refused \subseteq Launches
  /\ overlap \in BOOLEAN

\* They are the same.
LEMMA TypesAreTypeOK == Types <=> TypeOK
BY Zenon DEF Types, TypeOK, Records

\* Nothing has been done, so nothing is in memory.
LEMMA CoreInit == Init => Core
<1> SUFFICES ASSUME Init
             PROVE  Core
  OBVIOUS
<1>1. launch \in [Launches -> Records]
  BY DEF Init, Phases, Resting, Records
<1>2. files \in [Names -> Launches \cup {Absent, Empty}]
  BY DEF Init
<1>3. TypeOK
  <2>1. trusted \subseteq Launches /\ refused \subseteq Launches /\ overlap \in BOOLEAN
    BY DEF Init
  <2>2. breaks \in 0..MaxBreaks /\ removals \in 0..MaxRemovals
    BY DEF Init
  <2>3. QED
    BY <1>1, <1>2, <2>1, <2>2, TypesAreTypeOK DEF Types
<1>4. \A l \in Launches : launch[l].at = "waiting" /\ ~launch[l].open
  BY DEF Init
<1>5. Memory /\ Closed
  BY <1>4 DEF Memory, Closed, At, Resting, Generating, Holding
<1>6. QED
  BY <1>3, <1>5 DEF Core

\* A step changes one launch at most, and keeps its type.
LEMMA CoreStep == Core /\ [Next]_vars => Core'
<1> SUFFICES ASSUME Core, [Next]_vars
             PROVE  Core'
  OBVIOUS
<1> USE DEF Core, Go, At
<1>a. Memory /\ Closed
  OBVIOUS
<1>b. Types
  BY TypesAreTypeOK
<1>c. Types' => TypeOK'
  BY Zenon DEF Types, TypeOK, Records
<1> HIDE DEF Core
<1>1. ASSUME NEW l \in Launches, Start(l)
      PROVE  Core'
  <2>0. launch[l] \in Records /\ \A n \in Names : files[n] \in Launches \cup {Absent, Empty}
    BY <1>b DEF Types
  <2>1. launch'[l] \in Records
    BY <1>1, <1>b, <2>0 DEF Types, Start, Records, Phases, Resting, Names
  <2>2. launch' = [launch EXCEPT ![l] = launch'[l]]
    BY <1>1, <1>b DEF Start, Types, Records
  <2>3. TypeOK'
    <3>1. launch' \in [Launches -> Records]
      BY <1>b, <2>1, <2>2 DEF Types
    <3>2. Types'
      BY <3>1, <1>b, <2>0, <1>1 DEF Start, Types
    <3>3. QED
      BY <3>2, <1>c
  <2>4. \A k \in Launches \ {l} : launch'[k] = launch[k]
    BY <2>2, <1>b DEF Types
  <2>5. Memory'
    BY <1>1, <1>a, <1>b, <2>4 DEF Start, Types, Records, Memory, Generating, Holding, Names
  <2>6. Closed'
    BY <1>1, <1>a, <1>b, <2>4 DEF Start, Types, Records, Closed, Resting, Names
  <2>7. QED
    BY <2>3, <2>5, <2>6 DEF Core
<1>2. ASSUME NEW l \in Launches, ReadCert(l)
      PROVE  Core'
  <2>0. launch[l] \in Records /\ \A n \in Names : files[n] \in Launches \cup {Absent, Empty}
    BY <1>b DEF Types
  <2>1. launch'[l] \in Records
    BY <1>2, <1>b, <2>0 DEF Types, ReadCert, Records, Phases, Resting, Names
  <2>2. launch' = [launch EXCEPT ![l] = launch'[l]]
    BY <1>2, <1>b DEF ReadCert, Types, Records
  <2>3. TypeOK'
    <3>1. launch' \in [Launches -> Records]
      BY <1>b, <2>1, <2>2 DEF Types
    <3>2. Types'
      BY <3>1, <1>b, <2>0, <1>2 DEF ReadCert, Types
    <3>3. QED
      BY <3>2, <1>c
  <2>4. \A k \in Launches \ {l} : launch'[k] = launch[k]
    BY <2>2, <1>b DEF Types
  <2>5. Memory'
    BY <1>2, <1>a, <1>b, <2>4 DEF ReadCert, Types, Records, Memory, Generating, Holding, Names
  <2>6. Closed'
    BY <1>2, <1>a, <1>b, <2>4 DEF ReadCert, Types, Records, Closed, Resting, Names
  <2>7. QED
    BY <2>3, <2>5, <2>6 DEF Core
<1>3. ASSUME NEW l \in Launches, ReadKey(l)
      PROVE  Core'
  <2>0. launch[l] \in Records /\ \A n \in Names : files[n] \in Launches \cup {Absent, Empty}
    BY <1>b DEF Types
  <2>1. launch'[l] \in Records
    BY <1>3, <1>b, <2>0 DEF Types, ReadKey, Records, Phases, Resting, Names
  <2>2. launch' = [launch EXCEPT ![l] = launch'[l]]
    BY <1>3, <1>b DEF ReadKey, Types, Records
  <2>3. TypeOK'
    <3>1. launch' \in [Launches -> Records]
      BY <1>b, <2>1, <2>2 DEF Types
    <3>2. Types'
      BY <3>1, <1>b, <2>0, <1>3 DEF ReadKey, Types
    <3>3. QED
      BY <3>2, <1>c
  <2>4. \A k \in Launches \ {l} : launch'[k] = launch[k]
    BY <2>2, <1>b DEF Types
  <2>5. Memory'
    BY <1>3, <1>a, <1>b, <2>4 DEF ReadKey, Types, Records, Memory, Generating, Holding, Names
  <2>6. Closed'
    BY <1>3, <1>a, <1>b, <2>4 DEF ReadKey, Types, Records, Closed, Resting, Names
  <2>7. QED
    BY <2>3, <2>5, <2>6 DEF Core
<1>4. ASSUME NEW l \in Launches, GenerateRootCa(l)
      PROVE  Core'
  <2>0. launch[l] \in Records /\ \A n \in Names : files[n] \in Launches \cup {Absent, Empty}
    BY <1>b DEF Types
  <2>1. launch'[l] \in Records
    BY <1>4, <1>b, <2>0 DEF Types, GenerateRootCa, Records, Phases, Resting, Names
  <2>2. launch' = [launch EXCEPT ![l] = launch'[l]]
    BY <1>4, <1>b DEF GenerateRootCa, Types, Records
  <2>3. TypeOK'
    <3>1. launch' \in [Launches -> Records]
      BY <1>b, <2>1, <2>2 DEF Types
    <3>2. Types'
      BY <3>1, <1>b, <2>0, <1>4 DEF GenerateRootCa, Types
    <3>3. QED
      BY <3>2, <1>c
  <2>4. \A k \in Launches \ {l} : launch'[k] = launch[k]
    BY <2>2, <1>b DEF Types
  <2>5. Memory'
    BY <1>4, <1>a, <1>b, <2>4 DEF GenerateRootCa, Types, Records, Memory, Generating, Holding, Names
  <2>6. Closed'
    BY <1>4, <1>a, <1>b, <2>4 DEF GenerateRootCa, Types, Records, Closed, Resting, Names
  <2>7. QED
    BY <2>3, <2>5, <2>6 DEF Core
<1>5. ASSUME NEW l \in Launches, Create(l)
      PROVE  Core'
  <2>0. launch[l] \in Records /\ \A n \in Names : files[n] \in Launches \cup {Absent, Empty}
    BY <1>b DEF Types
  <2>1. launch'[l] \in Records
    BY <1>5, <1>b, <2>0 DEF Types, Create, Records, Phases, Resting, Names
  <2>2. launch' = [launch EXCEPT ![l] = launch'[l]]
    BY <1>5, <1>b DEF Create, Types, Records
  <2>3. TypeOK'
    <3>1. launch' \in [Launches -> Records]
      BY <1>b, <2>1, <2>2 DEF Types
    <3>2. Types'
      BY <3>1, <1>b, <2>0, <1>5 DEF Create, Types
    <3>3. QED
      BY <3>2, <1>c
  <2>4. \A k \in Launches \ {l} : launch'[k] = launch[k]
    BY <2>2, <1>b DEF Types
  <2>5. Memory'
    BY <1>5, <1>a, <1>b, <2>4 DEF Create, Types, Records, Memory, Generating, Holding, Names
  <2>6. Closed'
    BY <1>5, <1>a, <1>b, <2>4 DEF Create, Types, Records, Closed, Resting, Names
  <2>7. QED
    BY <2>3, <2>5, <2>6 DEF Core
<1>6. ASSUME NEW l \in Launches, Fill(l)
      PROVE  Core'
  <2>0. launch[l] \in Records /\ \A n \in Names : files[n] \in Launches \cup {Absent, Empty}
    BY <1>b DEF Types
  <2>1. launch'[l] \in Records
    BY <1>6, <1>b, <2>0 DEF Types, Fill, After, Records, Phases, Resting, Names
  <2>2. launch' = [launch EXCEPT ![l] = launch'[l]]
    BY <1>6, <1>b DEF Fill, After, Types, Records
  <2>3. TypeOK'
    <3>1. launch' \in [Launches -> Records]
      BY <1>b, <2>1, <2>2 DEF Types
    <3>2. Types'
      BY <3>1, <1>b, <2>0, <1>6 DEF Fill, After, Types
    <3>3. QED
      BY <3>2, <1>c
  <2>4. \A k \in Launches \ {l} : launch'[k] = launch[k]
    BY <2>2, <1>b DEF Types
  <2>5. Memory'
    <3>1. ASSUME NEW k \in Launches \ {l}
          PROVE  /\ At(k)' \in Generating => launch'[k].cert = k /\ launch'[k].key = k
                 /\ At(k)' \in Holding => launch'[k].key \in Launches
      BY <1>a, <2>4 DEF Memory
    <3>2. /\ launch[l].at \in {"ca_cert", "ca_key", "thumbprint_file"} \/ launch[l].at \in Holding
          /\ launch'[l].cert = launch[l].cert
          /\ launch'[l].key = launch[l].key
          /\ launch'[l].at = After(launch[l].at)
      BY <1>6, <1>b DEF Fill, Types, Records, Names, Holding
    <3>3. /\ launch[l].at \in Generating => launch[l].cert = l /\ launch[l].key = l
          /\ launch[l].at \in Holding => launch[l].key \in Launches
      BY <1>a DEF Memory
    <3>4. /\ launch[l].at \in {"ca_cert", "ca_key", "thumbprint_file"} => launch'[l].at \in Generating
          /\ launch[l].at \in Holding => launch'[l].at \in Holding
      BY <1>6, <3>2 DEF Fill, After, Generating, Holding, Names
    <3>5. /\ At(l)' \in Generating => launch'[l].cert = l /\ launch'[l].key = l
          /\ At(l)' \in Holding => launch'[l].key \in Launches
      BY <3>2, <3>3, <3>4 DEF Generating, Holding
    <3>6. QED
      BY <3>1, <3>5 DEF Memory
  <2>6. Closed'
    BY <1>6, <1>a, <1>b, <2>4 DEF Fill, After, Types, Records, Closed, Resting, Names
  <2>7. QED
    BY <2>3, <2>5, <2>6 DEF Core
<1>7. ASSUME NEW l \in Launches, Install(l)
      PROVE  Core'
  <2>0. launch[l] \in Records /\ \A n \in Names : files[n] \in Launches \cup {Absent, Empty}
    BY <1>b DEF Types
  <2>1. launch'[l] \in Records
    BY <1>7, <1>b, <2>0 DEF Types, Install, After, Records, Phases, Resting, Names
  <2>2. launch' = [launch EXCEPT ![l] = launch'[l]]
    BY <1>7, <1>b DEF Install, After, Types, Records
  <2>3. TypeOK'
    <3>1. launch' \in [Launches -> Records]
      BY <1>b, <2>1, <2>2 DEF Types
    <3>2. launch[l].cert = l
      BY <1>7, <1>a DEF Install, Memory, Generating
    <3>3. trusted' \subseteq Launches /\ refused' \subseteq Launches
      BY <3>2, <1>b, <1>7 DEF Install, Types
    <3>4. Types'
      BY <3>1, <3>3, <1>b, <1>7 DEF Install, Types
    <3>5. QED
      BY <3>4, <1>c
  <2>4. \A k \in Launches \ {l} : launch'[k] = launch[k]
    BY <2>2, <1>b DEF Types
  <2>5. Memory'
    BY <1>7, <1>a, <1>b, <2>4 DEF Install, After, Types, Records, Memory, Generating, Holding, Names
  <2>6. Closed'
    BY <1>7, <1>a, <1>b, <2>4 DEF Install, After, Types, Records, Closed, Resting, Names
  <2>7. QED
    BY <2>3, <2>5, <2>6 DEF Core
<1>8. ASSUME NEW l \in Launches, Reinstall(l)
      PROVE  Core'
  <2>0. launch[l] \in Records /\ \A n \in Names : files[n] \in Launches \cup {Absent, Empty}
    BY <1>b DEF Types
  <2>1. launch'[l] \in Records
    BY <1>8, <1>b, <2>0 DEF Types, Reinstall, Records, Phases, Resting, Names
  <2>2. launch' = [launch EXCEPT ![l] = launch'[l]]
    BY <1>8, <1>b DEF Reinstall, Types, Records
  <2>3. TypeOK'
    <3>1. launch' \in [Launches -> Records]
      BY <1>b, <2>1, <2>2 DEF Types
    <3>2. Types'
      BY <3>1, <1>b, <2>0, <1>8 DEF Reinstall, Types
    <3>3. QED
      BY <3>2, <1>c
  <2>4. \A k \in Launches \ {l} : launch'[k] = launch[k]
    BY <2>2, <1>b DEF Types
  <2>5. Memory'
    BY <1>8, <1>a, <1>b, <2>4 DEF Reinstall, Types, Records, Memory, Generating, Holding, Names
  <2>6. Closed'
    BY <1>8, <1>a, <1>b, <2>4 DEF Reinstall, Types, Records, Closed, Resting, Names
  <2>7. QED
    BY <2>3, <2>5, <2>6 DEF Core
<1>9. ASSUME NEW l \in Launches, Load(l)
      PROVE  Core'
  <2>0. launch[l] \in Records /\ \A n \in Names : files[n] \in Launches \cup {Absent, Empty}
    BY <1>b DEF Types
  <2>1. launch'[l] \in Records
    BY <1>9, <1>b, <2>0 DEF Types, Load, Records, Phases, Resting, Names
  <2>2. launch' = [launch EXCEPT ![l] = launch'[l]]
    BY <1>9, <1>b DEF Load, Types, Records
  <2>3. TypeOK'
    <3>1. launch' \in [Launches -> Records]
      BY <1>b, <2>1, <2>2 DEF Types
    <3>2. Types'
      BY <3>1, <1>b, <2>0, <1>9 DEF Load, Types
    <3>3. QED
      BY <3>2, <1>c
  <2>4. \A k \in Launches \ {l} : launch'[k] = launch[k]
    BY <2>2, <1>b DEF Types
  <2>5. Memory'
    BY <1>9, <1>a, <1>b, <2>4 DEF Load, Types, Records, Memory, Generating, Holding, Names
  <2>6. Closed'
    BY <1>9, <1>a, <1>b, <2>4 DEF Load, Types, Records, Closed, Resting, Names
  <2>7. QED
    BY <2>3, <2>5, <2>6 DEF Core
<1>10. ASSUME NEW l \in Launches, Break(l)
      PROVE  Core'
  <2>0. launch[l] \in Records /\ \A n \in Names : files[n] \in Launches \cup {Absent, Empty}
    BY <1>b DEF Types
  <2>1. launch'[l] \in Records
    BY <1>10, <2>0 DEF Break, Records, Phases, Resting, Names
  <2>2. launch' = [launch EXCEPT ![l] = launch'[l]]
    BY <1>10, <1>b DEF Break, Types, Records
  <2>3. TypeOK'
    <3>1. launch' \in [Launches -> Records]
      BY <1>b, <2>1, <2>2 DEF Types
    <3>2. Types'
      BY <3>1, <1>b, <2>0, <1>10 DEF Break, Types
    <3>3. QED
      BY <3>2, <1>c
  <2>4. \A k \in Launches \ {l} : launch'[k] = launch[k]
    BY <2>2, <1>b DEF Types
  <2>5. Memory'
    BY <1>10, <1>a, <1>b, <2>4 DEF Break, Types, Records, Memory, Generating, Holding, Names
  <2>6. Closed'
    BY <1>10, <1>a, <1>b, <2>4 DEF Break, Types, Records, Closed, Resting, Names
  <2>7. QED
    BY <2>3, <2>5, <2>6 DEF Core
<1>11. CASE RemoveRoots
  BY <1>a, <1>b, <1>c, <1>11 DEF RemoveRoots, Types, Memory, Closed, Core
<1>12. CASE UNCHANGED vars
  BY <1>a, <1>b, <1>c, <1>12 DEF vars, Types, Memory, Closed, Core
<1>13. QED
  BY <1>1, <1>2, <1>3, <1>4, <1>5, <1>6, <1>7, <1>8, <1>9, <1>10, <1>11, <1>12
     DEF Next, Ensure, Quiescent

-----------------------------------------------------------------------------
(* What a launch that runs alone finds and leaves                          *)

\* Nothing is on the disk and nobody is under way.
LEMMA OrderInit == Init => Order
<1> SUFFICES ASSUME Init
             PROVE  Order
  OBVIOUS
<1>1. \A l \in Launches : launch[l].at = "waiting"
  BY DEF Init
<1>2. /\ \A n \in Names : files[n] = Absent
      /\ trusted = {}
  BY DEF Init
<1>3. Alone /\ Progress
  BY <1>1 DEF Alone, Progress, Stage, At, UnderWay, Resting, Holding
<1>4. Disk /\ Failures
  BY <1>1, <1>2 DEF Disk, Failures, At, Names
<1>5. QED
  BY <1>3, <1>4 DEF Order

\* Where all others rest, only the launch that moved is to be looked at.
LEMMA SoloStep ==
  ASSUME NEW l \in Launches, Stage(l)',
         \A k \in Launches \ {l} : launch'[k] = launch[k] /\ launch[k].at \in Resting
  PROVE  Alone' /\ Progress'
<1>1. ASSUME NEW k \in Launches \ {l}
      PROVE  At(k)' \in Resting /\ Stage(k)'
  <2>1. At(k)' \in Resting
    BY DEF At
  <2>2. QED
    BY <2>1 DEF Stage, Resting, Holding
<1>2. QED
  BY <1>1 DEF Alone, Progress, UnderWay

\* As long as launches do not overlap, a step keeps the order.
LEMMA OrderStep == Core /\ Order /\ ~overlap' /\ [Next]_vars => Order'
<1> SUFFICES ASSUME Core, Order, ~overlap', [Next]_vars
             PROVE  Order'
  OBVIOUS
<1>a. Types /\ Memory /\ Closed
  BY TypesAreTypeOK DEF Core
<1>b. Alone /\ Disk /\ Progress /\ Failures
  BY DEF Order
<1>c. ASSUME NEW l \in Launches, UnderWay(l)
      PROVE  \A k \in Launches \ {l} : launch[k].at \in Resting
  BY <1>b, <1>c DEF Alone, UnderWay, At
<1>d. ASSUME NEW l \in Launches
      PROVE  Stage(l) /\ launch[l] \in Records
  BY <1>a, <1>b DEF Progress, Types
<1>1. ASSUME NEW l \in Launches, Start(l)
      PROVE  Order'
  <2>1. \A k \in Launches \ {l} : launch[k].at \in Resting
    BY <1>1, <1>a DEF Start, UnderWay, At, Types
  <2>2. \A k \in Launches \ {l} : launch'[k] = launch[k]
    BY <1>1, <1>a DEF Start, Types, Go
  <2>3. Stage(l)'
    BY <1>1, <1>a, <1>b, <1>d DEF Start, Go, At, Types, Records, Stage, Memory, Closed, Disk, Names, Generating, Holding, Resting
  <2>4. Disk'
    BY <1>1, <1>a, <1>b, <1>d DEF Start, Go, At, Types, Records, Stage, Memory, Disk, Names, Generating, Holding
  <2>5. Failures'
    BY <1>1, <1>a, <1>b, <1>d, <2>1, <2>2 DEF Start, Go, At, Types, Records, Stage, Disk, Failures, Names, Holding, Resting
  <2>6. QED
    BY <2>1, <2>2, <2>3, <2>4, <2>5, SoloStep DEF Order
<1>2. ASSUME NEW l \in Launches, ReadCert(l)
      PROVE  Order'
  <2>1. \A k \in Launches \ {l} : launch[k].at \in Resting
    BY <1>2, <1>c DEF ReadCert, UnderWay, At, Resting, Names
  <2>2. \A k \in Launches \ {l} : launch'[k] = launch[k]
    BY <1>2, <1>a DEF ReadCert, Types, Go
  <2>3. Stage(l)'
    BY <1>2, <1>a, <1>b, <1>d DEF ReadCert, Found, Go, At, Types, Records, Stage, Memory, Closed, Disk, Names, Generating, Holding, Resting
  <2>4. Disk'
    BY <1>2, <1>a, <1>b, <1>d DEF ReadCert, Found, Go, At, Types, Records, Stage, Memory, Disk, Names, Generating, Holding
  <2>5. Failures'
    BY <1>2, <1>a, <1>b, <1>d, <2>1, <2>2 DEF ReadCert, Found, Go, At, Types, Records, Stage, Disk, Failures, Names, Holding, Resting
  <2>6. QED
    BY <2>1, <2>2, <2>3, <2>4, <2>5, SoloStep DEF Order
<1>3. ASSUME NEW l \in Launches, ReadKey(l)
      PROVE  Order'
  <2>1. \A k \in Launches \ {l} : launch[k].at \in Resting
    BY <1>3, <1>c DEF ReadKey, UnderWay, At, Resting, Names
  <2>2. \A k \in Launches \ {l} : launch'[k] = launch[k]
    BY <1>3, <1>a DEF ReadKey, Types, Go
  <2>3. Stage(l)'
    BY <1>3, <1>a, <1>b, <1>d DEF ReadKey, Go, At, Types, Records, Stage, Memory, Closed, Disk, Names, Generating, Holding, Resting
  <2>4. Disk'
    BY <1>3, <1>a, <1>b, <1>d DEF ReadKey, Go, At, Types, Records, Stage, Memory, Disk, Names, Generating, Holding
  <2>5. Failures'
    BY <1>3, <1>a, <1>b, <1>d, <2>1, <2>2 DEF ReadKey, Go, At, Types, Records, Stage, Disk, Failures, Names, Holding, Resting
  <2>6. QED
    BY <2>1, <2>2, <2>3, <2>4, <2>5, SoloStep DEF Order
<1>4. ASSUME NEW l \in Launches, GenerateRootCa(l)
      PROVE  Order'
  <2>1. \A k \in Launches \ {l} : launch[k].at \in Resting
    BY <1>4, <1>c DEF GenerateRootCa, UnderWay, At, Resting, Names
  <2>2. \A k \in Launches \ {l} : launch'[k] = launch[k]
    BY <1>4, <1>a DEF GenerateRootCa, Types, Go
  <2>3. Stage(l)'
    BY <1>4, <1>a, <1>b, <1>d DEF GenerateRootCa, Found, Go, At, Types, Records, Stage, Memory, Closed, Disk, Names, Generating, Holding, Resting
  <2>4. Disk'
    BY <1>4, <1>a, <1>b, <1>d DEF GenerateRootCa, Found, Go, At, Types, Records, Stage, Memory, Disk, Names, Generating, Holding
  <2>5. Failures'
    BY <1>4, <1>a, <1>b, <1>d, <2>1, <2>2 DEF GenerateRootCa, Found, Go, At, Types, Records, Stage, Disk, Failures, Names, Holding, Resting
  <2>6. QED
    BY <2>1, <2>2, <2>3, <2>4, <2>5, SoloStep DEF Order
<1>5. ASSUME NEW l \in Launches, Create(l)
      PROVE  Order'
  <2>1. \A k \in Launches \ {l} : launch[k].at \in Resting
    BY <1>5, <1>c DEF Create, UnderWay, At, Resting, Names
  <2>2. \A k \in Launches \ {l} : launch'[k] = launch[k]
    BY <1>5, <1>a DEF Create, Types, Go
  <2>3. Stage(l)'
    BY <1>5, <1>a, <1>b, <1>d DEF Create, Go, At, Types, Records, Stage, Memory, Closed, Disk, Names, Generating, Holding, Resting
  <2>4. Disk'
    BY <1>5, <1>a, <1>b, <1>d DEF Create, Go, At, Types, Records, Stage, Memory, Disk, Names, Generating, Holding
  <2>5. Failures'
    BY <1>5, <1>a, <1>b, <1>d, <2>1, <2>2 DEF Create, Go, At, Types, Records, Stage, Disk, Failures, Names, Holding, Resting
  <2>6. QED
    BY <2>1, <2>2, <2>3, <2>4, <2>5, SoloStep DEF Order
<1>6. ASSUME NEW l \in Launches, Fill(l)
      PROVE  Order'
  <2>1. \A k \in Launches \ {l} : launch[k].at \in Resting
    BY <1>6, <1>c DEF Fill, UnderWay, At, Resting, Names
  <2>2. \A k \in Launches \ {l} : launch'[k] = launch[k]
    BY <1>6, <1>a DEF Fill, Types, Go
  <2>3. Stage(l)'
    BY <1>6, <1>a, <1>b, <1>d DEF Fill, After, Go, At, Types, Records, Stage, Memory, Closed, Disk, Names, Generating, Holding, Resting
  <2>4. Disk'
    BY <1>6, <1>a, <1>b, <1>d DEF Fill, After, Go, At, Types, Records, Stage, Memory, Disk, Names, Generating, Holding
  <2>5. Failures'
    BY <1>6, <1>a, <1>b, <1>d, <2>1, <2>2 DEF Fill, After, Go, At, Types, Records, Stage, Disk, Failures, Names, Holding, Resting
  <2>6. QED
    BY <2>1, <2>2, <2>3, <2>4, <2>5, SoloStep DEF Order
<1>7. ASSUME NEW l \in Launches, Install(l)
      PROVE  Order'
  <2>1. \A k \in Launches \ {l} : launch[k].at \in Resting
    BY <1>7, <1>c DEF Install, UnderWay, At, Resting, Names
  <2>2. \A k \in Launches \ {l} : launch'[k] = launch[k]
    BY <1>7, <1>a DEF Install, Types, Go
  <2>3. Stage(l)'
    BY <1>7, <1>a, <1>b, <1>d DEF Install, After, Go, At, Types, Records, Stage, Memory, Closed, Disk, Names, Generating, Holding, Resting
  <2>4. Disk'
    BY <1>7, <1>a, <1>b, <1>d DEF Install, After, Go, At, Types, Records, Stage, Memory, Disk, Names, Generating, Holding
  <2>5. Failures'
    BY <1>7, <1>a, <1>b, <1>d, <2>1, <2>2 DEF Install, After, Go, At, Types, Records, Stage, Disk, Failures, Names, Holding, Resting
  <2>6. QED
    BY <2>1, <2>2, <2>3, <2>4, <2>5, SoloStep DEF Order
<1>8. ASSUME NEW l \in Launches, Reinstall(l)
      PROVE  Order'
  <2>1. \A k \in Launches \ {l} : launch[k].at \in Resting
    BY <1>8, <1>c DEF Reinstall, UnderWay, At, Resting, Names
  <2>2. \A k \in Launches \ {l} : launch'[k] = launch[k]
    BY <1>8, <1>a DEF Reinstall, Types, Go
  <2>3. Stage(l)'
    BY <1>8, <1>a, <1>b, <1>d DEF Reinstall, Go, At, Types, Records, Stage, Memory, Closed, Disk, Names, Generating, Holding, Resting
  <2>4. Disk'
    BY <1>8, <1>a, <1>b, <1>d DEF Reinstall, Go, At, Types, Records, Stage, Memory, Disk, Names, Generating, Holding
  <2>5. Failures'
    BY <1>8, <1>a, <1>b, <1>d, <2>1, <2>2 DEF Reinstall, Go, At, Types, Records, Stage, Disk, Failures, Names, Holding, Resting
  <2>6. QED
    BY <2>1, <2>2, <2>3, <2>4, <2>5, SoloStep DEF Order
<1>9. ASSUME NEW l \in Launches, Load(l)
      PROVE  Order'
  <2>1. \A k \in Launches \ {l} : launch[k].at \in Resting
    BY <1>9, <1>c DEF Load, UnderWay, At, Resting, Names
  <2>2. \A k \in Launches \ {l} : launch'[k] = launch[k]
    BY <1>9, <1>a DEF Load, Types, Go
  <2>3. Stage(l)'
    BY <1>9, <1>a, <1>b, <1>d DEF Load, Go, At, Types, Records, Stage, Memory, Closed, Disk, Names, Generating, Holding, Resting
  <2>4. Disk'
    BY <1>9, <1>a, <1>b, <1>d DEF Load, Go, At, Types, Records, Stage, Memory, Disk, Names, Generating, Holding
  <2>5. Failures'
    BY <1>9, <1>a, <1>b, <1>d, <2>1, <2>2 DEF Load, Go, At, Types, Records, Stage, Disk, Failures, Names, Holding, Resting
  <2>6. QED
    BY <2>1, <2>2, <2>3, <2>4, <2>5, SoloStep DEF Order
<1>10. ASSUME NEW l \in Launches, Break(l)
      PROVE  Order'
  <2>1. \A k \in Launches \ {l} : launch[k].at \in Resting
    BY <1>10, <1>c DEF Break, UnderWay, At, Resting, Names
  <2>2. \A k \in Launches \ {l} : launch'[k] = launch[k]
    BY <1>10, <1>a DEF Break, Types, Go
  <2>3. Stage(l)'
    BY <1>10, <1>a, <1>b, <1>d DEF Break, Go, At, Types, Records, Stage, Memory, Closed, Disk, Names, Generating, Holding, Resting
  <2>4. Disk'
    BY <1>10, <1>a, <1>b, <1>d DEF Break, Go, At, Types, Records, Stage, Memory, Disk, Names, Generating, Holding
  <2>5. Failures'
    BY <1>10, <1>a, <1>b, <1>d, <2>1, <2>2 DEF Break, Go, At, Types, Records, Stage, Disk, Failures, Names, Holding, Resting
  <2>6. QED
    BY <2>1, <2>2, <2>3, <2>4, <2>5, SoloStep DEF Order
<1>11. CASE RemoveRoots
  BY <1>11, <1>b DEF RemoveRoots, Order, Alone, Disk, Progress, Failures, Stage, UnderWay, At,
                    Resting, Holding
<1>12. CASE UNCHANGED vars
  BY <1>12, <1>b DEF vars, Order, Alone, Disk, Progress, Failures, Stage, UnderWay, At
<1>13. QED
  BY <1>1, <1>2, <1>3, <1>4, <1>5, <1>6, <1>7, <1>8, <1>9, <1>10, <1>11, <1>12
     DEF Next, Ensure, Quiescent

-----------------------------------------------------------------------------
(* The theorems                                                            *)

\* The inductive invariant holds.
LEMMA Inductive == Spec => []IInv
<1>1. Init => IInv
  BY CoreInit, OrderInit DEF IInv
<1>2. IInv /\ [Next]_vars => IInv'
  <2> SUFFICES ASSUME IInv, [Next]_vars
               PROVE  IInv'
    OBVIOUS
  <2>1. Core /\ Core'
    BY CoreStep DEF IInv
  <2>2. overlap => overlap'
    BY DEF Next, Ensure, Start, ReadCert, ReadKey, GenerateRootCa, Create, Fill, Install,
           Reinstall, Load, Break, RemoveRoots, Quiescent, vars
  <2>3. QED
    BY <2>1, <2>2, OrderStep DEF IInv
<1>3. QED
  BY <1>1, <1>2, PTL DEF Spec

\* Every variable keeps its type.
THEOREM TypeCorrect == Spec => []TypeOK
<1>1. IInv => TypeOK
  BY DEF IInv, Core
<1>2. QED
  BY <1>1, Inductive, PTL

\* What the TLS layer loads is a chain of one CA whose root is trusted, or was
\* refused to this launch, wherever earlier launches broke off.
THEOREM LoadsCompleteChains == Spec => []ChainComplete
<1>1. IInv => ChainComplete
  <2> SUFFICES ASSUME IInv, NEW l \in Launches, At(l) = "load", ~overlap
               PROVE  /\ files["server_cert"] = l
                      /\ files["server_key"] = l
                      /\ files["ca_key"] = launch[l].key
                      /\ files["ca_cert"] = launch[l].key
                      /\ launch[l].key \in trusted \/ l \in refused
    BY DEF ChainComplete
  <2>1. Memory /\ Disk /\ Stage(l)
    BY DEF IInv, Core, Order, Progress
  <2>2. QED
    BY <2>1 DEF Memory, Disk, Stage, Holding
<1>2. QED
  BY <1>1, Inductive, PTL

\* The thumbprint on the disk names every root that was installed.
THEOREM ThumbprintSuffices == Spec => []ThumbprintNamesRoots
<1>1. IInv => ThumbprintNamesRoots
  BY DEF IInv, Order, Disk, ThumbprintNamesRoots
<1>2. QED
  BY <1>1, Inductive, PTL

\* A launch fails only of a refusal, or of the empty key file of one that broke off.
THEOREM FailuresHaveCauses == Spec => []FailsForCause
<1>1. IInv => FailsForCause
  BY DEF IInv, Order, Failures, FailsForCause
<1>2. QED
  BY <1>1, Inductive, PTL
=============================================================================
