------------------------- MODULE RegistrySyncProofs -------------------------
(***************************************************************************)
(* Theorems about RegistrySync for any repository, signatures, bounds and  *)
(* lists of TLDs: type correctness, that nothing unsigned is written and   *)
(* nothing but the directory is served, that a directory clean at first    *)
(* stays clean, that a round that succeeds leaves memory and disk agreeing *)
(* but for what could not be read, that a TLD is served with a             *)
(* configuration of its own, that a daemon that has caught up goes on      *)
(* serving, and that rounds end.                                           *)
(***************************************************************************)
EXTENDS RegistrySync, FiniteSets, FiniteSetTheorems, TLAPS

USE DEF remotes, memory, round

LEMMA InitTypeOK == Init => TypeOK
BY ConstantsAssumption DEF Init, TypeOK, Contents

\* A round ends and its backoff grows.
LEMMA FailTypeOK ==
  ASSUME TypeOK, Fail, disk' \in [Files -> Contents \cup {NoContent}],
         troubles' \in 0 .. MaxTroubles
  PROVE  TypeOK'
<1>1. fail_delay' \in {1, 2, 4, 8, 16, 24} /\ nap' \in {0, 1, 2, 4, 8, 16, 24}
  BY DEF Fail, TypeOK
<1> QED
  BY <1>1 DEF Fail, TypeOK

LEMMA TroubleCounted ==
  ASSUME TypeOK, Trouble
  PROVE  troubles' \in 0 .. MaxTroubles
BY ConstantsAssumption DEF Trouble, TypeOK

\* What a load leaves behind, whatever it could not read or drop.
LEMMA LoadTypeOK ==
  ASSUME TypeOK, Load
  PROVE  /\ registered' \subseteq Tlds /\ unread' \subseteq Files
         /\ networks' \in [Tlds -> Configs \cup {NoContent}]
         /\ troubles' \in 0 .. MaxTroubles
<1>1. CASE LoadAll
  BY <1>1 DEF LoadAll, Read, Register, Loaded, TypeOK
<1>2. CASE LoadSome
  BY <1>2, TroubleCounted DEF LoadSome, Read, Register, Loaded, TypeOK
<1>3. CASE LoadNothing
  BY <1>3, TroubleCounted DEF LoadNothing, TypeOK
<1> QED
  BY <1>1, <1>2, <1>3 DEF Load

LEMMA NextTypeOK == TypeOK /\ [Next]_vars => TypeOK'
<1> SUFFICES ASSUME TypeOK, [Next]_vars PROVE TypeOK'
  OBVIOUS
<1>1. ASSUME NEW f \in Files, Publish(f) PROVE TypeOK'
  BY <1>1, ConstantsAssumption DEF Publish, TypeOK
<1>2. CASE Start \/ Reload
  BY <1>2, LoadTypeOK DEF Start, Reload, TypeOK
<1>3. CASE Crash
  BY <1>3, TroubleCounted DEF Crash, TypeOK
<1>4. CASE WriteTorn
  BY <1>4, TroubleCounted DEF WriteTorn, TypeOK, Contents
<1>5. CASE ListFails \/ DownloadFails \/ SignatureFails \/ WriteFails
  BY <1>5, TroubleCounted, FailTypeOK
     DEF ListFails, DownloadFails, SignatureFails, WriteFails, TypeOK, Contents
<1>6. CASE DownloadGone \/ SignatureMissing
  BY <1>6, FailTypeOK DEF DownloadGone, SignatureMissing, TypeOK
<1>7. CASE SignatureSkipped \/ SignatureRejects
  BY <1>7, TroubleCounted DEF SignatureSkipped, SignatureRejects, Skip, TypeOK
<1>8. CASE List \/ Wake
  BY <1>8 DEF List, Wake, TypeOK
<1>9. CASE Download \/ Write
  BY <1>9 DEF Download, Write, TypeOK
<1>10. CASE DownloadSkipped
  BY <1>10, TroubleCounted DEF DownloadSkipped, TypeOK
<1>11. CASE UNCHANGED vars
  BY <1>11 DEF vars, TypeOK
<1> QED
  BY <1>1, <1>2, <1>3, <1>4, <1>5, <1>6, <1>7, <1>8, <1>9, <1>10, <1>11 DEF Next, Updater

\* The type invariant holds in every reachable state.
THEOREM TypeCorrect == Spec => []TypeOK
BY InitTypeOK, NextTypeOK, PTL DEF Spec, Safety

-----------------------------------------------------------------------------
(* What is written to the directory, and what is served.                   *)

\* A load serves what the directory holds, what was served before, or nothing.
LEMMA LoadServesDisk ==
  ASSUME Load, NEW t \in Tlds
  PROVE  \/ networks'[t] \in {networks[t], NoContent}
         \/ \E f \in Candidates(t) : networks'[t] = disk[f]
<1>1. ASSUME NEW read \in SUBSET Files, Read(read)
      PROVE  networks'[t] = NoContent \/ \E f \in Candidates(t) : networks'[t] = disk[f]
  BY <1>1 DEF Read
<1>2. CASE LoadNothing
  BY <1>2 DEF LoadNothing
<1> QED
  BY <1>1, <1>2 DEF Load, LoadAll, LoadSome

\* A file has been downloaded when its signature is awaited.
Fetching == pc = "signature" => item \in Files /\ bytes \in Contents

LEMMA AlwaysFetching == Spec => []Fetching
<1>1. Init => Fetching
  BY DEF Init, Fetching
<1>2. TypeOK /\ Fetching /\ [Next]_vars => Fetching'
  <2> SUFFICES ASSUME TypeOK, Fetching, [Next]_vars PROVE Fetching'
    OBVIOUS
  <2>1. CASE Download
    BY <2>1 DEF Download, Fetching, TypeOK, Contents
  <2>2. CASE UNCHANGED vars \/ \E f \in Files : Publish(f)
    BY <2>2 DEF vars, Publish, Fetching
  <2>3. CASE Start \/ Crash \/ WriteTorn \/ Reload \/ Wake \/ List \/ Write
    BY <2>3 DEF Start, Crash, WriteTorn, Reload, Wake, List, Write, Fetching
  <2>4. CASE \/ ListFails \/ DownloadFails \/ SignatureFails \/ DownloadGone
             \/ SignatureMissing \/ WriteFails
    BY <2>4 DEF ListFails, DownloadFails, SignatureFails, DownloadGone, SignatureMissing,
                WriteFails, Fail, Fetching
  <2>5. CASE SignatureSkipped \/ SignatureRejects \/ DownloadSkipped
    BY <2>5 DEF SignatureSkipped, SignatureRejects, Skip, DownloadSkipped, Fetching
  <2> QED
    BY <2>1, <2>2, <2>3, <2>4, <2>5 DEF Next, Updater
<1> QED
  BY <1>1, <1>2, TypeCorrect, PTL DEF Spec, Safety

\* A file that is written holds what a signature verified, or a part of it.
WritesSigned(f) == disk'[f] \in {disk[f], Garbage} \cup Signed

LEMMA NextWritesSigned ==
  ASSUME TypeOK, Fetching, [Next]_vars, NEW f \in Files
  PROVE  WritesSigned(f)
<1>1. ASSUME pc = "signature", sig[item] = bytes PROVE bytes \in Signed
  BY <1>1, ConstantsAssumption DEF Fetching, TypeOK, Contents
<1>2. CASE Write
  BY <1>1, <1>2 DEF Write, WritesSigned, TypeOK
<1>3. CASE WriteTorn \/ WriteFails
  BY <1>3 DEF WriteTorn, WriteFails, WritesSigned, TypeOK
<1>4. CASE disk' = disk
  BY <1>4 DEF WritesSigned
<1> QED
  BY <1>2, <1>3, <1>4 DEF Next, Updater, vars, Publish, Start, Crash, List, ListFails, Download,
     DownloadGone, DownloadSkipped, DownloadFails, SignatureSkipped, SignatureFails,
     SignatureMissing, SignatureRejects, Skip, Fail, Reload, Wake

\* Outside a load the registry stays what it is, or is lost with the process.
LEMMA OnlyLoadsServe ==
  ASSUME [Next]_vars, ~Load, NEW t \in Tlds
  PROVE  networks'[t] \in {networks[t], NoContent}
<1>1. CASE Crash \/ WriteTorn
  BY <1>1 DEF Crash, WriteTorn
<1>2. CASE networks' = networks
  BY <1>2
<1> QED
  BY <1>1, <1>2 DEF Next, Updater, vars, Publish, Start, List, ListFails, Download,
     DownloadGone, DownloadSkipped, DownloadFails, SignatureSkipped, SignatureFails,
     SignatureMissing, SignatureRejects, Skip, Fail, Write, WriteFails, Reload, Wake

\* Only signed contents, or what a torn write left, reach the directory, and
\* only what is there is served (updater.rs:133-158, registry.rs:33-95).
THEOREM NothingForged == Spec => OnlySigned
<1>1. ASSUME TypeOK, Fetching, [Next]_vars
      PROVE  /\ \A f \in Files : disk'[f] \in {disk[f], Garbage} \cup Signed
             /\ \A t \in Tlds :
                  networks'[t] \in {networks[t], NoContent} \cup {disk[f] : f \in Files}
  <2>1. ASSUME NEW f \in Files PROVE disk'[f] \in {disk[f], Garbage} \cup Signed
    BY <1>1, NextWritesSigned DEF WritesSigned
  <2>2. ASSUME NEW t \in Tlds
        PROVE  networks'[t] \in {networks[t], NoContent} \cup {disk[f] : f \in Files}
    <3>1. CASE Load
      BY <3>1, LoadServesDisk DEF Candidates
    <3>2. CASE ~Load
      BY <1>1, <3>2, OnlyLoadsServe
    <3> QED
      BY <3>1, <3>2
  <2> QED
    BY <2>1, <2>2
<1>2. TypeOK /\ Fetching /\ [Next]_vars
        => [/\ \A f \in Files : disk'[f] \in {disk[f], Garbage} \cup Signed
            /\ \A t \in Tlds :
                 networks'[t] \in {networks[t], NoContent} \cup {disk[f] : f \in Files}]_vars
  BY <1>1
<1> QED
  BY <1>2, TypeCorrect, AlwaysFetching, PTL DEF Spec, Safety, OnlySigned

\* The directory holds nothing but signed contents and parts of them, and
\* nothing but signed configurations is served.
Clean ==
  /\ \A f \in Files : disk[f] \in Signed \cup {Garbage, NoContent}
  /\ \A t \in Tlds : networks[t] \in Signed \cup {NoContent}

\* A daemon whose directory nobody wrote to by hand never serves what the holder
\* of the updater key has not signed, in spite of crashes, torn writes and a
\* repository that changes under it (updater.rs:106-158).
THEOREM StaysClean == Clean /\ Spec => []Clean
<1>1. TypeOK /\ Fetching /\ Clean /\ [Next]_vars => Clean'
  <2> SUFFICES ASSUME TypeOK, Fetching, Clean, [Next]_vars PROVE Clean'
    OBVIOUS
  <2>1. ASSUME NEW f \in Files PROVE disk'[f] \in Signed \cup {Garbage, NoContent}
    BY NextWritesSigned DEF WritesSigned, Clean
  <2>2. ASSUME NEW t \in Tlds PROVE networks'[t] \in Signed \cup {NoContent}
    <3>1. CASE ~Load
      BY <3>1, OnlyLoadsServe DEF Clean
    <3>2. CASE networks'[t] \in {networks[t], NoContent}
      BY <3>2 DEF Clean
    <3>3. ASSUME NEW f \in Candidates(t), networks'[t] = disk[f]
          PROVE  networks'[t] \in Signed
      BY <3>3, ConstantsAssumption DEF Candidates, Clean
    <3> QED
      BY <3>1, <3>2, <3>3, LoadServesDisk
  <2> QED
    BY <2>1, <2>2 DEF Clean
<1> QED
  BY <1>1, TypeCorrect, AlwaysFetching, PTL DEF Spec, Safety

-----------------------------------------------------------------------------
\* A failed round is told from one that succeeded by the backoff it leaves.
LEMMA FailGrows ==
  ASSUME TypeOK, Fail
  PROVE  fail_delay' # 1
BY DEF TypeOK, Fail

\* The registry agrees with the directory but for what could not be read.
InSync ==
  \A t \in Tlds :
    /\ networks[t] = NoContent => Candidates(t) \subseteq unread
    /\ networks[t] # NoContent /\ unread # Files =>
         \E f \in Candidates(t) \ unread : networks[t] = disk[f]

\* Every load leaves the two agreeing, one that fails half way too.
LEMMA LoadSyncs ==
  ASSUME Load, disk' = disk
  PROVE  InSync'
<1>1. ASSUME NEW t \in Tlds PROVE Candidates(t)' = Candidates(t)
  BY DEF Candidates
<1>2. ASSUME NEW read \in SUBSET Files, Read(read) PROVE InSync'
  <2>1. ASSUME NEW t \in Tlds
        PROVE  Candidates(t) \cap read = Candidates(t) \ unread'
    BY <1>2 DEF Read, Candidates
  <2>2. ASSUME NEW t \in Tlds, NEW f \in Candidates(t) PROVE disk[f] # NoContent
    BY ConstantsAssumption DEF Candidates
  <2>3. ASSUME NEW t \in Tlds, networks'[t] = NoContent PROVE Candidates(t) \subseteq unread'
    BY <1>2, <2>1, <2>2, <2>3 DEF Read
  <2>4. ASSUME NEW t \in Tlds, networks'[t] # NoContent
        PROVE  \E f \in Candidates(t) \ unread' : networks'[t] = disk[f]
    BY <1>2, <2>1, <2>4 DEF Read
  <2> QED
    BY <1>1, <2>3, <2>4 DEF InSync
<1>3. CASE LoadNothing
  BY <1>1, <1>3 DEF LoadNothing, InSync, Candidates
<1> QED
  BY <1>2, <1>3 DEF Load, LoadAll, LoadSome

\* After a round that succeeds a TLD is missing only for want of a file that
\* could be read, and what is served is in the directory now, or nothing at all
\* could be read (updater.rs:42-52, registry.rs:25-101).
THEOREM SuccessSyncs == Spec => []SyncedAfterSuccess
<1>1. Init => SyncedAfterSuccess
  BY DEF Init, SyncedAfterSuccess
<1>2. TypeOK /\ SyncedAfterSuccess /\ [Next]_vars => SyncedAfterSuccess'
  <2> SUFFICES ASSUME TypeOK, SyncedAfterSuccess, [Next]_vars,
                      pc' = "sleep", nap' = 24, fail_delay' = 1
               PROVE  InSync'
    BY DEF SyncedAfterSuccess, InSync
  <2>1. CASE Reload
    BY <2>1, LoadSyncs DEF Reload
  <2>2. CASE UNCHANGED vars \/ \E f \in Files : Publish(f)
    BY <2>2 DEF Publish, vars, SyncedAfterSuccess, InSync, Candidates
  <2>3. CASE Fail
    BY <2>3, FailGrows
  <2>4. CASE ~Fail /\ ~Reload /\ ~UNCHANGED vars /\ ~\E f \in Files : Publish(f)
    BY <2>4 DEF Next, Updater, Start, Crash, WriteTorn, List, ListFails, Download, DownloadGone,
                DownloadSkipped, DownloadFails, SignatureSkipped, SignatureFails,
                SignatureMissing, SignatureRejects, Skip, Write, WriteFails, Wake
  <2> QED
    BY <2>1, <2>2, <2>3, <2>4
<1> QED
  BY <1>1, <1>2, TypeCorrect, PTL DEF Spec, Safety

-----------------------------------------------------------------------------
(* What the registry serves, and what it goes on serving.                  *)

\* The configurations a load may put in the registry under t.
ConfigsFor(t) == {c \in Configs : Tld[c] = t /\ t \in Allowed}

\* Whatever the repository and the disk went through, a TLD is served with a
\* configuration of its own that the lists let through: no file can take the
\* place of another TLD's (registry.rs:33-95).
Fits == \A t \in Tlds : networks[t] \in ConfigsFor(t) \cup {NoContent}

\* The registry hands a swarm a configuration of the TLD asked for: what Atlas
\* takes its registry to be.
THEOREM ServesOwn == Spec => []Fits
<1>1. Init => Fits
  BY DEF Init, Fits
<1>2. Fits /\ [Next]_vars => Fits'
  <2> SUFFICES ASSUME Fits, [Next]_vars, NEW t \in Tlds
               PROVE  networks'[t] \in ConfigsFor(t) \cup {NoContent}
    BY DEF Fits, ConfigsFor
  <2>1. CASE networks'[t] \in {networks[t], NoContent}
    BY <2>1 DEF Fits
  <2>2. ASSUME NEW f \in Candidates(t), networks'[t] = disk[f]
        PROVE  networks'[t] \in ConfigsFor(t)
    BY <2>2 DEF Candidates, ConfigsFor
  <2> QED
    BY <2>1, <2>2, LoadServesDisk, OnlyLoadsServe
<1> QED
  BY <1>1, <1>2, PTL DEF Spec, Safety

\* Every file of the repository verifies and is on disk, the TLD it configures
\* is served with a configuration of its own from there, and nothing else is
\* being fetched.
Settled ==
  /\ \A f \in Files : remote[f] # NoContent => Verified(f) /\ disk[f] = remote[f]
  /\ \A f \in Files : Served(f)
  /\ pc = "signature" => bytes = remote[item]

\* A daemon that serves what the repository holds goes on serving it, round
\* after round and wherever the updater stands, until the repository changes or
\* something fails (updater.rs:21-158).
ServedStays == [][Settled /\ UNCHANGED <<remote, sig, troubles>> => Settled']_vars

LEMMA LoadServes ==
  ASSUME LoadAll, disk' = disk, remote' = remote, NEW f \in Files, Served(f)
  PROVE  Served(f)'
<1> SUFFICES ASSUME remote[f] \in Configs, Tld[remote[f]] \in Allowed
             PROVE  Serves(Tld[remote[f]])'
  BY DEF Served
<1> DEFINE t == Tld[remote[f]]
<1>1. t \in Tlds /\ f \in Candidates(t)
  BY ConstantsAssumption DEF Served, Candidates
<1>2. PICK g \in Candidates(t) : networks'[t] = disk[g]
  BY <1>1 DEF LoadAll, Read
<1> QED
  BY <1>2 DEF Serves, Candidates

\* A round, and a restart, change nothing in a daemon that has caught up.
THEOREM GoesOnServing == Spec => ServedStays
<1>1. ASSUME TypeOK, Fetching, Settled, UNCHANGED <<remote, sig, troubles>>, [Next]_vars
      PROVE  Settled'
  <2> USE DEF Settled, Verified
  <2>1. ~Trouble
    BY <1>1 DEF Trouble, TypeOK
  <2>2. CASE Start \/ Reload
    <3>1. LoadAll /\ disk' = disk /\ pc' # "signature"
      BY <2>1, <2>2 DEF Start, Reload, Load, LoadSome, LoadNothing
    <3>2. \A f \in Files : Served(f)'
      BY <1>1, <3>1, LoadServes
    <3> QED
      BY <1>1, <3>1, <3>2
  <2>3. ASSUME disk' = disk, networks' = networks PROVE \A f \in Files : Served(f)'
    BY <1>1, <2>3 DEF Served, Serves, Candidates
  <2>4. CASE Write
    <3>1. disk' = disk /\ networks' = networks /\ pc' = "next"
      BY <1>1, <2>4, ConstantsAssumption DEF Write, Fetching, TypeOK, Contents
    <3> QED
      BY <1>1, <2>3, <3>1
  <2>5. CASE Download
    <3>1. disk' = disk /\ networks' = networks /\ bytes' = remote[item']
      BY <2>5 DEF Download
    <3> QED
      BY <1>1, <2>3, <3>1
  <2>6. CASE \/ List \/ Wake \/ DownloadGone \/ SignatureMissing \/ SignatureRejects
             \/ UNCHANGED vars
    <3>1. disk' = disk /\ networks' = networks
      BY <2>6 DEF List, Wake, DownloadGone, SignatureMissing, SignatureRejects, Fail, Skip, vars
    <3>2. pc' # "signature" \/ UNCHANGED <<pc, item, bytes>>
      BY <2>6 DEF List, Wake, DownloadGone, SignatureMissing, SignatureRejects, Fail, Skip, vars
    <3> QED
      BY <1>1, <2>3, <3>1, <3>2
  <2>7. ASSUME NEW f \in Files, Publish(f) PROVE Settled'
    <3>1. disk' = disk /\ networks' = networks /\ UNCHANGED <<pc, item, bytes>>
      BY <2>7 DEF Publish
    <3> QED
      BY <1>1, <2>3, <3>1
  <2> QED
    BY <1>1, <2>1, <2>2, <2>4, <2>5, <2>6, <2>7 DEF Next, Updater, Crash, WriteTorn, ListFails,
       DownloadSkipped, DownloadFails, SignatureSkipped, SignatureFails, WriteFails
<1>2. TypeOK /\ Fetching /\ [Next]_vars
        => [Settled /\ UNCHANGED <<remote, sig, troubles>> => Settled']_vars
  BY <1>1
<1> QED
  BY <1>2, TypeCorrect, AlwaysFetching, PTL DEF Spec, Safety, ServedStays

-----------------------------------------------------------------------------
(* Why a round ends.                                                       *)

\* Steps a round has left: two for each file still to come, and the reload.
Left ==
  CASE pc = "list" -> 2 * Cardinality(Files) + 2
    [] pc = "next" -> 2 * Cardinality(todo) + 1
    [] pc = "signature" -> 2 * Cardinality(todo) + 2
    [] OTHER -> 0

\* Each step of a round leaves fewer, whatever the repository and the network
\* do: a file that is skipped is not taken up again (updater.rs:57-168).
RoundShrinks ==
  [][(pc \in {"list", "next", "signature"}) => Left \in Nat /\ Left' \in Nat /\ Left' < Left]_<<pc, round>>

\* A round, however many files are skipped or change meanwhile, takes no more
\* than two steps for each file of the repository and two more.
THEOREM RoundsEnd == IsFiniteSet(Files) => (Spec => RoundShrinks)
<1> SUFFICES ASSUME IsFiniteSet(Files) PROVE Spec => RoundShrinks
  OBVIOUS
<1> DEFINE n == Cardinality(todo)
<1>1. ASSUME NEW S \in SUBSET Files
      PROVE  /\ Cardinality(S) \in Nat /\ Cardinality(S) <= Cardinality(Files)
             /\ \A f \in S : Cardinality(S \ {f}) = Cardinality(S) - 1
  BY FS_Subset, FS_CardinalityType, FS_RemoveElement
<1>2. ASSUME TypeOK, TypeOK', Next, ~UNCHANGED <<pc, round>>, pc \in {"list", "next", "signature"}
      PROVE  Left \in Nat /\ Left' \in Nat /\ Left' < Left
  <2>1. todo \in SUBSET Files /\ todo' \in SUBSET Files /\ Cardinality(Files) \in Nat
    BY <1>2, FS_CardinalityType DEF TypeOK
  <2>2. n \in Nat /\ n' \in Nat /\ n' <= Cardinality(Files)
    BY <1>1, <2>1
  <2>3. CASE List
    <3>1. Left = 2 * Cardinality(Files) + 2 /\ Left' = 2 * n' + 1
      BY <2>3 DEF List, Left
    <3> QED
      BY <2>1, <2>2, <3>1
  <2>4. CASE Download
    <3>1. n' = n - 1
      BY <1>1, <2>1, <2>4 DEF Download
    <3>2. Left = 2 * n + 1 /\ Left' = 2 * n' + 2
      BY <2>4 DEF Download, Left
    <3> QED
      BY <2>2, <3>1, <3>2
  <2>5. CASE DownloadSkipped
    <3>1. n' = n - 1
      BY <1>1, <2>1, <2>5 DEF DownloadSkipped
    <3>2. Left = 2 * n + 1 /\ Left' = 2 * n' + 1
      BY <2>5 DEF DownloadSkipped, Left
    <3> QED
      BY <2>2, <3>1, <3>2
  <2>6. CASE SignatureSkipped \/ SignatureRejects \/ Write
    <3>1. n' = n /\ Left = 2 * n + 2 /\ Left' = 2 * n' + 1
      BY <2>6 DEF SignatureSkipped, SignatureRejects, Skip, Write, Left
    <3> QED
      BY <2>2, <3>1
  <2>7. CASE pc' \in {"sleep", "down"}
    <3>1. Left' = 0
      BY <2>7 DEF Left
    <3>2. Left \in Nat /\ Left > 0
      BY <1>2, <2>1, <2>2 DEF Left
    <3> QED
      BY <3>1, <3>2
  <2>8. CASE \/ Crash \/ WriteTorn \/ ListFails \/ DownloadGone \/ DownloadFails
             \/ SignatureFails \/ SignatureMissing \/ WriteFails \/ Reload
    BY <2>7, <2>8 DEF Crash, WriteTorn, ListFails, DownloadGone, DownloadFails, SignatureFails,
       SignatureMissing, WriteFails, Reload, Fail
  <2>9. ~(Start \/ Wake \/ \E f \in Files : Publish(f))
    BY <1>2 DEF Start, Wake, Publish
  <2> QED
    BY <1>2, <2>3, <2>4, <2>5, <2>6, <2>8, <2>9 DEF Next, Updater
<1>3. TypeOK /\ TypeOK' /\ [Next]_vars
        => [(pc \in {"list", "next", "signature"})
              => Left \in Nat /\ Left' \in Nat /\ Left' < Left]_<<pc, round>>
  BY <1>2 DEF vars
<1> QED
  BY <1>3, TypeCorrect, PTL DEF Spec, Safety, RoundShrinks
=============================================================================
