---------------------------- MODULE RegistrySync ----------------------------
(***************************************************************************)
(* The registry of TLDs (src/src/registry.rs), the auto-updater that feeds *)
(* it (src/src/updater.rs), and the start of the daemon that loads it      *)
(* (src/src/main.rs).  The updater lists the remote repository, downloads  *)
(* each file and its signature, writes what verifies to the networks       *)
(* directory, and only when the whole round succeeds reloads the registry  *)
(* from that directory.  Some failures skip a file, others end the round.  *)
(* The daemon may crash at any point, in the middle of a write too, and a  *)
(* load may fail to read some of the directory, or all of it.              *)
(*                                                                         *)
(* A file's content is a network configuration or Garbage, which does not  *)
(* parse; a signature is the content it verifies, or NoContent.  At first  *)
(* the directory holds what earlier rounds, or somebody's hand, left there; *)
(* one that does not exist yet is an empty one, since List creates it      *)
(* before any write.                                                       *)
(***************************************************************************)
EXTENDS Naturals

CONSTANTS
  Files,          \* names in the remote repository and the directory
  Tlds,
  Configs,        \* network configurations
  Tld,            \* [Configs -> Tlds]
  Signed,         \* contents the holder of the updater key has signed
  Allowed,        \* TLDs the whitelist and the blacklist let through
  Garbage,        \* a content that does not parse
  NoContent, NoFile,
  Earlier,        \* bound: what a file of the directory may hold at first
  MaxPublishes,   \* bound: changes of the remote repository
  MaxTroubles     \* bound: crashes, transport failures, failed reads and writes

ASSUME ConstantsAssumption ==
  /\ Tld \in [Configs -> Tlds]
  /\ Signed \subseteq Configs \cup {Garbage}
  /\ Allowed \subseteq Tlds
  /\ Garbage \notin Configs /\ NoContent \notin Configs \cup {Garbage}
  /\ Earlier \subseteq Configs \cup {Garbage, NoContent}
  /\ NoFile \notin Files \cup Configs \cup {Garbage, NoContent}
  /\ MaxPublishes \in Nat /\ MaxTroubles \in Nat

VARIABLES
  remote,       \* [Files -> Contents or NoContent]: the repository
  sig,          \* [Files -> ...]: what the file's .sig verifies; NoFile: no .sig
  publishes,
  disk,         \* [Files -> Contents or NoContent]: the networks directory
  registered,   \* TLDs with a file dropped for kinetic-pac
  networks,     \* [Tlds -> Configs or NoContent]: the registry in memory
  unread,       \* for the properties: files the last load could not read
  pc,           \* where the updater stands, or "down"
  todo,         \* files of the listing still to come
  item, bytes,  \* the file being fetched and its downloaded content
  fail_delay, nap,   \* hours: the next backoff, and the current sleep
  troubles

remotes == <<remote, sig, publishes>>
memory  == <<networks, registered, unread>>
round   == <<todo, item, bytes>>
vars    == <<remotes, disk, memory, pc, round, fail_delay, nap, troubles>>

Contents == Configs \cup {Garbage}

Init ==
  /\ remote = [f \in Files |-> NoContent]
  /\ sig = [f \in Files |-> NoFile]
  /\ publishes = 0
  /\ disk \in [Files -> Earlier]
  /\ registered = {}
  /\ networks = [t \in Tlds |-> NoContent] /\ unread = {}
  /\ pc = "down"
  /\ todo = {} /\ item = NoFile /\ bytes = NoContent
  /\ fail_delay = 1 /\ nap = 0
  /\ troubles = 0

-----------------------------------------------------------------------------
(* The remote repository and the machine.                                  *)

\* A file is replaced or removed; its signature is of this content, of an
\* older one, of nothing, or missing.
Publish(f) ==
  /\ publishes < MaxPublishes
  /\ publishes' = publishes + 1
  /\ \E c \in Contents \cup {NoContent} : remote' = [remote EXCEPT ![f] = c]
  /\ \E s \in Signed \cup {NoContent, NoFile} : sig' = [sig EXCEPT ![f] = s]
  /\ UNCHANGED <<disk, memory, pc, round, fail_delay, nap, troubles>>

Trouble == troubles < MaxTroubles /\ troubles' = troubles + 1

\* The process dies between two steps: memory is lost, the disk stays.
Crash ==
  /\ pc # "down" /\ Trouble
  /\ pc' = "down"
  /\ networks' = [t \in Tlds |-> NoContent] /\ unread' = {}
  /\ todo' = {} /\ item' = NoFile /\ bytes' = NoContent
  /\ UNCHANGED <<remotes, disk, registered, fail_delay, nap>>

-----------------------------------------------------------------------------
(* The registry.                                                           *)

\* The files load_from_dir accepts for t.
Candidates(t) == {f \in Files : disk[f] \in Configs /\ Tld[disk[f]] = t /\ t \in Allowed}

\* Mutant: load_from_dir does not clear the registry first.
ReadOver(read) ==
  /\ networks' \in [Tlds -> Configs \cup {NoContent}]
  /\ \A t \in Tlds :
       IF Candidates(t) \cap read = {} THEN networks'[t] = networks[t]
       ELSE \E f \in Candidates(t) \cap read : networks'[t] = disk[f]
  /\ unread' = Files \ read

\* The registry is cleared, and each TLD gets the first of its files that can
\* be read, in the order read_dir happens to yield.
Read(read) ==
  /\ networks' \in [Tlds -> Configs \cup {NoContent}]
  /\ \A t \in Tlds :
       IF Candidates(t) \cap read = {} THEN networks'[t] = NoContent
       ELSE \E f \in Candidates(t) \cap read : networks'[t] = disk[f]
  /\ unread' = Files \ read

\* A file for kinetic-pac is dropped for each of these TLDs; nobody removes it.
Register(tlds) == registered' = registered \cup tlds

Loaded == {t \in Tlds : networks'[t] # NoContent}

LoadAll == Read(Files) /\ Register(Loaded) /\ UNCHANGED troubles

\* read_dir fails, or files cannot be read or dropped: they are passed over.
LoadSome ==
  /\ Trouble
  /\ \E read \in SUBSET Files : Read(read)
  /\ \E dropped \in SUBSET Loaded : Register(dropped)

\* The directory is not found: the registry stays what it was.
LoadNothing == Trouble /\ unread' = Files /\ UNCHANGED <<networks, registered>>

\* load_from_dir, which tells its caller of no failure.
Load == LoadAll \/ LoadSome \/ LoadNothing

\* main: load the registry, then start the updater.
Start ==
  /\ pc = "down"
  /\ Load
  /\ pc' = "list"
  /\ fail_delay' = 1
  /\ UNCHANGED <<remotes, disk, round, nap>>

-----------------------------------------------------------------------------
(* One round of the updater.                                               *)

\* Mutant: the backoff has no limit.
FailUnlimited ==
  /\ pc' = "sleep"
  /\ nap' = fail_delay
  /\ fail_delay' = 2 * fail_delay
  /\ todo' = {} /\ item' = NoFile /\ bytes' = NoContent
  /\ UNCHANGED <<remotes, memory>>

\* fetch_and_update returns Err: sleep, longer each time, up to a day.
Fail ==
  /\ pc' = "sleep"
  /\ nap' = fail_delay
  /\ fail_delay' = IF 2 * fail_delay > 24 THEN 24 ELSE 2 * fail_delay
  /\ todo' = {} /\ item' = NoFile /\ bytes' = NoContent
  /\ UNCHANGED <<remotes, memory>>

Skip ==
  /\ pc' = "next"
  /\ item' = NoFile /\ bytes' = NoContent
  /\ UNCHANGED <<remotes, disk, memory, todo, fail_delay, nap>>

List ==
  /\ pc = "list"
  /\ pc' = "next"
  /\ todo' = {f \in Files : remote[f] # NoContent}
  /\ UNCHANGED <<remotes, disk, memory, item, bytes, fail_delay, nap, troubles>>

ListFails == pc = "list" /\ Trouble /\ Fail /\ UNCHANGED disk

\* The JSON file is downloaded.
Download ==
  /\ pc = "next"
  /\ \E f \in todo :
       /\ remote[f] # NoContent
       /\ todo' = todo \ {f}
       /\ item' = f
       /\ bytes' = remote[f]
  /\ pc' = "signature"
  /\ UNCHANGED <<remotes, disk, memory, fail_delay, nap, troubles>>

\* It was removed since the listing: 404 ends the round.
DownloadGone ==
  /\ pc = "next"
  /\ \E f \in todo : remote[f] = NoContent
  /\ Fail
  /\ UNCHANGED <<disk, troubles>>

\* send() fails: this file is skipped.
DownloadSkipped ==
  /\ pc = "next" /\ Trouble
  /\ \E f \in todo : todo' = todo \ {f}
  /\ UNCHANGED <<remotes, disk, memory, pc, item, bytes, fail_delay, nap>>

\* Another status, or the body breaks off: the round ends.
DownloadFails == pc = "next" /\ todo # {} /\ Trouble /\ Fail /\ UNCHANGED disk

SignatureSkipped == pc = "signature" /\ Trouble /\ Skip

SignatureFails == pc = "signature" /\ Trouble /\ Fail /\ UNCHANGED disk

\* No .sig, or the file is gone: 404 ends the round.
SignatureMissing ==
  /\ pc = "signature"
  /\ sig[item] = NoFile
  /\ Fail
  /\ UNCHANGED <<disk, troubles>>

\* Not hex, or not a signature of these bytes: this file is skipped.
SignatureRejects ==
  /\ pc = "signature"
  /\ sig[item] \notin {NoFile, bytes}
  /\ Skip
  /\ UNCHANGED troubles

\* Mutant: what is written is downloaded a second time.
WriteRefetched ==
  /\ pc = "signature"
  /\ sig[item] = bytes
  /\ disk' = [disk EXCEPT ![item] = remote[item]]
  /\ pc' = "next"
  /\ item' = NoFile /\ bytes' = NoContent
  /\ UNCHANGED <<remotes, memory, todo, fail_delay, nap, troubles>>

\* The signature verifies and the file is written.
Write ==
  /\ pc = "signature"
  /\ sig[item] = bytes
  /\ disk' = [disk EXCEPT ![item] = bytes]
  /\ pc' = "next"
  /\ item' = NoFile /\ bytes' = NoContent
  /\ UNCHANGED <<remotes, memory, todo, fail_delay, nap, troubles>>

\* fs::write truncates first: a failed write may leave a part of the file.
WriteFails ==
  /\ pc = "signature"
  /\ sig[item] = bytes
  /\ Trouble
  /\ disk' \in {disk, [disk EXCEPT ![item] = Garbage]}
  /\ Fail

WriteTorn ==
  /\ pc = "signature"
  /\ sig[item] = bytes
  /\ disk' = [disk EXCEPT ![item] = Garbage]
  /\ Trouble
  /\ pc' = "down"
  /\ networks' = [t \in Tlds |-> NoContent] /\ unread' = {}
  /\ todo' = {} /\ item' = NoFile /\ bytes' = NoContent
  /\ UNCHANGED <<remotes, registered, fail_delay, nap>>

\* Mutant: the task ends with the first round that fails.
WakeAfterSuccess ==
  /\ pc = "sleep" /\ nap = 24
  /\ pc' = "list"
  /\ nap' = 0
  /\ UNCHANGED <<remotes, disk, memory, round, fail_delay, troubles>>

\* The round is over: reload under the write lock, sleep a day.
Reload ==
  /\ pc = "next" /\ todo = {}
  /\ Load
  /\ pc' = "sleep"
  /\ nap' = 24
  /\ fail_delay' = 1
  /\ UNCHANGED <<remotes, disk, round>>

\* The sleep is over.
Wake ==
  /\ pc = "sleep"
  /\ pc' = "list"
  /\ nap' = 0
  /\ UNCHANGED <<remotes, disk, memory, round, fail_delay, troubles>>

-----------------------------------------------------------------------------
Updater ==
  \/ List \/ ListFails
  \/ Download \/ DownloadGone \/ DownloadSkipped \/ DownloadFails
  \/ SignatureSkipped \/ SignatureFails \/ SignatureMissing \/ SignatureRejects
  \/ Write \/ WriteFails
  \/ Reload \/ Wake

Next ==
  \/ \E f \in Files : Publish(f)
  \/ Start \/ Crash \/ WriteTorn
  \/ Updater

Safety == Init /\ [][Next]_vars

(***************************************************************************)
(* Somebody restarts the daemon, and its updater's task runs on between its *)
(* awaits.  The HTTP client is built without a timeout: a request for the  *)
(* listing, a file or a signature need not end.                            *)
(***************************************************************************)
Spec == Safety /\ WF_vars(Start) /\ WF_vars(Reload) /\ WF_vars(Wake)

-----------------------------------------------------------------------------
(* Properties.                                                             *)

\* The type of every variable; the backoff doubles from an hour to a day.
TypeOK ==
  /\ remote \in [Files -> Contents \cup {NoContent}]
  /\ sig \in [Files -> Signed \cup {NoContent, NoFile}]
  /\ publishes \in 0 .. MaxPublishes
  /\ disk \in [Files -> Contents \cup {NoContent}]
  /\ registered \subseteq Tlds
  /\ networks \in [Tlds -> Configs \cup {NoContent}]
  /\ unread \subseteq Files
  /\ pc \in {"down", "list", "next", "signature", "sleep"}
  /\ todo \subseteq Files
  /\ item \in Files \cup {NoFile} /\ bytes \in Contents \cup {NoContent}
  /\ fail_delay \in {1, 2, 4, 8, 16, 24}
  /\ nap \in {0, 1, 2, 4, 8, 16, 24}
  /\ troubles \in 0 .. MaxTroubles

\* Only what was signed is written to the directory, although the repository
\* may change between a file and its signature and a write may be cut short,
\* and only what is in the directory is served (updater.rs:106-158).
OnlySigned ==
  [][/\ \A f \in Files : disk'[f] \in {disk[f], Garbage} \cup Signed
     /\ \A t \in Tlds : networks'[t] \in {networks[t], NoContent} \cup {disk[f] : f \in Files}]_vars

\* While the updater sleeps after a round that succeeded, a file that failed to
\* be read has cost no other TLD its place, and no configuration that was
\* replaced is served, unless nothing at all could be read
\* (updater.rs:42-52, registry.rs:25-101).
SyncedAfterSuccess ==
  pc = "sleep" /\ nap = 24 /\ fail_delay = 1 =>
    \A t \in Tlds :
      /\ networks[t] = NoContent => Candidates(t) \subseteq unread
      /\ networks[t] # NoContent /\ unread # Files =>
           \E f \in Candidates(t) \ unread : networks[t] = disk[f]

\* Once the repository holds nothing that fails to verify and troubles end,
\* the daemon serves it, whatever crashes, torn writes and failed reads came
\* before, unless a request of the updater never ends.
Verified(f) == remote[f] # NoContent => sig[f] = remote[f]

Serves(t) == \E f \in Candidates(t) : networks[t] = disk[f]

Served(f) ==
  remote[f] \in Configs /\ Tld[remote[f]] \in Allowed =>
    Serves(Tld[remote[f]]) /\ disk[f] = remote[f]

Requesting == pc \in {"list", "signature"} \/ (pc = "next" /\ todo # {})

Hangs == <>[]Requesting

Converges ==
  <>[](\A f \in Files : Verified(f)) => <>[](\A f \in Files : Served(f)) \/ Hangs

\* ARCHITECTURE.md:105: an update of a network's configuration by the sync
\* loop is hot-reloaded without a restart.  It may be not, although the loop
\* goes on.
UpdatesLoaded ==
  \A f \in Files, c \in Configs :
    \/ Hangs
    \/ disk[f] = c /\ Tld[c] \in Allowed ~> disk[f] # c \/ Serves(Tld[c])
=============================================================================
