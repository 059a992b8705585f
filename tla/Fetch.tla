-------------------------------- MODULE Fetch --------------------------------
(***************************************************************************)
(* internal/fetch and the two commands that use it: Install brings each    *)
(* selected archive up to date in its target directory, by way of a cache, *)
(* and InstallEngines copies the LOWL sources on to the directory that is  *)
(* embedded.  Writing a file is two steps, because os.WriteFile empties    *)
(* the file before it fills it, and any step may fail or be the last one.  *)
(*                                                                         *)
(* Archives and the names of their members are numbers.  The manifest's    *)
(* digests divide the contents of a file into the right one, a beginning   *)
(* of it, and all others.                                                  *)
(***************************************************************************)
EXTENDS Integers, Sequences, FiniteSets, FiniteSetsExt

CONSTANTS Process,     \* those who run commands
          Listed,      \* Archive.Files: the members of each archive of the manifest
          Engines,     \* the archives marked as engines
          Lwl,         \* the names that end in .lwl
          Strays,      \* names that are in no manifest entry
          HasCache,    \* fetchtestdata has a cache, ml1 --fetch-engine has none
          Embeds,      \* fetchtestdata goes on to InstallEngines
          Worlds       \* circumstances to start in, see world

None == "none"
Good == "good"
Bad == "bad"
Part == "part"
Content == {None, Good, Bad, Part}

Archive == DOMAIN Listed
Name == (UNION {Listed[a] : a \in Archive}) \cup Strays

ASSUME FetchAssumption ==
  /\ Listed \in Seq(SUBSET Nat) /\ Listed # << >>
  /\ Strays \subseteq Nat /\ IsFiniteSet(Name)
  /\ \A a \in Archive : Listed[a] \cap Strays = {}
  /\ Engines \subseteq Archive /\ Lwl \subseteq Name
  /\ HasCache \in BOOLEAN /\ Embeds \in BOOLEAN
  /\ \A w \in Worlds :
       /\ w.commands \subseteq Process /\ w.selected \in Archive
       /\ w.tracked \subseteq {"target", "cache", "embed"}
       /\ w.damaged \subseteq Archive /\ w.edited \subseteq Archive
       /\ w.faults \in BOOLEAN

VARIABLES world,   \* never changes: who runs commands, the last archive they select, the
                   \* directories that git would track, the archives that have the manifest's
                   \* digest but not the members it lists, those whose files people touch,
                   \* and whether reads and writes may fail
          target,  \* the files of each archive's target directory
          cache,   \* the cached archives
          embed,   \* the files of the directory compiled into maclo
          pc,      \* where each command is
          opt,     \* its Options
          at,      \* the archive it is at
          todo,    \* the files it has still to write
          file,    \* the file it is writing
          held,    \* what it is writing there
          out,     \* how it ended
          upset,   \* history: since the last quiet moment, something failed or was edited
          mixed    \* history: since then, two commands have run at the same time

disk == <<target, cache, embed>>
local == <<opt, at, todo, file, held>>
history == <<upset, mixed>>
vars == <<world, disk, pc, local, out, history>>

Absent == [n \in Name |-> None]

Init ==
  /\ world \in Worlds
  /\ target = [a \in Archive |-> Absent]
  /\ cache = [a \in Archive |-> None]
  /\ embed = Absent
  /\ pc = [p \in Process |-> "ended"]
  /\ opt = [p \in Process |-> [force |-> FALSE, verifyOnly |-> FALSE]]
  /\ at = [p \in Process |-> 1]
  /\ todo = [p \in Process |-> {}]
  /\ file = [p \in Process |-> 0]
  /\ held = [p \in Process |-> None]
  /\ out = [p \in Process |-> "none"]
  /\ upset = TRUE
  /\ mixed = FALSE

Goto(p, label) ==
  /\ pc' = [pc EXCEPT ![p] = label]
  /\ UNCHANGED <<out, history>>

\* A command leaves nothing behind but its files and its exit status.
End(p, result) ==
  /\ pc' = [pc EXCEPT ![p] = "ended"]
  /\ out' = [out EXCEPT ![p] = result]
  /\ upset' = (upset \/ result # "ok")
  /\ at' = [at EXCEPT ![p] = 1]
  /\ todo' = [todo EXCEPT ![p] = {}]
  /\ file' = [file EXCEPT ![p] = 0]
  /\ held' = [held EXCEPT ![p] = None]
  /\ UNCHANGED <<disk, opt, mixed>>

Fail(p) == End(p, "error")

\* requireUntracked
Refuses(dir) == dir \in world.tracked

\* An archive's own files and no others, each with the digest it should have.
Verifies(a, files) ==
  \A n \in Name : files[n] = IF n \in Listed[a] THEN Good ELSE None

\* What unpack makes of the archive with the manifest's digest.
Unpacked(a) == [n \in Name |->
  IF n \notin Listed[a] THEN None
  ELSE IF a \in world.damaged /\ n = Min(Listed[a]) THEN Bad
  ELSE Good]
-----------------------------------------------------------------------------
Start(p) ==
  /\ p \in world.commands
  /\ pc[p] = "ended"
  /\ \E force, verifyOnly \in BOOLEAN :
       opt' = [opt EXCEPT ![p] = [force |-> force, verifyOnly |-> verifyOnly]]
  /\ pc' = [pc EXCEPT ![p] = "check"]
  /\ out' = [out EXCEPT ![p] = "none"]
  /\ mixed' = \E q \in Process : pc[q] # "ended"
  /\ upset' = (upset /\ mixed')
  /\ UNCHANGED <<disk, at, todo, file, held>>

(***************************************************************************)
(* Install, as far as the check of what is already on disk.  readDir fails *)
(* when the directory is not there, and then nothing verifies either.      *)
(***************************************************************************)
Refused(p) == Refuses("target") \/ (opt[p].force /\ opt[p].verifyOnly)
OnDiskPresent(p) ==  \* faulty variant: the files are there, whatever they hold
  ~opt[p].force /\ \A n \in Listed[at[p]] : target[at[p]][n] # None
OnDisk(p) == ~opt[p].force /\ Verifies(at[p], target[at[p]])

RefuseToInstall(p) == Refused(p) /\ Fail(p)

UpToDate(p) ==
  /\ ~Refused(p)
  /\ OnDisk(p)
  /\ Goto(p, "engines")
  /\ UNCHANGED <<disk, local>>

DoesNotVerify(p) ==
  /\ ~Refused(p)
  /\ ~OnDisk(p) \/ world.faults
  /\ \/ opt[p].verifyOnly /\ Fail(p)
     \/ ~opt[p].verifyOnly /\ Goto(p, "bytes") /\ UNCHANGED <<disk, local>>

Check(p) ==
  /\ pc[p] = "check"
  /\ RefuseToInstall(p) \/ UpToDate(p) \/ DoesNotVerify(p)

(***************************************************************************)
(* Archive.bytes: from the cache when the digest is right, and from the    *)
(* network otherwise.  Its own tests of VerifyOnly are never reached.      *)
(***************************************************************************)
Cached(p) == HasCache /\ cache[at[p]] = Good

FromCache(p) ==
  /\ pc[p] = "bytes"
  /\ Cached(p)
  /\ Goto(p, "unpack")
  /\ UNCHANGED <<disk, local>>

\* The network fails, or what came does not have the manifest's digest.
Download(p) ==
  /\ pc[p] = "bytes"
  /\ ~Cached(p) \/ world.faults
  /\ \/ Goto(p, IF HasCache THEN "store" ELSE "unpack") /\ UNCHANGED <<disk, local>>
     \/ Fail(p)

Store(p) ==
  /\ \/ /\ pc[p] = "store"
        /\ cache' = [cache EXCEPT ![at[p]] = Part]
        /\ Goto(p, "storing")
     \/ /\ pc[p] = "storing"
        /\ cache' = [cache EXCEPT ![at[p]] = Good]
        /\ Goto(p, "unpack")
  /\ UNCHANGED <<target, embed, local>>

UnpackUnverified(p) ==  \* faulty variant: the members are not checked
  /\ pc[p] = "unpack"
  /\ todo' = [todo EXCEPT ![p] = {n \in Name : Unpacked(at[p])[n] # None}]
  /\ Goto(p, "install")
  /\ UNCHANGED <<disk, opt, at, file, held>>

\* unpack, and verify over what it returned.
Unpack(p) ==
  /\ pc[p] = "unpack"
  /\ \/ /\ Verifies(at[p], Unpacked(at[p]))
        /\ todo' = [todo EXCEPT ![p] = Listed[at[p]]]
        /\ Goto(p, "install")
        /\ UNCHANGED <<disk, opt, at, file, held>>
     \/ ~Verifies(at[p], Unpacked(at[p])) /\ Fail(p)

OpenMemberAgain(p) ==  \* faulty variant: a written member is not ticked off
  /\ pc[p] = "install"
  /\ \E n \in todo[p] :
       /\ target' = [target EXCEPT ![at[p]][n] = Part]
       /\ file' = [file EXCEPT ![p] = n]
  /\ Goto(p, "installing")
  /\ UNCHANGED <<cache, embed, opt, at, todo, held>>

\* A Go map is walked in any order.
OpenMember(p) ==
  /\ pc[p] = "install"
  /\ \E n \in todo[p] :
       /\ target' = [target EXCEPT ![at[p]][n] = Part]
       /\ file' = [file EXCEPT ![p] = n]
       /\ todo' = [todo EXCEPT ![p] = @ \ {n}]
  /\ Goto(p, "installing")
  /\ UNCHANGED <<cache, embed, opt, at, held>>

WriteMember(p) ==
  /\ pc[p] = "installing"
  /\ target' = [target EXCEPT ![at[p]][file[p]] = Unpacked(at[p])[file[p]]]
  /\ Goto(p, "install")
  /\ UNCHANGED <<cache, embed, local>>

Installed(p) ==
  /\ pc[p] = "install"
  /\ todo[p] = {}
  /\ Goto(p, "engines")
  /\ UNCHANGED <<disk, local>>

NextArchiveLate(p) ==  \* faulty variant: one archive too many
  \/ at[p] > world.selected /\ End(p, "ok")
  \/ /\ at[p] <= world.selected
     /\ Goto(p, "check")
     /\ at' = [at EXCEPT ![p] = @ + 1]
     /\ UNCHANGED <<disk, opt, todo, file, held>>

\* realMain goes on to the next archive it selected.
NextArchive(p) ==
  \/ at[p] = world.selected /\ End(p, "ok")
  \/ /\ at[p] < world.selected
     /\ Goto(p, "check")
     /\ at' = [at EXCEPT ![p] = @ + 1]
     /\ UNCHANGED <<disk, opt, todo, file, held>>

(***************************************************************************)
(* InstallEngines copies whatever is called .lwl in the target directory.  *)
(***************************************************************************)
SourcesMissing(p) ==  \* faulty variant: an engine that is there already is kept
  {n \in Lwl : target[at[p]][n] # None /\ embed[n] = None}
Sources(p) == {n \in Lwl : target[at[p]][n] # None}

NoEngines(p) ==
  /\ pc[p] = "engines"
  /\ ~Embeds \/ at[p] \notin Engines \/ opt[p].verifyOnly
  /\ NextArchive(p)

SomeEngines(p) ==
  /\ pc[p] = "engines"
  /\ Embeds /\ at[p] \in Engines /\ ~opt[p].verifyOnly
  /\ \/ (Refuses("embed") \/ Sources(p) = {}) /\ Fail(p)
     \/ /\ ~Refuses("embed") /\ Sources(p) # {}
        /\ todo' = [todo EXCEPT ![p] = Sources(p)]
        /\ Goto(p, "embed")
        /\ UNCHANGED <<disk, opt, at, file, held>>

ReadEngine(p) ==
  /\ pc[p] = "embed"
  /\ todo[p] # {}
  /\ file' = [file EXCEPT ![p] = Min(todo[p])]
  /\ todo' = [todo EXCEPT ![p] = @ \ {Min(@)}]
  /\ held' = [held EXCEPT ![p] = target[at[p]][Min(todo[p])]]
  /\ Goto(p, "emptying")
  /\ UNCHANGED <<disk, opt, at>>

WriteEngine(p) ==
  /\ \/ pc[p] = "emptying" /\ embed' = [embed EXCEPT ![file[p]] = Part] /\ Goto(p, "filling")
     \/ pc[p] = "filling" /\ embed' = [embed EXCEPT ![file[p]] = held[p]] /\ Goto(p, "embed")
  /\ UNCHANGED <<target, cache, local>>

Embedded(p) ==
  /\ pc[p] = "embed"
  /\ todo[p] = {}
  /\ NextArchive(p)

\* Any of the calls on files may fail, and leaves behind what it had done.
FileFault(p) ==
  /\ world.faults
  /\ pc[p] \in {"store", "storing", "install", "installing", "engines", "embed", "emptying", "filling"}
  /\ Fail(p)

Advance(p) ==
  /\ \/ Check(p) \/ FromCache(p) \/ Download(p) \/ Store(p) \/ Unpack(p)
     \/ OpenMember(p) \/ WriteMember(p) \/ Installed(p)
     \/ NoEngines(p) \/ SomeEngines(p) \/ ReadEngine(p) \/ WriteEngine(p) \/ Embedded(p)
     \/ FileFault(p)
  /\ UNCHANGED world

Crash(p) ==
  /\ pc[p] # "ended"
  /\ End(p, "crash")

\* External: between two commands somebody deletes a file, or puts another
\* one in its place.
Edit ==
  /\ \A p \in Process : pc[p] = "ended"
  /\ \E c \in {None, Bad} :
       \/ \E a \in world.edited : \E n \in Listed[a] \cup Strays :
            target' = [target EXCEPT ![a][n] = c] /\ UNCHANGED <<cache, embed>>
       \/ \E a \in world.edited : cache' = [cache EXCEPT ![a] = c] /\ UNCHANGED <<target, embed>>
       \/ \E n \in Lwl : embed' = [embed EXCEPT ![n] = c] /\ UNCHANGED <<target, cache>>
  /\ upset' = TRUE
  /\ UNCHANGED <<pc, local, out, mixed>>

Next ==
  /\ \/ \E p \in Process : Start(p) \/ Crash(p) \/ Advance(p)
     \/ Edit
  /\ UNCHANGED world

\* A command under way goes on: the download it may wait for has a timeout.
Spec == Init /\ [][Next]_vars /\ \A p \in Process : WF_vars(Advance(p))
=============================================================================
