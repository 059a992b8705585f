-------------------------- MODULE FetchProperties --------------------------
(***************************************************************************)
(* What the fetcher promises about the directories it writes.              *)
(***************************************************************************)
EXTENDS Fetch

TypeOK ==
  /\ target \in [Archive -> [Name -> Content]]
  /\ cache \in [Archive -> Content]
  /\ embed \in [Name -> Content]
  /\ at \in [Process -> Archive]
  /\ \A p \in Process : todo[p] \subseteq Name
  /\ held \in [Process -> Content]
  /\ out \in [Process -> {"none", "ok", "error", "crash"}]

\* Every command has ended, and since the first of them began none has
\* failed and nothing has been edited.
Settled == ~upset /\ \A p \in Process : pc[p] = "ended"
Commanded == pc' # pc

(***************************************************************************)
(* Success means that every member of every selected archive is on disk,   *)
(* whole and right, whatever earlier commands left there when they failed  *)
(* or died, also when several commands ran together.  (Install)            *)
(***************************************************************************)
TargetsAreRight ==
  Settled => \A a \in 1 .. world.selected : \A n \in Listed[a] : target[a][n] = Good

(***************************************************************************)
(* After a successful command that was allowed to write, the program that  *)
(* is built next embeds every engine, whole and right, whatever commands   *)
(* that overlapped had left there.  Commands that do overlap all succeed   *)
(* and may yet leave a beginning of an engine, which one of them read      *)
(* while another was writing it; never anything else.  (InstallEngines)    *)
(***************************************************************************)
EnginesAreEmbedded ==
  Settled /\ Embeds /\ (\A p \in Process : ~opt[p].verifyOnly) =>
    \A a \in Engines \cap 1 .. world.selected : \A n \in Listed[a] \cap Lwl :
      \/ embed[n] = Good
      \/ mixed /\ embed[n] = Part

(***************************************************************************)
(* Nothing reaches a target directory but members of the archive that have *)
(* been checked: a bad cache entry, a bad download or an archive whose     *)
(* members are not the listed ones is never written.  And no fetched file  *)
(* is ever written where git would offer it for commit; the cache is not   *)
(* held to this rule.  A command that may only verify writes nothing at    *)
(* all and never uses the network.  (Install, bytes, requireUntracked,     *)
(* Options.VerifyOnly)                                                     *)
(***************************************************************************)
OnlyVerifiedIsInstalled ==
  [][Commanded =>
       /\ \A a \in Archive : \A n \in Name :
            target'[a][n] # target[a][n] => n \in Listed[a] /\ target'[a][n] \in {Part, Good}
       /\ "target" \in world.tracked => UNCHANGED target
       /\ "embed" \in world.tracked => UNCHANGED embed
       /\ \A p \in Process : opt[p].verifyOnly /\ pc[p] # "ended" /\ pc'[p] # pc[p] =>
            UNCHANGED disk /\ pc'[p] # "bytes"]_vars

(***************************************************************************)
(* Every command ends.  (Install, InstallEngines)                          *)
(***************************************************************************)
CommandEnds == \A p \in Process : pc[p] # "ended" ~> pc[p] = "ended"

(***************************************************************************)
(* fetchEngine's comment: "a failure leaves the machine as it was rather   *)
(* than half-installed".                                                   *)
(***************************************************************************)
NeverHalfInstalled ==
  \A p \in Process : out[p] = "error" =>
    \A a \in Archive : \A n \in Name : target[a][n] # Part
=============================================================================
