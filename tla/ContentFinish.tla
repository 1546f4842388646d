---------------------------- MODULE ContentFinish ----------------------------
(***************************************************************************)
(* The point of no return of a package's run, one service call at a time:    *)
(* registering its contents, GameInstall::Finish, ContentInstaller::Finish    *)
(* and Rollback, and the rules by which the next run of Prepare decides that  *)
(* there is nothing left to do (GameTransfer has all of this as two steps).   *)
(*                                                                         *)
(* One application, its update and its add-on: a meta is a kind and a        *)
(* version.  The console outlives the runs: two storages with their contents  *)
(* and their meta databases, the application's record list, what it may       *)
(* launch.  A database keeps what was set in memory until it is committed; a  *)
(* power cut brings back what was committed.                                  *)
(***************************************************************************)
EXTENDS Integers, FiniteSetsExt

CONSTANTS
  Kinds,        \* the kinds of metas that packages carry
  Versions,
  Gamecard,     \* containers may be cartridge dumps, whose headers are rewritten
  MaxRuns,      \* bound: packages picked
  Faults,       \* which calls may fail, and how the app may end
  MaxFaults     \* bound: how often

AllKinds == {"game", "update", "addon"}

ASSUME FinishAssumption ==
  /\ Kinds \subseteq AllKinds /\ Versions \subseteq Nat /\ IsFiniteSet(Versions)
  /\ Gamecard \in BOOLEAN /\ MaxRuns \in Nat /\ MaxFaults \in Nat
  /\ Faults \subseteq {"open", "register", "ticket", "list", "delete", "remove", "set", "commit",
                       "clear", "push", "launch", "invalidate", "killed", "cut"}

VARIABLES
  stored,   \* storage -> contents in it
  mem,      \* storage -> metas in its database
  disk,     \* storage -> metas its database was last committed with
  listed,   \* the application's record list: [meta, storage]
  tiles,    \* kinds that an earlier build filed as applications of their own
  launch,   \* the version the application may be launched at
  run,      \* the run in hand, and how the last one ended; its member seen is
            \* history: where it could see the updates that are installed
  faults

console == <<stored, mem, disk, listed, tiles, launch>>
vars == <<stored, mem, disk, listed, tiles, launch, run, faults>>

Storages == {"sd", "nand"}
Metas == [kind : Kinds, version : Versions]

(* A meta's contents: the one that carries its CNMT, one of its own, and one   *)
(* that every version of the title has in common.                             *)
MetaContent(m) == [of |-> m.kind, part |-> "meta", version |-> m.version]
DataContents(m) ==
  {[of |-> m.kind, part |-> "own", version |-> m.version],
   [of |-> m.kind, part |-> "shared", version |-> 0]}
ContentsOf(m) == {MetaContent(m)} \cup DataContents(m)
Contents == UNION {ContentsOf(m) : m \in Metas}

(* A container carries at most one meta of a title. *)
Packages == {p \in SUBSET Metas : p # {} /\ \A m, n \in p : m.kind = n.kind => m = n}

Rank(m) == CASE m.kind = "game" -> 0 [] m.kind = "update" -> 1 [] m.kind = "addon" -> 2
First(p) == CHOOSE m \in p : \A n \in p : Rank(m) <= Rank(n)
NoMeta == [kind |-> "none", version |-> 0]

Latest(vs) == Max(vs \cup {0})
VersionsIn(s, kind) == {m.version : m \in {n \in mem[s] : n.kind = kind}}
(* InstalledVersion: the newest in either storage.  One that cannot be opened   *)
(* has nothing to report: seen are those that can.                            *)
Installed(kind, seen) == Latest(UNION {VersionsIn(s, kind) : s \in seen})

(* m_task.contents: the contents the metas list, which is not the metas' own. *)
ContentIds(p) == UNION {DataContents(m) : m \in p}

Idle(pkg, target, outcome) ==
  [pc |-> "idle", pkg |-> pkg, target |-> target, toRegister |-> {}, left |-> {},
   olds |-> {}, old |-> NoMeta, modified |-> FALSE, launch |-> 0, seen |-> {},
   outcome |-> outcome, runs |-> 0]

Init ==
  /\ stored = [s \in Storages |-> {}]
  /\ mem = [s \in Storages |-> {}]
  /\ disk = [s \in Storages |-> {}]
  /\ listed = {}
  /\ tiles \in SUBSET (Kinds \ {"game"})
  /\ launch = 0
  /\ run = Idle({}, "sd", "none")
  /\ faults = 0

Fault(call) == call \in Faults /\ faults < MaxFaults /\ faults' = faults + 1
Fails == run' = [run EXCEPT !.pc = "failed"]
Ends(outcome) ==
  run' = [Idle(run.pkg, run.target, outcome) EXCEPT !.runs = run.runs, !.seen = run.seen]

-----------------------------------------------------------------------------
(* Prepare: is there anything to do? *)

(* RecordIsUsable: a storage whose newest record is this one has its contents. *)
RecordIsUsable(m) ==
  \E s \in Storages :
    /\ m \in mem[s] /\ m.version = Latest(VersionsIn(s, m.kind))
    /\ ContentsOf(m) \subseteq stored[s]

ConsoleCanUse(m) == (\E s \in Storages : [meta |-> m, storage |-> s] \in listed) /\ RecordIsUsable(m)

(* The storages a query sees: both, unless one of them or both fail. *)
Sees(seen) ==
  \/ seen = Storages /\ UNCHANGED faults
  \/ seen # Storages /\ Fault("open")

HasThisVersion(m, seen) == (\E s \in seen : m \in mem[s]) /\ ConsoleCanUse(m)

(* DecideSkip, which is asked about the package's first meta only. *)
DecideSkip(m, seen) ==
  IF HasThisVersion(m, seen) THEN "already"
  ELSE IF m.kind = "update" /\ Installed(m.kind, seen) > m.version THEN "newer"
  ELSE "install"

(* Contents the target storage has are not transferred; the others, and the  *)
(* metas, come in placeholders.  Only what is transferred is rewritten.        *)
Starts(p, s, seen) ==
  LET fetched == ContentIds(p) \ stored[s]
  IN \E modified \in BOOLEAN :
       /\ modified => Gamecard /\ fetched # {}
       /\ run' = [Idle(p, s, "none") EXCEPT
                    !.pc = "register", !.runs = run.runs + 1,
                    !.toRegister = fetched \cup {MetaContent(m) : m \in p},
                    !.modified = modified, !.seen = seen]

Prepare ==
  /\ run.pc = "idle" /\ run.runs < MaxRuns
  /\ \E p \in Packages, s \in Storages, seen \in SUBSET Storages :
       /\ Sees(seen)
       /\ LET decision == DecideSkip(First(p), seen)
          IN \/ decision = "install" /\ Starts(p, s, seen)
             \/ /\ decision # "install"
                /\ run' = [Idle(p, s, decision) EXCEPT !.runs = run.runs + 1]
  /\ UNCHANGED console

-----------------------------------------------------------------------------
(* GameInstall::Finish. *)

ToRegisterNext ==
  LET metas == {c \in run.toRegister : c.part = "meta"}
  IN IF metas # {} THEN metas ELSE run.toRegister

(* Register: the metas' contents first. *)
Registers ==
  /\ run.pc = "register" /\ run.toRegister # {}
  /\ \/ /\ \E c \in ToRegisterNext :
             /\ stored' = [stored EXCEPT ![run.target] = @ \cup {c}]
             /\ run' = [run EXCEPT !.toRegister = @ \ {c}]
        /\ UNCHANGED faults
     \/ Fault("register") /\ Fails /\ UNCHANGED stored
  /\ UNCHANGED <<mem, disk, listed, tiles, launch>>

(* Mutant: the newest version of the metas that are being installed. *)
LaunchOfPackage(p, games, updates) == Latest({m.version : m \in p})

(* The newest version this run puts in place, and unless an update leads the   *)
(* package, not less than what the game and its update are at already, in the  *)
(* storages where a query for their records sees them.                        *)
LaunchVersion(p, games, updates) ==
  Latest({m.version : m \in p}
           \cup IF First(p).kind = "update" THEN {}
                ELSE {Installed("game", games), Installed("update", updates)})

(* The tickets are imported; then the metas are filed, one after the other. *)
ImportsTickets ==
  /\ run.pc = "register" /\ run.toRegister = {}
  /\ \/ \E games, updates \in SUBSET Storages :
          /\ Sees(games \cap updates)
          /\ run' = [run EXCEPT !.pc = "list", !.left = run.pkg,
                                !.launch = LaunchVersion(run.pkg, games, updates),
                                !.seen = IF First(run.pkg).kind = "update" THEN @ ELSE updates]
     \/ Fault("ticket") /\ Fails
  /\ UNCHANGED console

-----------------------------------------------------------------------------
(* ContentInstaller::Finish, file_meta: the meta at hand is the first one left. *)

Filing == First(run.left)

(* Mutant: the title's records that are older. *)
OldIfOlder(m) == {o \in mem[run.target] : o.kind = m.kind /\ o.version < m.version}

OldVersions(m) == {o \in mem[run.target] : o.kind = m.kind /\ o # m}

ListsOldVersions ==
  /\ run.pc = "list"
  /\ \/ run' = [run EXCEPT !.pc = "clean", !.olds = OldVersions(Filing)] /\ UNCHANGED faults
     \/ Fault("list") /\ run' = [run EXCEPT !.pc = "clean"]
  /\ UNCHANGED console

(* Mutant: everything the old record names. *)
NotNeeded(o) == ContentsOf(o)

Doomed(o) == ContentsOf(o) \ ContentIds(run.pkg)

(* What an old record names goes, except what the package has in common with  *)
(* it.  A list that cannot be read or a content that cannot be deleted is left *)
(* alone.                                                                     *)
DeletesOldContents ==
  /\ run.pc = "clean"
  /\ \E o \in run.olds :
       /\ \/ /\ stored' = [stored EXCEPT ![run.target] = @ \ Doomed(o)]
             /\ UNCHANGED faults
          \/ /\ Fault("delete")
             /\ \E some \in SUBSET Doomed(o) :
                  stored' = [stored EXCEPT ![run.target] = @ \ some]
       /\ run' = [run EXCEPT !.pc = "remove", !.old = o]
  /\ UNCHANGED <<mem, disk, listed, tiles, launch>>

RemovesOldRecord ==
  /\ run.pc = "remove"
  /\ \/ mem' = [mem EXCEPT ![run.target] = @ \ {run.old}] /\ UNCHANGED faults
     \/ Fault("remove") /\ UNCHANGED mem
  /\ run' = [run EXCEPT !.pc = "clean", !.olds = @ \ {run.old}, !.old = NoMeta]
  /\ UNCHANGED <<stored, disk, listed, tiles, launch>>

SetsRecord ==
  /\ run.pc = "clean" /\ run.olds = {}
  /\ \/ /\ mem' = [mem EXCEPT ![run.target] = @ \cup {Filing}]
        /\ run' = [run EXCEPT !.pc = "commit"]
        /\ UNCHANGED faults
     \/ Fault("set") /\ Fails /\ UNCHANGED mem
  /\ UNCHANGED <<stored, disk, listed, tiles, launch>>

Committed == disk' = [disk EXCEPT ![run.target] = mem[run.target]]

CommitsRecord ==
  /\ run.pc = "commit"
  /\ \/ Committed /\ run' = [run EXCEPT !.pc = "clear"] /\ UNCHANGED faults
     \/ Fault("commit") /\ Fails /\ UNCHANGED disk
  /\ UNCHANGED <<stored, mem, listed, tiles, launch>>

(* A tile of its own for a meta that is not an application goes first. *)
ClearsOwnTile ==
  /\ run.pc = "clear"
  /\ \/ tiles' = tiles \ {Filing.kind} /\ UNCHANGED faults
     \/ Filing.kind # "game" /\ Fault("clear") /\ UNCHANGED tiles
  /\ run' = [run EXCEPT !.pc = "push"]
  /\ UNCHANGED <<stored, mem, disk, listed, launch>>

PushesRecord ==
  /\ run.pc = "push"
  /\ \/ /\ listed' = listed \cup {[meta |-> Filing, storage |-> run.target]}
        /\ run' = [run EXCEPT !.pc = IF run.left = {Filing} THEN "launch" ELSE "list",
                              !.left = @ \ {Filing}]
        /\ UNCHANGED faults
     \/ Fault("push") /\ Fails /\ UNCHANGED listed
  /\ UNCHANGED <<stored, mem, disk, tiles, launch>>

PushesLaunchVersion ==
  /\ run.pc = "launch"
  /\ \/ launch' = run.launch /\ run' = [run EXCEPT !.pc = "invalidate"] /\ UNCHANGED faults
     \/ Fault("launch") /\ Fails /\ UNCHANGED launch
  /\ UNCHANGED <<stored, mem, disk, listed, tiles>>

InvalidatesCache ==
  /\ run.pc = "invalidate"
  /\ \/ Ends("done") /\ UNCHANGED faults
     \/ Fault("invalidate") /\ Fails
  /\ UNCHANGED console

-----------------------------------------------------------------------------
(* RunGameInstall abandons a run that could not finish; Abandon rolls it back *)
(* when a header was rewritten.                                              *)

Abandons ==
  /\ run.pc = "failed"
  /\ IF run.modified THEN run' = [run EXCEPT !.pc = "rollback"] ELSE Ends("failed")
  /\ UNCHANGED <<console, faults>>

(* Rollback: the record of the package's first meta, committed or not. *)
RollsRecordBack ==
  /\ run.pc = "rollback"
  /\ LET kept == mem[run.target] \ {First(run.pkg)}
     IN /\ mem' = [mem EXCEPT ![run.target] = kept]
        /\ \/ disk' = [disk EXCEPT ![run.target] = kept] /\ UNCHANGED faults
           \/ Fault("commit") /\ UNCHANGED disk
  /\ run' = [run EXCEPT !.pc = "discard"]
  /\ UNCHANGED <<stored, listed, tiles, launch>>

(* Mutant: wherever they are. *)
DiscardedEverywhere == [s \in Storages |-> stored[s] \ ContentIds(run.pkg)]

Discarded == [stored EXCEPT ![run.target] = @ \ ContentIds(run.pkg)]

(* ... and the contents of all of them. *)
DiscardsContents ==
  /\ run.pc = "discard"
  /\ stored' = Discarded
  /\ Ends("failed")
  /\ UNCHANGED <<mem, disk, listed, tiles, launch, faults>>

(* The app is gone; with the power, what was not committed is as well. *)
Dies ==
  /\ run.pc # "idle"
  /\ \/ Fault("killed") /\ UNCHANGED mem
     \/ Fault("cut") /\ mem' = disk
  /\ Ends("cut")
  /\ UNCHANGED <<stored, disk, listed, tiles, launch>>

Next ==
  \/ Prepare \/ Registers \/ ImportsTickets
  \/ ListsOldVersions \/ DeletesOldContents \/ RemovesOldRecord
  \/ SetsRecord \/ CommitsRecord \/ ClearsOwnTile \/ PushesRecord
  \/ PushesLaunchVersion \/ InvalidatesCache
  \/ Abandons \/ RollsRecordBack \/ DiscardsContents \/ Dies

Spec == Init /\ [][Next]_vars

-----------------------------------------------------------------------------
(* Properties. *)

(* What the variables hold; what is to be removed is an old version of what is filed. *)
TypeOK ==
  /\ stored \in [Storages -> SUBSET Contents]
  /\ mem \in [Storages -> SUBSET Metas] /\ disk \in [Storages -> SUBSET Metas]
  /\ listed \subseteq [meta : Metas, storage : Storages]
  /\ tiles \subseteq Kinds \ {"game"}
  /\ launch \in Versions \cup {0}
  /\ faults \in 0 .. MaxFaults
  /\ run \in [pc : {"idle", "register", "list", "clean", "remove", "commit", "clear", "push",
                    "launch", "invalidate", "failed", "rollback", "discard"},
              pkg : Packages \cup {{}}, target : Storages, toRegister : SUBSET Contents,
              left : SUBSET Metas, olds : SUBSET Metas, old : Metas \cup {NoMeta},
              modified : BOOLEAN, launch : Versions \cup {0}, seen : SUBSET Storages,
              outcome : {"none", "already", "newer", "done", "failed", "cut"},
              runs : 0 .. MaxRuns]
  /\ run.olds \subseteq {o \in mem[run.target] : \E m \in run.pkg : m.kind = o.kind /\ m # o}

Finished == run.pc = "idle" /\ run.outcome = "done"

(* A run that says it is done, whatever went wrong in it that is not an error *)
(* or in earlier runs of any package: the console has every meta of the       *)
(* package in its list and in a committed record, and all they name is there.  *)
DoneIsUsable ==
  Finished =>
    \A m \in run.pkg :
      /\ m \in mem[run.target] \cap disk[run.target]
      /\ [meta |-> m, storage |-> run.target] \in listed
      /\ ContentsOf(m) \subseteq stored[run.target]

(* A run that says it is done leaves nothing in place that may not be         *)
(* launched: neither its own metas nor an update that was there before, in    *)
(* either storage -- as far as the run could see it: a storage it could not    *)
(* open when it asked is left out.                                            *)
LaunchCoversUpdates ==
  Finished =>
    /\ \A m \in run.pkg : launch >= m.version
    /\ launch >= Installed("update", run.seen)

(* The other titles of the storage, and all of the other storage, keep their  *)
(* records, and the contents these name.                                      *)
OthersAreSpared ==
  [][run.pc # "idle" =>
       \A s \in Storages : \A m \in mem[s] \cap disk[s] :
         \/ s = run.target /\ \E n \in run.pkg : n.kind = m.kind
         \/ m \in mem'[s] /\ stored[s] \cap ContentsOf(m) \subseteq stored'[s]]_vars

(* As long as nothing goes wrong: between runs each storage holds what its records name  *)
(* and not a content more, one version of a title, and no tile of its own for *)
(* what was filed.                                                            *)
RestIsExact ==
  run.pc = "idle" /\ faults = 0 =>
    /\ \A s \in Storages :
         /\ stored[s] = UNION {ContentsOf(m) : m \in mem[s]}
         /\ \A m, n \in mem[s] : m.kind = n.kind => m = n
    /\ \A r \in listed : r.meta.kind \notin tiles

-----------------------------------------------------------------------------
(* What the code says of itself, and does not do. *)

(* "A base game or add-on installed on top of an update must not lower what   *)
(* the console is allowed to launch" -- also when the storage the update is   *)
(* in could not be opened at that moment.                                     *)
LaunchCoversEveryUpdate == Finished => launch >= Installed("update", Storages)

(* "A record that names a content the storage does not have is a title the    *)
(* console refuses to launch."                                               *)
RecordsAreWhole ==
  run.pc = "idle" =>
    \A s \in Storages : \A m \in mem[s] : ContentsOf(m) \subseteq stored[s]

(* Rollback removes the record first: "while it exists the system would keep  *)
(* pointing at contents we are about to delete".                              *)
RollbackSparesRecords ==
  run.pc = "discard" =>
    \A m \in mem[run.target] : DataContents(m) \cap ContentIds(run.pkg) = {}

(* "Delete the older version of this title, across every storage".            *)
OneVersionEverywhere ==
  Finished =>
    \A m \in run.pkg, s \in Storages : \A n \in mem[s] : n.kind = m.kind => n = m

(* ... and only the older one: "we do not downgrade unless asked".             *)
OnlyOlderIsRemoved ==
  run.pc = "remove" /\ run.old.kind = "update" => run.old.version < Filing.version

(* A package is skipped when it "is already installed": all of it.             *)
SkippedIsWhole ==
  run.pc = "idle" /\ run.outcome = "already" => \A m \in run.pkg : \E s \in Storages : m \in mem[s]

=============================================================================
