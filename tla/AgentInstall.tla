---------------------------- MODULE AgentInstall ----------------------------
(***************************************************************************)
(* Installing and removing the agent's files (install/engine.cpp).  An      *)
(* install prepares every file next to its target, swaps them in one rename *)
(* at a time, writes the record (state.json) the same way and only then     *)
(* drops the files it moved aside.  Any call to the card's filesystem can   *)
(* fail, and the console can lose power between any two.                    *)
(*                                                                         *)
(* A path's number is its place in the manifest; path 0 is the record, and  *)
(* a record's content is the version of which it names the files.           *)
(***************************************************************************)
EXTENDS Integers

CONSTANTS
  NumFiles,    \* the files of an agent
  NumVersions, \* the agents there are to install
  MaxFaults,   \* bound: calls that fail
  MaxCrashes   \* bound: power cuts, and quits

ASSUME AgentAssumption ==
  /\ NumFiles \in Nat \ {0} /\ NumVersions \in Nat \ {0}
  /\ MaxFaults \in Nat /\ MaxCrashes \in Nat

Record == 0
Files == 1 .. NumFiles
Paths == 0 .. NumFiles
Versions == 1 .. NumVersions
Absent == 0
Torn == NumVersions + 1  \* a file that was not written to its end
Contents == Versions \cup {Absent, Torn}

VARIABLES
  card,    \* path -> what is at its target, at <target>.acnh-tmp and .acnh-old
  pc,      \* the next call of the run in hand
  at,      \* the path it is about
  run,     \* what the run installs, what it found, what it moved aside
  crashes

installerVars == <<card, pc, at, run, crashes>>

NoRun == [goal |-> Absent, before |-> [p \in Paths |-> Absent], had |-> {},
          faults |-> 0, result |-> "none"]

InstallerInit ==
  /\ card = [p \in Paths |-> [target |-> Absent, temp |-> Absent, old |-> Absent]]
  /\ pc = "idle" /\ at = Record /\ run = NoRun /\ crashes = 0

(* A call of this run fails. *)
Fault == run.faults < MaxFaults
Faulted(r) == [r EXCEPT !.faults = @ + 1]

Goto(label, p) == pc' = label /\ at' = p
Ends(r, result) == Goto("idle", Record) /\ run' = [r EXCEPT !.result = result]

Without(c, ps, name) ==
  [p \in Paths |-> IF p \in ps THEN [c[p] EXCEPT ![name] = Absent] ELSE c[p]]

(* RollbackFile goes from the last file that was swapped to the first. *)
RollBack(last, r) ==
  IF last = Record THEN Ends(r, "failed") ELSE Goto("restore", last) /\ run' = r

-----------------------------------------------------------------------------
(* Install. *)

StartInstall ==
  /\ pc = "idle"
  /\ \E v \in Versions :
       run' = [NoRun EXCEPT !.goal = v, !.before = [p \in Paths |-> card[p].target]]
  /\ Goto("create", 1)
  /\ UNCHANGED <<card, crashes>>

(* A preparation failed: the temporary files go, and a record that cannot   *)
(* be prepared takes the files back.                                        *)
PrepareFails(r) ==
  /\ card' = Without(card, IF at = Record THEN {Record} ELSE Files, "temp")
  /\ RollBack(IF at = Record THEN NumFiles ELSE Record, r)

(* What is at the temporary path goes first. *)
ClearedTemp(f) == [f EXCEPT !.temp = Absent]

PrepareCreates ==
  /\ pc = "create"
  /\ LET f == ClearedTemp(card[at])
     IN \/ /\ f.temp = Absent
           /\ card' = [card EXCEPT ![at] = [f EXCEPT !.temp = Torn]]
           /\ Goto("write", at) /\ UNCHANGED run
        \/ /\ f.temp = Absent => Fault
           /\ PrepareFails(IF f.temp = Absent THEN Faulted(run) ELSE run)
  /\ UNCHANGED crashes

(* A write can fail, and it can report success and not be whole. *)
PrepareWrites ==
  /\ pc = "write"
  /\ \/ /\ card' = [card EXCEPT ![at].temp = run.goal]
        /\ Goto("readback", at) /\ UNCHANGED run
     \/ /\ Fault
        /\ Goto("readback", at) /\ run' = Faulted(run) /\ UNCHANGED card
     \/ Fault /\ PrepareFails(Faulted(run))
  /\ UNCHANGED crashes

ReadBackMatches(f) == f.temp = run.goal

PrepareReadsBack ==
  /\ pc = "readback"
  /\ IF ReadBackMatches(card[at])
       THEN /\ IF at \in {Record, NumFiles} THEN Goto("clear", IF at = Record THEN Record ELSE 1)
                                            ELSE Goto("create", at + 1)
            /\ UNCHANGED <<card, run>>
       ELSE PrepareFails(run)
  /\ UNCHANGED crashes

(* Phase two, CommitFile.  When a swap fails, the files after it lose their *)
(* temporary files and the ones before it are taken back.                   *)
SwapFails(c, r) ==
  /\ card' = Without(c, IF at = Record THEN {} ELSE at .. NumFiles, "temp")
  /\ RollBack(IF at = Record THEN NumFiles ELSE at - 1, r)

CommitClears ==
  /\ pc = "clear"
  /\ Goto("aside", at)
  /\ \/ card' = Without(card, {at}, "old") /\ UNCHANGED run
     \/ Fault /\ card[at].old # Absent /\ run' = Faulted(run) /\ UNCHANGED card
  /\ UNCHANGED crashes

(* A rename does not overwrite: a backup that could not be cleared stops it. *)
CommitMovesAside ==
  /\ pc = "aside"
  /\ \/ /\ card[at].target = Absent
        /\ Goto("in", at)
        /\ UNCHANGED <<card, run>>
     \/ /\ card[at].target # Absent /\ card[at].old = Absent
        /\ card' = [card EXCEPT ![at].old = card[at].target, ![at].target = Absent]
        /\ run' = [run EXCEPT !.had = @ \cup {at}]
        /\ Goto("in", at)
     \/ card[at].target # Absent /\ card[at].old # Absent /\ SwapFails(card, run)
     \/ card[at].target # Absent /\ Fault /\ SwapFails(card, Faulted(run))
  /\ UNCHANGED crashes

(* Mutant: what was moved aside goes with its own file's swap. *)
CommitDropsAtOnce ==
  /\ pc = "in"
  /\ card' = [card EXCEPT ![at] = [target |-> @.temp, temp |-> Absent, old |-> Absent]]
  /\ CASE at = Record -> Goto("drop", Record)
       [] at = NumFiles -> Goto("create", Record)
       [] OTHER -> Goto("clear", at + 1)
  /\ UNCHANGED <<run, crashes>>

(* A rename that reports a failure and has worked passes for one that has:  *)
(* the hash of the target is asked.                                         *)
CommitMovesIn ==
  /\ pc = "in"
  /\ \/ /\ card' = [card EXCEPT ![at].target = card[at].temp, ![at].temp = Absent]
        /\ CASE at = Record -> Goto("drop", Record)
             [] at = NumFiles -> Goto("create", Record)
             [] OTHER -> Goto("clear", at + 1)
        /\ UNCHANGED run
     \/ Fault /\ at \notin run.had /\ SwapFails(Without(card, {at}, "temp"), Faulted(run))
     \/ /\ Fault /\ at \in run.had
        /\ Goto("backin", at) /\ run' = Faulted(run) /\ UNCHANGED card
  /\ UNCHANGED crashes

(* The file this swap moved aside comes back. *)
CommitMovesBack ==
  /\ pc = "backin"
  /\ \/ SwapFails([card EXCEPT ![at] = [target |-> @.old, temp |-> Absent, old |-> Absent]], run)
     \/ Fault /\ SwapFails(Without(card, {at}, "temp"), Faulted(run))
  /\ UNCHANGED crashes

(* RollbackFile: the new file goes, the one moved aside comes back. *)
Deletes(p) ==
  \/ card' = Without(card, {p}, "target") /\ run' = run
  \/ Fault /\ card[p].target # Absent /\ run' = Faulted(run) /\ UNCHANGED card

(* Mutant: the file moved aside is renamed onto the one in its way. *)
RestoreInPlace ==
  /\ pc = "restore"
  /\ Goto("restorein", at)
  /\ UNCHANGED <<card, run, crashes>>

RestoreDeletes ==
  /\ pc = "restore"
  /\ Deletes(at)
  /\ Goto(IF at \in run.had /\ card[at].old # Absent THEN "restorein" ELSE "restored", at)
  /\ UNCHANGED crashes

RestoreRenames ==
  /\ pc = "restorein"
  /\ \/ /\ card[at].target = Absent
        /\ card' = [card EXCEPT ![at].target = card[at].old, ![at].old = Absent]
        /\ run' = run
     \/ card[at].target = Absent /\ Fault /\ run' = Faulted(run) /\ UNCHANGED card
     \/ card[at].target # Absent /\ Deletes(at)
  /\ Goto("restored", at)
  /\ UNCHANGED crashes

RestoreEnds ==
  /\ pc = "restored"
  /\ RollBack(at - 1, run)
  /\ UNCHANGED <<card, crashes>>

(* The record is in: what was moved aside goes, whether or not it can. *)
DropBackups ==
  /\ pc = "drop"
  /\ \/ card' = Without(card, {at}, "old") /\ run' = run
     \/ Fault /\ card[at].old # Absent /\ UNCHANGED card /\ run' = Faulted(run)
  /\ IF at = NumFiles THEN Goto("done", Record) ELSE Goto("drop", at + 1)
  /\ UNCHANGED crashes

InstallEnds ==
  /\ pc = "done"
  /\ Ends(run, "ok")
  /\ UNCHANGED <<card, crashes>>

-----------------------------------------------------------------------------
(* Uninstall: every file the record names, then the record.  What cannot be *)
(* deleted does not stop the rest, but keeps the record.                     *)

StartUninstall ==
  /\ pc = "idle" /\ card[Record].target # Absent
  /\ run' = [NoRun EXCEPT !.before = [p \in Paths |-> card[p].target]]
  /\ Goto("delete", 1)
  /\ UNCHANGED <<card, crashes>>

UninstallDeletes ==
  /\ pc = "delete"
  /\ Deletes(at)
  /\ IF at = NumFiles THEN Goto("unrecord", Record) ELSE Goto("delete", at + 1)
  /\ UNCHANGED crashes

MayUnrecord == run.faults = 0

UninstallUnrecords ==
  /\ pc = "unrecord"
  /\ \/ MayUnrecord /\ card' = Without(card, {Record}, "target") /\ Ends(run, "ok")
     \/ MayUnrecord /\ Fault /\ UNCHANGED card /\ Ends(Faulted(run), "failed")
     \/ ~MayUnrecord /\ UNCHANGED card /\ Ends(run, "failed")
  /\ UNCHANGED crashes

-----------------------------------------------------------------------------
(* The app is gone, in the middle of a run or between two. *)
Crash ==
  /\ crashes < MaxCrashes /\ pc # "down"
  /\ crashes' = crashes + 1
  /\ Goto("down", Record) /\ run' = NoRun
  /\ UNCHANGED card

(* The next start: CleanLeftovers takes every .acnh- sibling out of the     *)
(* agent's directory, if the manifest knows this game.                      *)
Restart ==
  /\ pc = "down"
  /\ card' \in {card, Without(Without(card, Files, "temp"), Files, "old")}
  /\ Goto("idle", Record)
  /\ UNCHANGED <<run, crashes>>

Install ==
  \/ StartInstall \/ PrepareCreates \/ PrepareWrites \/ PrepareReadsBack
  \/ CommitClears \/ CommitMovesAside \/ CommitMovesIn \/ CommitMovesBack
  \/ RestoreDeletes \/ RestoreRenames \/ RestoreEnds \/ DropBackups \/ InstallEnds

Uninstall == StartUninstall \/ UninstallDeletes \/ UninstallUnrecords

InstallerNext == Install \/ Uninstall \/ Crash \/ Restart

InstallerSpec == InstallerInit /\ [][InstallerNext]_installerVars

-----------------------------------------------------------------------------
(* Properties. *)

(* What the variables hold. *)
InstallerTypeOK ==
  /\ card \in [Paths -> [target : Contents, temp : Contents, old : Contents]]
  /\ at \in Paths
  /\ pc \in {"idle", "create", "write", "readback", "clear", "aside", "in", "backin",
             "restore", "restorein", "restored", "drop", "done", "delete", "unrecord", "down"}
  /\ run \in [goal : Versions \cup {Absent}, before : [Paths -> Contents], had : SUBSET Paths,
              faults : 0 .. MaxFaults, result : {"none", "ok", "failed"}]
  /\ crashes \in 0 .. MaxCrashes

(* A file the game loads, the record, and what would be put back in their    *)
(* place are never half-written, whichever calls fail and whenever the power *)
(* goes.                                                                     *)
NeverHalfWritten == \A p \in Paths : card[p].target # Torn /\ card[p].old # Torn

(* Until the record is in, what an install replaces can still be put back:   *)
(* no cleanup, failure path or second fault destroys the only copy.          *)
Replacing == pc \notin {"idle", "down", "drop", "done", "delete", "unrecord"}
CanBePutBack ==
  Replacing =>
    \A p \in Paths : run.before[p] # Absent => run.before[p] \in {card[p].target, card[p].old}

(* An install that ends has done all of it or none of it, files and record,  *)
(* as long as one call at most has failed in it -- on a card with whatever   *)
(* earlier interrupted runs have left.                                       *)
Idle == pc = "idle" /\ run.goal # Absent /\ run.result # "none"
AllOrNothing ==
  Idle /\ run.faults <= 1 =>
    \A p \in Paths :
      card[p].target = IF run.result = "ok" THEN run.goal ELSE run.before[p]

(* An install fails only when a call failed in it: what an interrupted run   *)
(* left on the card never blocks the next one.                               *)
LeftoversDoNotBlock == Idle /\ run.result = "failed" => run.faults > 0

(* A run in which one call at most fails, an install or an uninstall, leaves *)
(* no agent without a record of it, where it did not find one: Uninstall can *)
(* always find what Install has left.                                        *)
Described(there) == there[Record] = Absent => \A f \in Files : there[f] = Absent
EveryFileIsRecorded ==
  pc = "idle" /\ run.result # "none" /\ run.faults <= 1 /\ Described(run.before) =>
    Described([p \in Paths |-> card[p].target])

(* Whatever an earlier interrupted run left on the card, a run ends with all   *)
(* of its work done or none, fails only when a call of its own failed, and     *)
(* leaves nothing that the next one could not find.                           *)
EndsWhole == AllOrNothing /\ LeftoversDoNotBlock /\ EveryFileIsRecorded

-----------------------------------------------------------------------------
(* What the code says of itself, and a power cut breaks: no run checks these. *)

(* Install, phase two: "the user must never be left with a half-installed   *)
(* agent": the files on the card are one agent's, or none is there.         *)
NeverHalfInstalled ==
  pc = "idle" => \A f, g \in Files : card[f].target = card[g].target

(* "the card never ends up with files no record describes", wherever the    *)
(* power goes.                                                              *)
AlwaysDescribed == pc = "idle" => Described([p \in Paths |-> card[p].target])

=============================================================================
