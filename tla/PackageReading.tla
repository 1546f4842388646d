--------------------------- MODULE PackageReading ---------------------------
(***************************************************************************)
(* What happens between picking a file and the confirm page: OpenPackage of   *)
(* the app and Prepare of the engine, with the container, NCA, CNMT and NCZ   *)
(* readers they call.  The console has to hold a content before it can look   *)
(* into it, so reading a package writes placeholders, and everything after    *)
(* the first one may fail.                                                   *)
(*                                                                         *)
(* A file is a sequence of rows, each a content id with what the container    *)
(* and the content's own header say of it; the CNMT inside a meta is visible  *)
(* only to ReadMetaContent.  Sizes and offsets are small numbers in which     *)
(* the NCA header has size 1.                                                *)
(***************************************************************************)
EXTENDS Integers, SequencesExt

CONSTANTS
  Packages,     \* files that may be picked
  Consoles,     \* what is installed: [records, contents, running, mounts]
  SkipInstalled, AllowDowngrade,   \* InstallOptions
  MaxPicks,     \* bound: files picked
  MaxFaults     \* bound: calls that fail

ASSUME ReadingAssumption ==
  SkipInstalled \in BOOLEAN /\ AllowDowngrade \in BOOLEAN /\ MaxPicks \in Nat /\ MaxFaults \in Nat

VARIABLES
  console,       \* the part of a console that never changes here: records, running, mounts
  stored,        \* contents in the console's storage
  placeholders,  \* [id, pick]: placeholders in the console's storage
  step,          \* where Prepare is
  package,       \* the file picked last
  entries,       \* m_package.container.contents
  index,            \* index of a loop over entries or kept metas
  metas,         \* m_metas
  readings,      \* m_read_placeholders
  control,       \* m_control_placeholder: the content it holds, or "none"
  contents,      \* m_task.contents
  pick,          \* number of files picked
  ended,         \* pick -> how its reading ended
  refused,       \* placeholders the console would not delete
  faults

run == <<step, package, entries, index, metas, readings, control, contents>>
readingVars == <<console, stored, placeholders, run, pick, ended, refused, faults>>

-----------------------------------------------------------------------------
(* The elements of a sequence at some of its places, in order. *)
InOrder(places) ==
  [k \in 1 .. Cardinality(places) |->
     CHOOSE i \in places : Cardinality({j \in places : j <= i}) = k]
Those(s, places) == [k \in 1 .. Cardinality(places) |-> s[InOrder(places)[k]]]
Where(s, Test(_)) == {i \in DOMAIN s : Test(s[i])}

-----------------------------------------------------------------------------
(* Containers. *)

NcaHeaderSize == 1

EntryFits(p, r) == p.size = 0 \/ r.end <= p.size

(* The table of files: of a cartridge image, the one of its "secure" partition. *)
Contained(p) == Those(p.rows, Where(p.rows, LAMBDA r : r.ext \in {"nca", "ncz"}))
Extra(p) == Those(p.rows, Where(p.rows, LAMBDA r : r.ext \notin {"nca", "ncz"}))

(* p.table: its magic, counts, offsets and names are in range. *)
CollectEntries(p) == \A r \in Range(p.rows) : EntryFits(p, r)
ParsePfs0(p) == p.table /\ CollectEntries(p) /\ Contained(p) # <<>>
ParseHfs0(p) == p.table
ParseXci(p) == ParseHfs0(p) /\ p.secure /\ CollectEntries(p) /\ Contained(p) # <<>>

OpenContainer(p) ==
  /\ p.ext # "msp"
  /\ \/ p.magic = "PFS0" /\ ParsePfs0(p)
     \/ p.magic = "HEAD" /\ ParseXci(p)

IsMeta(r) == r.cnmt
TicketsPaired(p) ==
  \A r \in Range(Extra(p)) : r.ext = "tik" =>
    \E c \in Range(Extra(p)) : c.ext = "cert" /\ c.id = r.id

ReadPackage(p) ==
  /\ OpenContainer(p)
  /\ \E r \in Range(Contained(p)) : IsMeta(r)
  /\ TicketsPaired(p)

(* CollectEntries: until an NCZ's tables are read, what an entry occupies.     *)
Entry(r) == [id |-> r.id, ext |-> r.ext, cnmt |-> r.cnmt, size |-> r.packed, row |-> r]

-----------------------------------------------------------------------------
(* Headers and sizes. *)

(* ParseNcaHeader, with the reader and the decryption in front of it. *)
ReadContentHeader(r) == r.header

MaxSections == 4
ParseNczHeader(r) == Len(r.sections) \in 1..MaxSections
SectionEnds(r) == {r.sections[i].offset + r.sections[i].size : i \in DOMAIN r.sections}

(* The block table is optional; what is left after the tables is the payload. *)
PayloadOffset(r) == NcaHeaderSize + 1
ParseNczTables(r) ==
  /\ \A i \in DOMAIN r.sections : r.sections[i].size > 0 /\ r.sections[i].offset >= NcaHeaderSize
  /\ r.blocks # <<>> => \A i \in DOMAIN r.blocks : r.blocks[i] > 0
  /\ r.packed > PayloadOffset(r)

ReadNczInfo(r) == ParseNczHeader(r) /\ ParseNczTables(r)

(* A compressed content is as large as its header says, or else as its        *)
(* sections reach.                                                           *)
NczSize(r, header) == IF header /\ r.nca >= NcaHeaderSize THEN r.nca ELSE Max(SectionEnds(r))

(* A plain one is as large as its header says, or else as the container has.   *)
NcaSize(r, header) == IF header /\ r.nca > 0 THEN r.nca ELSE r.packed

-----------------------------------------------------------------------------
(* Metas. *)

Installable == {"Application", "Patch", "AddOnContent", "Delta", "DataPatch"}
CarriesGameVersion == {"Application", "Patch"}

(* The meta the CNMT in content id describes; one that lists nothing is broken.*)
ParseCnmt(p, id) == id \in DOMAIN p.cnmts /\ p.cnmts[id].contents # <<>>

Rank(m) ==
  CASE m.type = "Application" -> 0 [] m.type = "Patch" -> 1
    [] m.type = "AddOnContent" -> 2 [] OTHER -> 3
OfRank(s, k) == Those(s, Where(s, LAMBDA m : Rank(m) = k))
StableSort(s) == OfRank(s, 0) \o OfRank(s, 1) \o OfRank(s, 2) \o OfRank(s, 3)

Primary == metas[1]

(* Title ids are numbers: the bit 0x800 tells a patch from its game, the bit   *)
(* 0x1000 an add-on, whose last 12 bits are its own.                          *)
Flip(n, bit) == IF (n \div bit) % 2 = 1 THEN n - bit ELSE n + bit
ApplicationIdOf(title, type) ==
  CASE type = "Patch" -> Flip(title, 2048)
    [] type = "AddOnContent" -> Flip(title, 4096) - (Flip(title, 4096) % 4096)
    [] OTHER -> title

(* Of the metas with a game version the newest, and the last of equals. *)
Effective ==
  LET game == {i \in DOMAIN metas : metas[i].type \in CarriesGameVersion}
      newest == {i \in game : \A j \in game : metas[j].version <= metas[i].version}
  IN  IF game = {} THEN Primary ELSE metas[Max(newest)]

-----------------------------------------------------------------------------
(* The plan and the records. *)

FindContentEntry(id) == SelectInSeq(entries, LAMBDA e : e.id = id)

(* Delta fragments are listed, and not shipped. *)
Shipped(m) == Those(m.contents, Where(m.contents, LAMBDA c : c.type # "DeltaFragment"))
Wanted == FlattenSeq([i \in DOMAIN metas |-> Shipped(metas[i])])

Item(c) ==
  LET e == entries[FindContentEntry(c.id)]
  IN  [id |-> c.id, kind |-> c.type, size |-> e.size, done |-> FALSE, skipped |-> FALSE]

(* The plan from the contents at some places of Wanted: metas go first. *)
PlanOf(places) ==
  LET items == [i \in DOMAIN Wanted |-> Item(Wanted[i])]
  IN  Those(items, {i \in places : items[i].kind = "Meta"})
        \o Those(items, {i \in places : items[i].kind # "Meta"})

(* Mutant: a content two metas share is fetched for each. *)
FetchShared == PlanOf(DOMAIN Wanted)

(* What several metas list is fetched once. *)
FillTaskContents ==
  PlanOf({i \in DOMAIN Wanted : \A j \in 1 .. i - 1 : Wanted[j].id # Wanted[i].id})

(* What the record of a meta says the console has: the meta itself first. *)
BuildMetaRecordBlob(m) ==
  <<[id |-> m.id, size |-> entries[FindContentEntry(m.id)].size]>>
    \o [i \in DOMAIN Shipped(m) |-> [id |-> Shipped(m)[i].id, size |-> Shipped(m)[i].size]]

-----------------------------------------------------------------------------
(* What may be asked of the console. *)

Fresh(id) == [id |-> id, pick |-> pick]
Cost(n) == faults + n <= MaxFaults /\ faults' = faults + n

(* DropPlaceholders goes on after one the console refuses to delete. *)
DropPlaceholders(held, gone, cost) ==
  \E r \in SUBSET (gone \cap held) :
    /\ Cost(cost + Cardinality(r))
    /\ placeholders' = held \ (gone \ r)
    /\ refused' = refused \cup r

(* A placeholder without a path is deleted again. *)
PathFails(held, ph) == DropPlaceholders(held \cup {ph}, {ph}, 1)

(* How a content is looked into: through its placeholder's path, or where the   *)
(* console does not mount that, registered as a content first.  A content it   *)
(* has already is as good as registered.                                      *)
Has(id) == id \in stored
MountFails == IF console.mounts THEN 1 ELSE 0   \* ReadFromContent
MetaReads(id) ==
  LET mount == MountFails
      moves == ~Has(id)
  IN  (IF console.mounts THEN {[stays |-> TRUE, ok |-> TRUE, cost |-> 0]} ELSE {})
        \cup {[stays |-> ~moves, ok |-> TRUE, cost |-> mount],
              [stays |-> ~moves, ok |-> FALSE, cost |-> mount + 1],
              [stays |-> TRUE, ok |-> FALSE, cost |-> mount + 1]}

(* InstalledState asks the storages that open; an exact record, or the newest   *)
(* one of the title.                                                          *)
Versions(records) == {r.version : r \in {q \in records : q.title = Primary.title}}
InstalledVersion(records) == Max(Versions(records) \cup {0})
Recorded(records) ==
  \/ \E r \in records :
       r.title = Primary.title /\ r.version = Primary.version /\ r.type = Primary.type
  \/ InstalledVersion(records) = Primary.version /\ Primary.version # 0

ConsoleCanUseInstalledVersion ==
  \E r \in console.records :
    /\ r.title = Primary.title /\ r.version = Primary.version /\ r.type = Primary.type
    /\ r.filed = ApplicationIdOf(Primary.title, Primary.type) /\ r.usable

DecideSkip(installed, has) ==
  IF SkipInstalled /\ has THEN "AlreadyInstalled"
  ELSE IF Primary.type = "Patch" /\ ~AllowDowngrade /\ installed > Primary.version
  THEN "NewerInstalled" ELSE "Install"

-----------------------------------------------------------------------------
(* Reading, step by step. *)

NoControl == "none"

ReadingInit ==
  /\ console \in Consoles /\ stored = console.contents /\ placeholders = {}
  /\ step = "idle" /\ package \in Packages /\ entries = <<>> /\ index = 1 /\ metas = <<>>
  /\ readings = {} /\ control = NoControl /\ contents = <<>>
  /\ pick = 0 /\ ended = <<>> /\ refused = {} /\ faults = 0

Fail(why) == step' = "failed" /\ ended' = Append(ended, why)
Same == UNCHANGED <<console, package, pick>>
NoDevice == UNCHANGED <<stored, placeholders, refused>>

(* OpenPackage: a new engine for every file. *)
Pick(p) ==
  /\ step = "idle" /\ pick < MaxPicks
  /\ pick' = pick + 1 /\ package' = p /\ step' = "container"
  /\ entries' = <<>> /\ index' = 1 /\ metas' = <<>> /\ readings' = {}
  /\ control' = NoControl /\ contents' = <<>>
  /\ UNCHANGED <<console, stored, placeholders, ended, refused, faults>>

ReadContainer ==
  /\ step = "container"
  /\ \/ /\ ReadPackage(package) /\ step' = "sizes"
        /\ entries' = [i \in DOMAIN Contained(package) |-> Entry(Contained(package)[i])]
        /\ UNCHANGED <<ended, faults>>
     \/ ~ReadPackage(package) /\ Fail("container") /\ UNCHANGED <<entries, faults>>
     \/ Cost(1) /\ Fail("container") /\ UNCHANGED entries
  /\ Same /\ NoDevice /\ UNCHANGED <<index, metas, readings, control, contents>>

(* A plain content without a readable header keeps the size the container      *)
(* gives it; a compressed one without tables ends the reading.                 *)
ReadSize ==
  /\ step = "sizes"
  /\ LET r == entries[index].row IN
     \/ r.ext = "ncz" /\ Cost(IF ReadNczInfo(r) THEN 1 ELSE 0)
        /\ Fail("container") /\ UNCHANGED <<entries, index>>
     \/ /\ r.ext = "ncz" => ReadNczInfo(r)
        /\ \E header \in BOOLEAN :
             /\ header => ReadContentHeader(r)
             /\ Cost(IF ReadContentHeader(r) /\ ~header THEN 1 ELSE 0)
             /\ entries' = [entries EXCEPT ![index].size =
                  IF r.ext = "ncz" THEN NczSize(r, header) ELSE NcaSize(r, header)]
        /\ IF index < Len(entries) THEN index' = index + 1 /\ UNCHANGED step ELSE index' = 1 /\ step' = "metas"
        /\ UNCHANGED ended
  /\ Same /\ NoDevice /\ UNCHANGED <<metas, readings, control, contents>>

MetaEntries == Those(entries, Where(entries, IsMeta))
ReadingMeta == step = "metas" /\ index <= Len(MetaEntries)
Meta == MetaEntries[index]
MetaPh == Fresh(Meta.id)

(* InstallContentForRead, and the header before it: what fails inside takes    *)
(* its placeholder back, except a failed flush.                               *)
MetaNotWritten ==
  /\ ReadingMeta
  /\ \/ Cost(IF ReadContentHeader(Meta.row) THEN 1 ELSE 0) /\ Fail("meta")
        /\ UNCHANGED <<placeholders, refused>>
     \/ Cost(1) /\ ReadContentHeader(Meta.row) /\ Fail("meta")
        /\ placeholders' = placeholders \cup {MetaPh} /\ refused' = refused \cup {MetaPh}
     \/ /\ ReadContentHeader(Meta.row) /\ Fail("meta")
        /\ PathFails(placeholders, MetaPh)
  /\ Same /\ UNCHANGED <<stored, entries, index, metas, readings, control, contents>>

(* ... then the CNMT is read out of it. *)
Written(r) == placeholders \cup (IF r.stays THEN {MetaPh} ELSE {})
MoveMeta(r) == stored' = stored \cup (IF r.stays THEN {} ELSE {Meta.id})

MetaNotRead ==
  /\ ReadingMeta /\ ReadContentHeader(Meta.row)
  /\ \E r \in MetaReads(Meta.id) :
       /\ r.ok => ~ParseCnmt(package, Meta.id)
       /\ Cost(r.cost) /\ MoveMeta(r) /\ placeholders' = Written(r)
  /\ Fail("cnmt")
  /\ Same /\ UNCHANGED <<entries, index, metas, readings, control, contents, refused>>

SystemMeta ==
  /\ ReadingMeta /\ ReadContentHeader(Meta.row) /\ ParseCnmt(package, Meta.id)
  /\ package.cnmts[Meta.id].type \notin Installable

(* Mutant: a meta that is not installed stays where it was written. *)
LeaveSystemMeta ==
  /\ SystemMeta
  /\ \E r \in MetaReads(Meta.id) :
       r.ok /\ MoveMeta(r) /\ Cost(r.cost) /\ placeholders' = Written(r)
  /\ index' = index + 1
  /\ Same /\ UNCHANGED <<step, entries, metas, readings, control, contents, ended, refused>>

SkipSystemMeta ==
  /\ SystemMeta
  /\ \E r \in MetaReads(Meta.id) :
       r.ok /\ MoveMeta(r) /\ DropPlaceholders(Written(r), {MetaPh}, r.cost)
  /\ index' = index + 1
  /\ Same /\ UNCHANGED <<step, entries, metas, readings, control, contents, ended>>

KeepMeta ==
  /\ ReadingMeta /\ ReadContentHeader(Meta.row) /\ ParseCnmt(package, Meta.id)
  /\ LET c == package.cnmts[Meta.id] IN
     /\ c.type \in Installable
     /\ metas' = Append(metas, [id |-> Meta.id, title |-> c.title, type |-> c.type,
                                version |-> c.version, contents |-> c.contents])
  /\ \E r \in MetaReads(Meta.id) :
       r.ok /\ MoveMeta(r) /\ Cost(r.cost) /\ placeholders' = Written(r)
  /\ readings' = readings \cup {MetaPh} /\ index' = index + 1
  /\ Same /\ UNCHANGED <<step, entries, control, contents, ended, refused>>

(* The base game leads. *)
OrderMetas ==
  /\ step = "metas" /\ index > Len(MetaEntries)
  /\ IF metas = <<>> THEN Fail("system") /\ UNCHANGED <<metas, index>>
     ELSE metas' = StableSort(metas) /\ index' = 1 /\ step' = "running" /\ UNCHANGED ended
  /\ Same /\ NoDevice /\ UNCHANGED <<entries, readings, control, contents, faults>>

(* No application that a meta belongs to may be running. *)
ApplicationRunning(m) == ApplicationIdOf(m.title, m.type) \in console.running

CheckRunning ==
  /\ step = "running"
  /\ \/ Cost(1) /\ Fail("service") /\ UNCHANGED index
     \/ Cost(0) /\ ApplicationRunning(metas[index]) /\ Fail("running") /\ UNCHANGED index
     \/ /\ Cost(0) /\ ~ApplicationRunning(metas[index]) /\ UNCHANGED ended
        /\ IF index < Len(metas) THEN index' = index + 1 /\ UNCHANGED step
           ELSE index' = 1 /\ step' = "control"
  /\ Same /\ NoDevice /\ UNCHANGED <<entries, metas, readings, control, contents>>

(* The control content of the meta that will be in force, or else the first    *)
(* content whose own header says it is one.                                   *)
Named == Those(Effective.contents, Where(Effective.contents,
                 LAMBDA c : c.type = "Control" /\ FindContentEntry(c.id) # 0))
Scanned == Those(entries, Where(entries,
                   LAMBDA e : ReadContentHeader(e.row) /\ e.row.type = "Control"))
ControlContent == IF Named # <<>> THEN Named[1].id
                  ELSE IF Scanned # <<>> THEN Scanned[1].id ELSE NoControl

(* Name and cover are read the way the CNMT is; the reading goes on without.   *)
ReadControl ==
  LET ph == Fresh(ControlContent) IN
  /\ step = "control" /\ step' = "plan"
  /\ \/ /\ ControlContent = NoControl \/ faults < MaxFaults   \* InstallContentForRead
        /\ Cost(IF ControlContent = NoControl THEN 0 ELSE 1)
        /\ UNCHANGED <<placeholders, refused, readings, control>>
     \/ /\ ControlContent # NoControl /\ Cost(1)               \* ... its flush
        /\ placeholders' = placeholders \cup {ph} /\ refused' = refused \cup {ph}
        /\ UNCHANGED <<readings, control>>
     \/ /\ ControlContent # NoControl
        /\ PathFails(placeholders, ph)
        /\ UNCHANGED <<readings, control>>
     \/ /\ ControlContent # NoControl /\ Cost(0)
        /\ placeholders' = placeholders \cup {ph} /\ readings' = readings \cup {ph}
        /\ control' = ControlContent /\ UNCHANGED refused
  /\ Same /\ UNCHANGED <<stored, entries, index, metas, contents, ended>>

(* What was read need not be fetched again. *)
IsRead(c) == c.id = control \/ \E i \in DOMAIN metas : metas[i].id = c.id
MarkRead(plan) == [i \in DOMAIN plan |-> [plan[i] EXCEPT !.done = IsRead(plan[i])]]

Plan ==
  /\ step = "plan"
  /\ IF \E i \in DOMAIN Wanted : FindContentEntry(Wanted[i].id) = 0
     THEN Fail("missing") /\ UNCHANGED contents
     ELSE contents' = MarkRead(FillTaskContents) /\ step' = "query" /\ UNCHANGED ended
  /\ Same /\ NoDevice /\ UNCHANGED <<entries, index, metas, readings, control, faults>>

(* The primary meta alone decides whether there is anything to do. *)
Query ==
  /\ step = "query"
  /\ \E blind \in SUBSET {"sd", "nand"}, answered \in BOOLEAN :
       LET records == {r \in console.records : r.storage \notin blind}
           has == Recorded(records) /\ answered /\ ConsoleCanUseInstalledVersion
       IN  /\ Cost(Cardinality(blind) + (IF answered THEN 0 ELSE 1))
           /\ IF DecideSkip(InstalledVersion(records), has) = "Install"
              THEN step' = "has" /\ UNCHANGED ended
              ELSE step' = "skipped" /\ ended' = Append(ended, "skipped")
  /\ Same /\ NoDevice /\ UNCHANGED <<entries, index, metas, readings, control, contents>>

(* What the console has is not fetched; a question without an answer is a no. *)
AskForContents ==
  /\ step = "has" /\ step' = "confirm"
  /\ \E silent \in SUBSET {i \in DOMAIN contents : ~contents[i].done /\ Has(contents[i].id)} :
       /\ Cost(Cardinality(silent))
       /\ contents' = [i \in DOMAIN contents |->
            IF ~contents[i].done /\ Has(contents[i].id) /\ i \notin silent
            THEN [contents[i] EXCEPT !.done = TRUE, !.skipped = TRUE] ELSE contents[i]]
  /\ Same /\ NoDevice /\ UNCHANGED <<entries, index, metas, readings, control, ended>>

-----------------------------------------------------------------------------
(* Afterwards. *)

Forgotten == step' = "idle" /\ readings' = {} /\ control' = NoControl
             /\ UNCHANGED <<entries, index, metas, contents>>

CleanupAfterFailure ==
  /\ step = "failed" /\ DropPlaceholders(placeholders, readings, 0) /\ Forgotten
  /\ Same /\ UNCHANGED <<stored, ended>>

(* Leaving the confirm page gives the package up. *)
Abandon ==
  /\ step = "confirm" /\ DropPlaceholders(placeholders, readings, 0) /\ Forgotten
  /\ ended' = Append(ended, "left")
  /\ Same /\ UNCHANGED stored

(* Leaving the result page of a package that was skipped takes nothing back. *)
LeaveSkipped ==
  /\ step = "skipped" /\ Forgotten /\ Same /\ NoDevice /\ UNCHANGED <<ended, faults>>

ReadingNext ==
  \/ \E p \in Packages : Pick(p)
  \/ ReadContainer \/ ReadSize \/ MetaNotWritten \/ MetaNotRead \/ SkipSystemMeta \/ KeepMeta
  \/ OrderMetas \/ CheckRunning \/ ReadControl \/ Plan \/ Query \/ AskForContents
  \/ CleanupAfterFailure \/ Abandon \/ LeaveSkipped

ReadingSpec == ReadingInit /\ [][ReadingNext]_readingVars

-----------------------------------------------------------------------------
(* Properties. *)

(* A file whose CNMTs tell the truth: they list contents, never a meta, at the *)
(* size the content's own header has; and no meta says it is a control.       *)
TrueSize(r) == IF r.ext = "ncz" THEN NczSize(r, r.header) ELSE NcaSize(r, r.header)
IsTruthful(p) ==
  /\ p.rows \in Seq(Range(p.rows))
  /\ \A r \in Range(p.rows) : r.header \in BOOLEAN /\ (r.type = "Control" => r.id \notin DOMAIN p.cnmts)
  /\ \A m \in DOMAIN p.cnmts :
       /\ p.cnmts[m].version \in Nat
       /\ p.cnmts[m].contents \in Seq(Range(p.cnmts[m].contents))
       /\ \A c \in Range(p.cnmts[m].contents) :
            /\ c.id \notin DOMAIN p.cnmts \cup {NoControl}
            /\ \A r \in Range(Contained(p)) : r.id = c.id => c.size = TrueSize(r)

Held(id) == Fresh(id) \in placeholders \/ id \in stored

(* What the confirm page promises to fetch is what the records will say the    *)
(* console has, neither more nor twice nor of another size, though one is made *)
(* from the container and its headers and the other from the CNMTs; and only   *)
(* what the console holds already counts as fetched.                          *)
PlanIsTheRecords ==
  step = "confirm" =>
    LET rows == UNION {Range(BuildMetaRecordBlob(metas[i])) : i \in DOMAIN metas}
        data == {r \in rows : \A i \in DOMAIN metas : metas[i].id # r.id}
    IN  /\ \A r \in data : Cardinality({i \in DOMAIN contents : contents[i].id = r.id}) = 1
        /\ \A c \in Range(contents) :
             /\ \E r \in data : r.id = c.id /\ (faults = 0 => r.size = c.size)
             /\ c.done => Held(c.id)
        /\ \A i \in DOMAIN metas : Held(metas[i].id)

(* When a package is given up, whatever was found wrong with it, the           *)
(* placeholders that were written to read it are gone.  Excepted are those the *)
(* console itself would not flush or delete, the meta whose CNMT cannot be     *)
(* read, and a package that is skipped.                                       *)
ReadingsAreTakenBack ==
  step = "idle" =>
    \A ph \in placeholders \ refused :
      \/ ended[ph.pick] = "skipped"
      \/ /\ ended[ph.pick] = "cnmt"
         /\ \A other \in placeholders \ refused : other.pick = ph.pick => other = ph

-----------------------------------------------------------------------------
(* What the code says of itself, and does not do. *)

(* "A failure after the meta content went into its placeholder has to take it  *)
(* out again."                                                               *)
FailureTakesBack ==
  step = "idle" => \A ph \in placeholders \ refused : ended[ph.pick] # "cnmt"

(* "A package that was never installed owes the console the placeholders the   *)
(* CNMT/NACP read created."                                                  *)
SkippingTakesBack ==
  step = "idle" => \A ph \in placeholders \ refused : ended[ph.pick] # "skipped"
=============================================================================
