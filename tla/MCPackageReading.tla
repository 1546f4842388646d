--------------------------- MODULE MCPackageReading --------------------------
(* Files and consoles for model checking PackageReading: a game with its     *)
(* update, an add-on, a firmware package, and what is broken about others.    *)
EXTENDS PackageReading

Game == 8192
Update == 10240
AddOn == 12289

Content(i, kind, size) ==
  [id |-> i, ext |-> "nca", cnmt |-> FALSE, packed |-> size, nca |-> size, end |-> 9,
   header |-> TRUE, type |-> kind, sections |-> <<>>, blocks |-> <<>>]
MetaOf(i) == [Content(i, "Meta", 1) EXCEPT !.cnmt = TRUE]
Padded(r) == [r EXCEPT !.packed = r.nca + 1]
Headless(r) == [r EXCEPT !.header = FALSE]
Compressed(r) ==
  [r EXCEPT !.ext = "ncz", !.packed = 3, !.blocks = <<1>>,
            !.sections = <<[offset |-> 1, size |-> 1], [offset |-> 2, size |-> r.nca - 2]>>]
Other(i, e) == [Content(i, "Unknown", 1) EXCEPT !.ext = e, !.header = FALSE]

Listing(i, kind, n) == [id |-> i, type |-> kind, size |-> n]
Cnmt(title, kind, version, list) ==
  [title |-> title, type |-> kind, version |-> version, contents |-> list]

GameCnmt == Cnmt(Game, "Application", 0,
  <<Listing("program", "Program", 5), Listing("control", "Control", 2)>>)
UpdateCnmt == Cnmt(Update, "Patch", 2,
  <<Listing("program", "Program", 5), Listing("control2", "Control", 3),
    Listing("delta", "DeltaFragment", 4)>>)
AddOnCnmt == Cnmt(AddOn, "AddOnContent", 1, <<Listing("data", "Data", 4)>>)
SystemCnmt == Cnmt(256, "SystemData", 1, <<Listing("control", "Control", 2)>>)

File(rows, cnmts) ==
  [ext |-> "nsp", magic |-> "PFS0", size |-> 9, table |-> TRUE, secure |-> FALSE,
   rows |-> rows, cnmts |-> cnmts]

Both == File(
  <<MetaOf("patch"), Compressed(Content("program", "Program", 5)), Padded(Content("control2", "Control", 3)),
    MetaOf("game"), Headless(Content("control", "Control", 2)), Other("rights", "tik"), Other("rights", "cert")>>,
  [i \in {"game", "patch"} |-> IF i = "game" THEN GameCnmt ELSE UpdateCnmt])
Dump == [File(
  <<MetaOf("system"), MetaOf("game"), Content("program", "Program", 5), Content("control", "Control", 2)>>,
  [i \in {"game", "system"} |-> IF i = "game" THEN GameCnmt ELSE SystemCnmt])
    EXCEPT !.magic = "HEAD", !.ext = "xci", !.secure = TRUE]
Extras == File(<<Content("data", "Data", 4), MetaOf("addon"), Content("control", "Control", 2)>>, [i \in {"addon"} |-> AddOnCnmt])
Firmware == File(<<MetaOf("system"), Content("control", "Control", 2)>>, [i \in {"system"} |-> SystemCnmt])
Lacking == File(<<MetaOf("game"), Content("program", "Program", 5)>>, [i \in {"game"} |-> GameCnmt])
Garbled == File(<<MetaOf("addon"), MetaOf("game"), Content("data", "Data", 4)>>,
  [i \in {"addon", "game"} |-> IF i = "addon" THEN AddOnCnmt ELSE Cnmt(Game, "Application", 0, <<>>)])

MCPackages == {Both, Dump, Extras, Firmware, Lacking, Garbled,
  [Both EXCEPT !.size = 8], [Both EXCEPT !.ext = "msp"],
  [Both EXCEPT !.rows = SubSeq(@, 1, 6)],
  [Both EXCEPT !.rows[2].sections[1].offset = 0],
  [Dump EXCEPT !.table = FALSE], [Dump EXCEPT !.secure = FALSE]}

(* TrueSize and the other claims of IsTruthful hold of these files. *)
ASSUME MCPackagesAssumption == \A p \in MCPackages : IsTruthful(p)

Record(place, title, kind, version, usable) ==
  [storage |-> place, title |-> title, type |-> kind, version |-> version,
   filed |-> Game, usable |-> usable]
Console(records, held, running, mounts) ==
  [records |-> records, contents |-> held, running |-> running, mounts |-> mounts]

MCConsoles == {
  Console({}, {}, {}, TRUE),
  Console({}, {"game", "program"}, {}, FALSE),
  Console({}, {}, {Game}, TRUE),
  Console({Record("nand", Game, "Application", 0, TRUE), Record("sd", Update, "Patch", 2, TRUE)},
          {"game", "program", "control", "patch", "control2"}, {}, TRUE),
  Console({Record("sd", AddOn, "AddOnContent", 1, FALSE)}, {"addon", "data"}, {}, FALSE)}
=============================================================================
