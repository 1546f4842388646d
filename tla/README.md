# ACNH Manager: a TLA+ model

ACNH Manager is a homebrew program for a games console. It installs game
packages (from the card, an address or a browser), keeps a game add-on (the
"agent") and itself up to date, and shows all of this on a console screen and
on a small web page it serves. This directory models its own core: what happens
between threads, callbacks, the console's services and the card, and across
power cuts. Paths below are relative to `src/source/`.

## 1. Inventory

| component | code | state it keeps | what is hard about it |
|---|---|---|---|
| transfer pipeline | `install/transfer_queue.*` | ring of buffers, a queue, three verdict flags, one mutex, two condition variables | two threads, early returns, stop at any moment |
| game transfer | `install/game_install.*` | the run's task, placeholders, the fetch thread, what was persisted | errors, cancel and crash at any piece; resume from an older file |
| task file | `install/install_task.*` | `install-task.json` on the card | it is older than what it describes |
| content steps | `install/content_install.*` | placeholders, contents, meta databases, records, launch version (all in console services) | a sequence of about ten service calls that is not a transaction |
| package upload | `install/source_http_upload.*`, `install/upload_protocol.hpp`, `data/installer_page.html.bin` | the wanted range, the attached connection, the slot, abort | three parties (reader, server, page), short parts, several tabs |
| HTTP server | `net/http_server.*`, `net/http_page.hpp` | six connections, one hand-over | polled from the frame loop, peers that go away |
| installer pages | `ui/app.cpp` 4390-6120 | screen, the run in hand, its sources, flags set by requests | requests set flags that a later frame acts on; a transfer is a nested loop |
| agent installer | `install/engine.*` | the agent's files, temporaries, backups, `state.json` | several renames on a file system without transactions |
| home screen | `ui/app.cpp` 760-1560, `ui/home_state.hpp`, `install/gate.cpp` | plan, gate verdict, adopted release, last result | verdicts that are kept while their inputs change |
| manager update | `env/startup_check.*`, `env/startup_runtime.*`, `ui/app.cpp` 1160-1330 | copies of the program on the card | replaces the running file; two copies of different age |
| update workers | `net/update_task.*`, `net/manager_update.*`, `net/update.cpp`, `net/http.cpp` | a request, a result, three flags each | two threads polled by frames, a host that changes meanwhile |
| socket service | `net/socket_session.*` | a user count | shared by the workers, the server and the download source |
| download source | `install/source_http_client.*`, `install/range_probe.*` | one curl handle, the size | the file may change between ranges |
| package reading | `install/game_install.cpp` 132-809, `install/package.cpp`, `container.cpp`, `nca.cpp`, `ncz.cpp` | the metas read so far and the placeholders they were written to | a content can be looked into only on the console, and every step after the first may fail |
| compressed contents | `install/ncz.cpp`, `ncz_decode.cpp`, `nca_crypto.cpp`, `content_install.cpp` 380-560 | a decoder per content, one zstd context for all of them | pieces, output steps, blocks, sections and cipher blocks end at different places; the context is left in the middle of a frame |
| home-menu tile | `env/forwarder.cpp`, `ui/app.cpp` 115-290 and 4085-4230 | two titles, each with contents, a database record and a menu entry; what the page collected of them | removal and registration by hand, call by call; the tile's process may be running, or be this one |
| navigation | `ui/app.cpp` 1595-2110, `ui/action.hpp`, `ui/list_view.hpp` | page, focus, the actions of the last drawing | input is looked up in what the previous frame drew |
| manifest, signature, detection, cheats, settings, log, texts, drawing | `manifest/`, `net/signature.cpp`, `env/`, `log.hpp`, `ui/` | small files of the card | mostly reading and wording |

Interaction. One UI thread runs a frame loop: take results of the two update
workers, serve the web page, handle input, bring the server in line with the
screen, draw. A transfer is a call that stays away from that loop for minutes
and polls the server itself. It owns a fetch thread, joined when the run's
object dies. The web page's handlers run inside the poll and only set flags
that a later frame acts on. Everything else goes through files of the card and
services of the console, which survive the program.

`PROJECT.json` lists every component with its status, and the hazards, each at
the line where it bites.

## 2. Modules

| module | models | its state against the code's |
|---|---|---|
| `TransferQueue` | every member of `install::TransferQueue`, one operator per critical section | `free`, `items`, `producing`, `consuming` and the flags are `m_free_slots`, `m_items`, `m_producing(_valid)`, `m_consuming(_valid)`, `m_stopped`, `m_failed`, `m_finished` |
| `PieceChannel` | the promise: a bounded FIFO channel whose verdict comes after its pieces and whose stop overtakes them | abstract |
| `FetchPipe` | fetch thread and writer over `TransferQueue`; a sleeper on a condition variable sleeps until an operation that notifies it | refines `PieceChannel` |
| `NczDecoder` | one `.ncz` entry on its way to the NCA: block table sizes, `Step`, `Feed`, `Refill`, `Take`, the re-encryption at any position | `decoder[s]` has the members of the class; `zstd` is `g_dstream`. A byte is its stream and place, and a written one also the keystream it is under |
| `CompressedTransfer` | `InstallContentForRead` (pull), then a transfer of two contents whose pieces are decoded between the queue and the placeholder (feed) | `FetchPipe` and `NczDecoder` with `entries` (`m_task.contents`) and `placed` (the placeholders) |
| `GameTransfer` | the life of `GameInstall` objects over a console that outlives them: Begin, ReadLoop, Step, Finish, Abandon, CleanupAfterFailure, task file, resume, crash | a byte is a cell: cell k of a content is right when it holds k |
| `InstallRun` | who owns the run: screens, keys, page requests, nested loops | a run is its number, package and debts to the console |
| `AgentInstall` | `engine.cpp` Install and Uninstall, one card call at a time, refused calls and power cuts | a path holds a version, nothing or a torn file |
| `HttpUpload` | server, upload routes, source and the page's script | a body is a number of units; a byte is its task and place |
| `ContentFinish` | registering, Finish, Rollback and the skip rules, one service call at a time | two storages, their databases in memory and as committed, the record list, the launch version |
| `AgentHome` | Collect, RefreshPlan, UpdateHomeState, adoption, all home buttons | an install is one step here; `AgentInstall` takes it apart |
| `ManagerNro` | startup check and self-update | a path of the program holds a version, a foreign program, a torn file or nothing |
| `HomeShortcut` | the button of the tile over `ManagerNro`: press, the second look for a process, deletion by ns or call by call, registration, launches by the tile | `stored`, `mem`/`disk`, `listed` are a title's contents, its record in the database and as committed, its menu entry; `shown`, `blocked` are `m_forwarder_installed`, `m_forwarder_application_running` |
| `PackageReading` | OpenPackage and Prepare: container, headers, NCZ tables, CNMTs, control content, skip rules, plan | `entries`, `metas`, `readings`, `control`, `contents` are `m_package.container.contents`, `m_metas`, `m_read_placeholders`, `m_control_placeholder`, `m_task.contents` |
| `Navigation` | a frame of the UI thread: keys, stick and touch against the actions the frame before laid out, the pages, the page's requests | `app` holds the members, `app.drawn` the actions of the last drawing; `finger` the touch, `turned` whether the key of this frame turned the page, `crossed` whether a tap was ever carried out in such a frame, `at` the place in the loop |
| `UpdateTask` | both worker threads, the frames that poll them, the release host | one `task` record per worker, whose fields are the class's members |

`Navigation` uses the installer as a few pages, `InstallRun` a run as a whole,
`PackageReading` what comes before its confirm page, `GameTransfer` the inside of one with its
end in two steps, `ContentFinish` that end call by call. `AgentHome` uses an
install of the agent as one step, `AgentInstall` takes it apart; `UpdateTask`
uses the replacement of the program as one step, `ManagerNro` takes it apart.
`CompressedTransfer` puts
decoders into `FetchPipe`, and `HomeShortcut` the tile on top of `ManagerNro`;
each extends the module below it, whose properties are checked and proved in
the composition. `MC*` modules hold only constants for TLC and symmetry sets. `*_proofs` modules
hold theorems.

### External parts

Modelled from how the code uses them and marked `external` in the map: the
content services (`Set` changes a database in memory, `Commit` makes it
durable, a power cut brings back what was committed; `push` adds to a record
list), the card's file system (a rename and a delete are atomic, a write can be
torn by a power cut), the application service (`nsDeleteApplicationCompletely`
answers "no such application" for a title that is not on the menu, always
refuses one that runs, may refuse one the console did not file itself; the meta
of a title without a record is an empty list or a key that is not found), zstd
(frames fed in order; it holds what the output has no room for and ends a frame
when all of it is handed out), AES-CTR (a byte is under the keystream of its
counter and place), the browser (follows the page's script, plus the faults a
run names), and the release host (its files are replaced one at a time and its
versions only grow).

## 3. Runs

Every run finishes without an error. What the modules state and TLC refutes is
in section 6.

| module | run | shows |
|---|---|---|
| `MCGameTransfer` | transfer | Every interleaving of the two threads, of crashes, refusals, resumes and cancels of one package with a plain, a compressed and a control content (which Prepare reads into a placeholder of its own): bytes stay at their offsets, the task file stays honest, only whole contents are registered and recorded, and a transfer that is scheduled ends. |
| `MCInstallRun` | install_run | Two packages from every source, the player's keys and a page's requests in any order, on a card that may refuse to let the task file go: a task file nobody tried to remove stays backed by its placeholder, and a run that keeps its task is the one on file; with a page that opens nothing itself the transfer keeps its object, and the fetch thread keeps the console's own sources although a new file frees them before the thread is joined. |
| `AgentInstall` | agent_install | Installs and uninstalls of two agents with two failing calls in each run and a power cut anywhere: nothing half-written is ever loaded, what is replaced can be put back until the record is in, one fault never leaves a mixture or files without a record, and leftovers never block. |
| `MCHttpUpload` | upload | Two uploads one after the other, each opened on the thread that serves the page and then transferred on a thread of its own, with a part of another tab, a page visit, a slow, abandoned or lost connection at any point: a read that succeeds returns this file's bytes at the place it asked for, no connection is dropped on the floor, and a refusal reaches the browser it is for. |
| `MCHttpUpload` | upload_live | While browsers follow the page's script, a read never waits for a part that waits for it; and a browser that goes out of range with its request or its refused body on the way gives its place in the server's table back. |
| `ContentFinish` | finish | Two runs of any packages to any storage, with up to two failing calls, closed apps or power cuts between any two service calls: a run that says it is done left a console that can use all it installed, no other title lost anything, and until something has failed what is stored is what the records name, after upgrades and downgrades.  A storage that cannot be opened when the run asks what is installed is one of the failures: what it may launch then covers the updates it could see. |
| `MCAgentHome` | home | Every order of launches, update answers, presses, installs, follow-ups and outside changes over three builds and five releases: the agent is written for the game that is there, an update raises the version, and the offers are about what there is. |
| `UpdateTask` | update_task | The two workers against the frames that poll them, with a host that replaces its files one at a time: no manifest in hand falls behind what is installed, whichever worker answers last; with both threads scheduled and curl's timeout, the spinner goes out. |
| `MCNavigation` | navigation | Pages, keys, stick, touch and the web page's requests, frame by frame, with touches looked up in what the frame before drew: until a tap falls into a frame whose key turned the page, nothing is installed or removed unconfirmed, no package is left behind, and there is a way back from everywhere. |
| `MCPackageReading` | package_reading | Three files one after the other, whole, truncated, of several titles, of system contents and broken, on consoles in several conditions, with two failing calls: what will be fetched is what the records will name, and a package given up leaves no placeholder behind. |
| `MCCompressedTransfer` | pipe | Every small .ncz pulled by Prepare's read-out, then twenty-four packages of two compressed contents in five pieces through the installer's own ring of three slots: the buffers stay apart and the pieces in order, what is decoded and encrypted again is the NCA the file stands for or the file is refused, a sound file is taken whatever was left in the shared zstd context, and the two threads implement the bounded in-order channel. |
| `MCHomeShortcut` | home_shortcut | The startup move, the self-update and the button that adds and removes the home-menu tile, with two failing calls and two power cuts anywhere: a whole copy of the manager remains and the newest is kept wherever the file at the standard path could be read, the result page is true of the console, a tile that runs is left alone, and one failure does not leave a tile that opens nothing. |

### Bounds and why they are enough

- `CompressedTransfer`: the installer's own three slots and five pieces: every
  slot is used more than once, the ring is full and empty, both sides wait. A
  unit is half a cipher block; a header is one cipher block, a chunk two units,
  so that chunks, cipher blocks and zstd's output steps end apart. The read-out
  takes every file of up to four payload units, as one stream or in two or
  three blocks, sound or not, with a table that may list a block at or past the
  payload's end and a total that is off by a block; the transfer twenty-four
  packages of two contents.
- `GameTransfer`: three contents, one plain with a gamecard header, one
  compressed and the control content that is read before the transfer; two
  slots; placeholders for one run and one more, so that what an earlier run
  left is in the way. The task file is written after every cell, and a read
  brings several, so the file is both late and current. A crash may come
  anywhere and any number of runs may follow, because the console's state is
  finite.
- `InstallRun`: two packages and two runs of every source, so that a package
  can be replaced while the old one is looked for; the browser's page opens
  nothing, or posts files, or posts files and addresses. Picking a package is
  two steps, the sources freed and the run's object with its thread, and so is
  an address; the card may refuse to remove a task file, and goes on refusing
  until it relents (`CardTurns`).
- `AgentInstall`: two files and the record, two versions: a first and a last
  rename, and a version to go back to; two refused calls in a run and one power
  cut.
- `HttpUpload`: two connections for one place of the server, parts of two units
  and files of two. For safety two packages one after the other, with each of
  five things a browser does besides the script; for liveness one package, and
  a browser that goes. `RequestLimit` stands for a
  head and the small body; both lengths against a part are tried.
- `ContentFinish`: a game and its update in two versions, two runs, two faults
  of fourteen kinds anywhere in them; one of them is a storage whose database
  cannot be opened and is taken for empty (`seen`).
- `AgentHome`: five releases of three versions, three builds, two of them of
  one game version.
- `HomeShortcut` (and `ManagerNro` in it): two builds of one version, one of the
  next, and a foreign program; two failing calls and two power cuts, anywhere in
  the startup move, the update or the button's work. One update in a process.
  `ACopyRemains` needs the bound: see the end of section 6; both properties of
  the copies are proved for any number of power cuts.
- `UpdateTask`: two releases after the installed one: one to be offered and one
  to appear while it is fetched.
- `Navigation`: three controls may be touched: the primary button, which means
  something else on every page, the guide's tab and the installer's back button.
  A frame may have a key, a touch and a request of the web page at once, so a
  finger is lifted over what the frame before drew while the key or the request
  has turned the page. Once a tap was carried out in a frame whose key turned
  the page (`crossed`) the three properties say nothing more, so `Bounded` stops
  there, one step after it; it also lets at most one of the four things a frame
  may find on the update page (a check, an offer, a download, no network) be up
  while another page is shown. Two states of the agent.
- `PackageReading`: three files picked one after the other out of twelve: a
  compressed game with an update that shares a content and lists a delta, a
  cartridge image with a system meta beside a game, an add-on, a firmware
  package, and files that are truncated, lack a content, a certificate, a
  table or a CNMT; five consoles (empty, leftovers, game running, up to date,
  unusable record), two failing calls. Sizes distinguish the packed, the padded
  and the NCA's own.

### Fairness

- `CompressedTransfer`: weak fairness of the fetch thread alone. A read of a
  source is not assumed to end: files end and curl has its low-speed limit, but
  the receive loop of an upload has neither a clock nor an abort. The property
  is conditional on it (`ReadsReturn`): whenever the thread is not for ever in
  one read, it is released by the stop, whatever the writer does.
  `GameTransfer`: of both threads, with the same condition. The player, the
  network and crashes have none.
- `HttpUpload`: weak fairness of the page's script and of bytes on the way;
  strong fairness of the server's steps, the page's questions, which wait in the
  listen queue for a pass, among them, and of the reader's turns, because they
  run in passes of a loop that other steps keep interrupting while the loop
  itself never ends. Nothing is assumed of a browser that has gone.
- `UpdateTask`: weak fairness of both workers and of the frame loop. A
  transfer ends because curl has a timeout. The 1.5 s that `Stop` waits are
  longer than any step that is not a transfer.

## 4. Proofs

Checked by TLAPS for every value of the constants that the named assumptions
allow.

- `CompressedTransfer_proofs!PipeInvariant`: The inductive invariant of the two threads and the ring, for any number of slots and pieces: the type invariant, one owner per slot, contents of each buffer by owner, and the order of what was written, queued and sent.
- `CompressedTransfer_proofs!PipeTypes`: Type correctness of the pipe for any ring and package size.
- `CompressedTransfer_proofs!SlotsHaveOneOwner` (`OneOwner`): The fetch thread and the writer never hold the same buffer and no buffer is lost, for any number of slots.
- `CompressedTransfer_proofs!PiecesInOrder`: The writer sees every piece whole and in the order it was sent, for any package length.
- `CompressedTransfer_proofs!VerdictsAreTrue`: "finished" is only said after the whole package was consumed and "failed" after all that was sent.
- `GameTransfer_proofs!TransferIsTyped`: What every variable of the installer's run, of its two threads and of the console holds, for any contents, ring and number of placeholder ids.
- `GameTransfer_proofs!RegisteredContentsAreWhole` (`RegisteredIsWhole`): A registered content is complete and right in every byte, through any number of runs, crashes, cancels and resumes.
- `GameTransfer_proofs!TaskFileTellsTheTruth` (`TaskFileIsHonest`): The task file on the card never claims bytes that are not in the placeholder it names, although it is written late: a resume from it never skips a byte.
- `GameTransfer_proofs!ProgressIsInPlace` (`WrittenIsInPlace`): What the run counts as written is in its placeholder and in its place, header rewrites, decoded surplus and what an earlier run left included.
- `GameTransfer_proofs!FinishedMeansComplete` (`DrainedIsComplete`): When the writer hears that the stream is finished, every content of its task is complete, was not to be transferred, or is a compressed one whose stream yields less than it declares: no piece is lost between the thread that reads and the one that writes.
- `InstallRun_proofs!TaskFileIsAlwaysBacked` (`TaskFileIsBacked`): Whatever run is finished, given up or abandoned, from whatever page, the placeholder a task file would resume into is on the console, as long as nobody tried to remove that file: one the card did not let go is excepted.
- `InstallRun_proofs!ReadersHaveTheirSource` (`SourceOutlivesReader`): With a page that posts no address, a thread that reads from a file or an address has the source of its own run for as long as it reads, although OpenPickedPackage frees sources before the thread is joined; uploads are excepted.
- `InstallRun_proofs!TransfersKeepTheirRun` (`TransferKeepsItsRun`): With a page that opens nothing, the object a transfer steps through nested loops is the one it began with.
- `InstallRun_proofs!KeptRunsAreOnFile` (`KeptIsOnFile`): A run that keeps its task, whose placeholders are spared when the player leaves it, is the one the task file describes, with its placeholder on the console, whatever became of earlier tasks.
- `HttpUpload_proofs!UploadIsTyped`: What every variable of the page, the server, the source and its reader holds, and that the server's table never holds more connections than it has places, for any number of connections and browsers' faults.
- `HttpUpload_proofs!AReadIsTheFile` (`ReadsTheFile`): A read that succeeds returns this upload's bytes at the place it asked for, whatever other tabs post, late, twice, short or for an earlier upload, and wherever a body breaks off.
- `HttpUpload_proofs!ARefusalIsHeard` (`RefusalIsHeard`): A refused part is answered only when its whole body was read, so that the answer is not lost to a reset, for any limits and part sizes.
- `HttpUpload_proofs!NoConnectionGoesAstray` (`NoConnectionIsLost`): A connection the server accepted and nobody has answered or closed is in exactly one of its four places, through every hand-over between the server, the frame loop and the reader.
- `ContentFinish_proofs!FinishInvariant`: The inductive invariant of the filing of a package, for any kinds and versions, any number of failing calls and any number of runs: types, how far a run is, which record it is at, and that a run that is done left what it installed usable.
- `ContentFinish_proofs!DoneIsAlwaysUsable` (`DoneIsUsable`): Whatever was installed before and whichever calls failed, a run that ends as done left every meta of its package with a committed record, in the application's list and with all its contents.
- `ContentFinish_proofs!OthersAreAlwaysSpared` (`OthersAreSpared`): No step of a run, its cleanup and its rollback included, takes a record or a content of another title or of the other storage.
- `ContentFinish_proofs!FinishIsTyped`: What every variable holds through all of the service calls of a finish, the launch version included, for any finite set of versions.
- `ContentFinish_proofs!RestIsAlwaysExact` (`RestIsExact`): Before anything has gone wrong, each storage holds between two runs exactly the contents its records name, in one version of a title, and no tile of its own for what was filed.
- `ContentFinish_proofs!LaunchAlwaysCoversUpdates` (`LaunchCoversUpdates`): A run that says it is done leaves a launch version that is not below anything it installed, nor below any update in the storages that could be opened when it asked for the updates, whatever the package was and whatever else went wrong: it rests on the greatest of a finite set of versions, proved by a least counterexample. An update in a storage that could not be opened at that moment may be above it.
- `AgentHome_proofs!WorkersTypeCorrect`: Every variable of the two update workers stays in its domain, for every number of releases.
- `AgentHome_proofs!OfferKeepsUp` (`OfferIsNotBehind`): The manifest in hand is never behind the copy at the standard path, whichever worker answers between a frame's two questions.
- `AgentHome_proofs!NameIsTrue`: The version named as installed is the one on the card.
- `AgentHome_proofs!RunningWorks`: A task marked as running has a request waiting or in its worker's hands.
- `AgentHome_proofs!TypeCorrect`: Every variable of the agent's home screen stays in its domain, for every set of builds and releases.
- `AgentHome_proofs!AdoptedStaysNewer`: An adopted release is newer than what is installed for as long as it is the install source.
- `AgentHome_proofs!OffersAreCurrent` (`OffersWhatThereIs`): While nothing failed, what the home screen offers agrees with the record and the release in hand.
- `AgentHome_proofs!FilesAreForTheGame` (`WritesTheGamesBuild`): Files written to the card are for the build the console has at that moment, from the button and from the follow-up.
- `Navigation_proofs!PlanIsKept` (`PlanIsTheRecords`): The contents promised on the confirm page are those the records written afterwards will name, each once and at the same size, and what counts as fetched or as a meta is held by the console: for any files whose CNMTs tell the truth, any console and any failing calls.
- `CompressedTransfer_proofs!StreamIsAPipe`: The transfer with its decoders, refusals and the read-out before it is the two-thread pipe with more state: each step is a step of the pipe or leaves it alone, for every package and every file.
- `CompressedTransfer_proofs!DecodedBuffersHaveOneOwner` (`OneOwner`): While pieces are decoded out of them, the buffers have one owner each, for any number of slots and pieces.
- `CompressedTransfer_proofs!DecodersGetPiecesInOrder`: The decoders are fed every piece whole and in the order of the file, for any package.
- `CompressedTransfer_proofs!PipeIsAChannel` (`ImplementsChannel`): The transfer with its decoders implements PieceChannel, the bounded first-in first-out channel: each step of the two threads is a step of the channel or does not show in it, for any number of slots and pieces.
- `CompressedTransfer_proofs!DecodedIsInPlace` (`DecodedInPlace`): Wherever reads, zstd's output, blocks and sections end, the placeholder of a sound file holds a prefix of the NCA the file stands for, each unit under the keystream of its place: for every file, header, chunk and package, pulled or fed.
- `CompressedTransfer_proofs!OnlyWholeIsComplete` (`WholeOrRefused`): A content that counts as complete is the whole NCA its file stands for, and a transferred one came from a file that keeps to its own tables as far as its payload goes, for every file and package.
- `CompressedTransfer_proofs!SoundFilesAreTaken` (`SoundIsTaken`): No sound file is refused, wherever its pieces end and whatever an earlier stream left in the zstd context that all decoders share.
- `HomeShortcut_proofs!TileIsTyped`: What every variable of the tile's button holds, through every call it makes, for any number of failures and power cuts.
- `HomeShortcut_proofs!ResultPageIsTrue` (`ToldIsTrue`): What the result page says of the tile is so, for every set of builds and however many calls fail and cuts happen before and between: the argument follows a title through the calls that take it apart, and an installation through those that file it.
- `HomeShortcut_proofs!TheRunningTileIsSpared` (`RunningIsSpared`): A tile that has a process loses neither content, record nor entry to the button, unless the console would not say at the press whether there is one.
- `HomeShortcut_proofs!TheNewestIsKept` (`NewestIsKept`): The startup repair never loses the newest version at either path, though it deletes one of the two files and is pressed again after any failure - unless the startup check could not open or read the file at the standard path, which it then replaces: for any number of builds, failures and power cuts, with the tile's button working between.
- `HomeShortcut_proofs!ACopyAlwaysRemains` (`ACopyRemains`): For any builds, any number of power cuts and up to two failing calls anywhere in the startup move and the self-update, some whole copy of the manager stays on the card: where the update stands says which file starts, and after two failures only the new one does.
- `HomeShortcut_proofs!TheTileOpensTheManager` (`TileOpensManager`): Unless two calls have failed, the home page is never reached with the file missing that the tile opens, the update's way back included.
- `AgentHome_proofs!AgentIsTyped`: What every variable of the installer holds, for any number of files, releases, failing calls and power cuts.
- `AgentHome_proofs!NothingIsHalfWritten`: Neither a file the game loads nor one that would be put back is ever half-written, however many calls fail and whenever the power goes.
- `AgentHome_proofs!ReplacedCanBePutBack` (`CanBePutBack`): Until the record is in, every file an install replaces is still on the card, at its place or next to it, however many calls fail: the argument follows each file through its swap and back.
- `AgentHome_proofs!RunsEndWhole` (`EndsWhole`): A run in which one call at most fails does all of its work or none, never fails for what an earlier interrupted run left, and leaves no agent without a record.
- `Navigation_proofs!TypeCorrect`: The pages and screens remembered to go back to stay in their domains, whatever is pressed, touched or requested, until a tap falls into a frame whose key turned the page.
- `Navigation_proofs!NoPackageIsLeftBehind` (`PackageStaysInside`): Until a tap falls into a frame whose key turned the page, no key, touch or request turns the page away from the installer while a package that was read is in hand, for any controls a finger may come down on; after such a tap one may be left behind.
- `Navigation_proofs!BackEndsAtHome` (`BackLeadsOut`): Until a tap falls into a frame whose key turned the page, going back three times ends on the home page, however the guide and the installer were opened; such a tap can make each the way back of the other.
- `Navigation_proofs!AskedBeforeDone` (`ConfirmedFirst`): Until a tap falls into a frame whose key turned the page (that tap itself is excluded, it can remove the agent unasked), the agent is installed or removed only by a frame whose drawing was of the page that asks, whatever a request did before the keys and whatever finger went up beside a key that stays on its page.
- `Navigation_proofs!ReadingLeavesNothing` (`ReadingsAreTakenBack`): Reading a package leaves no placeholder behind that the console did not refuse to delete, for any files, consoles and number of failing calls, but for the two returns that are known to.

How the arguments go:

- `CompressedTransfer_proofs` first proves `FetchPipe`. The invariant accounts
  for every slot: a slot is free, or being filled, or in the queue, or being
  emptied, and only one of these; the pieces in the queue are consecutive and
  follow the last one taken. Type correctness alone does not give `OneOwner`,
  because `Release` gives back whatever `consuming` names. Each step of the
  composition, whatever its decoders do, is a step of the pipe or leaves the
  pipe's variables alone, so the invariant carries over; and each step of the
  pipe is a step of `PieceChannel` or leaves it as it was (`PipeIsAChannel`):
  the piece that is published joins the channel's end, the one taken is its
  head, and the verdict is given on an empty channel. None of these asks
  anything of the files.
  What the decoders make of the bytes assumes that a file is one that
  `ParseNczTables` accepts and a payload can be (`IsFile`, assumed of the files
  in `FilesAssumption`): the block table begins with the payload and its offsets
  grow, sections lie behind the header and do not overlap, payload units decode
  one after the other, and a block that did not get smaller holds plain bytes.
  Whether the file keeps to its tables, decodes to the size it claims, or can
  be decoded at all is left open. The invariant (`Course`) says for each of the
  three streams how many units of the payload its decoder has consumed (`c` of
  `EntryGoes`): what has come out, what zstd holds back and where the block
  counters stand are functions of `c` and the output's end (`OnCourse`,
  `StreamAt`), the placeholder holds exactly what the NCA has up to the
  decoder's base (`Upto`), and a decoder that failed has a file that is not
  sound. Three things have to be carried at once. All decoders use one zstd
  context, so the step of one entry must be shown to leave the course of the
  other alone: an entry's pieces are consecutive in the read order, and a
  decoder that has not started resets the context (`Context`). Between two
  pieces a decoder has nothing in hand that it could still decode, which is what
  lets `Feed` stop without losing output. And the re-encryption of a piece is
  the slice of the reference from the piece's position on, because the counter
  is that of the cipher block the range starts in and its keystream is used from
  the range's own place on. A block ends with the size its table declares or the
  file is refused, which makes a complete content one that keeps to its tables
  (`OnlyWholeIsComplete`); the property makes an exception of tables that list
  blocks past the payload (section 6).
- `InstallRun_proofs`. One lemma for each method says what it leaves of the
  members: what was good stays good (`Settles`), and whether a run is left in
  hand. Three things are good. The placeholder a task file names is there,
  unless the file is one the card did not let go (`Backed`). A run that keeps
  its task has it on file under its own package and placeholder, and is in hand
  on no screen where that task may be given up (`Kept`). A run has a source of
  its own number, addresses apart with a page that posts them, and the reader
  is the run's own (`Fed`). While a package is picked or an address looked up,
  the sources are replaced before the old run and its thread are: this is safe
  because no run that reads from a file or an address is in hand there, which
  the invariant says of every screen such a step starts from (`FromSource` in
  `SourceIsKept`). A nested transfer returns only to a loop that exists
  (`Stacked`). With a page that opens nothing (`OpensNothing`), at most one
  transfer is on the stack, and it stands in its own run (`OneTransfer`).
  `TransferKeepsItsRun` names that page, because it fails with the other one
  (section 6).
- `GameTransfer_proofs` follows the pieces from the reader's cursor through the
  queue into the writer's hand. Between the two cursors of a content all its
  pieces are on their way, each once and in order (`Flight`), so the writer
  always holds the very piece its placeholder is due, also after a resume
  (`Cursors`). Then what `written` says is in the placeholder (`InPlace`), what
  the task file says was so when it was written and cells are never taken back
  (`TaskFileIsHonest`), and `Finish` registers only what is whole
  (`Registering`). `Reach` is used only as a table that grows, so the recursion
  behind it does not enter.
- `HttpUpload_proofs`. A connection is queued, in the server's table, on its way
  to the source, the source's part or in the reader's hands, and only one of
  these (`Whereabouts`). A body in hand is one of this upload (`OfThisUpload`):
  the task is tested when it is handed over, and a new task begins only when
  nothing is in hand (`ClosedIsQuiet`). With `SlotIsTheFile` for what was read
  ahead, that gives `ReadsTheFile`. `RefusalIsHeard` needs that no body grows
  while its answer is on the way (`AnsweredAfterTheBody`). The table's bound is
  about a cardinality, so the set of connections is assumed finite.
- `ContentFinish_proofs`, in three layers. Each finishing step names contents it
  registered earlier, so the first carries, for every point of the run, which
  contents are registered and which records have been written. `Exact` says for
  every point what each storage holds besides its records, until the first
  fault. `Covered` says which version no update in either storage exceeds: the
  package's own while an update leads it and is filed, the one decided on from
  then on, and the one that was pushed. That version is the maximum of a set,
  finite by assumption; that there is a maximum is proved by the least-number
  principle.
- `AgentHome_proofs`. Adoption compares a release with the record and the
  embedded release; the invariant keeps both comparisons through every path
  that changes one of the three, which is every button. Of the workers behind
  it (`UpdateTask`): the versions form a chain, installed <= the manifest in
  hand <= a result waiting <= what a worker holds <= the host's manifest, where
  a place that holds nothing is skipped. `OfferIsNotBehind` is one link of it
  and is not inductive without the others.
  Of the installer (`AgentInstall`): a file whose swap has begun was moved aside
  if there was one, and is still there (`Swapped`, `Backed`); a file that waits
  is as the run found it; on the way back both hold of the files not yet
  reached, and the ones behind are as they were unless a second call failed
  (`Reversed`). `Caused` ties whatever goes wrong to a failing call of this run,
  which is what makes leftovers harmless. No bound on calls that fail enters.
- `HomeShortcut_proofs`. A title is followed through the calls: until it is its
  turn it is as it was at the press, while it is taken apart contents go before
  the record and the record before the entry, and what is done with is gone
  unless a call failed (`Removal`); an installation likewise (`Registered`).
  `Sound` says that without a fault menu, database and commits agree between
  two operations, which is what makes the legacy title's entry go with its
  record. A running tile is met only by work that does not touch it (`Spared`).
  Of the program below it: from the decision of the startup check on, the
  program that runs is on the card, it gives way to no older copy and, when the
  file at the standard path was read for what it is, replaces no newer one
  (`Decided`). Which copies are left depends on how far a
  replacement came and on how many calls have failed so far (`Lasting` has one
  line for each): one failing call leaves a way back, two leave a copy, and
  the third may take the last one.
- `Navigation_proofs`. What is drawn is typed by the page it is drawn for: a
  control is on the list only where its action makes sense (`Permitted`), which
  is proved of every page's layout and makes the last drawing a sequence of such
  controls (`Drawn`). A frame begins with the page that was drawn, and a request
  of the web page leaves it there or, after a run of the tile, turns it home
  (`SentHome`), where none of the installer's own controls means an install or a
  removal. The focus is on a control of its page or on none (`FocusFits`). One
  lemma for each method says where it may lead (`Turns`, `Stays`) and that the
  agent is told only what the page asks for (`Follows`); the guide is never
  opened from itself or from the installer, the installer never from itself
  (`Members`). All of that is said of the frames before the first one in which
  a tap was carried out although the key of the same frame had turned the page
  (`BeforeCrossing`; `crossed` only ever grows). The properties say so
  themselves: from such a frame on `ConfirmedFirst`, `BackLeadsOut` and
  `PackageStaysInside` are false (section 6). A tap that a request's turn of
  the page crossed is inside the theorems.
  Of the reading before the confirm page (`PackageReading`): a placeholder is of
  the file in hand and on the list of readings, or of a file that is over and
  refused by the console, skipped, or the one meta whose CNMT could not be read
  (`Listed`, `OweNothing`). The faults left never enter, so no bound on calls
  that fail does.
  That the plan is what the records say (`PlanIsKept`) is carried by `PlanInv`:
  the entries are the container's own, each at the size its header states once
  it has been read and as long as no call failed (`EntriesKept`); the metas are
  the file's own and the console holds them (`MetasKept`); the plan consists of
  the contents the metas ship, each id once, at the size of its entry, and what
  counts as fetched is held (`PlanKept`). The property is not inductive: it
  speaks of the last step only, and the plan's sizes come from headers that are
  read several steps before the CNMTs the records are made of. That is also the
  one hypothesis, `AllTruthful`: a file's CNMTs list its contents at the size
  the contents' own headers have, and list no meta. Nothing in the code compares
  the two; a file that lies gets a plan its records contradict, and the
  console's hash check of each content answers for it. The lemmas below it are
  about lists: a part of a sequence keeps order and members (`Those`), a
  flattened list has the members of its parts, and of several equal ids the
  first stays.

Only model-checked: everything under fairness (`StopReleasesReader`,
`TransferEnds`, `ReadReturns`, `PlaceComesBack`, `SpinnerEnds`). Liveness and
ENABLED are out of the prover's reach. Every invariant and every action property
of the runs is stated by a theorem, and so are the type theorems,
`NothingIsHalfWritten`, `PiecesInOrder`, `VerdictsAreTrue`, `AdoptedStaysNewer`,
`NameIsTrue` and `RunningWorks`, which have no run of their own: the invariants
and the refinement TLC checks are the stronger ones.

Where an induction over numbers, a finite set, a sequence or a recursive function
was needed, it goes by the smallest counterexample, whose existence is a fact
about sets (a well-founded order has minimal elements); the library's induction
theorems take a formula as a parameter and are not used. No module with a
theorem uses a RECURSIVE operator.

## 5. What is not modelled, and why

- `PackageReading` takes a table as one that holds or does not: byte offsets,
  string tables and overflow checks inside a header are not modelled, nor is
  the decryption of a header. Two entries of one id (`.nca` and `.ncz`) are not
  among its files: the tables of a compressed entry are looked up by id alone.
- `GameTransfer` has the decoder's effect (pieces that decode to cells, and a
  surplus); its blocks and sections are `CompressedTransfer`'s. zstd and the
  cipher themselves are external; keys are taken as right.
- The tile's package keeps no task file and resets the menu entry before it is
  filed; both are in `HomeShortcut` and left out of `GameTransfer` and
  `ContentFinish`. How its title id and its contents are made is not modelled,
  and neither is a tile package of another version. A manager that is suspended
  with its tile does not act while it is.
- The download source: ranges of a file that may change behind its address. The
  hazard is listed; the code does not compare the totals of two answers.
- `AgentHome`: the game or the card changing while the app is open, and the
  manifest channel of development builds. `ManagerNro`: more than one update in
  a process, and temporaries that cannot be deleted.
- Drawing, texts, QR codes, the keyboard: nothing is decided by them.
- Compressed files whose sections overlap, and ones where a block that did not
  get smaller is compressed nevertheless: the code takes such a block's bytes as
  plain, and only the console's hash check tells.
- Log, settings, statistics: see the plan.
- `Navigation`: the lists' windows, the focus inside a list and lists without
  rows; what is drawn while an upload is being read (`OpenPackage` is one step).
- Failing calls that are left out, each because what follows is what another
  branch of the same action does already: a query for a content or a
  placeholder that fails while a transfer is prepared (`game_install.cpp:755`,
  `:1331`: the content is fetched anew, or from its start), `Options.Validate`
  and the header reads of the control content (`:784`: the package is refused,
  or shown without its name).
- `GameTransfer`: a `Finish` that finds a content incomplete refuses
  (`WriterHears`); TLC's package never gets there, because every content that is
  not skipped is complete when the verdict is heard, and the proof covers it.
- `HttpUpload`: a source that is destroyed with a reader still inside `Read`
  (`ReleaseUploadSource` after a failed transfer) is `InstallRun`'s
  `SourceOutlivesReader`; here the source is closed when nobody reads.
  `HttpServer::Stop` is not modelled.
- `InstallRun`: the built-in package of the tile, whose Back leaves the
  installer (`m_install_returns_to_launcher`); `Navigation` and `HomeShortcut`
  have it.

## 6. Where code and comments disagree

Met while modelling. Each is a definition in its module that states what the
quoted line says, and TLC finds a behaviour against it when its name is added
to the `.cfg`; no run checks it. `TransferKeepsItsRun`, `SourceOutlivesReader`,
`TaskFileIsBacked`, `ConfirmedFirst`, `BackLeadsOut`, `PackageStaysInside` and
`NewestIsKept` are checked by a run with the case described here left out, by
a precondition that names it: a page that opens packages, an upload's source, a
task file the card did not let go, a tap in a frame whose key turned the page, a
standard file that was misread. For the last four the definition without the
precondition stands beside them (`ConfirmedAlways`, `BackAlwaysLeadsOut`,
`PackageNeverOutside`, `NewestIsKeptUnread`), for `TaskFileIsBacked` it is
`NoResumeIntoNothing`; for the first two TLC finds the behaviour when the
precondition is taken out.

- `FetchPipe!StopDropsTheSlotInFlight`, at `install/transfer_queue.cpp:37`.
  Publish's comment (install/transfer_queue.cpp:37, "The consumer asked to stop
  while this slot was being filled: drop it.") explains the branch that returns
  when no slot is held, but RequestStop never clears m_producing_valid: a slot
  in flight when the consumer stops is appended to m_items like any other. The
  branch is only taken by a Publish without an AcquireSlot. Harmless, because
  Next answers Stopped before it looks at the deque.
- `GameTransfer!SurplusIsDropped`, at `install/game_install.cpp:1058`.
  GameInstall::WriteDecoded says (install/game_install.cpp:1058) "A block may
  decode past the NCA the stream declares (the compressor pads its last block)
  ... so the write stops at the content's own end and the surplus is dropped."
  The content's size is the decoder's nca_size, and NczDecoder::Feed, which
  runs first, fails with "the compressed content decodes to more than the NCA
  it claims" as soon as it decodes one byte more: such a package fails, and the
  branch that drops the surplus is never taken.
- `GameTransfer!CancelLeavesNothing`, at `install/game_install.cpp:1594`.
  GameInstall::Abandon says (install/game_install.cpp:1594) "the placeholders
  are gone, so a task file that points at them would only offer a resume into
  nothing". On the confirm page of a resumed run Begin has not run, so
  m_placeholders is empty: leaving the page (App::LeaveInstallScreen, KeepsTask
  false) drops only the read-out placeholders and then removes the task file,
  while the placeholders AdoptResume took over stay on the console and nothing
  names them any more.
- `GameTransfer!AbandonSparesTheConsole`, at `install/game_install.cpp:1583`.
  GameInstall::Abandon says (install/game_install.cpp:1583) "Only discard
  registered content when this run registered it: a cancel before Register has
  nothing to delete, and deleting a title the console already had is not ours
  to do." The guard is m_status.modified, which only says that a gamecard
  header was rewritten, and Rollback gets every content id of the task, the
  skipped ones included: a run that fails after a rewritten header deletes
  contents the console had before it.
- `GameTransfer!OnePlaceholderPerContent`, at
  `install/content_install.cpp:443`. ContentInstaller::Begin says
  (install/content_install.cpp:443) "creating a second one for the same content
  is refused by the system anyway", and AdoptResume says the same. PlanResume
  restarts a compressed content and AdoptResume clears its placeholder_id
  although the placeholder is still on the console, so Begin does create a
  second one: refused, the resume can never succeed; accepted, the first one is
  left with nothing that names it.
- `InstallRun!TransferKeepsItsRun`, at `ui/app.cpp:4832`. InstallStepBack says
  of the progress screen (ui/app.cpp:4832) "the engine owns the thread: nothing
  may leave this screen". POST /url has no gate on the screen, and
  RunGameInstall polls the page after every step, so the poll inside a transfer
  opens the submitted address: OpenDownloadPackage replaces m_http_source while
  the fetch thread reads from it, OpenPackage replaces m_game_install, and the
  loop that called the poll goes on with Step() of an object that has no queue,
  or of none.
- `InstallRun!NoUploadDuringATransfer`, at `ui/app.cpp:5972`. ServeHttp says of
  POST /upload/begin (ui/app.cpp:5972) "One upload at a time, and never while a
  transfer is running -- a task has exactly one source". The gate looks at the
  screen when the request is parsed; the flag is acted on later. With POST
  /start and POST /upload/begin in one pass of the server (or a second page),
  PollInstallerServer takes the start first and returns, and the poll inside
  the transfer's loop then opens the upload over the running transfer.
- `InstallRun!StartsTheRunItQuotes`, at `ui/app.cpp:4468`. OpenPackage says of
  the run's number (ui/app.cpp:4468) that "start the run I am looking at"
  cannot hit an older one. What is kept is a flag without the run's number.
  While an upload is read by Prepare the page is served with the old confirm
  screen still up and the new number already set, so a start is accepted for a
  run nobody has seen; when Prepare refuses it, the flag stays, and the next
  package that reaches the confirm screen is started without anybody's yes.
- `InstallRun!NoResumeIntoNothing`, at `install/game_install.cpp:1595`.
  GameInstall::Abandon says (install/game_install.cpp:1595) a task file that
  points at dropped placeholders "would only offer a resume into nothing", and
  removes it -- after the placeholders, and a removal that fails is only
  logged. AbandonPendingInstall drops them first too, and then reports the
  failure and keeps the page that offers the resume. When the card refuses, the
  task is offered with nothing behind it; a resume then starts the package anew
  under the same ids, so this costs the progress and a misleading page, not the
  installation.
- `InstallRun!ResumeIsClearedWithThePackage`, at `ui/app.hpp:544`. app.hpp says
  of m_resume_task (ui/app.hpp:544) "Cleared with the package." Only the end of
  a successful OpenPackage clears it: when the file or the address of the
  unfinished install cannot be opened, or Prepare refuses it, the pointer stays
  set, and the next package of any source is offered to AdoptResume; an already
  installed one even gives the unfinished task up (AbandonPendingInstall in
  OpenPackage), whichever package it was about.
- `InstallRun!TheTaskIsLeftAlone`, at `ui/app.cpp:6089`. RenderInstallPending
  says (ui/app.cpp:6089) "pick something else" leaves the task alone for later.
  There is one task file: the Begin of the package picked instead writes its
  own task over it, and the placeholders of the first keep their space on the
  storage with no file that names them.
- `InstallRun!SourceOutlivesReader`, at `install/game_install.cpp:122`.
  ~GameInstall says (install/game_install.cpp:122) "The reader thread may still
  be in the middle of a ranged read (or waiting for a slot): ask it to stop,
  then wait for it". RunGameInstall's failure path calls ReleaseUploadSource,
  which destroys the HttpUploadSource, while the package stays in hand for the
  result page: when the writer failed, the fetch thread may be inside that
  source's Read (its mutex and condition variable included), and it is joined
  only when the screen is left.
- `InstallRun!UploadSourceEndsWithTheRun`, at `ui/app.cpp:5475`.
  ReleaseUploadSource says (ui/app.cpp:5475) "The browser's part in a run ends
  when the run does ... A source left over answers that with a 409 'busy'".
  Every end of a run calls it except a Begin that fails: RunGameInstall
  abandons the run and shows the result page with m_upload_source still set,
  and POST /upload/begin answers busy until someone steps back on the console
  or the page.
- `AgentInstall!NeverHalfInstalled`, at `install/engine.cpp:638`. Install says
  (install/engine.cpp:638) "the user must never be left with a half-installed
  agent". The renames of phase two are not undone after a power cut: the next
  start only runs CleanLeftovers, which deletes every .acnh-old and .acnh-tmp
  sibling, the moved-aside originals included, so the card keeps a mixture of
  the old and the new agent with nothing left to restore from.
- `AgentInstall!AlwaysDescribed`, at `install/engine.cpp:665`. Install says of
  writing the record before the backups go (install/engine.cpp:665) "the card
  never ends up with files no record describes". That holds for a record that
  cannot be written; a power cut between the first rename of a first install
  and the record's own leaves files in the game's directory with no record, and
  Uninstall, which deletes what the record names, answers that there is nothing
  to remove.
- `HttpUpload!ReceivingEnds`, at `install/source_http_upload.hpp:106`.
  source_http_upload.hpp says of ServiceAttachedPart
  (install/source_http_upload.hpp:106) "Blocking (with a timeout)". Its recv
  loop (source_http_upload.cpp) sleeps two milliseconds on every error and
  tries again without any limit, looking at neither the clock nor the abort
  reason; a phone that leaves the network in the middle of a part keeps the
  reader there, Read's fifty seconds are never consulted, the writer waits for
  ranges that never come, and ~GameInstall's join would wait for the reader as
  well.
- `HttpUpload!RefusedIsTold409`, at `net/http_server.cpp:474`. Poll drains a
  refused body because otherwise (net/http_server.cpp:474) "the browser would
  report a network error instead of the 409 it is supposed to act on", and
  ServeHttp answers an out-of-step part 409 with what is expected. For a body
  over kHttpSmallBodyLimit TryRequest overwrites that answer with 413 "body too
  large", so the page never gets the 409 for the parts that need draining; it
  counts a refusal, sleeps and posts again.
- `HttpUpload!SmallPartArrives`, at `install/source_http_upload.hpp:77`.
  source_http_upload.hpp says (install/source_http_upload.hpp:77) "a part under
  its small-body limit arrives whole". TryRequest waits for the whole of such a
  body in the connection's buffer, and ReadFrom closes a connection whose
  buffer, head included, exceeds the same 64 KiB: a range of 65536 bytes, or a
  few hundred less, is closed without an answer each time it is posted, and the
  upload ends as one that stopped.
- `HttpUpload!AnswerEnds`, at `net/http_server.cpp:26`. http_server.cpp says
  (net/http_server.cpp:26) "A connection whose answer is half-written gets this
  long before it is dropped". Poll flushes and continues before it looks at the
  deadline, so an answer a vanished browser does not take is retried for ever
  and holds one of the six places.
- `HttpUpload!SliceMovesTheWantOn`, at `install/upload_protocol.hpp:20`.
  upload_protocol.hpp says (install/upload_protocol.hpp:20) a part may be
  shorter than the range: "the page's last slice of a file, or a slice it chose
  to split". Read returns only when one part covers the whole range and asks
  for the same range again after a shorter one, which it has answered 200; a
  page that splits makes no progress and the read ends as upload-stopped.
- `HttpUpload!AttachedHasReader`, at `install/source_http_upload.cpp:172`.
  AttachPart refuses a part when nothing is wanted because
  (install/source_http_upload.cpp:172) "a part attached with no reader would
  sit on the socket until the browser gave up". The want stays set while the
  reader receives a part, so the UI thread can attach a second post of the same
  range, and Read then consumes the first, clears the want and returns with the
  second attached: nobody answers it until another read or the end of the run.
- `ContentFinish!RecordsAreWhole`, at `install/game_install.cpp:1455`.
  GameInstall::Finish says (install/game_install.cpp:1455) "a record that names
  a content the storage does not have is a title the console refuses to
  launch". file_meta deletes the old version's contents first and commits the
  new record last: a power cut in between leaves the committed record of the
  old version with its contents gone, where committing first and deleting
  afterwards would leave one that is whole.
- `ContentFinish!RollbackSparesRecords`, at `install/content_install.cpp:1329`.
  Rollback says (install/content_install.cpp:1329) "Remove the record first:
  while it exists the system would keep pointing at contents we are about to
  delete". It removes the record of the package's first meta and deletes the
  contents of all of them: the update of a cartridge dump that was filed before
  the run failed keeps a committed record of contents that are gone.
- `ContentFinish!OneVersionEverywhere`, at `install/content_install.cpp:1116`.
  ContentInstaller::Finish says (install/content_install.cpp:1116) "Delete the
  older version of this title, across every storage -- the console keeps each
  version's contents otherwise". m_meta and m_storage are those of the target:
  an older version in the other storage keeps its record and its contents.
- `ContentFinish!OnlyOlderIsRemoved`, at `install/game_install.cpp:653`.
  Prepare says (install/game_install.cpp:653) the rule is "the console has
  something newer and we do not downgrade unless asked". DecideSkip is asked
  about the package's first meta only, and the cleanup file_meta calls "the
  older version" removes every other version: a package of a game and its
  update deletes the newer update the console has and installs the older one
  over it.
- `ContentFinish!SkippedIsWhole`, at `install/game_install.cpp:652`. Prepare
  skips (install/game_install.cpp:652) when "this exact version is already
  installed". It asks about the package's first meta only: when the game of a
  package is installed and its update is not (because the app ended between the
  two, or the game came from elsewhere), picking the package is answered
  "already installed", and the update cannot be installed from it.
- `ContentFinish!LaunchCoversEveryUpdate`, at `install/game_install.cpp:1514`.
  Finish says (install/game_install.cpp:1514) "A base game or add-on installed
  on top of an update must not lower what the console is allowed to launch". It
  asks InstalledVersion, for which (src/source/install/content_install.cpp:214)
  "A storage that cannot be opened simply has nothing to report": when the
  storage the update is in cannot be opened at that moment, the query succeeds
  with nothing and the version of the base game is pushed.
- `AgentHome!InstalledIsVerified`, at `ui/app.cpp:969`. VerifyRecordAgainstCard
  returns unless the plan is UpToDate. The architecture
  (docs/architecture.md:307) says of the files of the record
  "install::VerifyInstalledFiles() 在每次 Collect() 之后核对" (checked after every
  Collect). With an agent installed from the network the record is newer than
  the embedded release, the plan is Install, nothing is verified, and the home
  screen says up to date over a card whose files are gone.
- `AgentHome!InstalledIsForThisBuild`, at `ui/app.cpp:997`. home_state.hpp says
  (ui/home_state.hpp:23) UpToDate is "installed and current". A record for
  another build of the game gives a plan of Install ("install record is for a
  different build: reinstall"), which is neither fresh_install, as there is a
  record, nor newer_agent, as the version is the same: Classify falls through
  to UpToDate, whose button is disabled, and the agent of the old build stays.
- `AgentHome!WorkingReleaseKept`, at `ui/app.cpp:1133`. The architecture
  (docs/architecture.md:617) says a newer release that does not cover this
  console's build "不会顶掉自带发布" (does not take the embedded release's place).
  DecideAdoption is asked once, when the answer arrives; a game package
  installed afterwards changes the build, ActiveManifest is still the adopted
  release, and a console the embedded release supports is called unsupported.
- `AgentHome!FollowUpNeverGoesBack`, at `ui/app.cpp:1551`. RunAgentFollowUp
  says (ui/app.cpp:1551) "The release we just wrote is the newest one there
  is". It writes the active release whenever the plan is Install, and the plan
  is Install for any version that differs: with an agent installed from the
  network, a later game package writes the older embedded release over it.
- `AgentHome!FailureIsShown`, at `ui/app.cpp:1425`. Classify says
  (ui/home_state.hpp:47) "A failure is shown until something succeeds, even if
  the plan now says 'install'". RunInstall sets m_last_failed and does not
  judge again when it fails, and B leaves the result page without Collect: the
  home screen goes on saying what it said before the attempt.
- `AgentHome!SuccessIsShown`, at `ui/app.cpp:1446`. home_state.hpp says
  (ui/home_state.hpp:17) Unsupported is "the game is here, but this build
  cannot be handled". RunInstall drops the adopted release once it is installed
  and judges by the embedded one: when it was the update that brought this
  build, the screen after the install, and after every later launch, calls the
  build it has just handled unsupported.
- `ManagerNro!ReplacedAtomically`, at `install/engine.cpp:352`. The
  architecture (docs/architecture.md:607) says of the self-update
  "只有全部一致才原子替换标准路径" (the standard path is replaced atomically).
  WriteFileVerified renames the standard NRO aside and then the new one in: a
  power cut between the two leaves only .acnh-old and .acnh-tmp there, neither
  of which the loader lists, and no start restores them (CleanLeftovers only
  looks into the game's directory).
- `UpdateTask!LeavesOnlyTheBusy`, at `net/update_task.cpp:140`. The header
  (net/update_task.hpp:45) says "A worker that is still inside curl is left to
  the kernel". When the app leaves while a request has not been looked at yet,
  the worker sees m_quit first and returns without serving it: m_running stays
  true, so Stop waits all of kStopWaitNs for a thread that has already returned
  and logs it as busy instead of joining it.
- `UpdateTask!DestroyedIsLeftAlone`, at `net/update_task.cpp:94`. The source
  (net/update_task.cpp:11) says "the thread may outlive `Stop()` in the worst
  case, so the memory it runs on must not be freed by then", and only the stack
  is file-scope. The task object the thread locks and writes into is a member
  of App, which is a local of main's block (main.cpp:228): when Stop gives up
  on a worker in a transfer, the worker's answer goes into a destroyed object.
- `Navigation!ConfirmedAlways`, at `ui/app.cpp:1877`. "One place that turns an
  action id into behaviour, so keys and touch cannot drift apart. Several ids
  are shared by the pages (the primary button, \"back\"), so the page decides
  what they mean" (ui/app.cpp:1881). HandleKeys may turn the page before
  HandleTouch looks the finger up among the controls of the page before:
  "primary" of the home page then means "remove" on the confirmation page
  nobody has seen.
- `Navigation!FooterIsTheKey`, at `ui/app.cpp:2058`. "The footer's B hint does
  exactly what the B key does" (ui/app.cpp:2057). On the guide the key goes
  back to the page the guide was opened from, the hint always to the status
  page.
- `Navigation!HintsAnswer`, at `ui/app.cpp:4832`. "what is drawn as pressable
  has to be pressable" (ui/app.cpp:2415). The screen of an unfinished install
  is drawn with the footer's "B back" and its touch target, and InstallStepBack
  has no case for it: the key and the tap do nothing, and the installer can be
  left only by resuming, giving up or picking something else.
- `PackageReading!FailureTakesBack`, at `install/game_install.cpp:257`. "A
  failure after the meta content went into its placeholder has to take it out
  again" (install/game_install.cpp:794). When the CNMT cannot be read or parsed
  the placeholder is not in m_read_placeholders yet, and stays.
- `PackageReading!SkippingTakesBack`, at `ui/app.cpp:4777`. "A package that was
  never installed owes the console the placeholders the CNMT/NACP read created"
  (ui/app.cpp:4765). A skipped package is excepted by the next condition, and
  neither Prepare nor anything else drops them.
- `CompressedTransfer!ReadOutIsSound`, at `install/ncz_decode.cpp:99`.
  NczDecoder::DecodeUntil says (install/ncz_decode.cpp:99) "A stream that
  decodes past the NCA it claims is a broken file, not a bigger install." It
  compares m_decoded_end after the loop, which ends as soon as the wanted bytes
  are there: with the last step's output full, zstd may hold more and the
  payload may have unread chunks, and the read-out takes the content
  (InstallContentForRead never asks again). The fed transfer does refuse the
  same file. What is written is exactly the size claimed, and the console's own
  hash check answers for its bytes.
- `ManagerNro!NewestIsKeptUnread`, at `env/startup_runtime.cpp:241`. The design
  (docs/home_menu_and_startup_check_design.md:71) says that with a higher
  version at the standard path the copy that was started is deleted ("标准那份更高
  ... 删除当前这份"), and (:70) that the silent move is for a standard path without a
  file. FileExists takes every failure to open the file for its absence
  (env/startup_runtime.cpp:241): one failing open, and the older copy is moved
  over the newer one without a page. A file that opens and cannot be read is
  offered to be replaced, as the table's last row has it for an NACP that
  cannot be read.

Without a definition of their own:

- `ui/header_tabs.hpp` (and `ui/app.cpp`, "those enter at the status page")
  says that L and R enter the tabs at the status page from a page that is not
  one of them; the code goes on to the neighbour (R to the details, L to the
  guide), and a host test pins that.
- `InstallForwarderTile`: the branch that "returns home" for anything that is
  not one of its two callers is never reached.
- On the guide, + and a finger lifted from the guide's tab in the same frame
  make guide and installer each other's way back: B alone goes round between
  the two, and a tab, L, R or the footer's hint is needed to leave. With
  the guide's tab among the controls touched TLC finds it as a violation of
  `BackAlwaysLeadsOut`.
- B that leaves the installer's result or confirm page for home, and a finger
  lifted in the same frame from the button that starts a download, leave a
  package in hand with the home page shown. With `TypeUrl` as the control
  touched TLC finds it as a violation of `PackageNeverOutside`.
- The result page: B returns home without `Collect`, the button with it.
- `docs/home_menu_and_startup_check_design.md` §3.3 says that no instance of the
  tile may run while it is changed. Only the standard title is asked about: the
  process of a legacy tile is not, and where the console refuses to delete that
  title its contents are deleted call by call under it. A query that fails
  counts as "not running".
- A title without a menu entry is answered as not found and counts as removed:
  its record and contents stay, the result says removed, and the button, which
  looks at the record, goes on offering the removal.
- A legacy tile that cannot be removed while the standard one is installed is
  only logged: both entries stay on the menu.
- `CommitFile` deletes `.acnh-old` first, also when that is the only copy: after
  a replacement whose rename failed and whose way back failed too, a second
  attempt whose rename fails leaves no copy of the manager. Three failing calls
  are needed; with `MaxFaults = 3` TLC finds it as a violation of
  `ACopyRemains`.

- A compressed content whose block table lists blocks at or past the payload's
  end is taken as soon as the content's size is reached: `NczDecoder` never gets
  to the blocks that are missing, and the declared total enters only modulo the
  block size (`NczBlockDecodedSize`). What is written is still the whole NCA
  (`WholeOrRefused`); `Complete => IsSound` is what TLC refutes.
- Sizes of contents are in the CNMT, which the records are made of, and in the
  contents' headers, which the plan is made of; nothing compares the two
  (`IsTruthful`).

## 7. Plan

1. Done: the pipe and its proof; the transfer; the run's owners; the agent;
   the upload; finishing and its proof; the home screen and its proof; the
   manager's file; the update workers and their proof.
2. Done: the input of the pages; Prepare as a whole.
3. Done: the decoder's sections and blocks against a reference definition, in
   the transfer, with the pipe's proof carried over; the home-menu tile over the
   manager's life, and the proofs about it and about the startup repair; the
   installer's proof.
4. The download source over a file that changes; the socket service.
5. List windows; the log's bursts; settings.
6. Done: the proofs about `GameTransfer`, the upload, the finishing run's other
   properties, the copies of the manager, and that the pipe implements
   `PieceChannel`.
7. Done: the proofs about the install run's owners, the pages, and what reading
   a package leaves.
8. Done: the proofs about what the decoders make of the bytes, and that the plan
   is what the records will say.
