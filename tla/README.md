# TLA+ models of im-desktop

Model-checking project for the parts of `src/` that have state machines,
concurrency or non-trivial pure logic. The core is the external URL
configuration of the core process
(`src/core/configuration/external_config.cpp`, described by `spec.md`).

## 1. Inventory

| Component | Sources | State | Operations | Status |
|---|---|---|---|---|
| External URL config store | external_config.cpp 56-278 | `config_` (snapshot behind `spin_lock_`), the override sink (`config::set_external` / `reset_external`), `use_develop_local_config_`, `myteam-config.json` on disk | `unserialize`, `override_config`, `reset_to_defaults`, `clear`, `is_valid`, `get_config` | modelled (ExternalUrlConfig, ConfigStore) |
| Async fetcher | external_config.cpp 112-179 | one HTTP request per call, running on a curl worker; callbacks posted to the core context | `load_async`, its completion lambda, `fire_callback` | modelled (ExternalUrlConfig) |
| Local-file load | external_config.cpp 181-201 | as the store, plus `develop-myteam-config.json` (read only) | `load_from_file` | modelled (ExternalUrlConfig) |
| Config loader | external_config.cpp 60-75, 288-414 | none (pure): document to host cache, vcs rooms, feature and value overrides | `config_p::unserialize`, `extract_host`, vcs-room split | modelled (ConfigLoader) |
| URL builders | external_config.cpp 22, 77-104 | none | `make_url`, `make_url_preset`, `make_url_auto_preset` | modelled (ConfigLoader) |
| Media loaders | gui/utils/medialoader.cpp 13-252 | `seq_` of the outstanding request, the connection sets to the dispatcher | `load`, `loadPreview`, `cancel`, `cancelPreview`, one slot per dispatcher signal | modelled (MediaLoader) |
| File saver | gui/utils/medialoader.cpp 254-312 | the callback, the loader it owns, the PNG job, its own lifetime | `save`, `onSaved`, `onError`, the job on the pool and on the main thread | modelled (FileSaver) |
| Feature flags | gui/utils/features.cpp 19-638 | none (queries over the config, the override sink, Omicron) | every `Features::*` query | modelled (Features) |
| Parent topics | gui/types/thread.cpp 8-98 | none (the factory of topic classes) | `serialize`/`unserialize` of both topic kinds, `ThreadUpdate::unserialize`, `getChat` | modelled (Thread) |
| General dialog | controls/GeneralDialog.cpp | per dialog: exec loop, result, semitransparent window, next-button state; the static `inExec_` | `showInCenter`, `done`/`accept`/`reject`, `acceptDialog`, `rejectDialog(Internal)`, key and mouse input, button clicks, `setButtonActive`, option clicks, destructor | modelled, except layout builders (GeneralDialog) |
| Contact-list menu | contact_list/ContactListUtils.cpp 150-347 | none of its own; it waits in the confirmation's exec | `showContactListPopup`, one branch per command | modelled (ContactListPopup, composed in MC_GeneralDialog) |
| Search header | contact_list/ContactListUtils.cpp 447-834 | selected and visible category buttons, scroll animation, filter buttons | `selectCategory`, `onCategoryClicked`, `setCategoryVisible`, `reset`, `scrollStep`, `wheelEvent`, `setChatNameFilter`, `addFilter`, `removeFilter` | partly, painting left out (SearchHeader) |
| Launch | gui/utils/launch.cpp 123-245, 262-291, 373-596 | the static `isLaunched`, the argument copies, the GL handles of `checkDesktopGl` | `CommandLineParser`, the decisions of `launch::main`, the restart, `checkDesktopGl` | partly (Launch) |
| Text blocks (spell checking) | TextUnit.cpp 12-126, 538-593; TextBlock.cpp | the block, its `textUnit_` and `needSpellCheck_`, each unit's `blockId_` and marked words, pending `hasMisspelling` callbacks | `init`/`reinit`/`initTextUnit`, `startSpellChecking`, `setSpellErrorsVisible`, `updateFriendly`, `updateStyle`, the callback, `onFinish` and the relayout, deletion | partly, rendering left out (TextBlock) |
| Headers | *.h | declarations | none | not modelled |

How they interact: `load_async` and `load_from_file` both end in
`external_url_config::unserialize`, which runs `config_p::unserialize`
(the loader) and, on success, swaps the snapshot and pushes its overrides
into the process-wide sink that the GUI's feature queries read. The fetch's
completion lambda runs on a curl worker thread; only the swap is under
`spin_lock_`; the file save follows outside it; the user's callback is
posted to the core context queue. `clear` races with all of this.

Hard behaviours: the fetch completion interleaving with `clear`, with
another fetch, and with `load_from_file`; the swap and the save being two
steps; process restarts between them; every early return of the lambda
having to post exactly one callback; the loader's all-or-nothing
acceptance; string edge cases in `extract_host` and the vcs-room split.

## 2. Modules

* `ConfigStore` — the abstract store: what readers see is either nothing
  or a snapshot the loader accepted, and the override sink always carries
  that snapshot's overrides (`Replace`, `Unpublish`).
* `ExternalUrlConfig` — the detailed store and fetcher. Variables: `config`
  (`config_`), `external` (override sink), `file` (myteam-config.json),
  `useDevelop`, `req` (one record per `load_async` call: its phase, the
  `use_develop_local_config_` it captured, its body and error), `coreQueue`
  (the core context queue), `restarts`, and `env`, the installation (production,
  or develop with a develop file), chosen at the start and never changed.
  Actions: `LoadAsync(r)` (lines 112-131), `Complete(r)` (the lambda up to
  the swap, lines 133-172, every early return a CASE arm), `SaveFile(r)`
  (`save_2_file` and the ok callback, 174-178), `RunCallback` (the core
  context running a posted task), `Clear` (218-225), `LoadFromFile`
  (181-201), and the environment step `Restart`. Bodies are model values;
  which ones parse, validate and carry overrides is the loader's answer.
  The store is shown to implement `ConfigStore` by
  `INSTANCE ConfigStore WITH published <- config, overrides <- external`.
* `ConfigLoader` — `config_p::unserialize` as operators over JSON values
  (tagged records; strings as sequences of characters): the host table
  with each entry's section and whether it is required, the feature and
  mini-apps override tables, the derived quotes override, `extract_host`
  and the `std::getline` split of vcs-room (RECURSIVE); and the URL
  builders `make_url`, `make_url_preset` (the suggested host of the build,
  unless the login domain is the preset's own) and `make_url_auto_preset`
  over character sequences.
* `Features` — every query of `features.cpp` as a term of a small term
  language (one constructor per shape of query body: `_o(key, is_on(f))`,
  `is_on(f)`, `myteamConfigOrOmicronFeatureEnabled`, a call of another
  query, a build fact, `&&`/`||`/`!`, `?:`, a URL, a string value ...), in
  seven tables in source order, evaluated by the RECURSIVE `Eval` over a
  context record. `ConfigContext` builds that context as the core leaves
  it after `config::set_external`: an overridden flag reads as its first
  override, every other as the build's default; `is_overridden` holds for
  the overridden ids. `Omicron::_o` answers the overlay's value for a key
  it holds and the default otherwise (both are outside `src/`).
  `Reads` collects what a term reads, so the check can tell which
  queries a document can influence.
* `Launch` — `CommandLineParser` (RECURSIVE `ParseFrom`: `-urlcommand`
  takes the next argument, `--version` counts only as the first argument
  and never on Windows), `LaunchMain` (the order of `launch::main`'s
  exits: second call, empty argv, `--version`, second instance, pending
  update, failed init, then the event loop with the Application's
  arguments) and `AfterExec` (the restart: `execv` with the original argv
  on Linux, the program alone elsewhere).
* `MediaLoader` — `FileSharingLoader` and `CommonMediaLoader` (constant
  `Kind`). Variables: `seq` (`seq_`), `conns` and `handle` (live connection
  sets, and whether the stored `QMetaObject::Connection` handles are live:
  `connectSignals` on a live set leaks it), `nextSeq`, `pending` and
  `aborted` (the dispatcher's requests), and the owner's view (`want`,
  `results`, `lastResult`, `calls`). One operator per slot
  (`OnFileMetainfo`, `OnFileError`, `OnImageError`, ...), each a function
  of a record of loader and dispatcher state; `Deliver` runs one emission:
  leaked sets first, then the handled set unless a slot cut it. Actions:
  `Load`, `LoadPreview`, `Cancel` (the owner), `Respond` (the core answers a
  request and the dispatcher emits the signal), `CoreAbort`.
  The dispatcher's mapping of requests to signals is an assumption (it is
  outside `src/`): metainfo, preview size and file requests are answered by
  their `fileSharing*` signal or `fileSharingError`; image requests by
  `imageDownloaded` or `imageDownloadError`, possibly after
  `imageMetaDownloaded`.
* `FileSaver` — the saver composed with the loader it owns
  (`INSTANCE MediaLoader` with one load, no cancel, no retry): `Save`,
  `LoaderAnswers` (a core answer whose emitted result runs `onSaved` or
  `onError` in the same step), `WorkerRun` and `MainRun` (the two halves of
  the PNG job, each testing the `QPointer`), `DeferredDelete`, and the
  environment step `ParentDeletes`.
* `GeneralDialog` — `Ui::GeneralDialog`, several instances at once.
  Variables: `phase` of each dialog (created, in exec, exiting: `done()`
  ran but the loop has not unwound, returned, destroyed), `result`,
  `semi` (its semitransparent window is shown), `nextOn` (`nextButton_`
  enabled), `loops` (the nested `exec()` loops, outermost first),
  `inExec` (the static `inExec_`), `returned` (what `showInCenter`
  returned) and the history variable `acceptedBy`. The dialog's own
  visibility is `phase = "exec"`: it is a child of its semitransparent
  window, and `done()` or deletion hides it. Input reaches the innermost
  dialog still shown (`Focus`). Actions: `ShowInCenter(d)` (lines
  397-419; nested when another dialog is in exec), `ExecReturns` (the
  innermost loop unwinds and the tail of `showInCenter` runs, 419-431),
  `KeyEscape`, `KeyEnter` (471-491), `ClickOutside` (461-469),
  `NextClick` and `LeftClick` (the buttons of `addAcceptButton`,
  `addCancelButton` and `addButtonsPair`, whose queued slots run before
  the next input), `SetButtonActive(d, b)` (the owner), `OptionClicked`
  (`MultipleOptionsWidget` emits `acceptGeneralDialog`, which every dialog
  handles with `acceptDialog`), `CloseAnyPopup(info)` (every rejectable
  dialog not ignoring `info`), `ApplicationLocked` (`close()` on every
  dialog), `Destroy(d)` (the owner deletes a dialog during its exec). The
  Qt behaviour it relies on: `done()` records the result, hides the dialog
  and exits its loop; `close()` rejects only a visible dialog; `exec()`
  clears the result on entry; loops unwind last-in first-out.
* `ContactListPopup` — `showContactListPopup` as two tables, in source
  order, from command to the calls the branch makes (`PopupBranchesA`,
  `PopupBranchesB`), given the models' answers (attention mark, selected
  contact, VoIP built in, messages of the call) and the user's answer to
  the confirmation (`IfYes`). Statistics posts are left out.
* `MC_GeneralDialog` — two dialogs: a rejectable confirmation with an
  animated semiwindow and a confirm/cancel pair (Escape ignored, one close
  reason ignored), and a non-rejectable options chooser with a cancel
  button (Enter ignored). `PopupSpec` composes them with the contact-list
  menu: `PopupCommand` (recents/remove or clear_history, from the main
  loop) shows d1 as the command's confirmation, and `ExecReturnsPopup`
  runs the rest of the handler when d1's exec returns, acting on
  `showInCenter`'s value (false if the dialog was deleted). Any dialog may
  also be shown by another owner at any time, as in `Spec`; `made` records
  the calls of the handler. All three dialog runs use `PopupSpec`.
* `MC_ExternalUrlConfig` — four bodies: `bFull` (valid, with overrides),
  `bNoOverrides` (valid, none), `bMissingFields` (JSON without api-urls),
  `bNotJson`. Each is given a concrete document, and an ASSUME checks that
  the sets handed to `ExternalUrlConfig` are what `ConfigLoader` computes
  for those documents, which ties the two modules together.
* `Thread` — a core collection as a function from value names to
  values: `MessageSerialize`, `TaskSerialize`, their `*Unserialize`,
  `UnserializeType` (invalid when the parent has no type),
  `ThreadUpdateUnserialize` (the factory creates the parent for any type
  but invalid; an unregistered type gives a null pointer that is
  dereferenced, `Crash`) and `GetChat`.
* `MC_ConfigLoader` — one input per state (a document, a host string, a
  vcs-room string, a login/host/preset for the URL builders, an argument
  vector with a platform, or a thread-update collection); every input is reachable and the invariants are
  checked on each. For each document it builds the `Features` context
  under three Omicron overlays (empty, every boolean key off, every key
  on with string values). It also feeds the pure part of `launch.cpp`'s
  `checkDesktopGl` (`Launch!CheckDesktopGl`) the index of the step that
  fails (0: none) and whether `glCreateShader` resolves.
* `Launch` (GL probe) — `GlSteps` lists the twelve acquisitions of
  `checkDesktopGl` in source order, `GlHeld(fail)` the handles held when
  step `fail` fails, and `CheckDesktopGl` returns them with the cleanup
  sequence the scope guard runs and the result.
* `TextBlock` — the spell checking of a message text block. Variables:
  `block` (unborn, alive, deleted), `textUnit` (index of the unit
  `textUnit_` holds, 0 for null), `need` (`needSpellCheck_`), `mention`
  (the friendly name the message's mention now has), `units` (per unit:
  alive, `blockId_`, the friendly name its text shows, the marked words),
  `nextUnit`, `counter` (the static `counter()` of blockIds), `pending`
  (outstanding `hasMisspelling` callbacks, each with what it captured),
  `checks`, `relayouts` (checks whose relayout is posted to the main
  thread), `errored` (checks whose `ActualGuard` got `setError`) and the
  history `laidOut`. Actions: `Construct`, `StartSpellChecking`,
  `SetSpellErrorsVisible`, `UpdateStyle`, `UpdateFriendly`,
  `ReplaceWordAt` (a suggestion spliced into the unit's text by `setText`,
  new `blockId_`, no new check), `DestroyBlock`, `SpellAnswer` (the
  spellchecker answers one word; `SpellCallback` is the callback's chain
  of checks; the last answer of a check runs `onFinish`), and
  `RunRelayout(k)`. A text is abstracted to its blocks of words
  (`Parsed[f]`, with replaced words shown as `Correction`: `TextOf`),
  enough for the callback's index and text checks. `ActualGuard` is
  outside `src/`; `onFinish` is taken to receive whether `setError` was
  called.
* `SearchHeader` — `GlobalSearchViewHeader` and `DialogSearchViewHeader`.
  Variables: `shown`, `hiddenCats`, `selected`, `signal` (last
  `categorySelected`), `value` (the scroll bar), `anim` (`animScroll_`),
  `filters` (`filters_["dialog"]`), `layout`, `dropped` (given to
  `deleteLater`), `nextBtn`. Actions: `Select`, `CategoryClicked`,
  `SetCategoryVisible`, `Reset`, `SetShown` (the parent), `Wheel`,
  `AnimTick`, `SetChatNameFilter`, `RemoveClicked`.
* `MC_GeneralDialog` also hosts `TextBlock` and `SearchHeader`: `GuiSpec`
  chooses one part at the start (`part`: the dialogs with the menu, the
  text block, or the search headers) and steps only that part, so the
  three state graphs add up instead of multiplying. The three parts share
  nothing in the code either.

## 3. Runs

| Run | cfg | Expect | What it shows |
|---|---|---|---|
| store | ExternalUrlConfig.cfg | pass | One fetch in flight, 3 calls, 1 restart, clears and startup loads anywhere, in a production installation and in a develop one whose develop file fails validation: the cache file rebuilds the published snapshot (`StoreRecoverable`), every started call delivers its callback (`CallbackDelivered`), the store refines `ConfigStore` (`StoreRefinement`). |
| media_common | MediaLoader_common.cfg | pass | `CommonMediaLoader`, owner cancels, reloads, retries after errors: `AtMostOneResult`, `ResultMatchesCall` (nothing after cancel, no stale answer), `ResultDelivered`. |
| media_filesharing | MediaLoader_filesharing.cfg | pass | `FileSharingLoader` in every `loadMeta_` mode and both `isVideo_`, owner cancels before retrying after an error: `AtMostOneResult`, `ResultMatchesCall`, `NoLeakedConnections`. |
| media_filesharing_retry | MediaLoader_retry.cfg | violation | `AtMostOneResult`: reloading right after an error leaks a connection set and the next error is emitted twice. |
| media_preview_hang | MediaLoader_hang.cfg | violation | `ResultDelivered`: a preview whose image download fails is never answered. |
| file_saver | FileSaver.cfg | pass | `CallbackOnceWhileAlive`, `CallbackEventually` with and without PNG export, parent destruction at any step. |
| loader | ConfigLoader.cfg | pass | `OverridesMatchDocument`, `VcsRoomsRoundTrip`; `ServerOverridesHonoured` (a feature the server turns on through `myteamConfigOrOmicron` stays on whatever Omicron says, config-only queries follow the document, queries that read nothing the document overrides are unchanged); `FetchUrlPerSpec` (the fetch URL of spec §5 and its host precedence); `CommandLinePerArgs` (the parser against a declarative reading of the arguments, and `launch::main`'s exit order and restart); `ThreadRoundTrip` (a thread update reads back the parent topic its serialize wrote, and `getChat` answers only for message topics); `DestroysOnlyOnConfirm` (the contact-list menu makes a removing, ignoring, erasing or deleting call only for a command that asks first, and only on a yes; a no makes no call; mark_unread closes the open chat before it marks it unread); `HostNormalizedPerSpec` (`extract_host` against spec 4.1's normalisation, except for a value ending in `"://"`, see Findings); `GlCleanupMatchesAcquired` (`checkDesktopGl` releases exactly the context, DC and window it acquired, once each, makes the context non-current before deleting it and releases the DC before destroying the window, for every failing step). |
| loader_mail_section | ConfigLoader_mail.cfg | violation | `"mail-interop": true` is accepted without mail hosts. |
| dialog_nested | GeneralDialog.cfg | pass | Both dialogs in either nesting order, d1 also as the menu's confirmation, every input, broadcast and deletion during exec: `TypeOK`, `SemiWindowOnlyInExec` (no semitransparent window outlives its dialog's exec, on any way out). Text block: `SpellMarksCurrent` (a marked word is a misspelled word of the text the unit shows now, however late callbacks of earlier checks arrive), `NoMarksWhenHidden` (after `setSpellErrorsVisible(false)` the unit marks nothing). `MarkedCheckLaidOut` (temporal: once a callback of a check has marked a word, that check's relayout runs unless the block is deleted first). Search headers: `FilterButtonsAccounted` (the layout holds exactly the held `dialog` filter button; every other button made was given to `deleteLater`). |
| dialog_active_flag | GeneralDialog_active.cfg | violation | `ActiveMeansInExec`: a nested dialog's return clears `inExec_` while the outer dialog is still in exec. |
| dialog_broadcast_accept | GeneralDialog_accept.cfg | violation | `DestructionConfirmedByUser`: an option chosen in an options dialog shown during the menu's confirmation accepts the confirmation too, and the menu removes the contact. |

Bounds. Three `load_async` calls and one restart are enough for every
ordering of a fetch with a clear, a startup load and a restart, and for
callbacks of several calls to sit in the queue together. One fetch in flight
is the discipline the spec states (§5); with two, the saves of overlapping
fetches can land in the other order (recorded as a hazard, not run).
Four bodies cover each outcome of the lambda (parse error, missing fields,
accepted with and without overrides). For the loader, host strings up to
length 4 over `{h, :, /, space}` contain every edge `extract_host` tests
(`"://"`, trailing slash, blanks), room strings up to length 5 over
`{h, ;}` contain empty, leading, doubled and trailing separators, and the
documents vary one section at a time because the loader reads sections
independently. URL inputs are strings of length up to 2 over `{a, .}`
(empty, equal and different login and host), with the preset on and off.
Argument vectors carry up to 4 arguments over `{-urlcommand, --version,
x, /startup}`: enough for `-urlcommand` last, a value equal to another
flag, `--version` first and later, and repeated `/startup`. Thread
updates carry each of six parent topics (message or task, empty and
non-empty fields), a parent without a type, or none. The menu is checked
for all 19 commands and an unknown one, under every combination of the
models' answers (call with 0 or 2 messages) and both confirmation answers.
In the composition, one confirmation suffices: each dialog is shown once,
and the handler's effect depends only on that one return value.
`checkDesktopGl` is run for every failing step and both shader answers.

For the text block, two mention names, one of them two words long, make
a new name move the misspelled word to another (block, word) index; two
units, three `blockId_` values and two checks let a check be overtaken by
a `setText`, a reinit and the block's deletion with callbacks still
pending. For the search headers, two categories (the code has two), three
scroll positions with the buttons' visible ranges overlapping, wheel
deltas on both sides of the truncation edge (119, 120) and two filter
buttons, so that one replaces the other.

For the media loaders, three owner calls and nine seq numbers let a call
be superseded or cancelled while its chain of up to three requests is in
flight, and let stale answers of two earlier calls arrive during a third;
`MaxSeq >= 3 * MaxCalls` is assumed so the bound never cuts a chain.
The owners are bounded rather than free: a loader whose owner interrupts
loads accumulates connection sets without bound, which is the leak the
hazard list records.

For the dialogs, two instances are enough for every nesting order, for a
broadcast to reach a dialog that is not the one acted on, and for deletion
of the inner or the outer dialog; no counter needs a bound, since each
dialog is shown once.

Fairness. Weak fairness on `Complete(r)`, `SaveFile(r)` and `RunCallback`:
curl completes every transfer (a timeout is a completion with an error
code), the lambda runs to its end once it has begun, and the core context
drains its queue. In the media modules, weak fairness on `Respond` (the
core answers every request it did not drop), and for the saver on the
pool and the main loop running queued work and on `DeferredDelete`.
Calls, clears, startup loads and restarts are the
caller's or the environment's decisions and get no fairness. The dialog
model checks safety only: every step of it is user input or an owner's
decision. In the text block, weak fairness on `SpellAnswer` (the
spellchecker answers every request it holds) and on `RunRelayout` (the
GUI thread runs what `Async::runInMain` posted); they are conjoined to
`GuiSpec` as `TextBlock!TextFairness` and are never enabled in the
other two parts.

## 4. Findings

1. A `mail-interop` member that is not an object is ignored (run
   loader_mail_section).
2. `FileSharingLoader::onFileError` neither resets `seq_` nor disconnects:
   a reload after an error leaks a connection set and the next error is
   emitted twice (run media_filesharing_retry).
3. `FileSharingLoader` does not listen to `imageDownloadError`, so a
   failed preview image is never reported (run media_preview_hang).
4. `inExec_` is one static flag: a dialog shown inside another's exec
   clears it on return while the outer is still open, and a dialog deleted
   during exec never clears it (run dialog_active_flag).
5. `acceptGeneralDialog` is handled by every dialog: choosing an option in
   a nested options dialog accepts the dialog under it as well, whose
   `showInCenter` returns true. When that dialog is the contact-list menu's
   confirmation, the contact is removed without the user saying yes (run
   dialog_broadcast_accept).

Seen while modelling and listed as hazards without a run: `extract_host`
strips the trailing slash before the scheme, so `"https://"` yields
`"https:/"`, a present host where spec 4.1 has none; two overlapping
fetches can leave the cache file behind the store. A fetch in flight when
`clear()` runs publishes and saves its body on completion; spec 4.3 makes a
successful fetch replace the store and write the file, and spec 5 has no
cancellation, so this is the contract and no property claims otherwise.

Deadlock checking is off for the media and dialog runs: a loader with nothing
outstanding whose owner has stopped calling, and a deleted saver, are
final states of the program, as is a set of dialogs that have all returned.

## 5. Not modelled, and why

* `save_2_file`, `load` of a file and `common::json::get_value` live
  outside `src/`; a torn write is therefore not modelled, and the get_value
  helpers are modelled by their use (member present with the right type).
* `load_from_file` is modelled as the startup load: it runs before any
  fetch of the same process has completed. Nothing in `src/` calls it, and
  without that discipline it races the swap/save of a fetch.
* The data race on `use_develop_local_config_` (written by `load_from_file`,
  read by `load_async`) is abstracted to an atomic read of the current value.
* GUI rendering is not a state machine. `get_host` is a table lookup
  covered by `Hosts`.
* Of the search headers: painting, the scroll overlay's gradients,
  label elision and sizing. The animation's easing is abstracted to one
  unit per tick. Two behaviours the model reaches are not checked by a
  run, because nothing in the repository says what should happen: a
  running animation moving the bar away from the category `selectCategory`
  just scrolled into view, and wheel deltas below 120 never scrolling.
  Both are hazards at their lines.
* Of the text units: layout, selection, elision, links and drawing. The
  rendering engine does these and the spell checker reads none of them.
  The spell menu that calls `replaceWordAt` is outside `src/`: the model
  replaces any word, but it does not keep the word the menu offered. So
  two hazards are listed without a run: `_old` is never compared, and the
  replacement is lost on the next reinit because the block's source text
  keeps the old word.
* Of `checkDesktopGl`: `RegisterClass` is not undone when `CreateWindow`
  fails, and `opengl32.dll` is never freed; `checkGpuDrivers` ignores the
  result.
* Of `launch::main`: rlimits, GPU checks, signal masks, crash handler and
  metatype registration are process set-up the program never reads back.
* Of `GeneralDialog`: the layout builders (`addLabel`, `addText`,
  `addError`, margins), sizing, shadows, and the `shown`/`hidden`/`moved`/
  `resized` notifications change nothing the dialog reads. What the owner
  does on `rightButtonClicked` or `leftButtonClicked` lives outside this
  file. The semitransparent window's hide animation is taken as immediate.

## 6. Coverage and further work

The map covers about 44% of the implementation lines. The rest is mostly:
- layout and painting (dialog builders, button and overlay painting, label
  elision);
- process set-up in `launch::main` and the debug log filter;
- declaration-only headers;
- the members-widget regime predicates and `aimIdFromIndex`, which are
  table lookups the models do not read.

None of these changes state that another part reads back. New components
are checked in the runs of the components they interact with.

1. `GeneralDialog`: a liveness property under a fair user (every loop
   unwinds once the dialogs above it are done), and reuse of a dialog after
   it returned.
2. The spell menu that calls `replaceWordAt`, if its caller comes under
   `src/`: with the word it offered, the stale-replacement hazard becomes
   checkable.
