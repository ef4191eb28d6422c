# A TLA+ model of jumpway

jumpway is a desktop app that serves a set of *rules*, each a listener and a way
out: HTTP, SOCKS, SSH and Shadowsocks proxies, or a forward to a fixed target,
both possibly through chains of other proxies. A tray menu and a web UI show
the state of the rules and edit their configuration, which is applied without
restarting what did not change.

This directory models the parts of it in which several goroutines, or several
steps of one, can get in each other's way. `PROJECT.json` lists the runs, the
source lines every definition stands for, the hazards and the theorems.

## Parts of the system

| Part | Source | State | Operations | Hard because | Module |
|---|---|---|---|---|---|
| Supervision loop | `serve.go` | attempt, wait, the listener of the iteration, an `AfterFunc` | listen, announce, serve, close, report, wait | cancellation at any point, races of `AfterFunc` with the loop, outages | `Serve`, `Supervision` |
| Reload and rule runtimes | `app/tray/reload.go` | `a.runtimes`, `a.rules`, the root context, first results | `reload`, `stopStaleRules`, `syncRuleStates`, `startRule`, reporters, `collectFirstErrors` | rules that exchange addresses, failures and late results in the middle, `stop` beside it | `Reload` |
| Web UI listener | `app/tray/webui.go` | listener, server, error, wanted address | `listenWebUI`, the goroutine of each server | a replaced server reports late | `Reload` |
| Virtual channels | `app/tray/virtual.go` | table of names, `done`, `once` | `Listen`, `Dial`, `Accept`, `Close` | two closers, dials that meet a listener that is going away | `VirtualNetwork` |
| System proxy, worker, UI thread | `app/tray/system_proxy.go`, `menu.go`, `app.go` | selected rule, its address, `stopped`, `proxyMu` | select, restore, stop, Quit, `updateStatus` | threads that wait for each other, selections queued before Quit | `Tray` |
| Store and configs service | `config/store.go`, `app/web/services/configs` | the config file, a mutex | load, save, modify, reload | the process ends between two file operations, edits by hand, a mutex held over a reload | `ConfigStore`, `ConfigRegister` |
| Validation | `config/validate.go` | none | `Validate` | mirrored by the checks of the rule editor | names and addresses in `ConfigDocument` and `Reload`, a whole rule in `RuleForm` |
| Traffic metrics | `metrics/` | counters with generations, live connections, targets | open, close, dial, tick, reset, `Sync`, eviction, snapshot | reset and eviction beside opens, closes and late dials | `Registry` (no rates, no bytes) |
| Polling | `web/ui/src/lib/polling.svelte.ts` | timer, generation, load in flight | poll, refresh, subscribe, hide | late and aborted answers, writes beside polls | `Poller` |
| Router | `lib/router.svelte.ts` | accepted and expected position, dirty guards | sync, popstate, navigate, restore | the browser moves when it likes; corrections land later | `Router` |
| Moved notice | `lib/moved.svelte.ts` | notice, mark, candidate | begin, settle, reconcile | answers of before the write, writes without an answer | `Moved` |
| Requests and questions | `lib/api.ts`, `lib/confirm.ts`, `ConfirmDialog.svelte` | timer, listener, pending question | send, abort, time out; ask, settle | reasons that race; close events that come late | `Request`, `Dialog` |
| Rule editor | `RuleEditorPage.svelte`, `ruleEditor.ts`, `rules/` | draft, baseline, saved name | load, type, build, save, rename, delete | requests under open dialogs, other writers, a second implementation of `Validate` | `RuleEditor`, `RuleForm`, `UrlBuilder` |
| YAML and settings pages | `YamlPage.svelte`, `SettingsPage.svelte` | text, drafts, baselines | load, type, save, reload | a wait between save and re-read; two forms and one shortcut | `Yaml`, `Settings` |
| Overview | `OverviewPage.svelte` | list, what each card does | load, switch, delete, leave | lists older than a write | `Overview` |
| Statistics pages | `ConnectionsPage`, `StatsRulesPage`, `HostsPage`, `trend.ts` | rows, selection, rings | poll, disconnect, sort, filter, record | answers of different ages, ids of an earlier process, torn counters | `Connections`, `StatsRules`, `Hosts`, `Trend` |
| Tooltip | `actions/tooltip.svelte.ts`, `HelpTip`, `TooltipHost` | owner, pins, popover | enter, leave, focus, pin, destroy | hides deferred by a microtask | `Tooltip` |
| Dialers, proxying | `dialer.go`, `forward.go`, `proxy.go` | none that lasts | | third-party code behind one call | not modelled |
| Main-thread dispatcher | `app/tray/mainthread_darwin.go` | table of tokens | register, take, run | behind cgo, macOS only | its wait in `Tray` |
| Everything else | `daemon`, `netproc`, `i18n`, `log`, `icon`, `cmd`, generated routes, presentation | none that others depend on | | pure input and output | not modelled |

How they interact: the *actions worker* is one goroutine that executes what menu
items and API handlers queue (`do`, `doSync`), so there is one `reload` at a
time. A reload starts one goroutine per rule, a call of `Serve`, which reports
its events through a callback into the state that the web UI and the menu read.
`App.stop` runs on the UI thread, a signal goroutine or the worker, and cancels
the root context from which every rule's context descends. `updateStatus` and
`SetMenu` wait for the UI thread; `stop` waits for `proxyMu`.

The web UI is one browser page. It reads the state by polling, writes through
the configs service, and tracks its own writes in `busy`, which disables the
controls, holds back polls and keeps the router from leaving. A write that moves
the address of the web UI cuts the page off from its answer.

## Modules

`Serve` has one action per statement of `serveWithBackoff` that has an effect.
`pc[l]` is where the goroutine of call `l` stands, `attempt`, `backoff` and
`err` are its local variables, `sock` and `watch` the listener and the
`AfterFunc` registration of the current iteration, `cancelled` its context.
`event` is what `report` was last called with. Time is left out: a wait ends at
any moment. The error of an operation is told apart only as the reporter of
`Reload` does, by `IsClosedConnError`.

`Supervision` is the contract of a call of `Serve` with the code that reads its
events: addresses are announced only while a listener is held, failures only
when none is, with consecutive numbers and the wait that belongs to the number
(`Delay`: the initial wait, and after it twice the one before, up to the maximum),
and the call ends only when cancelled, holding nothing. `ServeCall` has the
refinement mapping, for any one call (`Call`); the attempt and wait variables do
not occur in `Supervision`, which computes them from the last event.

`Reload` extends `Serve`: a loop of `Serve` is a runtime of `reload`, which has an
`owner` and a `def`inition. What reporters do is added to the actions of `Serve`
that call `report`; `listen` succeeds only if nobody in the process holds the
address. The actions of the worker follow `reload` from top to bottom: `Take`,
`LoadInvalid`/`LoadValid` (with the start of `listenWebUI`), `WebListens` or
`WebListenFails`, for each runtime `ReadRunning` (under `a.mu`) and then `KeepRule` or
`StopRule` by what was read (`seen`), `SyncRules` (after the wait for the stopped ones), one `StartRule` per missing runtime, `Collect`,
`Expire`, `Forgo` and `Finish`. `StopReads` and `StopActs` are the two halves of
`App.stop`. The menu and the system proxy, refreshed at the end of a reload,
are in `Tray`; the proof that one module may leave out the other is that
`rebuildMenu` only reads what `Reload` has.

`VirtualNetwork` composes the table of channels with the loops of `Serve` reduced
to what they do to a listener: listen, accept, close. `once.Do` makes a second
caller of `Close` wait for the first, which is where the name becomes free.

`Tray` has the threads that use `proxyMu`. A thread is `idle`, `want`s the lock,
is about to `apply` a setting with the lock held, or waits for the UI thread to
`paint`; the UI thread paints only when it is in its event loop, not in `Quit`.
On Linux and Windows some of these waits do not exist; the model has them all.
`setSystemProxy` only logs the call of the system that fails, and the app remembers the
address as if it had been made. `lost` says that the last such call failed, in whole or
for one of HTTPS and HTTP; no later restore with the same address makes it again, and
neither does the second `stop`. What is claimed of the setting is claimed unless `lost`.

`ConfigDocument` says what the file can hold, what `Validate` accepts and what a
call of the configs service asks for and results in. A rule is its name and the
address it listens on; a rule in which one of the checks of a single rule fails
is `Broken`. The file may also be missing, empty, or end in the middle of a line.

`ConfigStore` is `modify`, `Update` and `UpdateRaw` under the mutex of the service,
with one action per step: `Enter` (lock), `Load`, `Modify` or `Replace` (the change
and `Validate`), `CreateTemp`, `FillTemp`, `Rename` (`SaveRaw`), and the reload on
the actions worker, `ReloadLoads` and `ReloadEnds`, with the mutex still held.
Every step of `SaveRaw` may fail. `InitStat` and `InitWrite` are `Store.Init`, whose
plain write can be cut short. Hand edits and the end of the process come between
any two steps; a process that ends is started again, and its requests are lost.

`ConfigRegister` is what the service promises: each call takes effect at once or
not at all and only valid configs are written. The one exception is in it
explicitly: a call may undo a hand edit made after it loaded the file
(`overtaken`), as nothing locks the file against an editor.

`Registry` has the lists of `metrics/registry.go` and what its counters call active.
A rule of the registry is an object; a name that comes back after `Sync` removed
it gets a new one, while connections of the old one go on (`rule`, `Current`).
The counter of a rule is named by the object, those of its targets are
`Counters`, which `Lookup` makes and evicts. `mu` is held over several steps only
by `Reset`, which goes from counter to counter (`ResetBegins`, `ResetCounter`,
`ResetEnds`) while `Open` and `CloseCounts` touch the same counters without `mu`. A
close is `once.Do`: `CloseBegins`, `CloseCounts`, `Unlist`, and whoever comes second,
such as `Disconnect`, waits. Among several idle targets the model evicts any, the
code the one that was active the longest ago.

`Poller` is `createPoller` with the pages that use it. A load goes from `sent` to
`served` (the server has read its state, which is a `version`), `then` (the answer is
accepted or dropped), `settled` and `done`, one promise callback at a time.
`flight` stands for `controller` and `inFlight`, which are set and cleared together.
Writes of the page are made within `busy.run`; `mark` is what `moved.beginWrite`
notes. Only callbacks of one promise run one after another in the code; the
model lets anything come between them.

`Router` has the session history as a sequence of entries with their stamps, the
queue of `history.go()` calls that have not landed (`pending`), and the variables
of `router.svelte.ts`. `Popstate` is `onPopstate` as the browser calls it at the end
of a move; the native question it asks has either answer. `Ask` and `Answer` are the
two halves of `navigate` around its own question, `Load` and `Remount` the page
loaded again and a new life cycle of the router.

`Moved` has the writes of the settings and YAML pages that may move the listener,
the listener with the drain of the old one, and the loads of `status` reduced to
their numbers, which is what `mark` compares.

`Request` is `request` of `api.ts`: `Send` arms the limit and the listener of the
caller's signal, and an answer, the limit, an abort and a broken connection race
for `Arrive` or `Reject`. `Dialog` is the confirmation dialog, with the
tick after which it opens and the close events the browser delivers later.

`RuleEditor` is the life of a draft: which rule it is (`savedName`), what it was
when clean (`baseline`), and a load, a save and a removal, each sent, handled by the
backend and answered; the answer may be "saved, but not applied" or lost. `RuleForm` is
what the draft holds: the controls of the form one by one, `readRule`
(`Errors`, `RuleOf`), `draftFrom` (`DraftFrom`), and `Validate` of the server. The form does
not look at everything: a hop URL with a scheme that `url.Parse` refuses (`http://h:abc`), a
colon in the user name of a Shadowsocks row, which shows none, and a stored cipher that the
server does not have are left to the 400 of the server (`LeftToServer`), and
`FormMirrorsServer` says that these three are all.
`UrlBuilder` writes a URL from the fields of a layout and reads one back. It takes any host
that is not blank and writes it as it is typed: `h:8080` in brackets, which no URL can be read
from; `u@h`, whose first part joins the credentials; `h/x` and `h?x`, cut where they are.
`BuiltReopens` says that exactly these do not reopen as they were typed. `new URL` makes the port
`0080` to 80, drops the port 80 of `http`, and makes the host of `http` lower case.

`Yaml`, `Settings` and `Overview` are the other pages that write. Each request has a
step at which the backend reads or writes and one at which the answer arrives, so
another client (`OthersWrite`) or the user can come between. `Settings` has two
forms over one load; `Overview` a state machine for each card. A write of the overview
that got no answer is in `late`: it may stand at the mutex of the configs service and
is applied at any time or never (`Lands`), also after the page has read the rule again.

`Connections`, `StatsRules` and `Hosts` are what pages make of snapshots: rows with
an identity, rows put together from three answers, sums over URLs. In `StatsRules` the file
(`config`) and what runs (`running`) are two things: `Store.Load` does not validate, so after
a hand edit the list may have two rules of one name, while `reload` runs valid configs
only. `buildRows` then has two rows, which Svelte is given with one key; what it renders
of them is left open, and so is whether such a row takes the focus. `Lists` has
what they and the form do with arrays: `map`, `filter`, the keys of a `Map` in the order
they were set, and the stable `sort`, all without recursion. `Trend` is the ring of samples of each subject and the
points a sparkline draws from it. `Tooltip` has the microtasks of a task as a queue,
with the effects and frames that draw what they decide.

`WebShell` and `WebPages` compose the modules of the web UI, what all pages share and the
pages. The parts do not interact: the variable `part` is chosen at the start and never
changes, each behaviour is one of the module of its part, and the variables that
only other parts have are constant in it. The properties of the runs are stated
there, and the theorems are about these compositions, so the modules `MC...` do no
more than give values and symmetry.

## Runs

| Run | Instance | Shows |
|---|---|---|
| `serve` | two calls, 4 failures, waits 1 to 3 | no listener is lost, cancellation and recovery, refinement of `Supervision` |
| `reload_swap` | rules `a`, `b` with swapped addresses, one of them unbuildable, or an invalid config; two reloads, one failure, four loops | rules never overlap, what is published is what runs, what is kept goes on |
| `reload_live` | one rule and a web UI that both move, two reloads, one failure, one call of `stop` | every reload is answered, every rule ends after `stop`, the status of the web UI is true and it is where the config has it |
| `reload_trade` | one rule and the web UI trade addresses | a finding below |
| `tray` | two rules, two addresses, worker, UI thread, SIGINT | lock, proxy setting and quit |
| `config_store` | two calls out of ten, started without a file, with an empty one or with the default; one hand edit, one end of the process | atomic calls, whole files, answers that are true |
| `registry` | three connections, three targets of which a rule lists two, two objects of one name, one reset | counters, lists and evictions beside resets and `Sync` |
| `waits` | channels: two names, three listeners, one dial; registry: two connections, one `Disconnect`, two resets; store: two calls, one edit, one end of the process, any number of reloads of the menu | channels are served, and who waits for a loop, a lock or the worker is served in the end |
| `web_shell` | poller: two views, three loads, one refresh; router: three pages, three entries, three moves, two questions; two writes that may move the web UI; four snapshots with a reset and a clock set back; a tooltip with two plain hosts and a help tip | what all pages share |
| `web_pages` | two rules, two writes of the editor and of others; two saves and three texts; two clicks; three saves of settings; four edits of a form or of a URL; two connections and a restart; three rules in three files, one of which has a name twice; two hosts of four URLs; two requests; four questions | each page by itself |
| `rule_editor_delete`, `router_undo` | the editor with one port; the router with five entries and edits on the page | findings below |

The properties of a run are conjunctions of named parts, each stated in its
module: `NoListenerIsLost` of `Serve`, `RulesAreApart` and `ReloadsEnd` of `Reload`,
`SystemIsTheApps` and `NobodyHangs` of `Tray`, `OpenIsOpen` of `Registry`,
`ChannelsAreServed` and `VirtualEnds` of `VirtualNetwork`, `FilesAreKept` of
`ConfigStore`, `AnswersAreFresh` of `Poller`. `MCWaits`, `WebShell` and `WebPages` have
several modules in one run, each behaviour being one of the module of its part: what
such a run shows of a module is what a run of that module alone would show.

Bounds. `Faults` bounds the failures of the environment in a behaviour; four are
enough for a call of `Serve` to reach the maximum wait and to fail again after a
success. Loops are used once, which bounds the number of reloads to two that
change both rules: the second reload meets every state the first can leave, and
a third meets no other kind of runtime. Two rules are enough for every conflict,
which is a relation of two. The calls of `Serve` are alike and independent, so
TLC checks the refinement for one of the two; its safety is proved for any call of any
number.
In `config_store` the ten calls are one of each kind and those that collide with
them (on a name, on an address, on the web UI); two calls and one edit are the
least that can lose an update, and one end of the process covers any number,
since only the file outlives it.
In `registry` a third target is the least that evicts from a table of two, and a
second object the least that a late dial can belong to. In the poller an aborted
load, the one after it and the one a refresh begins are the three loads.
In the web UI two writes are the least that can overlap or meet a list read between
them, as are two loads of `status` (`MaxStatusLoads`), one of them sent before a write and
answered after it; in the router three entries have a Back that can be followed by another, and
`MaxPending` bounds the corrections on their way. In `RuleForm` four edits reach from a
rule every error that takes a mode, a protocol and two fields; a rule with an unknown cipher
and a colon in its user name is one of those it starts from. Questions are four so that
one is open, one is declined beside it, and one more meets the close event of either.
`web_shell` uses symmetry between the two users of the poller, two endpoints and two
addresses, exchanged each pair as a whole, as no behaviour tells them apart; `web_pages`
between the names and between the fields of rules.

Fairness. Goroutines that can take a step do (the Go scheduler is preemptive and
timers fire), so the steps a goroutine takes by itself are weakly fair. Nobody
is obliged to ask for a reload, to save, to quit, to cancel or to fail. In `Tray`
the steps of a thread are strongly fair: `sync.Mutex` hands the lock over to a
waiter that has waited for a millisecond.
In `ConfigStore` the reload of a request is strongly fair: the goroutines that wait
to send to the unbuffered channel of the worker are served in order, so reloads
of the menu cannot overtake a request for ever.
In `Registry` taking the lock to remove a connection is strongly fair, since a
`sync.RWMutex` starves nobody; the other steps of a close, and those of a reset
once begun, are weakly fair. In `waits` a behaviour is of one part, so the fairness of
each module is stated for its part, and a connection and a request share one
strongly fair disjunction, of which the part leaves one disjunct.
The modules of the web UI state safety only: that a timer fires and a
request ends (it has a time limit, `LimitIsSet`) is the browser's part, and
`KeepsPolling` says that there always is such a timer or request. The exception is
`Router`, where the browser gets to each `history.go()` it was asked for.

Deadlock is checked for `serve` and `tray`, whose last step is explicit; the other
models end when their loops or listeners are used up.

### Findings

`reload_trade`: `reload` calls `listenWebUI` (`reload.go:53`) before it stops the
rules whose definition changed (`reload.go:57`). With a valid config in which
the web UI moves to an address that a rule gives up in the same edit, the old
listener is closed, the new one cannot bind, and nothing tries again before the
next reload. The reload reports the error.

`rule_editor_delete`: `remove` of the rule editor looks at `busy` before it asks and not
after the answer (`RuleEditorPage.svelte:267`), and Ctrl+S reaches the page under the
dialog. Confirmed while such a save is under way, the delete succeeds, the
navigation after it is refused because the page is busy, and the editor stays on a
rule that is gone. `YamlPage.svelte:120` checks again.

`router_undo`: two moves refused before the first correction lands queue two
corrections, each aimed from where the browser was. Each lands where the other
has moved it away from its aim, and is refused and corrected in its turn, without
end while the page stays busy or the user keeps declining. `UndoIsAimed` holds
nevertheless: the last correction is always aimed right.

Behaviour that is worth knowing and contradicts nothing written down: of two writes
that both move the web UI and overlap, the notice may name the address of the
first (`MovedIsTrue` is about orderly writes); a clock set back stops the charts until it
has caught up, or resets them (`OnlyEarlyIsSkipped` is true all the same); a rule that was
down when a reload looked at it and announces itself before the reload acts is restarted,
although its definition is unchanged; after a call of the system that failed, the proxy setting
stays wrong until another address is selected; an overview that read a rule again after a
request without an answer stays as it is when that request is applied later, until the next
load (`doubt`); a text that
was sent, replaced and typed again before its re-read arrives may be replaced (`TypedKept`);
a rule whose row is not there yet keeps the wish for the focus until it comes; of two rules
of one name, both rows have the state and the traffic of the first.

## Proofs

Checked by TLAPS for every value of the constants that the named assumptions
admit.

- `ReloadProofs`, first of `Serve`, whose loops `Reload` runs. `ServeInv` adds to the types
  and the three invariants that an `AfterFunc` only starts when cancelled (`FiringMeansCancelled`): without it the
  close of a listener that belongs to a later iteration cannot be excluded. One
  lemma for the steps of a loop, one for cancellation, one for frames. That each call
  implements the safety of `Supervision` (`SupervisionTheorem`) needs, besides, that the
  attempt and the wait a loop keeps are those of the last event it reported
  (`Counted`).

  Then of `Reload`. `ReloadInv` is `ServeInv` with `TypeOK`, `Ownership`, `Applied` and
  `Published`. `Ownership` says that a loop under way is the runtime of its rule
  or one the worker waits for; `Applied` that the runtimes the worker has gone
  through have the definitions of a valid config, so that no two loops under way
  share an address; `Bookkeeping` is the three together. One lemma per action. `RulesAreApart` and
  `SettledMatchesConfig` follow without another induction. `RunningIsTrue` needs that a loop
  nobody has started is not shown (`ShownInv`), `WebStatusIsTrue` that the goroutine of a
  server that failed never has the number of the open one (`WebInv`). The action properties
  rest on invariants of their own: before `stop` only a rule that could not be built has a
  runtime with a finished context (`KeptInv`), and a rule the reload no longer waits for has
  listened or is counted as a failure (`CountedInv`). `ReloadAppliesWebUI` is proved of stored
  configs that never trade an address between a rule and the web UI (`NoTrade`: no valid
  config has the web UI where a valid one has a rule), as `reload_trade` refutes it of
  others: every loop under way has the definition of some valid config (`WebAppliedInv`), so
  none of them can hold the address the web UI moves to.
- `VirtualNetworkProofs`. The invariant relates `once`, `done` and the table entry
  of each listener to the loop that uses it.
- `ConfigStoreProofs`. `StoreInv` says who may be where while the mutex is held
  (`Standing`), that a config about to be saved is valid and is what the call
  asked for on top of the file as it is, or of one that a hand edit has replaced
  since (`Prepared`), and what the worker has read for the request it serves
  (`Reloaded`). From it follow the refinement of `ConfigRegister`
  (`RegisterTheorem`) and the action properties, `FilesAreKept` among them.
- `TrayProofs`. Only the holder of `proxyMu` has a setting pending, and that
  setting is the address the app remembers already: so the system follows the
  app whenever the lock is free, and is off after `stop`, unless the last call failed. `Selection` says that a selected
  rule is published unless a reload that has published its rules has yet to restore it.
- `RegistryProofs`. `ActiveIsOpen` and `LiveIsOpen` are inductive with what a
  connection knows of its counter and rule (`Opening`), that objects are of the
  name they were made for (`Naming`), and that a connection without a hook is of
  an object that is not current, and will never be again (`Hooked`).
- `WebShellProofs`. `ShellInv` is one invariant per part; a lemma per part shows that its
  steps keep it, and the other parts leave its variables alone. `PollerInv` says that a
  load in flight is of the current generation, that none begins during a write
  (`NoneBegins`), that a current answer is no older than what is shown and, if numbered
  after the mark, than the write (`Newer`), and which load a refresh waits for or has
  begun (`Owned`). `UndoIsAimed` of the router is inductive with the types. `MovedInv` says of
  the loads that none begins while a write is on its way and that what is shown is an answer
  (`LoadsInv`); if no write began before the one before was over (`Orderly`), it says for the
  last write where its outcome has brought the listener, what the page knows of it,
  and that an answer numbered above the mark is not of before it (`Stands`). `TrendInv` says
  what a ring is of the recorded snapshots: the last of them, back to where the chart
  breaks off or the ring is full (`RingIsRun`). `TooltipInv` is about the queue of
  microtasks: the hide of the activation that is shown is queued exactly if the tooltip is
  due to nobody, and the host it is due to is mounted and held.
- `HostsProofs`. `HostsInv` says that the hosts are what `HostsAre` has of the entries: one for
  each host that is named, sorted by traffic and name, each with the sums over the places its
  URLs have in the list. The page adds the counters up endpoint by endpoint, host by host and
  in all. Each of these is a sum over a set of places (`SumOf`), and the places of the endpoints
  divide those of their host as the hosts divide all (`Divides`, `SumOfGroups`), so every URL
  counts once in each. This takes induction over the lists. The library's induction theorems
  cannot be used, but `Inductive` is about a set of numbers and needs no operator: if 0 is in it
  and n + 1 with every n, there is no least number outside. `Recursion` gives with it the
  equations of a recursive function, such as those of `Added` and of the `FlattenSeq` of the
  community modules. The average of a host is a fraction, so its bounds are products: with W the
  weighted sum and S the dials that succeeded, low * S <= W <= high * S for two of its URLs. A stable
  sort keeps the order of equals (`StableSortSorts`), and `Below` is a strict weak order for each
  key and direction, fractions included.
- `WebPagesProofs`. `PagesInv` is one invariant per page. `EditorInv` says that while a save
  is under way the page stays as it was sent: no load is awaited, no builder is open, and
  draft and saved name are those of the request (`EditorSaving`). This is where the guard on
  `building` is needed. So what becomes the baseline is what the backend was given, and a page
  that created its rule knows its name. For the overview the invariant follows each card
  through its write and the list read beside it, for the names no other client wrote
  (`CardIsTold`; `Unsettled` is what an answer or a later list has yet to tell, `ReadAhead` the
  read that a late write needs before it to be seen). For the YAML
  page it says which texts were on disk (`WasOnDisk`), for the connections that a boot gives
  an id once (`IdsAreUnique`) and that a closed connection is in no list read later
  (`ClosedIsUnread`), for a request what each of its phases leaves armed, for a question that one
  that is pending will be in sight, is, or was put out of it by the user (`Asking`).
  `RulesAreWhole` and `FormMirrorsServer` need facts about lists, as sets of any size are
  put in order: a finite set with a strict order can be listed in it and in one way only
  (`InOrder`, shown by counting, without induction), filters keep the order of what they keep, and the
  stable sort keeps that of equals. The rows of the rules are then those of the list, each
  its own place, and one for each further name of the statistics, whatever the age of the three
  answers. Of the form, the theorem is
  about every draft there can be, not only those some edits away from a rule: any of the
  protocols, chains of any length up to `MaxHops`. The errors of the form are put side by side with
  the conditions of `Validate` on the rule that is sent, group by group (credentials,
  protocols, addresses, chains), with `LeftToServer` as their exact difference, and what is read back of that rule is compared field by
  field with the draft.

The assumptions are named where the constants are declared. They say what the code
fixes: that configs are finite, that the names are not `None`, that bounds are numbers.

Each merged property of the runs that is safety and of one of these modules is a theorem,
from those of its parts.

Only model-checked:
- liveness, which is out of the prover's reach: `NoCallIsStuck`, `ReloadsEnd`, `NobodyHangs`,
  `VirtualEnds`, `ClosesEnd`, `EveryRequestEnds`, and of `ImplementsSupervision` that a
  cancelled call ends.

## Not modelled

Names and payloads are model values; log output, labels, translations, markup
and file formats are left out. Protocol servers, proxy chains, the tunnel, systray,
sysproxy and net/http are third-party code and appear only through what they return.
A rule that binds another port updates its own state but not the proxy setting of
the system; `Tray` has that behaviour (`Rebind`) and claims nothing against it.

`ConfigStore` leaves out the loss of power (the directory is not synced after the
rename), an `Init` that fails, which ends the process, and an editor that saves
between the truncation and the write of `Init`.

`Registry` leaves out bytes, rates, the counters of hops and the order of the
targets by activity. After a reset the counters of open connections say 0, so
the target of such a connection counts as idle when a place is needed: in the
code too. `Poller` leaves out delays and the count of failures.

In the web UI: `Router` leaves out a hash typed into the address bar while a
correction is on its way; `RuleForm` has three protocols and short chains, and its text is
from small sets that contain what the checks tell apart; `UrlBuilder` has one layout for
each set of fields, and no URL with a path or parameters other than the builder's;
`Hosts` and `StatsRules` leave out expanded rows, and the counters that are only added
up are one. The theme, the language, the sidebar and toasts are one value each.

What would come next: rates, peaks and the collector of the traffic counters; the
token table of the main-thread dispatcher; for which configs a reload moves the web UI.
