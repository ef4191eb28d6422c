------------------------------ MODULE WebPages ------------------------------
(***************************************************************************)
(* The pages of the web UI, their requests and their questions, each a     *)
(* module of its own, in one specification.                                *)
(* The parts do not interact: `part` says which one a behaviour is about,  *)
(* and the variables that only other parts have are Unused in it.  Parts   *)
(* share a variable where their modules name it alike.                     *)
(***************************************************************************)
EXTENDS Naturals, Sequences

CONSTANTS None, Unused,
          Names, Ports, Chains, MaxWrites,  \* of RuleEditor
          Texts, Saves,                     \* of Yaml
          Fields, MaxClicks,                \* of Overview
          Values, Unusable, MaxSaves,       \* of Settings
          Types, MaxHops, MaxEdits,         \* of RuleForm and UrlBuilder
          Rules, Choices, PageSize, MaxConnections, MaxRestarts,    \* of Connections
          RuleNames, Configs, States, Searches, Sorts, MaxConfigs, MaxVisits,  \* of StatsRules
          URLs, Stats, Uses, MaxEntries,    \* of Hosts
          Requests, Questions               \* of Request and Dialog

VARIABLES part,
          stored, route, savedName, draft, baseline, ready, load, building,
          question, save, removal, told, made, writes, disk, text, reload, been,
          agreed, shown, failed, left, op, late, clicks, doubt, since, put, portInvalid,
          focus, saves, edits, row, builder, live, accepted, nextId, boot, data,
          answer, calls, resetting, rule, routeRule, refused, limit, opened, closed,
          gone, config, asked, known, rules, running, runtime, polled, snapshot, query,
          sort, focusPending, visits, focuses, entries, hosts, at, timer, listening,
          aborted, backend, verdict, host, pending, ticks, open, closing, user

vars == <<part, stored, route, savedName, draft, baseline, ready, load, building,
          question, save, removal, told, made, writes, disk, text, reload, been,
          agreed, shown, failed, left, op, late, clicks, doubt, since, put, portInvalid,
          focus, saves, edits, row, builder, live, accepted, nextId, boot, data,
          answer, calls, resetting, rule, routeRule, refused, limit, opened, closed,
          gone, config, asked, known, rules, running, runtime, polled, snapshot, query,
          sort, focusPending, visits, focuses, entries, hosts, at, timer, listening,
          aborted, backend, verdict, host, pending, ticks, open, closing, user>>

RuleEditor == INSTANCE RuleEditor
Yaml == INSTANCE Yaml
Overview == INSTANCE Overview
Settings == INSTANCE Settings
RuleForm == INSTANCE RuleForm
UrlBuilder == INSTANCE UrlBuilder
Connections == INSTANCE Connections
StatsRules == INSTANCE StatsRules WITH Names <- RuleNames, MaxEdits <- MaxConfigs
Hosts == INSTANCE Hosts
Request == INSTANCE Request
Dialog == INSTANCE Dialog

ASSUME PagesAssumption ==
    /\ RuleEditor!RuleEditorAssumption /\ Yaml!YamlAssumption
    /\ Overview!OverviewAssumption /\ Settings!SettingsAssumption
    /\ RuleForm!RuleFormAssumption /\ UrlBuilder!UrlBuilderAssumption
    /\ Connections!ConnectionsAssumption /\ StatsRules!StatsRulesAssumption
    /\ Hosts!HostsAssumption
    /\ Dialog!DialogAssumption

-----------------------------------------------------------------------------
(* The variables that a part does not have.                                *)

besideRuleEditor == <<disk, text, reload, been, agreed, shown, failed, left, op,
                      late, clicks, doubt, since, put, portInvalid, focus, saves,
                      edits, row, builder, live, accepted, nextId, boot, data,
                      answer, calls, resetting, rule, routeRule, refused, limit,
                      opened, closed, gone, config, asked, known, rules, running,
                      runtime, polled, snapshot, query, sort, focusPending, visits,
                      focuses, entries, hosts, at, timer, listening, aborted,
                      backend, verdict, host, pending, ticks, open, closing, user>>
besideYaml == <<stored, route, savedName, draft, building, question, removal, told,
                made, writes, shown, failed, left, op, late, clicks, doubt, since,
                put, portInvalid, focus, saves, edits, row, builder, live, accepted,
                nextId, boot, data, answer, calls, resetting, rule, routeRule,
                refused, limit, opened, closed, gone, config, asked, known, rules,
                running, runtime, polled, snapshot, query, sort, focusPending,
                visits, focuses, entries, hosts, at, timer, listening, aborted,
                backend, verdict, host, pending, ticks, open, closing, user>>
besideOverview == <<route, savedName, draft, baseline, ready, building, question,
                    save, removal, told, made, writes, disk, text, reload, been,
                    agreed, put, portInvalid, focus, saves, edits, row, builder,
                    live, accepted, nextId, boot, data, answer, calls, resetting,
                    rule, routeRule, refused, limit, opened, closed, gone, config,
                    asked, known, rules, running, runtime, polled, snapshot, query,
                    sort, focusPending, visits, focuses, entries, hosts, at, timer,
                    listening, aborted, backend, verdict, host, pending, ticks,
                    open, closing, user>>
besideSettings == <<stored, route, savedName, building, question, save, removal,
                    made, writes, text, reload, been, agreed, shown, failed, left,
                    op, late, clicks, doubt, since, edits, row, builder, live,
                    accepted, nextId, boot, data, answer, calls, resetting, rule,
                    routeRule, refused, limit, opened, closed, gone, config, asked,
                    known, rules, running, runtime, polled, snapshot, query, sort,
                    focusPending, visits, focuses, entries, hosts, at, timer,
                    listening, aborted, backend, verdict, host, pending, ticks,
                    open, closing, user>>
besideRuleForm == <<stored, route, baseline, ready, load, building, question, save,
                    removal, told, made, writes, disk, text, reload, been, agreed,
                    shown, failed, left, op, late, clicks, doubt, since, put,
                    portInvalid, focus, saves, row, builder, live, accepted, nextId,
                    boot, data, answer, calls, resetting, rule, routeRule, refused,
                    limit, opened, closed, gone, config, asked, known, rules,
                    running, runtime, polled, snapshot, query, sort, focusPending,
                    visits, focuses, entries, hosts, at, timer, listening, aborted,
                    backend, verdict, host, pending, ticks, open, closing, user>>
besideUrlBuilder == <<stored, route, savedName, draft, baseline, ready, load,
                      building, question, save, removal, told, made, writes, disk,
                      text, reload, been, agreed, shown, failed, left, op, late,
                      clicks, doubt, since, put, portInvalid, focus, saves, live,
                      accepted, nextId, boot, data, answer, calls, resetting, rule,
                      routeRule, refused, limit, opened, closed, gone, config,
                      asked, known, rules, running, runtime, polled, snapshot,
                      query, sort, focusPending, visits, focuses, entries, hosts,
                      at, timer, listening, aborted, backend, verdict, host,
                      pending, ticks, open, closing, user>>
besideConnections == <<stored, route, savedName, draft, baseline, ready, building,
                       question, save, removal, told, made, writes, disk, text,
                       reload, been, agreed, shown, failed, left, op, late, clicks,
                       doubt, since, put, portInvalid, focus, saves, edits, row,
                       builder, config, asked, known, rules, running, runtime,
                       polled, snapshot, query, sort, focusPending, visits, focuses,
                       entries, hosts, at, timer, listening, aborted, backend,
                       verdict, host, pending, ticks, open, closing, user>>
besideStatsRules == <<stored, savedName, draft, baseline, ready, load, building,
                      question, save, removal, told, made, writes, disk, text,
                      reload, been, agreed, shown, failed, left, op, late, clicks,
                      doubt, since, put, portInvalid, focus, saves, row, builder,
                      live, accepted, nextId, boot, data, calls, resetting, rule,
                      routeRule, refused, limit, opened, closed, gone, entries,
                      hosts, at, timer, listening, aborted, backend, verdict, host,
                      pending, ticks, open, closing, user>>
besideHosts == <<stored, route, savedName, draft, baseline, ready, load, building,
                 question, save, removal, told, made, writes, disk, text, reload,
                 been, agreed, shown, failed, left, op, late, clicks, doubt, since,
                 put, portInvalid, focus, saves, edits, row, builder, live,
                 accepted, nextId, boot, data, answer, calls, resetting, rule,
                 routeRule, refused, limit, opened, closed, gone, config, asked,
                 known, rules, running, runtime, polled, snapshot, focusPending,
                 visits, focuses, at, timer, listening, aborted, backend, verdict,
                 host, pending, ticks, open, closing, user>>
besideRequest == <<stored, route, savedName, draft, baseline, ready, load, building,
                   question, save, removal, told, made, writes, disk, text, reload,
                   been, agreed, shown, failed, left, op, late, clicks, doubt,
                   since, put, portInvalid, focus, saves, edits, row, builder, live,
                   accepted, nextId, boot, data, calls, resetting, rule, routeRule,
                   refused, limit, opened, closed, gone, config, asked, known,
                   rules, running, runtime, polled, snapshot, query, sort,
                   focusPending, visits, focuses, entries, hosts, host, pending,
                   ticks, open, closing, user>>
besideDialog == <<stored, route, savedName, draft, baseline, ready, load, building,
                  question, save, removal, told, made, writes, disk, text, reload,
                  been, agreed, shown, failed, left, op, late, clicks, doubt, since,
                  put, portInvalid, focus, saves, edits, row, builder, live,
                  accepted, nextId, boot, data, calls, resetting, rule, routeRule,
                  refused, limit, opened, closed, gone, config, asked, known, rules,
                  running, runtime, polled, snapshot, query, sort, focusPending,
                  visits, focuses, entries, hosts, at, timer, listening, aborted,
                  backend, verdict>>

PagesInit ==
    \/ /\ part = "editor" /\ RuleEditor!Init
       /\ disk = Unused /\ text = Unused /\ reload = Unused /\ been = Unused /\ agreed =
          Unused /\ shown = Unused /\ failed = Unused /\ left = Unused /\ op = Unused /\
          late = Unused /\ clicks = Unused /\ doubt = Unused /\ since = Unused /\ put =
          Unused /\ portInvalid = Unused /\ focus = Unused /\ saves = Unused /\ edits =
          Unused /\ row = Unused /\ builder = Unused /\ live = Unused /\ accepted = Unused
          /\ nextId = Unused /\ boot = Unused /\ data = Unused /\ answer = Unused /\ calls
          = Unused /\ resetting = Unused /\ rule = Unused /\ routeRule = Unused /\ refused
          = Unused /\ limit = Unused /\ opened = Unused /\ closed = Unused /\ gone =
          Unused /\ config = Unused /\ asked = Unused /\ known = Unused /\ rules = Unused
          /\ running = Unused /\ runtime = Unused /\ polled = Unused /\ snapshot = Unused
          /\ query = Unused /\ sort = Unused /\ focusPending = Unused /\ visits = Unused
          /\ focuses = Unused /\ entries = Unused /\ hosts = Unused /\ at = Unused /\
          timer = Unused /\ listening = Unused /\ aborted = Unused /\ backend = Unused /\
          verdict = Unused /\ host = Unused /\ pending = Unused /\ ticks = Unused /\ open
          = Unused /\ closing = Unused /\ user = Unused
    \/ /\ part = "yaml" /\ Yaml!Init
       /\ stored = Unused /\ route = Unused /\ savedName = Unused /\ draft = Unused /\
          building = Unused /\ question = Unused /\ removal = Unused /\ told = Unused /\
          made = Unused /\ writes = Unused /\ shown = Unused /\ failed = Unused /\ left =
          Unused /\ op = Unused /\ late = Unused /\ clicks = Unused /\ doubt = Unused /\
          since = Unused /\ put = Unused /\ portInvalid = Unused /\ focus = Unused /\
          saves = Unused /\ edits = Unused /\ row = Unused /\ builder = Unused /\ live =
          Unused /\ accepted = Unused /\ nextId = Unused /\ boot = Unused /\ data = Unused
          /\ answer = Unused /\ calls = Unused /\ resetting = Unused /\ rule = Unused /\
          routeRule = Unused /\ refused = Unused /\ limit = Unused /\ opened = Unused /\
          closed = Unused /\ gone = Unused /\ config = Unused /\ asked = Unused /\ known =
          Unused /\ rules = Unused /\ running = Unused /\ runtime = Unused /\ polled =
          Unused /\ snapshot = Unused /\ query = Unused /\ sort = Unused /\ focusPending =
          Unused /\ visits = Unused /\ focuses = Unused /\ entries = Unused /\ hosts =
          Unused /\ at = Unused /\ timer = Unused /\ listening = Unused /\ aborted =
          Unused /\ backend = Unused /\ verdict = Unused /\ host = Unused /\ pending =
          Unused /\ ticks = Unused /\ open = Unused /\ closing = Unused /\ user = Unused
    \/ /\ part = "overview" /\ Overview!Init
       /\ route = Unused /\ savedName = Unused /\ draft = Unused /\ baseline = Unused /\
          ready = Unused /\ building = Unused /\ question = Unused /\ save = Unused /\
          removal = Unused /\ told = Unused /\ made = Unused /\ writes = Unused /\ disk =
          Unused /\ text = Unused /\ reload = Unused /\ been = Unused /\ agreed = Unused
          /\ put = Unused /\ portInvalid = Unused /\ focus = Unused /\ saves = Unused /\
          edits = Unused /\ row = Unused /\ builder = Unused /\ live = Unused /\ accepted
          = Unused /\ nextId = Unused /\ boot = Unused /\ data = Unused /\ answer = Unused
          /\ calls = Unused /\ resetting = Unused /\ rule = Unused /\ routeRule = Unused
          /\ refused = Unused /\ limit = Unused /\ opened = Unused /\ closed = Unused /\
          gone = Unused /\ config = Unused /\ asked = Unused /\ known = Unused /\ rules =
          Unused /\ running = Unused /\ runtime = Unused /\ polled = Unused /\ snapshot =
          Unused /\ query = Unused /\ sort = Unused /\ focusPending = Unused /\ visits =
          Unused /\ focuses = Unused /\ entries = Unused /\ hosts = Unused /\ at = Unused
          /\ timer = Unused /\ listening = Unused /\ aborted = Unused /\ backend = Unused
          /\ verdict = Unused /\ host = Unused /\ pending = Unused /\ ticks = Unused /\
          open = Unused /\ closing = Unused /\ user = Unused
    \/ /\ part = "settings" /\ Settings!Init
       /\ stored = Unused /\ route = Unused /\ savedName = Unused /\ building = Unused /\
          question = Unused /\ save = Unused /\ removal = Unused /\ made = Unused /\
          writes = Unused /\ text = Unused /\ reload = Unused /\ been = Unused /\ agreed =
          Unused /\ shown = Unused /\ failed = Unused /\ left = Unused /\ op = Unused /\
          late = Unused /\ clicks = Unused /\ doubt = Unused /\ since = Unused /\ edits =
          Unused /\ row = Unused /\ builder = Unused /\ live = Unused /\ accepted = Unused
          /\ nextId = Unused /\ boot = Unused /\ data = Unused /\ answer = Unused /\ calls
          = Unused /\ resetting = Unused /\ rule = Unused /\ routeRule = Unused /\ refused
          = Unused /\ limit = Unused /\ opened = Unused /\ closed = Unused /\ gone =
          Unused /\ config = Unused /\ asked = Unused /\ known = Unused /\ rules = Unused
          /\ running = Unused /\ runtime = Unused /\ polled = Unused /\ snapshot = Unused
          /\ query = Unused /\ sort = Unused /\ focusPending = Unused /\ visits = Unused
          /\ focuses = Unused /\ entries = Unused /\ hosts = Unused /\ at = Unused /\
          timer = Unused /\ listening = Unused /\ aborted = Unused /\ backend = Unused /\
          verdict = Unused /\ host = Unused /\ pending = Unused /\ ticks = Unused /\ open
          = Unused /\ closing = Unused /\ user = Unused
    \/ /\ part = "form" /\ RuleForm!Init
       /\ stored = Unused /\ route = Unused /\ baseline = Unused /\ ready = Unused /\ load
          = Unused /\ building = Unused /\ question = Unused /\ save = Unused /\ removal =
          Unused /\ told = Unused /\ made = Unused /\ writes = Unused /\ disk = Unused /\
          text = Unused /\ reload = Unused /\ been = Unused /\ agreed = Unused /\ shown =
          Unused /\ failed = Unused /\ left = Unused /\ op = Unused /\ late = Unused /\
          clicks = Unused /\ doubt = Unused /\ since = Unused /\ put = Unused /\
          portInvalid = Unused /\ focus = Unused /\ saves = Unused /\ row = Unused /\
          builder = Unused /\ live = Unused /\ accepted = Unused /\ nextId = Unused /\
          boot = Unused /\ data = Unused /\ answer = Unused /\ calls = Unused /\ resetting
          = Unused /\ rule = Unused /\ routeRule = Unused /\ refused = Unused /\ limit =
          Unused /\ opened = Unused /\ closed = Unused /\ gone = Unused /\ config = Unused
          /\ asked = Unused /\ known = Unused /\ rules = Unused /\ running = Unused /\
          runtime = Unused /\ polled = Unused /\ snapshot = Unused /\ query = Unused /\
          sort = Unused /\ focusPending = Unused /\ visits = Unused /\ focuses = Unused /\
          entries = Unused /\ hosts = Unused /\ at = Unused /\ timer = Unused /\ listening
          = Unused /\ aborted = Unused /\ backend = Unused /\ verdict = Unused /\ host =
          Unused /\ pending = Unused /\ ticks = Unused /\ open = Unused /\ closing =
          Unused /\ user = Unused
    \/ /\ part = "builder" /\ UrlBuilder!Init
       /\ stored = Unused /\ route = Unused /\ savedName = Unused /\ draft = Unused /\
          baseline = Unused /\ ready = Unused /\ load = Unused /\ building = Unused /\
          question = Unused /\ save = Unused /\ removal = Unused /\ told = Unused /\ made
          = Unused /\ writes = Unused /\ disk = Unused /\ text = Unused /\ reload = Unused
          /\ been = Unused /\ agreed = Unused /\ shown = Unused /\ failed = Unused /\ left
          = Unused /\ op = Unused /\ late = Unused /\ clicks = Unused /\ doubt = Unused /\
          since = Unused /\ put = Unused /\ portInvalid = Unused /\ focus = Unused /\
          saves = Unused /\ live = Unused /\ accepted = Unused /\ nextId = Unused /\ boot
          = Unused /\ data = Unused /\ answer = Unused /\ calls = Unused /\ resetting =
          Unused /\ rule = Unused /\ routeRule = Unused /\ refused = Unused /\ limit =
          Unused /\ opened = Unused /\ closed = Unused /\ gone = Unused /\ config = Unused
          /\ asked = Unused /\ known = Unused /\ rules = Unused /\ running = Unused /\
          runtime = Unused /\ polled = Unused /\ snapshot = Unused /\ query = Unused /\
          sort = Unused /\ focusPending = Unused /\ visits = Unused /\ focuses = Unused /\
          entries = Unused /\ hosts = Unused /\ at = Unused /\ timer = Unused /\ listening
          = Unused /\ aborted = Unused /\ backend = Unused /\ verdict = Unused /\ host =
          Unused /\ pending = Unused /\ ticks = Unused /\ open = Unused /\ closing =
          Unused /\ user = Unused
    \/ /\ part = "connections" /\ Connections!Init
       /\ stored = Unused /\ route = Unused /\ savedName = Unused /\ draft = Unused /\
          baseline = Unused /\ ready = Unused /\ building = Unused /\ question = Unused /\
          save = Unused /\ removal = Unused /\ told = Unused /\ made = Unused /\ writes =
          Unused /\ disk = Unused /\ text = Unused /\ reload = Unused /\ been = Unused /\
          agreed = Unused /\ shown = Unused /\ failed = Unused /\ left = Unused /\ op =
          Unused /\ late = Unused /\ clicks = Unused /\ doubt = Unused /\ since = Unused
          /\ put = Unused /\ portInvalid = Unused /\ focus = Unused /\ saves = Unused /\
          edits = Unused /\ row = Unused /\ builder = Unused /\ config = Unused /\ asked =
          Unused /\ known = Unused /\ rules = Unused /\ running = Unused /\ runtime =
          Unused /\ polled = Unused /\ snapshot = Unused /\ query = Unused /\ sort =
          Unused /\ focusPending = Unused /\ visits = Unused /\ focuses = Unused /\
          entries = Unused /\ hosts = Unused /\ at = Unused /\ timer = Unused /\ listening
          = Unused /\ aborted = Unused /\ backend = Unused /\ verdict = Unused /\ host =
          Unused /\ pending = Unused /\ ticks = Unused /\ open = Unused /\ closing =
          Unused /\ user = Unused
    \/ /\ part = "rules" /\ StatsRules!Init
       /\ stored = Unused /\ savedName = Unused /\ draft = Unused /\ baseline = Unused /\
          ready = Unused /\ load = Unused /\ building = Unused /\ question = Unused /\
          save = Unused /\ removal = Unused /\ told = Unused /\ made = Unused /\ writes =
          Unused /\ disk = Unused /\ text = Unused /\ reload = Unused /\ been = Unused /\
          agreed = Unused /\ shown = Unused /\ failed = Unused /\ left = Unused /\ op =
          Unused /\ late = Unused /\ clicks = Unused /\ doubt = Unused /\ since = Unused
          /\ put = Unused /\ portInvalid = Unused /\ focus = Unused /\ saves = Unused /\
          row = Unused /\ builder = Unused /\ live = Unused /\ accepted = Unused /\ nextId
          = Unused /\ boot = Unused /\ data = Unused /\ calls = Unused /\ resetting =
          Unused /\ rule = Unused /\ routeRule = Unused /\ refused = Unused /\ limit =
          Unused /\ opened = Unused /\ closed = Unused /\ gone = Unused /\ entries =
          Unused /\ hosts = Unused /\ at = Unused /\ timer = Unused /\ listening = Unused
          /\ aborted = Unused /\ backend = Unused /\ verdict = Unused /\ host = Unused /\
          pending = Unused /\ ticks = Unused /\ open = Unused /\ closing = Unused /\ user
          = Unused
    \/ /\ part = "hosts" /\ Hosts!Init
       /\ stored = Unused /\ route = Unused /\ savedName = Unused /\ draft = Unused /\
          baseline = Unused /\ ready = Unused /\ load = Unused /\ building = Unused /\
          question = Unused /\ save = Unused /\ removal = Unused /\ told = Unused /\ made
          = Unused /\ writes = Unused /\ disk = Unused /\ text = Unused /\ reload = Unused
          /\ been = Unused /\ agreed = Unused /\ shown = Unused /\ failed = Unused /\ left
          = Unused /\ op = Unused /\ late = Unused /\ clicks = Unused /\ doubt = Unused /\
          since = Unused /\ put = Unused /\ portInvalid = Unused /\ focus = Unused /\
          saves = Unused /\ edits = Unused /\ row = Unused /\ builder = Unused /\ live =
          Unused /\ accepted = Unused /\ nextId = Unused /\ boot = Unused /\ data = Unused
          /\ answer = Unused /\ calls = Unused /\ resetting = Unused /\ rule = Unused /\
          routeRule = Unused /\ refused = Unused /\ limit = Unused /\ opened = Unused /\
          closed = Unused /\ gone = Unused /\ config = Unused /\ asked = Unused /\ known =
          Unused /\ rules = Unused /\ running = Unused /\ runtime = Unused /\ polled =
          Unused /\ snapshot = Unused /\ focusPending = Unused /\ visits = Unused /\
          focuses = Unused /\ at = Unused /\ timer = Unused /\ listening = Unused /\
          aborted = Unused /\ backend = Unused /\ verdict = Unused /\ host = Unused /\
          pending = Unused /\ ticks = Unused /\ open = Unused /\ closing = Unused /\ user
          = Unused
    \/ /\ part = "request" /\ Request!Init
       /\ stored = Unused /\ route = Unused /\ savedName = Unused /\ draft = Unused /\
          baseline = Unused /\ ready = Unused /\ load = Unused /\ building = Unused /\
          question = Unused /\ save = Unused /\ removal = Unused /\ told = Unused /\ made
          = Unused /\ writes = Unused /\ disk = Unused /\ text = Unused /\ reload = Unused
          /\ been = Unused /\ agreed = Unused /\ shown = Unused /\ failed = Unused /\ left
          = Unused /\ op = Unused /\ late = Unused /\ clicks = Unused /\ doubt = Unused /\
          since = Unused /\ put = Unused /\ portInvalid = Unused /\ focus = Unused /\
          saves = Unused /\ edits = Unused /\ row = Unused /\ builder = Unused /\ live =
          Unused /\ accepted = Unused /\ nextId = Unused /\ boot = Unused /\ data = Unused
          /\ calls = Unused /\ resetting = Unused /\ rule = Unused /\ routeRule = Unused
          /\ refused = Unused /\ limit = Unused /\ opened = Unused /\ closed = Unused /\
          gone = Unused /\ config = Unused /\ asked = Unused /\ known = Unused /\ rules =
          Unused /\ running = Unused /\ runtime = Unused /\ polled = Unused /\ snapshot =
          Unused /\ query = Unused /\ sort = Unused /\ focusPending = Unused /\ visits =
          Unused /\ focuses = Unused /\ entries = Unused /\ hosts = Unused /\ host =
          Unused /\ pending = Unused /\ ticks = Unused /\ open = Unused /\ closing =
          Unused /\ user = Unused
    \/ /\ part = "dialog" /\ Dialog!Init
       /\ stored = Unused /\ route = Unused /\ savedName = Unused /\ draft = Unused /\
          baseline = Unused /\ ready = Unused /\ load = Unused /\ building = Unused /\
          question = Unused /\ save = Unused /\ removal = Unused /\ told = Unused /\ made
          = Unused /\ writes = Unused /\ disk = Unused /\ text = Unused /\ reload = Unused
          /\ been = Unused /\ agreed = Unused /\ shown = Unused /\ failed = Unused /\ left
          = Unused /\ op = Unused /\ late = Unused /\ clicks = Unused /\ doubt = Unused /\
          since = Unused /\ put = Unused /\ portInvalid = Unused /\ focus = Unused /\
          saves = Unused /\ edits = Unused /\ row = Unused /\ builder = Unused /\ live =
          Unused /\ accepted = Unused /\ nextId = Unused /\ boot = Unused /\ data = Unused
          /\ calls = Unused /\ resetting = Unused /\ rule = Unused /\ routeRule = Unused
          /\ refused = Unused /\ limit = Unused /\ opened = Unused /\ closed = Unused /\
          gone = Unused /\ config = Unused /\ asked = Unused /\ known = Unused /\ rules =
          Unused /\ running = Unused /\ runtime = Unused /\ polled = Unused /\ snapshot =
          Unused /\ query = Unused /\ sort = Unused /\ focusPending = Unused /\ visits =
          Unused /\ focuses = Unused /\ entries = Unused /\ hosts = Unused /\ at = Unused
          /\ timer = Unused /\ listening = Unused /\ aborted = Unused /\ backend = Unused
          /\ verdict = Unused

PagesNext ==
    \/ part = "editor" /\ RuleEditor!Next /\ UNCHANGED <<part, besideRuleEditor>>
    \/ part = "yaml" /\ Yaml!Next /\ UNCHANGED <<part, besideYaml>>
    \/ part = "overview" /\ Overview!Next /\ UNCHANGED <<part, besideOverview>>
    \/ part = "settings" /\ Settings!Next /\ UNCHANGED <<part, besideSettings>>
    \/ part = "form" /\ RuleForm!Next /\ UNCHANGED <<part, besideRuleForm>>
    \/ part = "builder" /\ UrlBuilder!Next /\ UNCHANGED <<part, besideUrlBuilder>>
    \/ part = "connections" /\ Connections!Next /\ UNCHANGED <<part, besideConnections>>
    \/ part = "rules" /\ StatsRules!Next /\ UNCHANGED <<part, besideStatsRules>>
    \/ part = "hosts" /\ Hosts!Next /\ UNCHANGED <<part, besideHosts>>
    \/ part = "request" /\ Request!Next /\ UNCHANGED <<part, besideRequest>>
    \/ part = "dialog" /\ Dialog!Next /\ UNCHANGED <<part, besideDialog>>

Spec == PagesInit /\ [][PagesNext]_vars

-----------------------------------------------------------------------------
(* Properties, each of one part, with the types of its variables.          *)

\* RuleEditor: a form without unsaved changes shows what the backend last told of
\* its rule, and a rule that was created is not created again.
EditorIsTrue ==
    part = "editor" =>
        RuleEditor!RuleEditorTypeOK /\ RuleEditor!CleanIsStored /\ RuleEditor!SecondIsPut

\* Yaml: a text without unsaved changes was on disk, and no answer replaces one
\* that was typed.
YamlIsKept ==
    /\ [](part = "yaml" => Yaml!YamlTypeOK /\ Yaml!CleanWasOnDisk)
    /\ [][part = "yaml" => Yaml!TypedKept]_vars

\* Overview: the list ends as what is stored, but for the writes of others and those
\* without an answer that are applied after the last read; a switch writes back
\* fields that are not older than its click, and a page that was left sends no write.
OverviewIsTrue ==
    /\ [](part = "overview" =>
            Overview!OverviewTypeOK /\ Overview!ShowsStored /\ Overview!HiddenKept)
    /\ [][part = "overview" => Overview!NothingSent]_vars

\* Settings: the save of one form takes nothing typed in the other for saved.
CleanFormIsTold == part = "settings" => Settings!SettingsTypeOK /\ Settings!CleanFormIsTold

\* RuleForm: the form refuses what the server would refuse, but for what it leaves to
\* the server, and nothing good but by its own rules; what it saved reopens as itself.
FormMirrorsServer ==
    part = "form" =>
        RuleForm!RuleFormTypeOK /\ RuleForm!FormMirrorsServer /\ RuleForm!Reopens

\* Connections: rows keep their identity over polls, closes and restarts.
RowsKeepIdentity ==
    part = "connections" => Connections!ConnectionsTypeOK /\ Connections!RowsKeepIdentity

\* StatsRules: a row for each rule of the list, two of one name too, and one for each
\* other name of the snapshot, and a focus that was asked for.
RulesAreWhole ==
    part = "rules" =>
        StatsRules!StatsRulesTypeOK /\ StatsRules!RowsAreWhole /\ StatsRules!FocusIsAsked

\* Hosts: the sums of the page are those of the snapshot.
HostsConserve == part = "hosts" => Hosts!HostsTypeOK /\ Hosts!HostsConserve

\* Request: the pages may trust a verdict, and every request comes to one.
VerdictIsSound ==
    part = "request" =>
        Request!RequestTypeOK /\ Request!VerdictIsSound /\ Request!LimitIsSet

\* Dialog and UrlBuilder: an answer is the user's, no question waits out of sight,
\* and a URL that was built reopens as what was typed exactly when its host is one.
AnswerIsUsers ==
    /\ part = "dialog" => Dialog!DialogTypeOK /\ Dialog!AnswerIsUsers /\ Dialog!NoneIsHidden
    /\ part = "builder" => UrlBuilder!UrlBuilderTypeOK /\ UrlBuilder!BuiltReopens
=============================================================================
