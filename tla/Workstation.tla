---------------------------- MODULE Workstation ----------------------------
(***************************************************************************)
(* The files that the commands of one machine share: config.toml,          *)
(* accounts.toml and the promoted strategies, and the commands that load   *)
(* and save them from several shells: `setup -i', `setup init', `setup     *)
(* account', `config set' and `strategy fetch' (main.rs, setup_wizard.rs,  *)
(* accounts_config.rs, app_config.rs, strategy_registry.rs).               *)
(*                                                                         *)
(* Nothing locks a file.  A save truncates it and then writes it.          *)
(***************************************************************************)
EXTENDS Integers

CONSTANTS
  Shells,       \* where commands run, one at a time in each
  AccountIds,   \* the ids that users choose
  TemplateId,   \* the account of the template ("binance-sandbox")
  Supported,    \* the ids of accounts at an exchange that CcxtBroker knows
  Names,        \* the strategies of the registry
  Versions,     \* API versions that their releases may have
  ApiVersion,   \* API_VERSION of the runtime
  MaxCommands,  \* bound on the commands started
  MaxAdded,     \* bound on the accounts that one setup adds
  MaxKilled     \* bound on the commands killed

ASSUME WorkstationAssumption ==
  /\ ApiVersion \in Versions
  /\ TemplateId \in Supported /\ Supported \subseteq AccountIds
  /\ "" \notin AccountIds   \* it stands for no id
  /\ {MaxCommands, MaxAdded, MaxKilled} \subseteq Nat

VARIABLES
  accounts,   \* accounts.toml: whether it exists and parses, and its list
  config,     \* config.toml: the same, and what its two checked settings say
  dir,        \* dir[n]: what <n>.wasm and <n>.registry.json hold
  shell,      \* what runs in each shell
  commands,   \* history: commands started, killed; an unknown exchange was typed;
              \*   two commands have run at a time
  confirmed,  \* history: the accounts added and not removed since
  disturbed,  \* history: accounts.toml was cut off, or saved from a list that was stale
  overlapped, \* history: a command that runs has not run alone
  ready       \* history: a setup succeeded, and no command was started since

vars == <<accounts, config, dir, shell, commands, confirmed, disturbed, overlapped, ready>>

\* A database URL and a backend are good or not, on this machine.
Configs == [url : BOOLEAN, backend : BOOLEAN]

\* A list of accounts: how many entries each id has, as nothing
\* depends on their order.
NoAccounts     == [id \in AccountIds |-> 0]
Ids(list)      == {id \in AccountIds : list[id] > 0}
Push(list, id) == [list EXCEPT ![id] = @ + 1]
Retain(list, id) == [list EXCEPT ![id] = 0]

Nowhere == [at |-> "idle", id |-> "", ids |-> NoAccounts, stale |-> FALSE,
            cfg |-> [url |-> FALSE, backend |-> FALSE], next |-> "idle",
            added |-> 0, version |-> ApiVersion]

\* Whether the defaults are good on this machine is unknown.
Init ==
  /\ accounts = [exists |-> FALSE, whole |-> TRUE, ids |-> NoAccounts]
  /\ \E default \in Configs :
       config = [exists |-> FALSE, whole |-> TRUE, now |-> default, default |-> default]
  /\ dir = [n \in Names |-> [wasm |-> "none", meta |-> "none", version |-> ApiVersion]]
  /\ shell = [p \in Shells |-> Nowhere]
  /\ commands = [started |-> 0, killed |-> 0, typed |-> FALSE, crowded |-> FALSE]
  /\ confirmed = {} /\ disturbed = FALSE /\ overlapped = FALSE /\ ready = FALSE

-----------------------------------------------------------------------------
(***************************************************************************)
(* Loading and saving.                                                     *)
(***************************************************************************)
\* A file that does not parse reads as the defaults.
LoadAccounts == IF accounts.exists /\ accounts.whole THEN accounts.ids ELSE NoAccounts
LoadConfig == IF config.exists /\ config.whole THEN config.now ELSE config.default

Then(s, p, at) ==
  IF at = "idle" THEN [s EXCEPT ![p] = Nowhere] ELSE [s EXCEPT ![p].at = at]
Go(p, at) == shell' = Then(shell, p, at)

\* A list that is being written by somebody is read too short.
WithAccounts(p, at, id) ==
  shell' = [shell EXCEPT ![p].at = at, ![p].id = id, ![p].ids = LoadAccounts,
                         ![p].stale = ~accounts.whole]

\* std::fs::write, first half.
OpenAccounts(p, ids, next) ==
  /\ accounts' = [exists |-> TRUE, whole |-> FALSE, ids |-> NoAccounts]
  /\ shell' = [shell EXCEPT ![p].at = "saving accounts", ![p].ids = ids, ![p].next = next]
  /\ UNCHANGED <<config, dir, commands, confirmed, disturbed, overlapped, ready>>

OpenConfig(p, cfg, next) ==
  /\ config' = [config EXCEPT !.exists = TRUE, !.whole = FALSE]
  /\ shell' = [shell EXCEPT ![p].at = "saving config", ![p].cfg = cfg, ![p].next = next]
  /\ UNCHANGED <<accounts, dir, commands, confirmed, disturbed, overlapped, ready>>

\* A list that others have loaded, and are about to save, is stale from now on.
Aged(p, s) ==
  [q \in Shells |->
     IF q # p /\ s[q].at \in {"add", "remove", "push", "saving accounts"}
     THEN [s[q] EXCEPT !.stale = TRUE] ELSE s[q]]

SaveAccounts(p) ==
  /\ shell[p].at = "saving accounts"
  /\ accounts' = [exists |-> TRUE, whole |-> TRUE, ids |-> shell[p].ids]
  /\ shell' = Aged(p, Then(shell, p, shell[p].next))
  /\ confirmed' = IF shell[p].id \in Ids(shell[p].ids) THEN confirmed \cup {shell[p].id}
                  ELSE IF shell[p].id = "" THEN Ids(shell[p].ids)
                  ELSE confirmed \ {shell[p].id}
  /\ disturbed' = (disturbed \/ shell[p].stale)
  /\ UNCHANGED <<config, dir, commands, overlapped, ready>>

SaveConfig(p) ==
  /\ shell[p].at = "saving config"
  /\ config' = [config EXCEPT !.whole = TRUE, !.now = shell[p].cfg]
  /\ Go(p, shell[p].next)
  /\ UNCHANGED <<accounts, dir, commands, confirmed, disturbed, overlapped, ready>>

StartWith(p, typed) ==
  /\ shell[p].at = "idle" /\ commands.started < MaxCommands
  /\ overlapped' = \E q \in Shells : shell[q].at # "idle"
  /\ commands' = [commands EXCEPT !.started = @ + 1, !.typed = @ \/ typed,
                                  !.crowded = @ \/ overlapped']
  /\ ready' = FALSE

Start(p) == StartWith(p, FALSE)
Started == UNCHANGED <<accounts, config, dir, confirmed, disturbed>>
Same == UNCHANGED <<accounts, config, dir, commands, confirmed, disturbed, overlapped, ready>>

-----------------------------------------------------------------------------
(***************************************************************************)
(* setup account add and remove.                                           *)
(***************************************************************************)
\* The command line takes any exchange.
AccountCommand(p) ==
  /\ Started
  /\ \E id \in AccountIds, at \in {"add", "remove"} :
       /\ StartWith(p, at = "add" /\ id \notin Supported)
       /\ WithAccounts(p, at, id)

\* Nothing to add, no credentials, or nothing to remove.
AccountRefused(p) ==
  /\ shell[p].at \in {"add", "remove"}
  /\ shell[p].at = "remove" => shell[p].id \notin Ids(shell[p].ids)
  /\ Go(p, "idle") /\ Same

AccountAdd(p) ==
  /\ shell[p].at = "add" /\ shell[p].id \notin Ids(shell[p].ids)
  /\ OpenAccounts(p, Push(shell[p].ids, shell[p].id), "idle")

AccountRemove(p) ==
  /\ shell[p].at = "remove" /\ shell[p].id \in Ids(shell[p].ids)
  /\ OpenAccounts(p, Retain(shell[p].ids, shell[p].id), "idle")

-----------------------------------------------------------------------------
(***************************************************************************)
(* setup init [--force] and config set.                                    *)
(***************************************************************************)
SetupInit(p) ==
  /\ Start(p) /\ Started
  /\ \E at \in {"init", "force"} :
       shell' = [shell EXCEPT ![p].at = at, ![p].id = "", ![p].stale = FALSE]

\* The templates say what the defaults say, and name one account.
ConfigTemplate == config.default
AccountsTemplate == Push(NoAccounts, TemplateId)

InitConfig(p) ==
  /\ shell[p].at \in {"init", "force"}
  /\ LET next == IF shell[p].at = "force" THEN "force accounts" ELSE "init accounts"
     IN IF config.exists /\ shell[p].at = "init" THEN Go(p, next) /\ Same
        ELSE OpenConfig(p, ConfigTemplate, next)

InitAccounts(p) ==
  /\ shell[p].at \in {"init accounts", "force accounts"}
  /\ IF accounts.exists /\ shell[p].at = "init accounts" THEN Go(p, "idle") /\ Same
     ELSE OpenAccounts(p, AccountsTemplate, "idle")

ConfigSet(p) ==
  /\ Start(p) /\ Started
  /\ \E url, backend \in BOOLEAN :
       /\ url = LoadConfig.url \/ backend = LoadConfig.backend
       /\ shell' = [shell EXCEPT ![p].at = "set",
                                 ![p].cfg = [url |-> url, backend |-> backend]]

ConfigSaved(p) == shell[p].at = "set" /\ OpenConfig(p, shell[p].cfg, "idle")

-----------------------------------------------------------------------------
(***************************************************************************)
(* setup -i.                                                               *)
(***************************************************************************)
Wizard(p) ==
  /\ Start(p) /\ Started
  /\ shell' = [shell EXCEPT ![p].at = "wizard", ![p].added = 0]

\* Deviation: the defaults stay in memory.
DefaultsInMemory(p) ==
  /\ shell[p].at = "wizard"
  /\ shell' = [shell EXCEPT ![p].at = "database", ![p].cfg = LoadConfig] /\ Same

LoadOrCreateConfig(p) ==
  /\ shell[p].at = "wizard"
  /\ IF config.exists
     THEN shell' = [shell EXCEPT ![p].at = "database", ![p].cfg = LoadConfig] /\ Same
     ELSE OpenConfig(p, config.default, "database")

\* A URL that does not connect is kept, or replaced and saved.
StepDatabase(p) ==
  /\ shell[p].at = "database"
  /\ \/ Go(p, "backend") /\ Same
     \/ /\ ~shell[p].cfg.url
        /\ \E url \in BOOLEAN :
             OpenConfig(p, [shell[p].cfg EXCEPT !.url = url], "database")

\* The whole configuration is saved, as it was loaded when the wizard started.
StepLlmBackend(p) ==
  /\ shell[p].at = "backend"
  /\ \/ Go(p, "accounts") /\ Same
     \/ \E found \in BOOLEAN :
          OpenConfig(p, [shell[p].cfg EXCEPT !.backend = found], "backend")

\* The wizard offers the exchanges of the broker's configuration fields.
Offered == Supported

AddAccountInteractive(p) ==
  /\ shell[p].at = "accounts" /\ shell[p].added < MaxAdded
  /\ \E id \in Offered \ Ids(LoadAccounts) : WithAccounts(p, "testing", id)
  /\ Same

\* No connection, and not wanted without.
NotSaved(p) == shell[p].at = "testing" /\ Go(p, "accounts") /\ Same

\* Deviation: the list is the one that the id was checked against.
KeepsList(p) ==
  /\ shell[p].at = "testing"
  /\ shell' = [shell EXCEPT ![p].at = "push", ![p].added = @ + 1]
  /\ Same

\* The list is loaded again after the connection test, and the id not checked again.
Reload(p) ==
  /\ shell[p].at = "testing"
  /\ shell' = [shell EXCEPT ![p].at = "push", ![p].ids = LoadAccounts,
                            ![p].stale = ~accounts.whole, ![p].added = @ + 1]
  /\ Same

PushAccount(p) ==
  /\ shell[p].at = "push"
  /\ OpenAccounts(p, Push(shell[p].ids, shell[p].id), "accounts")

Unique(list) == \A id \in AccountIds : list[id] <= 1

\* setup validate.
ValidButForIds == config.exists /\ accounts.exists /\ LoadConfig.url /\ LoadConfig.backend
Valid == ValidButForIds /\ Unique(LoadAccounts)

\* What the daemon and `trade start' need: a broker for every account.
Builds(id) == id \in Supported
ManagerStarts == \A id \in Ids(LoadAccounts) : Builds(id)

\* A setup that got all that it asked for.
Complete(p) == shell[p].added > 0 /\ shell[p].cfg.url /\ shell[p].cfg.backend

PrintSummary(p) ==
  /\ shell[p].at = "accounts"
  /\ Go(p, "idle")
  /\ ready' = (Complete(p) /\ ~overlapped)
  /\ UNCHANGED <<accounts, config, dir, commands, confirmed, disturbed, overlapped>>

-----------------------------------------------------------------------------
(***************************************************************************)
(* strategy fetch, and what reads the directory.                           *)
(***************************************************************************)
StrategyFetch(p) ==
  /\ Start(p) /\ Started
  /\ \E name \in Names, version \in Versions :
       shell' = [shell EXCEPT ![p].at = "fetched", ![p].id = name, ![p].version = version]

\* No such release, no download, or a module that does not load or is for another API.
FetchFails(p) == shell[p].at = "fetched" /\ Go(p, "idle") /\ Same

Files(p, from, to, name, entry) ==
  /\ shell[p].at = from
  /\ dir' = [dir EXCEPT ![name] = entry]
  /\ Go(p, to)
  /\ UNCHANGED <<accounts, config, commands, confirmed, disturbed, overlapped, ready>>

Entry(p) == dir[shell[p].id]

\* Deviation: the metadata is written first.
MetadataFirst(p) ==
  /\ shell[p].version = ApiVersion
  /\ Files(p, "fetched", "wasm", shell[p].id, [Entry(p) EXCEPT !.meta = "whole"])

ValidateModule(p) ==
  /\ shell[p].version = ApiVersion
  /\ Files(p, "fetched", "wasm", shell[p].id, [Entry(p) EXCEPT !.wasm = "torn"])

SaveWasm(p) ==
  Files(p, "wasm", "module saved", shell[p].id,
        [Entry(p) EXCEPT !.wasm = "whole", !.version = shell[p].version])

OpenMetadata(p) ==
  Files(p, "module saved", "metadata", shell[p].id, [Entry(p) EXCEPT !.meta = "torn"])

SaveMetadata(p) ==
  Files(p, "metadata", "idle", shell[p].id, [Entry(p) EXCEPT !.meta = "whole"])

\* WasmExecutor::load: half a file is no module.
Loads(n) == dir[n].wasm = "whole"

\* list_installed reads metadata only, and one file that does not parse spoils the
\* list; a trader loads what is a module, a backtest the one it is asked for.
ListFails == \E n \in Names : dir[n].meta = "torn"
ListInstalled == {n \in Names : dir[n].meta = "whole"}
StrategyInstalled == IF ListFails THEN {} ELSE ListInstalled
LoadWasmFromDir == {n \in Names : Loads(n)}
Backtestable(n) == Loads(n)

-----------------------------------------------------------------------------
Killed(p) ==
  /\ shell[p].at # "idle" /\ commands.killed < MaxKilled
  /\ commands' = [commands EXCEPT !.killed = @ + 1]
  /\ shell' = [shell EXCEPT ![p] = Nowhere]
  /\ disturbed' = (disturbed \/ shell[p].at = "saving accounts")
  /\ UNCHANGED <<accounts, config, dir, confirmed, overlapped, ready>>

Setup(p) ==
  \/ Wizard(p) \/ LoadOrCreateConfig(p) \/ StepDatabase(p) \/ StepLlmBackend(p)
  \/ AddAccountInteractive(p) \/ NotSaved(p) \/ Reload(p) \/ PushAccount(p)
  \/ PrintSummary(p)

Next ==
  \E p \in Shells :
    \/ AccountCommand(p) \/ AccountRefused(p) \/ AccountAdd(p) \/ AccountRemove(p)
    \/ SetupInit(p) \/ InitConfig(p) \/ InitAccounts(p)
    \/ ConfigSet(p) \/ ConfigSaved(p)
    \/ SaveAccounts(p) \/ SaveConfig(p)
    \/ Setup(p)
    \/ StrategyFetch(p) \/ FetchFails(p) \/ ValidateModule(p)
    \/ SaveWasm(p) \/ OpenMetadata(p) \/ SaveMetadata(p)
    \/ Killed(p)

Spec == Init /\ [][Next]_vars

-----------------------------------------------------------------------------
(***************************************************************************)
(* Properties.                                                             *)
(***************************************************************************)
\* Commands that run side by side lose no account and bring none back, unless one
\* saves a list that another has changed since it was loaded, or is killed while it
\* writes.  The wizard, which waits for a connection test, does not.
AccountsKept ==
  ~disturbed /\ accounts.whole => Ids(accounts.ids) = confirmed

\* A wizard that ran alone, reached the database, found the backend and added an
\* account leaves files that `setup validate' accepts, whatever it found: files that
\* are missing, or that an earlier command was killed in.  Two exceptions.  It leaves
\* an id that the list holds twice, which two wizards side by side may have brought
\* there: the ids are unique only if no two commands have ever run at a time.  And an
\* account at an exchange that CcxtBroker does not know, typed in `setup account add',
\* is accepted, and stops the daemon: without one, the daemon starts after any command.
SetupValidates ==
  /\ ready => ValidButForIds
  /\ ready /\ ~commands.crowded => Valid
  /\ commands.typed \/ ManagerStarts

\* A fetch that is killed, or repeated with another release, leaves no metadata
\* without a module, and no module that this runtime cannot run.  Where none was
\* killed, and none runs, `strategy installed' lists what a backtest finds.
Fetching == \E p \in Shells : shell[p].at \in {"wasm", "module saved", "metadata"}
FetchedIsUsable ==
  /\ \A n \in ListInstalled : dir[n].wasm # "none"
  /\ \A n \in LoadWasmFromDir : dir[n].version = ApiVersion
  /\ ~Fetching /\ commands.killed = 0 =>
       ~ListFails /\ StrategyInstalled = {n \in Names : Backtestable(n)}
=============================================================================
