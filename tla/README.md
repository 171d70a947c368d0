# Cellframe node: a TLA+ model

The repository holds the host side of a Cellframe node: the program that boots
the modules of the Cellframe SDK and runs them, the tools that configure it, and
the units, installers and services that keep it alive on each platform. The SDK
itself (networking, chains, database) is in submodules that are not part of this
repository; it appears here only through the calls the node makes to it.

What is hard about this code is not in any one function. It is in what happens
between processes: two starts of the node, an updater and a package manager, two
runs of the configuration tool, a user with an editor, binder threads of an
Android service, and a signal or a crash between any two steps of each. Those are
the behaviours the modules describe.

## The system

| Part | State | Operations | Interacts with | What is hard |
|---|---|---|---|---|
| Single-instance check (`sources/cellframe-node.c`, `s_proc_running_check`) | pid file, record lock | open, scan, lock test, truncate, write, lock | every start, the updater's kill | test and lock are apart; the locked bytes depend on the length of the pid; nobody clears the file |
| Node life cycle (`main`, `sig_unix_handler.c`) | modules that are up, exit status | about fifty stages, event loop, deinit calls, exit handler | configuration, supervisor | a stage fails, a signal arrives, the conditions of init and deinit differ |
| Unit, updater, Debian scripts, service commands (`dist.linux/share`, `os/debian`, `conftool/service`) | unit started, enabled; script position; installed version | restart, update, prerm, postinst, remove, install, reboot | the check, the node | a script stopped by what it started; a failed install; a kill by a stale pid; a removal while others act |
| Configuration tool, networks (`conftool/commands`) | `n.cfg` and `n.cfg.dis` | default, ensure, fromtemplate, config | users, installers, the node | look first, act later; interrupted copies and saves |
| Configuration tool, files (`conftool/config`) | lines of a file | config default, ensure | users, installers | which line is meant; rewriting in place; two writers |
| Configuration tool, scripts (`conftool/main.cpp`) | command list, variables, condition stack | parse, run | all commands | nested conditions, dry run |
| Android service (`os/android`, `sources/android`) | started flag, thread field, listeners, clients | startNode, stopNode, run, notifications, onDestroy | clients, `main`, the collector | unlocked fields, a thread that ends early, weak references, lists that change under a walk |
| Node tool (`sources/main_node_tool.c`) | certificate and wallet files | create, copy, rename, metadata | users | several file operations in a row |
| macOS installer (`os/macos/PKGINSTALL`) | backup of the network files, script position | save, restore, setup, clean up | configuration tool, users | interruption between the steps, and the next run on what is left |

What should hold of it: one node per pid file, and a pid file that names it; a
unit that gets its node up; an update that either leaves the old version running
or brings the new one up; a process that serves only when complete and whose exit
status tells the truth; commands that change what they are asked to change and
nothing a user decided; an install that keeps networks and edits; a key that is not
lost once it was reported; a service that reports what is the case. `PROJECT.json`
lists the hazards line by line.

## Modules

**SingleInstance** is the abstract specification of the check: the node's directory
has no owner or one, and it changes hands only through nobody.

**PidFile** is the single-instance check. Each system call is an action of a
process. The file is a sequence of bytes tagged with their writer, so that a file
written by two processes is different from one written by either. `lockf` locks
are regions that start at the current offset: `F_TEST` after a read covers
everything from the end of the file on, `F_TLOCK` after the write covers `LockLen`
bytes behind the digits. `Overlap` says whether starts may overlap. `HostDown` ends
all processes at once and leaves the file. `ImplementsSingleInstance` maps the
processes past the check to the owners of SingleInstance.

**NodeUpdate** extends PidFile to the host: the systemd unit (`svc`, `wanted`,
`enabled`), an operator who runs the bare binary or the service commands of the
configuration tool, `update.sh` with the dpkg run inside it (`upd`), and removal and
installation of the package (`dpkg`, `installed`). Two scripts may run at once, the
operator's and the one that the timer starts as `cellframe-updater.service`; the second
dpkg fails at the lock of the first, and the prerm of either stops the timer's. The run
of the updater that postinst starts is one that the timer may start at that moment.
`Commands` selects what the operator does, one thing at a time. Processes take the
steps of PidFile. systemd is external: stopping a unit ends every process in its control
group, because no unit sets `KillMode`; a reboot starts the unit if it is enabled. When
`rm` or dpkg fails, `set -e` ends the script with the node down, unless the postinst that
dpkg calls for an aborted upgrade, which ignores its arguments, got as far as starting
it. `victims` are the nodes that still ran when a script's `service stop` was done, and
`fired` says that the timer ran the updater during a removal.

**NodeMain** is one life of the process. `Stages` lists the module inits of
`main` in their order, each with the code that `main` returns when it fails (0: it
is only logged) and the condition around it; `DeinitCalls` lists the calls after
the event loop. The exit handler may run at every step. It models the Linux build.

**NetworkConfig** is the directory of network configurations. A command looks, then
acts; a copy creates its file before it fills it, a save truncates it before it writes
it, and both go on with the file they opened when it is renamed (`at`). `fromtemplate`
copies, loads `n.cfg`, replaces the placeholders and saves it; `config` picks one of the
two files, loads it and saves it, saves nothing, or throws at a line without `=`. The
content of a file is abstract: none, partial, the template's, or one with an edit of the
user to a parameter that no `config ensure` names; ConfigFile has the parameters. `wish`
is the state that was last asked for, `raced` the networks on which commands, moves or
edits overlapped, `templated` those on which `fromtemplate` was used.

**MacInstall** extends NetworkConfig with the postinstall script of the macOS package:
its loops over the networks (`ins`, `todo`, `cur`), its backup directory (`bak`), the
copies it makes and the files it removes. In the middle, when the backup is gone, it runs
`default.setup` with one process of the tool: `network n default` for every network and
then one or more `config n` commands for each, which are the tool steps of NetworkConfig;
a command that throws, on a network or on `cellframe-node.cfg`, ends the setup and not
the script. The script may be interrupted at every step; the next run makes a new backup
of what it finds. `edited` are the networks whose file the user changed, `cut` those
whose edit was lost with a copy or a save that was killed in its midst.
On networks that are orderly before an install the clean-up loops never have
anything to remove; they act on the others.

**ConfigFile** is the line editor and the `config` command. `Turn` is one turn of the
loop of `exists`, `Find` the loop, and `SetParam` translates `set`. `Meaning` is an
independent definition of what a file says (the first section of a name, and in it
the first line of the parameter), and the edits are compared with it. A command may set
an empty value, which counts as none, and a dry run (`SaveDry`) ends without a save.

**SetupScript** is how the configuration tool executes a script or the commands of
`--exec`. Lines are abstract (`if`, `endif`, `var`, a command that may throw, one that
nobody accepts, an empty one); texts are literals (`Words`) or references `${v}`.
Lines are parsed one by one, all of them before the first command runs. `stack` and
`store` are the vector and the map of the code: only the top condition is evaluated,
again for each command, and `endif` on an empty stack leads to `undefined`. `Meaning`
is the reference. It looks a text up once (`Value`), evaluates a condition once (`Means`)
and passes over blocks, and shares neither `Holds` nor `Substitute` with the code's part.
The two disagree on the test for a variable that is set, `if ${A}`: the code calls it
`IS_SET` and prints it as `exists` (`ConditionCommand.cpp:32`, `:77`), and computes
`a1val.empty()` (`:78`), the opposite. `Holds` is the code's test; `FlatScriptRight` is
about scripts without it. No shipped script uses it.

**KeyStore** is the node tool on its certificates, wallets and exported keys.
`s_opts` and `Dispatch` are the command table and the loop of `main`; a command that
writes is a sequence of steps (read the source, test the target, open it, write it,
delete the source), and other tools, failed calls and kills come between them.
`rough` marks tools that overlap on a file, and `promised` the private keys that were
reported as created and that no such overlap, and no interrupted `add_metadata`
(`Spoil`), has touched. With `-B` the words of a command are looked for two places too late, so
`HandlerB` finds none; `cert create_pkey` and `cert add_metadata` report success when
their save failed. Both are modelled as they are.

**NodeService** is the Android service. The reads and writes of `isServiceStarted`
and `nodeThread` are separate steps, as no lock protects them, except that `stopNode`
tests its condition in one step. Reads return the last value written: stale values that
the Java memory model would allow for these plain fields are not included. `OnDestroy`
leaves the threads of the service running as `orphans` of the process, and a `stopNode`
that waits goes on waiting for the thread of its own service; a `startNode`, which never
waits, is taken to have returned by then. `ProcessKilled` ends everything.

**NodeNotify** extends NodeService with the way of a notification: from a thread of
the node to the native listeners, and from each of these to the clients of the
service. `walk` is the notification under way with the position of its iterator.
Clients register, also twice, listeners are collected, and the node ends meanwhile. The
call of any client may throw (`ClientThrows`), because it answers with an exception or
because its process is gone; `failed` is its place in the list.

The `*Proofs` modules hold the inductive invariants and the theorems, and **NatFacts**
induction over numbers; the `MC` modules and `.cfg` files give the constants their
values. Operators whose comment begins with "Mutant of" are wrong variants of a
definition. No specification uses them: they show that a property fails when the code
is changed in that way.

## Runs

| Run | Configuration | Distinct states | Shows |
|---|---|---|---|
| `host_serial` | `MCNodeUpdateSerial` | 302,502 | starts one after the other, pids of 3, 5 and 7 digits (regions that meet and that do not), all service commands, two update scripts at once, removal and installation, two faults: one node, truthful pid file, sure kill, complete removal, refinement of PidFile |
| `host_live` | `MCNodeUpdateLive` | 169,584 | two overlapping starts, pids of 3 and 5 digits, 4 locked bytes, two update scripts, one fault: refinement of SingleInstance; no start hangs; the unit's node comes up; an update by hand completes, or rm or dpkg failed or the host went down |
| `node_main` | `MCNodeMain` | 702,484 | all options, every fatal failure, two logged ones, a signal anywhere |
| `network_install` | `MCMacInstall` | 882,358 | two tools, a user and the install script on a network, all commands, dry runs, two kills or interruptions: wishes stand, one file per network, edits are kept, defaults change no complete file they must spare |
| `config_file` | `MCConfigFile` | 1,669,945 | command sequences from every file of up to 3 lines, commands on files of up to 5 lines, empty values, dry runs, one crash |
| `setup_script` | `MCSetupScript` | 2,048,317 | every script of up to 4 lines, and of 5 or 6 lines over the six that interact: an error anywhere means that nothing is done; simple scripts mean what their blocks say; balanced ones stay defined |
| `key_store` | `MCKeyStore` | 1,229,160 | two tools, two certificate names, a wallet, an export path, one fault: reported keys survive; files change only as asked; success is real |
| `service_one_starter` | `MCNodeServiceOne` | 893,880 | a starting and a stopping client, two thread objects that are used again, two listening clients and a list of two, services destroyed and processes killed: one node, its listener in place, true reports, stops that mean what they say and end, notifications that arrive in order |

Four runs show that the code disagrees with what the repository says of it.
`PROJECT.json` quotes the lines.

| Run | What happens |
|---|---|
| `host_sure` | A refused start has overwritten the pid file, and the updater's `kill -9` misses the node. |
| `host_timer` | An update started by the timer is ended by the prerm script of its own dpkg run; the node stays down. |
| `network_template` | `fromtemplate default` enables a network that its user had disabled. |
| `service_report` | A node that ends early leaves the started flag set: it is reported as running for ever. |

Several properties state the case that the code protects and no more. `RemovedIsDown`
excuses a removal during which the timer ran the updater, which prerm does not
prevent. The properties of the Android service speak of one starting client and of
the threads of one service: two clients that start, and nodes that outlive a
destroyed service, meet no protection. `OrderlyWishStands` and its companions leave
out networks in `raced` and `templated` until an install has put them in order again.
`EditsKept` leaves out an edit that was killed in the midst of the copy or save that
carried it. `DefaultsKeepFiles` says of `network default` that it changes nothing but the
file it is creating, whoever races with it; `fromtemplate default` reads and saves `n.cfg`
once more after its copy, so what others wrote there meanwhile is lost, and the property
claims an edited `n.cfg` for it only while nobody else turns to the network. `KeysSurvive`
leaves out the keys in files on which tools overlapped or whose rewriting was cut;
`FilesChangeAsAsked` excuses a tool that overlapped with another for the files it writes
itself, and no others. `StatusTruthful` names a signal, and loop codes that eight bits
cut to 0, as ways to status 0. `HandUpdateCompletes` excuses a failed rm or dpkg.
`NotifiedInOrder` leaves out collected listeners and the clients behind one whose call
threw. Each of these cases is a hazard in `PROJECT.json`, without a property and with a
note.

### Bounds

Two processes are enough for a race of the check; three meet what two left in
`host_serial`, and exclusion is proved for any number. The lengths of the pids matter
only through the overlap of locked regions, and both cases occur. Two faults (deaths
of processes, reboots, failed removals of files and failed installs) let a reboot follow a
failed install, or a second crash follow a recovery. `host_live` has one fault, after
which everything must recover, and leaves the package installed, as its properties speak
of updates. Two logged boot failures cover every pair of modules
that `main` brings up without insisting.

Networks share no file. The install script visits them one by one, so one network and
two interruptions show what a run, its repetition and a third do to it; the theorems
cover any number of networks and interruptions. In a file of three lines all orders
of heading, parameter, comment and stray text occur, and commands extend it up to
five lines before the last one. A script of six lines holds two blocks with a command
each, or a nested pair; one variable is predefined and one is not. Two certificate
names are a rename and its target; no command compares two keys, so one key is
enough. `wallet create` is left out of `key_store`, as it differs from `wallet
create_wp` only in the password; the theorems include it.

Two thread objects are the node that ends and the one that is started meanwhile; an
object whose thread is over is used again once nobody refers to it. One stopping client is
enough for what stops do to a start; the theorems cover any number. Two listening
clients, or one that registered twice (`MaxListeners`), are the one that throws or
registers and the one behind it. Tools, networks and
values are interchangeable in the runs that declare symmetry; these runs check safety
only.

### Fairness

`SysFairSpec` assumes only that a started process goes on executing
the check (none of its calls waits), that systemd starts a unit that is wanted
(`Restart=always`), and that the update script goes on. `NotifyFairSpec` assumes
that a node thread outside `main()` goes on, and that a stop whose thread has ended
returns from `join`: both are threads that can run. Nothing is assumed of users,
timers, faults, notifications, or of `main()` ending; so `StopEnds` begins where
`main()` has returned.

## Theorems

TLAPS proves the following for every value of the constants, under the assumptions
named in the modules.

**NodeUpdateProofs**, the check: `TypeCorrect`, `MutualExclusion`, `PidFileTruthful`,
`EarlyTestDecides`, `CheckImplementsSingleInstance`. The inductive invariant of the
serial case, `SerialInv`, ties four things together: at most one process is inside the
check; a running node is named by the file; a process about to test the lock has the
length of that file as its offset, which is why the tested region meets the node's
lock; and a process past the test knows that nobody runs. `OneNode` alone is not
inductive: it does not say why the test succeeds. With overlapping starts exclusion
rests on the final lock, and needs that the regions of any two pids intersect
(`CloseLengths`). `CheckImplementsSingleInstance` concludes from exclusion before and
after a step that each step acquires, releases or leaves the ownership alone.

**NodeUpdateProofs**, the host: `HostTypeCorrect`; `HostImplementsPidFile`, every step
of the host is a step of PidFile or leaves its variables alone, so the theorems above
hold on the host; `SerialKill`, no node that `service stop` missed survives the kill
while starts do not overlap (victims of either script are running nodes; there is at
most one, and the file names it); `RemovalIsComplete`. Its invariant `RemovalInv` says
that from the moment a removal has stopped the unit no script runs and nobody wants the
unit, that from the moment it was disabled nobody enables it, and that a removal and the
unpacking inside an update exclude each other, as dpkg locks its database.

**NodeServiceProofs**, for any number of threads and stopping clients: `OneThreadRuns`,
`ListenerIsKept`, `ServingIsReported`, `StopIsComplete`. `StartInv` relates the
position of the starting client to the flag and to the one thread that can be live:
the flag is cleared as the last step of that thread, so a start that finds it clear
finds no thread. `StopInv` says that the node a stop found serving has ended or is
the one in the field, until the stop has read the field, and then the one it joins. That
node belongs to the present service as long as the field is unread: a service that is
destroyed leaves the stop with the thread its field held.
`NotifyingIsService` carries all of this over to NodeNotify. `NotifyTypeCorrect` and
`ClientsAreNotified` are about the notification itself: `WalkInv` says that the clients
told so far are those before the iterator, up to the first whose call threw, as long as
nothing disturbed the walk (`Undisturbed`), and that once the walk through a listener
is over all of them were told (`AllTold`).

**NodeMainProofs**, for any codes of the event loop and any number of logged failures:
`MainTypeCorrect`, `DeinitFindsItUp`, `LoopIsUndone`, `ServingIsComplete`,
`StatusIsTruthful`, `DataIsGuarded`. `MainInv` says that at stage `pos` every fatal
stage before it whose condition holds is up and nothing behind it is (`BootInv`), and
that in the middle of deinit what lies behind is down and what is still to be taken
down without tolerance is up (`DeinitInv`). The properties speak of the end of these
walks, and say nothing of their middle. The table of stages is read once, entry by
entry (`Table`), and then used by index.

**MacInstallProofs**, for any networks, tools
and number of interruptions: `MacTypeCorrect`, `OneFile`, `WishesStand`,
`EditsAreKept`, `DefaultsAreSafe`. `MacInv` has a part for each orderly network: what
the one tool at work on it knows of its files, of the file it has open and of what it
has loaded (`NetInv`), and what the backup of the running script holds of it at each loop
(`BakInv`); and a part about the script, which runs while no other tool does
(`ScriptInv`). The states alone are not inductive: that restoring a network does not undo
a wish rests on the backup being its state, and that a `config` command does not undo an
edit rests on its memory being the file it is about to truncate. `DefaultsAreSafe` needs
a second invariant, as it speaks of races, too: `KindInv` says which steps the sparing
commands reach, and `AloneInv` what `fromtemplate default` knows of `n.cfg` (absent before
its copy, partial while it writes, the template's in between) until somebody else turns
to the network.

**KeyStoreProofs**, for any tools, names, keys and number of faults:
`StoreTypeCorrect`, `ReportedKeysSurvive`, `ChangesAreAsked`, `SuccessHolds`.
`StoreInv` says what a tool that shares no file with another knows of its files at
each step (`OwnFiles`): its target is absent before it is opened, partial while it is
written, equal to the memory before the source is deleted. `KeyInv` strengthens
`KeysSurvive`: a key is in a file that no rough tool writes, or in the memory of a tool
that adds metadata alone. `KeysSurvive` by itself is not inductive: a key could be in
no file but one that overlapping tools are rewriting.

**SetupScriptProofs**, for scripts of any length and any variables:
`ScriptTypeCorrect`, `ErrorsChangeNothing`, `BalancedNeverUnderflows`,
`FlatScriptsAreRight`. `ParseInv` says that the lines parsed so far hold no error and
that nothing has run while lines are left. `DepthInv` says that the stack is as deep as
the script is at the next command, which counts its `if` and `endif` lines. `RightInv`
relates the stack machine to the blocks: after `pc - 1` commands of a simple
script (`Simple`: flat and settled, with conditions that compare and values that hold no
references) the machine has run what `Meaning` has run and holds the same variables, and its
one open condition is the last `if`, whose value is still the one it had when the block
was entered. The last part is the hard one: the code evaluates the condition anew for
every command, so the proof needs that no assignment in the block changes what
substitution makes of it. The pass of `Substitute` over all variables equals the single
look-up of `Value` because no value is itself a reference (`NeverHeld`, kept up as `Unheld`).

**ConfigFileProofs**, for files of any length and any number of tools:
`FileTypeCorrect`, `EditsChangeOne`, and, for one tool at a time, `EnsuredValuesStand`.
The lemma `FindMeans` says that the loop of `exists` finds what the file means: a hit
is the line that gives the parameter its value, any other end but the exception means
that the file is silent about it. It follows from what the loop knows after each line
(`Seen`): it is ahead of the section, inside it with nothing but other lines behind, or
at an end. `SetParamMeans` says that replacing a line (`Replaced`), inserting one at the
end of its section (`Added`) or adding a section (`AddedSection`) changes the meaning of
that parameter only; the lines of the old file keep their order and their sections in
the new one (`Moved`). `OrderInv` adds to `EnsuredStands` what the tool at work has in
memory: the file itself before its edit, and after it a copy that says what was ensured
of all parameters but its own; `EnsuredStands` alone says nothing of the copy that is
about to replace the file. A kill while the file is being written, and its re-creation from
the template, end what was ensured: `save` has no second copy.

What the loops of these two modules compute is proved by induction on the number of
lines. The loops are recursive functions. NatFacts derives induction from the
well-foundedness of the numbers, for properties written as sets (`LeastNat`,
`Induction`). With it `PassExists`, `MeaningExists` and `LoopExists` show that a function
with the recursive equation exists for every length, so that its definition may be
unfolded; all else uses the equation only.

The assumptions: a pid has at least one digit and the locked region at least one byte
(PidFile); `NoProc` is not a process (NodeUpdate) and `NoThread` not a thread,
and no client both starts and stops (NodeService); the commands are known ones and the
bounds on faults and on the list of clients are numbers (`ConfigAssumption`,
`MaxFaultsAssumption`, `StoreAssumption`, `MaxListenersAssumption`); names of certificates, wallets and exports differ, as their files
have different suffixes or directories, and the table finds every command under its
own words (`StoreAssumption`); the codes of the event loop are integers
(`CodesAssumption`); the files and scripts consist of the lines that the modules
describe, the predefined variables have texts as values (`SetupAssumption`), an empty
value is not a value, and the tools are finitely many (`FileAssumption`).

Every safety invariant, action property and refinement that a passing run checks is
also a theorem. Only model-checked: liveness (`StartSettles`, `ServiceComesUp`,
`HandUpdateCompletes`, `StopEnds`), because TLAPS handles neither `ENABLED` nor fairness;
and the four counterexamples, which are behaviours.

## Not modelled

- The SDK behind the calls of `main`; the Windows branch of the check.
- The purge of the Debian package, its Python packages, and the desktop tray.
- The substitution of variables in configuration files, which is data to the properties
  here. Two tools that edit one file at once lose an edit: `OrderlyEnsuredStands` speaks
  of one tool.
- What nested blocks of a script, blocks that assign what they test, values that hold
  references and `if ${A}` should mean: the model executes them as the code does, and no
  property speaks of them.
- `s_wallet_sign_file`, which is in no entry of the node tool's table.
- Of the macOS installer: preinstall, permissions, the launch daemon, files with odd
  names, and copies that fail for want of space. Tools that run beside the script.
- Service control on macOS and Windows: launchctl and the registry belong to
  supervisors of which the repository shows only the calls. `confctl.sh`, whose
  commands have a single effect each.
- Of the Android service: the wake lock, whose release depends on the collector; the
  `setup`, `config` and `cli` calls, which pass a line on; the copying of assets; a
  `startNode` under way when the service is destroyed.
  Two notifications at once.
- `node_manager.c` (in no build target), the command line client (no state), the
  development scripts, and the Windows installer (a linear script).
