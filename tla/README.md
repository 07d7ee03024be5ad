# A verification project for oxware

oxware is a loader (`loader.exe`), a DLL that the loader's injector brings into a
running game, and the libraries both share. This directory holds TLA+ models of the
parts in which several actors meet: two processes that share a block of memory, two
threads that share a handful of plain `bool`s, and one thread on which messages,
commands, files and panels change the same tables in any order. The modules are
checked with TLC on small instances, and every safety invariant and action property that
a run finds to hold is also proved with TLAPS for every value of the constants; only
liveness is left to TLC alone (section 5).

Only infrastructure is modelled: process and thread life cycle, communication,
configuration, input. What the program does to the game, how an image is mapped into
another process, how the module is kept from being noticed, and the emulation of other
clients are left out on purpose and have status `not_modelled` in `PROJECT.json`.

Paths below are relative to `src/src/` of the repository.

## 1. The system

    loader.exe                                   game process
    +--------------------------------+           +----------------------------------+
    | winmain, CLoader               |           |  module's thread                 |
    |   loop: update GUI frame,      |  IPC      |   CommunicativeDllEntryPoint     |
    |     CBaseInjector::update      |  block    |   COxWare::run / shutdown        |
    | CLoaderUI: buttons, callbacks  | <-------> |      | installs, removes         |
    | CBaseInjector                  |  m_c2m    |      v                           |
    |   CLoadLibrareredDll or        |  m_m2c    |  detours <--- engine's thread    |
    |   CManualMappedDll             |  beats    |   _Host_Frame, CEngine__Unload   |
    +--------------------------------+           |   window messages, menus, binds  |
                                                 +----------------------------------+
       shared by both: variables and commands, configuration, dependencies, console

| Component | State it keeps | Operations | What is hard | What makes it correct |
|---|---|---|---|---|
| Injector session (`injector/BaseInjector.cpp`, `LoadLibrareredDll.cpp`, `InjectedDllCommunicationInterface.cpp`, `cheat/InjectedDllIPCLayerClient.cpp`, `cheat/dllmain.cpp`) | table of injected modules, flags and timers of each, the block | inject, poll, beat, request unload, free, wait at exit | two processes without a lock, either may die, five timeouts, a static that outlives its module | one module at a time; freed only when it left, was asked, or never spoke; final codes are noticed; orphans stop |
| Loader application (`loader/loader.cpp`, `LoaderUI.cpp`) | `m_allow_to_load_again`, `m_should_reinject`, GUI | buttons, callbacks, frame loop, destruction | is closed, or dies, while a module is still there | a button never starts a second module |
| Module life (`cheat/oxware.cpp`) | exit flags, sleep flags | initialize, run, shutdown, put the engine to sleep and wake it | two threads, plain `bool`s, two waits that can meet | detours change only while the engine stands still; it is never left asleep; the end is reported once |
| Detours (`cheat/hook/function_hooks/MemoryFnDetour.*`) | installed or not, the pointer to the original | install, uninstall, the detours themselves | removed while the other thread is in or before one | no call through a cleared pointer, no code run that has been freed |
| User input (`util/UserInput.cpp`, `public/interface/IUserInput.h`) | per key: press lock, two maps of callbacks; binding mode | key down, key up, wheel, add and remove callbacks | repeats, lost "up"s, callbacks that outlive their bind | what is bound runs, what is not does not |
| Bind manager and panel (`util/BindManager.cpp`, `cheat/ui/KeyBinding.cpp`) | per key: type, flags, internal state; what the panel waits for | bind, unbind, unbind all, move, load, flags | callbacks are inserted, never overwritten; one binding mode, two panels | every bind is wired; a pair's two halves match |
| In-commands and panel (`public/BaseInCommand.*`, `cheat/ui/InCommandBinding.cpp`) | key, active | rebind, pressed, released | moved while held, UI shown while held | active only by its key, and never after it went up |
| Configuration (`util/ConfigManager.cpp`, `public/ConfigFile.h`, `cheat/ui/CheatSettings.cpp`, `gui/GUIThemeManager.cpp`) | one json document per file type, files, the theme in the registry | load, write, autosave, final save, restore, delete, rename, use a theme | files rewritten in place, saves after a failed start, two threads without a lock | what was saved is what is loaded; a failed start replaces neither a good file nor the theme |
| Variables and commands (`util/VariableManager.cpp`, `public/BaseVariable.h`) | of each variable its value and its text | split, tokenize, execute, set, clamp, load | quotes, and what ends a line; value and text that are set in two steps | a line runs what it says; a text read again is the value |
| Dependencies (`public/DependencyLoader.cpp`) | list of loaded libraries, interface pointers | load, unload all | a step that fails half way, while hooks already lead into a library | what is set is mapped |
| Menus and contexts (`cheat/ui/OxWareUI.cpp`, `gui/ImGUIPlatformLayer.cpp`) | initialized, contexts, layer, who has the input | first frame, frames, key callbacks, destroy | taken down on another thread than it runs on | made once; the game gets its window and input back |
| Window messages (`util/WindowMsgHandler.cpp`) | original procedure, handlers | hook, dispatch, unhook | unhooked while a message is in it | no call through a cleared procedure |
| Console, other utilities, tier, GUI, hooks of tables, game state, features, image mapping, decryption and emulation | | | drawing, byte work, or the game's own structures | not modelled, see section 8 and `PROJECT.json` |

How they interact: the loader's thread calls `update()` each frame. The injector reads
the block with `ReadProcessMemory` and writes with `WriteProcessMemory`. The module's
thread reads and writes the same block in its own memory. Module thread and engine
thread share the flags of `COxWare`, `CEngineSynchronization` and the hook managers. On
the engine's thread, window messages call `CUserInput`, which calls bind callbacks,
which execute commands, which may call any of the managers. The autosave of the
configuration runs on the module's thread.

`PROJECT.json` lists the hazards at their lines; each names the properties that would
catch it, or says why none covers it yet.

## 2. Modules

| Module | What it is |
|---|---|
| `ModuleLifecycle` | abstract: the life of one injected module seen from outside, and the only reasons for which it may vanish |
| `InjectorSession` | the loader's thread, the module object, the block, the module's thread, crashes of both processes, time |
| `InjectorSession_proofs` | its invariant, and that it implements `ModuleLifecycle` |
| `Standstill` | abstract: the module takes itself apart only while the engine stands still or cannot come in, and afterwards only lets it go |
| `EngineSync` | the module's thread and the engine's thread in the target process |
| `EngineSync_proofs` | its invariant, five safety properties, and that it implements `Standstill` |
| `KeyBinds` | keys, binds, one in-command, the binding mode and its two panels |
| `KeyBinds_proofs` | its invariant and four safety properties |
| `SettingsRegister` | abstract: settings that are held while a session is open, and what is stored in between |
| `ConfigStore`, `MCConfigStore` | the configuration over many sessions: the module's and the engine's thread, the files, the registry |
| `ConfigStore_proofs` | its invariant, three properties, and that it implements `SettingsRegister` |
| `UiSession` | libraries, user interface and window procedure, from the first frame to the end of the module |
| `UiSession_proofs` | its invariant, four safety properties, and that it implements `Standstill` |
| `CommandLine`, `MCCommandLine` | lines of commands: split, cut into tokens, run; variables with their values and texts |
| `SequenceLemmas` | induction over naturals, loops over a sequence, pieces of sequences |
| `CommandLine_lines` | what the two scanners compute for a line of any length |
| `CommandLine_proofs` | the invariant of `CommandLine` and its five properties |

Most specifications are instantiated by the `.cfg` files directly: their parameters are
CONSTANTS that take numbers, strings or model values. `MCConfigStore` and `MCCommandLine`
define the functions and the set of lines their constants stand for.
Definitions with a comment "mutant" are variants of the definition that follows them,
each with one plausible bug; they are used by no specification. `PROJECT.json` pairs
each with the property it breaks.

### InjectorSession

| State | Code |
|---|---|
| `lpc`, `closing` | where the loader's thread is in its frame, in `update()` or in `destroy()` |
| `listed`, `unloaded`, `requested`, `seen` | the entry in `m_injected_dlls`, `m_unloaded`, `m_requested_injected_dll_unload`, the local copy of the block |
| `lastCode`, `reinject`, `allow` | the function-local static `last_code`, `m_should_reinject`, `m_allow_to_load_again` |
| `c2m`, `m2c`, `beat` | `m_c2m`, `m_m2c`, and whether the sequence number is one the client has not compared yet |
| `mem`, `game`, `cpc` | the module's memory, the target process, the module's thread |
| `age` | time since each of the five timers was started, counted up to just past its limit |

Each read and each write of the block is an action of its own: the loader's poll is
`PollRead`, `PollBeat` and one of the evaluating actions, so that the module can post
between them. `Free` has the module's thread crash if it still executes in the image,
and takes the game down with it. `GameEnds` and `LoaderKilled` may come at any step;
`GameStarts` gives the loader a target again. How the image gets into the process is one step that succeeds
or fails (`StartInjection \/ NoInjection`).

The model has one entry in the table: `MODULE_CHEAT` is the only module anyone injects.
It has one incarnation of the loader. The module's tear-down is the step from `stop` to
`tail` here and is opened up in `EngineSync`; conversely, `EngineSync` knows the
injector only as `LoaderFrees`.

### EngineSync

`tpc` runs over the module's thread: installing the detours (`put` ... `awake`), the
main loop, removing them, and the last code. `stage` tells the two passes of
`put_engine_in_sleep` / `resume_engine` apart. `epc` runs over the engine's thread:
outside, in the sleep loop of the `_Host_Frame` detour (`loop`), leaving the loop (`exit`),
on the last steps out of the detour after it has said that it is awake (`tail`),
in the original frame, in another detour (`hook`), and in `CEngine__Unload`
(`u_flag` ... `u_tail`). The plain `bool`s are variables of their own and every read
or write of one is an action; `end_cheat_execution(true)`, which sets two of them, is
two actions. The 20-second wait can end without an answer only where the engine can
really be busy for that long: in the game's own code, in `SDL_PumpEvents`, or in
`CEngine__Unload`. The ghost `unsynced` records that a wait did end so (other than by
the engine waiting in `CEngine__Unload`, where it cannot run into a detour), or that there
was no `_Host_Frame` detour to sleep in; properties about patching are stated
for executions without it. That is the limit of what the code can promise, because it
patches after the timeout all the same. Nobody looks at what `install()` returns, so each detour,
`_Host_Frame` and `CEngine__Unload` included, may be missing after the start.

### KeyBinds

Everything here runs on the engine's thread, so an action is a whole message, command,
or frame of a panel. Callbacks are where the state is subtle: `CUserInput` keeps for
each key two maps from an id to a function, and adding an id that is there already
changes nothing. `onPress[k]` is which function is under `vk_<key>` in the first map,
`onRelease` the keys with one in the second; `inCb` and `outCb` are the same for the
in-command. `bind`, `over`, `met` are the bind's type, flags and internal state.
`mode`, `picked`, `callback` are the binding mode of `CUIKeyBinding`; `asked` and `askKey` say which button
of which panel waits. The ghost `hold` remembers, for a key that is down on the bind it
still has, whether its first command ran.

What a bound command does is left open, `ToggleUi` stands for the menu and console keys
and for the game's own UI. `LoadConfig` binds every bindable key to one type; other
files are compositions of it and `AddBind`. `CanClick` requires that no button waits:
in the binding mode the menu takes no input, and the first frame after a pick ends the
wait before the panel looks at clicks.

### ConfigStore

`mpc` runs over `COxWare::run`: start with its failures (`begin` ... `phase2`), main loop,
autosave, the wait for the engine, the final save. `jobs[t]` are the loads and writes a
thread has still to make and `stage[t]` how far the first one is: `GenericConfigFile::write`
is three steps (the stream is opened, which truncates the file, and `m_json` cleared; the
export functions fill it; it is written and closed), `load` is two. Both threads run them
over the one `doc`, so the steps interleave. `overlap[t]` records that they did; then what
is written need not parse. `dirs` is whether `CAppDataManager` knows `config\`; before, a
path is relative to the current directory and no file of the configuration is touched.
`Forget` is both `Unload` and `Die`, at any step: `disk`, `writable` and `reg` stay.
`engine` is where the engine's thread is: not hooked, going through frames (`live`), in the sleep
loop, or in `CEngine__Unload`. Panels change things in frames only (`InFrame`); commands, and
what a bound key changes, also come out of the messages that SDL pumps in the sleep loop, where
the window procedure is still the module's (`OnKey`; `cheat/oxware.cpp:748-751`). `HangEngine` is the
return of the wait, whatever its reason; `Sleep` is a step of the engine's own, before that return or, since
`m_engine_should_sleep` stays set after the wait has given up, at any step of the final save
(`cheat/oxware.cpp:677-680`, `737`). Two ghosts say what became of the last save and of a job: `quiet`, that
the engine was out of its frames before the save began and has run no command since, and
`touched`, that it changed a setting during the job of the module's thread. `saved` lasts to the
end of the session, in which the window procedure is given back: messages are pumped in
the model for longer than in the code. All builds are taken to pump; one that does not has fewer steps.
The name of a theme is what its file says, not what the file is called (`gui/GUIThemeManager.cpp:262`):
`LoadTheme` may find another user theme than the registry names.
`settings` are some entries (a variable with a value, a bind that may be there or not):
what an export says of an entry and what a load does with a missing one is all they differ in.

### UiSession

`mpc` runs over the load of the two libraries, the hooks, and the shutdown: `COxWareUI::destroy`
is five steps (`input` ... `layer`), `CWindowMsgHandler::destroy` two of them. `epc` is the engine's
thread between frames, asleep, or in `CEngine__Unload`. `msg` and `at` are the message in
`wndproc_hook`: at the callbacks, at the return callback, about to call the game's procedure;
each is an action, so the other thread's steps come in between. `pumps` is fixed at the
start: the builds with SDL dispatch messages in the engine's sleep
(`cheat/oxware.cpp:748-751`), the others do not. The handshake of `EngineSync` is one step here
(`EngineAcked`), without its timeout: that a wait can run out is `EngineSync`'s subject. The two
modules are joined by `Standstill`, which both implement: what `UiSession` takes for granted
of the engine is what the flags and waits of `EngineSync` keep. `Standstill` is about detours only;
window messages, which come to a sleeping engine as well, are outside of it.

### CommandLine

`line` is the line `execute_command` is in, `pending` the commands it is still going to run.
A line is a sequence of symbols: words are members of a small set, `" "`, `;` and the quote
are what the scanners tell apart. `SplitStep` and `TokenStep` are one round of the two loops,
with the state the code has (`in_quotes`, the current text, whether it is the last symbol);
`Splitting` and `Tokenizing` are recursive functions that give that state after each round,
`Split` and `Tokens` what is found at the end. `float`, `bool`, `string` are `m_value` and `m_value_string`. `Meaning` and
`Parts` say what a line means without a scanner, from the number of quotes before a symbol,
and are what `LineRuns` compares with.

`TextOf` is `std::to_string`, which writes six decimals, and `NumbersAssumption` says that the numbers it is used
on read back as themselves. That holds for what the program writes so: bounds and defaults are short
decimals, a number that was typed or loaded keeps the text it came with, and the menu's sliders round to the
decimals they show, at most two (the formats in `cheat/ui/rendering_contexts/menu/`, passed on in
`MenuWidgets.cpp:161`). The corner that is left out: a slider at its minimum shows a word ("off") instead of a format, so
the value of the one frame in which it is clicked there is not rounded, and its text may be off by the seventh decimal.

## 3. Runs

| Run | Instance | Shows |
|---|---|---|
| `session` | beat 1, wait 1, poll gap 1, unload 2, initialization 2; about 62,000 states | six properties and the type invariant of the session, with the refinement of `ModuleLifecycle` |
| `session_request` | the same | violation: a second press of "Unload cheat" frees a running module |
| `session_failed` | the same, with fairness | violation: a second module in a row that fails before its first poll is ignored |
| `engine` | two detours; about 12,000 states | nine properties and the type invariant of the two threads, with the refinement of `Standstill` |
| `engine_tells` | one detour | violation: `Init_Failed` is posted for an engine that reports itself |
| `engine_freed` | one detour | violation: the last code of `CEngine__Unload` comes a second too early |
| `keys` | two keys (one cancels the binding mode), one UI; about 1.1 million states | four properties and the type invariant of keys and binds |
| `config` | the autosave's interval and one bind as entries, `saved.json` and `default.json`, two themes from files; about 1.5 million states | five properties and the type invariant, with the refinement of `SettingsRegister` |
| `ui` | one toggle key, one other message, both builds; 3,234 states | six properties and the type invariant of the interface, with the refinement of `Standstill` |
| `command_line` | every line of up to five symbols over five words, space, quote and semicolon; one number, one truth value, one text, one command; about 1.9 million states | four properties and the type invariant |
| `keys_release` | two keys (one unbindable), two UIs | violation: one press over the UI silences a release command for good |
| `keys_asked` | the same | violation: a bind moved to an unbindable key is lost |

The properties, in the words of their modules:

* `ReleaseIsEarned`, `ImplementsLifecycle`: memory goes from under a working module only
  after a request or after its silence through the whole initialization threshold; in
  particular one module at a time, whatever buttons are pressed.
* `NoFalseAlarm`: while the loader lives and polls on time, `heart_beating()` does not
  fail, also during `destroy()`.
* `FinalCodeHandled`, `OrphanStops`, `RequestTerminates`: final codes are noticed though
  the block has no lock, modules without a loader stop, requests end even if the module
  hangs. `FinalCodeHandled` excludes the one code equal to `lastCode`; that exception is
  the finding of `session_failed`: a poll that reads `C2I_None` in between ends it.
* `PatchedWhileHanging`, `NoNullCall`, `UnhookedBeforePost`: the three hazards of
  detours that are changed under another thread.
* `OneLastCode`, `EndIsReported`: two threads may report the end of an
  initialized module; its report stays, and there is one.
* `FreedWhenLeft`: when the injector frees the module, the engine's thread has left its code
  and the module's own has done its work. It names the four exceptions: the second of
  finding 4, the failed start of finding 3, a module thread that the detour has overtaken
  between `m_shutted_down` and its return, and an engine that is overtaken between its
  `m_engine_is_sleeping = false` and its return from `_Host_Frame` (`cheat/oxware.cpp:760`). That it
  holds means there is no fifth.
* `ImplementsStandstill` (of `EngineSync` and of `UiSession`): from the first thing the module
  takes away to the last, the engine stands still in it or has no detour to come in by; then it
  is let go, leaves, and does not come back. `EngineSync` promises this up to the first
  wait that nobody answered, `UiSession` always.
* `AsleepEnds`, `ShutdownEnds`: the two waits that can meet come apart.
* `BindsAreWired`, `InCommandWired`: after any history of binds over binds, moves, loads
  and removals, the callbacks are those the tables call for.
* `InCommandFollowsItsKey`, `NoLoneRelease`: what may start or stop something held, with
  UIs shown and hidden in between.
* `StoreImplements`: seen from outside there is a register: a session opens with exactly what
  the saved file holds, over the defaults; nothing is stored while none is open, whatever
  starts, fails or dies meanwhile. A file that was cut short holds nothing, and a load of it
  applies the document of before, which at the start of a session is what `default.json` got.
* `AloneIsWhole`: a write during which the other thread had no job and changed no setting leaves
  exactly the settings, whatever came before it. `EndStoresAll`: the final save does, and so does the
  theme, if the engine was out of its frames before it began and ran no command out of its sleep. Neither says
  that a sleeping engine stands still: with SDL it does not, and a command that is bound to a
  key pressed in those moments is where the file and the settings may differ.
* `DirtyIsSaved`: with the autosave on, settings that stay get into the file. It is stated as: if from
  some time on the session goes on, with settings that differ from the file and an engine that makes no
  job of its own, then the settings change again and again.
* `ThemeKept`: who may replace the theme in the registry.
* `NeededIsMapped`, `OneLayer`, `GivenBack`, `QuietTeardown`, `ExitEnds`: hooks and pointers
  lead into libraries that are there; the interface is made once, and everything is given back;
  no message finds it half destroyed; every shutdown ends. `QuietTeardown` states its two
  exceptions (section 6).
* `LineRuns`: a line whose quotes are closed, and do not stand in a command's name, runs each of
  its commands once, in order, with the arguments as written. `QuotesProtect`: any line, also a
  malformed one, sets only variables whose name begins a command.
* `InBounds`, `TextRestores`: through typing, menu, loading and clamping.

### Why these bounds

* The session's timers count in ticks; what matters is which of two timers can run out
  first and whether one can run out between any two steps. `PollGap` 1 with `BeatTimeout`
  1 is the tightest assumption the module allows. `UnloadTimeout` is longer than
  `WaitTimeout`, so that a wait in `destroy()` ends both before and after the deadline of
  a request (asked earlier); the initialization threshold spans several polls.
* With two detours, one can be gone while the engine is in the other; the engine is in at
  most one at a time, so a third adds no new pair. The proof covers any set.
* Two keys suffice for a bind, an in-command or a panel to move from one to the other while either is
  held; `lbutton` makes the cancelling case, `ins` the unbindable one. `Wheel` is empty in
  `keys`: a wheel key is one whose "up" never comes, which lost messages already include.
  One UI is enough to be up or not at press and at release; the two violation runs and
  the proof have more.
* In `config`, two entries are needed: the interval decides about the autosave and is itself
  saved, and the other can be unset. Two themes from files are what a file with another theme's name
  needs. Two files are those the code names; a third would be another
  `default.json` that no start rewrites. There is one job per thread and command, as in the code.
* In `command_line`, five symbols are a name, a separator, a quote, a word and one more symbol:
  enough for each scanner state at the end and before the end of a line, and for two commands.
  The lines exclude words that touch (`WholeWords`): they would be another word (the
  theorems do not).
  `Panel` has a number in and one above the bounds, `Stored` one below, a NaN and a text.
* In `ui` nothing is bounded but the kinds of messages; `inits` could grow, and does not.

`CHECK_DEADLOCK FALSE` is set where the system may really stop: the loader and the game
may both be over (`InjectorSession`), the game may have ended (`EngineSync`, `UiSession`). `KeyBinds`,
`ConfigStore` and `CommandLine` are checked for deadlock.

## 4. Fairness

* `InjectorSession`: the loader's loop goes on (it is a loop without a wait other than
  its own sleeps), the module's frames go on while it is in its main loop, and time
  passes. Nothing is assumed of initialization and shutdown, of injection, of users, or
  of the game: each may hang or never happen. Each conjunct is weak fairness of a whole
  thread's step, not of single actions.
* `OnTime` is a safety assumption, not fairness: a poll is never later than `PollGap`
  (at most the client's heartbeat limit). Modal message boxes stop the loop too, but none stands while a
  module is running that needs its beats: those of `update()` (`injector/BaseInjector.cpp:227`, `265`, `269`)
  come when the module did not answer or did not start and is dropped next, that of the panel
  (`loader/LoaderUI.cpp:112`) when nothing was injected.
* `EngineSync`: each thread goes on where only its own code is needed. The game owes no
  frame and no return from one. The main loop ends once it was asked to; leaving it for another
  reason is possible and not assumed.
* `ConfigStore`: the module's frames go on (`Autosave` is due again and again), and so does a
  load or write of its thread, and the end of a save. Nothing is assumed of starts, ends and the
  engine.
* `UiSession`: the module's thread goes on once it shuts down, and a message that is in
  the window procedure is worked off; the engine's frame reaches its detour (`Sleep`) and its
  sleep loop its condition (`Wake`) although messages come in between: strong fairness, since
  each pump handles only the messages that are there.
* `KeyBinds` and `CommandLine` have no fairness and no liveness property: nothing in them has
  to happen.

## 5. Proofs

All theorems are for every value of the constants, from the module's one named
assumption (`ConstantsAssumption`: the timeouts are naturals, `0 < PollGap <= BeatTimeout`;
`KeysAssumption`; in `ConfigStore` that the defaults are settings, and that an entry which
can be unset is so by default; in `UiSession` that a key that toggles is no other message;
in `CommandLine` five, about bounds, numbers, truth values, words and what a configuration
holds; none for `EngineSync`,
where `Detours` is any set). The form is the same everywhere: `IInv` is the inductive
invariant, `InitIInv` and a lemma about every step (`StepIInv`, `StepKeepsIInv`) give
`SpecIInv` or `Invariance` (`Spec => []IInv`), and each property follows from it, an action
property from `IInv` and one step.

* **InjectorSession.** `IInv` adds three parts to the types. `Ownership`: code runs only
  in mapped memory, and a loader that is still there has the module it mapped in its
  table. `Messages`: what the block says about its module, and that what the loader has
  seen is not ahead of it. `Beating`: a listed module is polled within `PollGap`, and a
  running one that has compared the latest beat has not waited longer than the loader was
  silent. `NoFalseAlarm` alone is not inductive: it needs this relation of the two
  clocks and the one bit between them. `SessionImplementsLifecycle` maps each action to
  an action of `ModuleLifecycle` or a stutter; it is the reason for `Messages`.
* **EngineSync.** `IInv` is the type invariant, what the flags imply, and, unless
  `unsynced`, what each place of either thread knows about the other: the handshake, the
  detours while they are put in, while they are taken out and after, which detour the
  engine can be inside, and who has posted a code. Everything but the types is under `~unsynced`
  or about flags that only grow, which is how the timeout's damage is kept out of the proof. It
  gives `OriginalsAreThere`, `HooksGoneBeforePost`, `PatchesAreSafe`, `EndReportedOnce` and
  `FreedAfterBoth`; the last needs that a code is in the block only once the module's thread
  is done or the detour has taken the report over. `KeepsStandstill` goes by the phases of
  `Standstill`: `PhaseSteps` says which steps lead from one to the next; in each phase
  the invariant's part for it (the handshake, what holds while detours are removed, and after)
  leaves the engine few places to be in, and few steps from them.
* **KeyBinds.** `IInv` is the type invariant, `BindsAreWired`, `InCommandWired` and
  `Quiet`, the strengthening of `NoLoneRelease`: a quiet pair has remembered a UI that its
  flags do not allow. `InCommandIsHeld` needs `InCommandWired`, because only then is the callback
  that runs the one of the in-command's own key.
* **ConfigStore.** `IInv` is the types (no document names an unset entry), `Life` and
  `Work` (which jobs there are in each place of either thread, and that the engine has none while
  `quiet`), and three parts the properties rest on: `Fresh` (a write that has been alone since it cleared the document has in it
  exactly the export), `Opening` (what the first load of a session will apply) and `Ending`
  (what a final save has left, while `quiet`). `ExportRestores`, about the data alone, is that exporting and
  loading is the identity; it is what `SessionsOfRegister` needs.
* **UiSession.** `IInv` relates the two program counters: which libraries are mapped where,
  that nothing is torn down unless the engine sleeps or quits, and where a message can be when
  it does. `TeardownIsQuiet` needs all of it, `MadeOnce` that a frame after `destroy()` finds
  `is_cheat_exiting`, the engine asleep, or no detour. `KeepsStandstill` rests on `Away`, the part of
  the invariant about the engine, alone: its counterpart in `EngineSync` has the same form and
  needs the whole handshake for it.
* **CommandLine.** The values first: `IInv` is that value and text of each variable fit
  (`Fits`), with the bounds; lemmas say what `Clamped`, `ReadNumber` and `ReadTruth` return.

  Then the lines, of any length and over any words. The library's induction theorems take an
  operator as a parameter, so `SequenceLemmas` states induction over a set of naturals instead
  (`Induction`, `InductionTo`), and from it that a recursive function of rounds has the values
  its rounds give it (`Loop`). `CommandLine_lines` uses a set "those i for which the loop's
  state after i symbols is what the quotes so far say" and shows it is all of them:
  `SplittingAt` for the loop of `execute_command`, `TokenizingAt` for that of
  `tokenize_command`. Both stop before the last symbol, which the code treats differently;
  the last round is a case of its own and gives `SplitIs` (the commands are the parts
  between the semicolons outside quotes, for any line) and `TokensAre` (the tokens are
  the words, if the quotes are closed; with an open quote it is false, and `LineRuns` says so).
  `Closed` and `PartQuotes` carry the quotes of a line over to its parts, so that
  `WellFormed` of a line gives what `TokensAre` needs of each command.

  `LineRuns` is about the end of a line and not inductive: `LineIs`, its strengthening,
  says in between that for some d what is pending is all but the first d commands, and what
  has been run is what those d mean. `FullInv` joins it with `IInv` and with the types of all
  texts (`StringsTyped`); a text of a variable is a piece of a line without quotes, or one
  from a file, which is what `StoredAssumption` is for. TLC checked the strengthening
  first, on the instance of the run. `QuotesProtect` follows from `FullInv` and one step: a
  pending command is a part of the line, and a name it sets stands where that part begins.

Only model-checked: the liveness properties (`FinalCodeHandled`, `OrphanStops`,
`RequestTerminates`, `AsleepEnds`, `ShutdownEnds`, `EndIsReported`, `DirtyIsSaved`, `ExitEnds`), because
the prover handles neither fairness nor ENABLED.

## 6. Findings

Each is a run that ends with a violation; the run and the line are in `PROJECT.json`.

1. A second unload request while one is pending frees the image at once, in which the
   module's thread still runs (`injector/LoadLibrareredDll.cpp:92`).
2. The static `last_code` survives its module; the second module in a row that fails to
   initialize is neither unloaded nor dropped (`injector/BaseInjector.cpp:235`), if it fails before
   its first poll, which comes within 250 ms: `last_code` follows every code that is read, `C2I_None`
   too (line 313), so that one poll in between is enough for the failure to be noticed.
3. If `initialize()` fails while the engine is in `CEngine__Unload`, both threads report
   the end (`cheat/dllmain.cpp:51` against the comment in `oxware.h:109`).
4. `CEngine__Unload` posts the final code and then sleeps a second in module code, which
   the loader frees meanwhile (`cheat/hook/function_hooks/MemoryFnDetour.cpp:833`).
5. The internal state of a pair is never cleared: one press over the UI and its release
   command never runs again (`util/BindManager.cpp:739`).
6. A bind that is moved to a key that cannot be bound is lost
   (`cheat/ui/KeyBinding.cpp:484`). The callback a cancelled binding mode
   leaves behind (`KeyBinding.cpp:528`) breaks the same property in another way.

### Observations that no run is about

* Configuration. "Restore defaults" after `default.json` was deleted writes the current settings as the
  defaults and loads those (`cheat/ui/CheatSettings.cpp:378-382`). A load in the middle of a
  session keeps the binds the file does not have. The flags of an in-command without a key
  are not exported (`cheat/InCommands.cpp:242-246`). A save in which the engine's thread
  changes settings may store some of before and some of after, the final save too: with SDL the engine
  runs the commands of keys that are pressed in its sleep. `AloneIsWhole` and `EndStoresAll` exclude both, and say
  so by what happened (`touched`, `quiet`), not by where the engine is.
* Interface. `oxware.h:124-128` says that with the engine hung no function of the module is called
  any more. With SDL the engine pumps messages in its sleep, and a message can be in the
  window procedure while it is taken away, its original cleared, and the library freed: this is
  the exception `pumps` of `QuietTeardown`. `m_game_exiting_or_restarting` is never set
  (`MemoryFnDetour.cpp:810` passes one argument), so `OxWareUI.cpp:90` always gives the input
  back. `destroy()` takes missing contexts for an interface that was not made
  (`OxWareUI.cpp:82`): the other exception. A library whose start or interfaces fail stays
  mapped and is in no list (`DependencyLoader.cpp:241-250`). What `initialize` of the message
  handler returns is not looked at (`OxWareUI.cpp:139`).
* Lines of commands. The last symbol always belongs to the last command or token: `say;` is the command
  `say;`. A quoted variable name shifts the text of its value, which is cut by the length of
  the name without quotes (`VariableManager.cpp:431`). `set_from_string` declares an `ok` of its
  own over the one it was given (`BaseVariable.h:202`), so whether "Set" or "Invalid" is
  printed is arbitrary. A text variable does not override the `set_from_string` that a
  line calls (an assertion, `BaseVariable.h:138`). `;;` reaches the assertion of `tokenize_command`.
  NaN passes the clamp. `did_overflow_cmds` counts variables (`VariableManager.cpp:381`).
* Loader. `loader/loader.cpp:152` returns 1 for a failure from a function that returns `bool`.

## 7. Plan

Done, in the order of importance: `ModuleLifecycle` and `InjectorSession` (what the
program exists around: a module that comes, lives and goes without taking the game
down), `EngineSync` (the inside of its coming and going), `KeyBinds` (the largest state
machine on the engine's thread), `SettingsRegister` and `ConfigStore` (what survives it),
`UiSession` (the interface that is taken down under the engine), `CommandLine`,
`Standstill` (what `EngineSync` gives and `UiSession` takes).

What could follow:

1. `InjectorSession` with two incarnations of the loader, for an orphan that is still
   shutting down when a second module arrives.
2. A bound command that changes the binds while its own callback runs, in `KeyBinds`.
3. `ConfigStore`'s own step of the handshake (its final save while the engine sleeps) under
   `Standstill`, as `UiSession`'s is.
4. The console: a print that waits for the mutex against `destroy()`.

## 8. What is not modelled, and why

* The components `PROJECT.json` marks `not_modelled`: drawing and layout (no state a
  property is about), pure I/O and helpers, code that depends on the game's structures,
  and the parts left out on purpose (gameplay effects, hiding, mapping of images, decryption and emulation).
* Torn reads and writes: flags and codes are one byte or one aligned word.
* More than one module in the injector's table (nothing injects a second one).
* A bound command that changes the binds while its own callback runs: it erases from
  the map that is being iterated. Listed as a hazard.
* The pointer hooks of tables (messages, commands): each swaps one pointer, and they are
  taken out while the engine sleeps.
* Registration of variables and commands, and its limits; colours and key-values, which are
  variables with other parsers; what a command does, and what it prints.
* The colours of a theme file, and files that the panels name other than `saved.json` and
  `default.json`; a registry that cannot be opened.
* The six rendering contexts are one that is open or not, and the panels other than
  those of binds, in-commands and configuration only draw.
