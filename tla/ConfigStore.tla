----------------------------- MODULE ConfigStore ------------------------------
(***************************************************************************)
(* The configuration of the module over many sessions: CConfigManager and  *)
(* GenericConfigFile (files of the configuration directory), the theme in  *)
(* the registry (CGUIThemeManager), and the panel and commands that change *)
(* both.  The module's thread starts, loads, saves every now and then and  *)
(* saves at the end; the engine's thread runs the panel and the commands.  *)
(* The two share the json document of the file type without a lock, so     *)
(* each step that touches it is an action.  A session may fail to start,   *)
(* and may die at any step; the disk and the registry outlive it.          *)
(***************************************************************************)
EXTENDS Sequences, FiniteSets

CONSTANTS
    Entries,        \* what a file holds: variables, binds, in-commands
    Values,         \* for each entry, what it can be
    Unset,          \* a key without a bind, an in-command without a key
    Default,        \* the settings of a program without a file
    Interval,       \* the entry save_cfg_interval_sec
    Off,            \* its minimum, which turns the autosave off
    UserThemes,     \* themes that come from files
    NoTheme         \* before CGUIThemeManager::initialize

\* An entry that starts with a value (an in-command with a default key) cannot be
\* unset: rebind_key_to(0) is refused.
ASSUME ConstantsAssumption ==
    /\ Default \in [Entries -> UNION {Values[e] : e \in Entries}]
    /\ \A e \in Entries :
         Default[e] \in Values[e] /\ (Unset \in Values[e] => Default[e] = Unset)
    /\ Interval \in Entries
    /\ "white" \notin UserThemes /\ NoTheme \notin UserThemes \cup {"white"}

VARIABLES
    mpc,            \* where the module's thread is, "off" without a module
    mgr,            \* g_config_mgr_i is set
    dirs,           \* m_directories knows "config\\"
    engine,         \* "out": not hooked yet, "live", "asleep", "unload": in its detour
    quiet,          \* ghost: out of frames since before the last save, nothing run since
    jobs,           \* per thread: loads and writes it has still to make
    stage,          \* per thread: how far the first of them is
    overlap,        \* per thread: the other one was busy too during that job
    touched,        \* ghost: a setting was changed during the module's job
    settings,       \* values of the entries
    doc,            \* m_json of the cheat settings file type
    disk,           \* the files of the configuration directory
    writable,       \* whether files there can be opened for writing
    theme,          \* m_current_theme
    reg,            \* "theme_file" in the registry
    origin          \* ghost: where the theme comes from

side == <<engine, quiet>>
running == <<mpc, mgr, dirs, side>>
work == <<jobs, stage, overlap, touched>>
look == <<theme, reg, origin>>
vars == <<running, work, settings, doc, disk, writable, look>>

Threads == {"module", "engine"}
Names == {"saved", "default"}
Themes == UserThemes \cup {"white"}
AnyValue == UNION {Values[e] : e \in Entries}
Settings == {s \in [Entries -> AnyValue] : \A e \in Entries : s[e] \in Values[e]}
Docs == UNION {{d \in [S -> AnyValue] : \A e \in S : d[e] \in Values[e] \ {Unset}} :
                 S \in SUBSET Entries}
Empty == [e \in {} |-> Unset]
Jobs == [do : {"write", "load", "restore"}, name : Names]
Job(do, name) == [do |-> do, name |-> name]

Missing == [state |-> "missing", doc |-> Empty]
Broken == [state |-> "broken", doc |-> Empty]
Whole(d) == [state |-> "whole", doc |-> d]

\* What a file is to say of some settings; what is not set is not exported, or
\* is exported as "unbound", which a load skips.
Export(s) == [e \in {x \in Entries : s[x] # Unset} |-> s[e]]

TypeOK ==
    /\ mpc \in {"off", "begin", "util", "deps", "dirs", "initcfg", "loaded", "phase2",
                "run", "autosave", "hang", "saving", "saved"}
    /\ {mgr, dirs, writable, quiet, touched} \subseteq BOOLEAN
    /\ engine \in {"out", "live", "asleep", "unload"}
    /\ jobs \in [Threads -> Seq(Jobs)]
    /\ stage \in [Threads -> {"idle", "opened", "filled"}]
    /\ overlap \in [Threads -> BOOLEAN]
    /\ settings \in Settings /\ doc \in Docs
    /\ disk \in [Names -> {Missing, Broken} \cup {Whole(d) : d \in Docs}]
    /\ theme \in Themes \cup {NoTheme} /\ reg \in Themes \cup {NoTheme}
    /\ origin \in {"init", "saved", "picked"}

Init ==
    /\ mpc = "off" /\ mgr = FALSE /\ dirs = FALSE /\ engine = "out" /\ quiet = TRUE
    /\ jobs = [t \in Threads |-> <<>>] /\ stage = [t \in Threads |-> "idle"]
    /\ overlap = [t \in Threads |-> FALSE] /\ touched = FALSE
    /\ settings = Default /\ doc = Empty
    /\ disk = [f \in Names |-> Missing] /\ writable \in BOOLEAN
    /\ theme = NoTheme /\ reg = NoTheme /\ origin = "init"

-----------------------------------------------------------------------------
(* Jobs: GenericConfigFile::write and load, by either thread. *)

Other(t) == IF t = "module" THEN "engine" ELSE "module"
IsBusy(t) == stage[t] # "idle"
IsAt(t, where, do) == stage[t] = where /\ jobs[t] # <<>> /\ Head(jobs[t]).do \in do
Reads == {"load", "restore"}
File(t) == Head(jobs[t]).name
Skip(t) == jobs' = [jobs EXCEPT ![t] = Tail(@)]

\* get_config_directory: until the hierarchy is known a relative path is one in
\* the current directory, and the files of the configuration directory stay.
ToDirectory_Guessed(f, content) ==      \* mutant: the directory is always known
    disk' = [disk EXCEPT ![f] = content]
ToDirectory(f, content) ==
    disk' = IF dirs THEN [disk EXCEPT ![f] = content] ELSE disk

BeginJob(t) ==
    /\ stage' = [stage EXCEPT ![t] = "opened"]
    /\ overlap' = [u \in Threads |-> overlap[u] \/ IsBusy(Other(t))]
    /\ UNCHANGED <<jobs, touched>>

EndJob(t) ==
    /\ Skip(t)
    /\ stage' = [stage EXCEPT ![t] = "idle"]
    /\ overlap' = [overlap EXCEPT ![t] = FALSE]
    /\ touched' = IF t = "module" THEN FALSE ELSE touched

\* The stream is opened, which truncates the file, and m_json is cleared.
OpenWrite_Kept(t) ==        \* mutant: m_json is not cleared
    /\ IsAt(t, "idle", {"write"}) /\ writable
    /\ ToDirectory(File(t), Broken)
    /\ BeginJob(t)
    /\ UNCHANGED <<running, settings, doc, writable, look>>
OpenWrite(t) ==
    /\ IsAt(t, "idle", {"write"}) /\ writable
    /\ ToDirectory(File(t), Broken)
    /\ doc' = Empty
    /\ BeginJob(t)
    /\ UNCHANGED <<running, settings, writable, look>>

CannotWrite(t) ==
    /\ IsAt(t, "idle", {"write"}) /\ ~writable
    /\ Skip(t)
    /\ UNCHANGED <<running, stage, overlap, touched, settings, doc, disk, writable, look>>

\* The export functions add every entry that is set.
ExportEntries_Unset(t) ==   \* mutant: what is not set is written as such
    /\ IsAt(t, "opened", {"write"})
    /\ stage' = [stage EXCEPT ![t] = "filled"]
    /\ doc' = settings
    /\ UNCHANGED <<running, jobs, overlap, touched, settings, disk, writable, look>>
ExportEntries(t) ==
    /\ IsAt(t, "opened", {"write"})
    /\ stage' = [stage EXCEPT ![t] = "filled"]
    /\ doc' = [e \in DOMAIN doc \cup DOMAIN Export(settings) |->
                 IF settings[e] # Unset THEN settings[e] ELSE doc[e]]
    /\ UNCHANGED <<running, jobs, overlap, touched, settings, disk, writable, look>>

\* A document that does not parse leaves m_json as it was, and is applied all the same.
ReadFile(t) ==
    /\ IsAt(t, "idle", Reads) /\ disk[File(t)] # Missing
    /\ doc' = IF disk[File(t)] = Broken THEN doc ELSE disk[File(t)].doc
    /\ BeginJob(t)
    /\ UNCHANGED <<running, settings, disk, writable, look>>

\* actions_restore_defaults writes the file that is not there, then loads it.
CannotRead(t) ==
    /\ IsAt(t, "idle", Reads) /\ disk[File(t)] = Missing
    /\ IF Head(jobs[t]).do = "restore"
       THEN jobs' = [jobs EXCEPT ![t] = <<Job("write", "default"), Job("load", "default")>>]
       ELSE Skip(t)
    /\ UNCHANGED <<running, stage, overlap, touched, settings, doc, disk, writable, look>>

\* The load functions: what is not in the document stays as it is.
ApplyEntries(t) ==
    /\ IsAt(t, "opened", Reads)
    /\ settings' = [e \in Entries |-> IF e \in DOMAIN doc THEN doc[e] ELSE settings[e]]
    /\ EndJob(t)
    /\ UNCHANGED <<running, doc, disk, writable, look>>

\* The end of a write puts the document into the file.  If the other thread was
\* in m_json or in the file meanwhile, what comes out need not parse.
EndWrite(t) ==
    /\ IsAt(t, "filled", {"write"})
    /\ \E content \in {Whole(doc)} \cup {b \in {Broken} : overlap[t]} :
          ToDirectory(File(t), content)
    /\ EndJob(t)
    /\ UNCHANGED <<running, settings, doc, writable, look>>

JobStep(t) ==
    \/ OpenWrite(t) \/ CannotWrite(t) \/ ExportEntries(t)
    \/ EndWrite(t) \/ ReadFile(t) \/ CannotRead(t) \/ ApplyEntries(t)

-----------------------------------------------------------------------------
(* The module's thread: COxWare::initialize, run_frame and shutdown. *)

Go(from, to) == mpc = from /\ mpc' = to
Give(t, list) == jobs' = [jobs EXCEPT ![t] = list] /\ UNCHANGED <<stage, overlap, touched>>

Start ==
    /\ Go("off", "begin")
    /\ UNCHANGED <<mgr, dirs, side, work, settings, doc, disk, writable, look>>

LoadUtil ==
    /\ Go("begin", "util")
    /\ mgr' = TRUE
    /\ UNCHANGED <<dirs, side, work, settings, doc, disk, writable, look>>

\* The GUI library, and CGUIThemeManager::initialize, which starts with "white".
LoadGui ==
    /\ Go("util", "deps")
    /\ theme' = "white"
    /\ UNCHANGED <<mgr, dirs, side, work, settings, doc, disk, writable, reg, origin>>

MakeDirectories ==
    /\ Go("deps", "dirs")
    /\ dirs' = TRUE
    /\ UNCHANGED <<mgr, side, work, settings, doc, disk, writable, look>>

InitConfig ==
    /\ Go("dirs", "initcfg")
    /\ Give("module", <<Job("write", "default"), Job("load", "saved")>>)
    /\ UNCHANGED <<mgr, dirs, side, settings, doc, disk, writable, look>>

ConfigReady ==
    /\ Go("initcfg", "loaded") /\ jobs["module"] = <<>>
    /\ UNCHANGED <<mgr, dirs, side, work, settings, doc, disk, writable, look>>

\* initialize_phase2: the engine's thread comes into the module from here on.
InstallHooks ==
    /\ Go("loaded", "phase2")
    /\ engine' = "live" /\ quiet' = FALSE
    /\ UNCHANGED <<mgr, dirs, work, settings, doc, disk, writable, look>>

\* load_font_from_file_if_present: the registry names a built-in theme or a file,
\* which may be gone ("white" again), not hold a theme (the present one stays), or
\* hold one of another name than the file has.
LoadTheme_Never ==          \* mutant: what the registry names is not looked up
    /\ Go("phase2", "run")
    /\ origin' = "saved"
    /\ UNCHANGED <<mgr, dirs, side, work, settings, doc, disk, writable, theme, reg>>
LoadTheme ==
    /\ Go("phase2", "run")
    /\ IF reg = NoTheme THEN UNCHANGED <<theme, origin>>
       ELSE \/ theme' = reg /\ origin' = "saved"
            \/ reg \in UserThemes /\ theme' \in UserThemes \ {reg} /\ origin' = "picked"
            \/ reg \in UserThemes /\ theme' = "white" /\ origin' = "init"
            \/ reg \in UserThemes /\ UNCHANGED <<theme, origin>>
    /\ UNCHANGED <<mgr, dirs, side, work, settings, doc, disk, writable, reg>>

\* initialize() returns false: a library is missing or one of its interfaces is, a
\* directory cannot be made, a check or a hook fails.  COxWare::run shuts down.
FailStart ==
    /\ mpc \in {"begin", "util", "deps", "loaded", "phase2"} /\ mpc' = "hang"
    /\ mgr' \in {mgr, TRUE}
    /\ theme' \in IF mpc = "util" THEN {theme, "white"} ELSE {theme}
    /\ UNCHANGED <<dirs, side, work, settings, doc, disk, writable, reg, origin>>

LeaveLoop ==
    /\ Go("run", "hang")
    /\ UNCHANGED <<mgr, dirs, side, work, settings, doc, disk, writable, look>>

\* put_engine_in_sleep returns: the engine sleeps, the wait has given up, or there is
\* nothing to wait for; then CConfigManager::shutdown.
HangEngine ==
    /\ Go("hang", IF mgr THEN "saving" ELSE "saved")
    /\ Give("module", IF mgr THEN <<Job("write", "saved")>> ELSE <<>>)
    /\ UNCHANGED <<mgr, dirs, side, settings, doc, disk, writable, look>>

Autosave_Elsewhere ==       \* mutant: it saves over the defaults
    /\ Go("run", "autosave") /\ settings[Interval] # Off
    /\ Give("module", <<Job("write", "default")>>)
    /\ UNCHANGED <<mgr, dirs, side, settings, doc, disk, writable, look>>
Autosave ==
    /\ Go("run", "autosave") /\ settings[Interval] # Off
    /\ Give("module", <<Job("write", "saved")>>)
    /\ UNCHANGED <<mgr, dirs, side, settings, doc, disk, writable, look>>

\* The on-save callback, which the theme manager registers when it is initialized.
EndSave ==
    /\ Go("autosave", "run") \/ Go("saving", "saved")
    /\ jobs["module"] = <<>>
    /\ IF theme = NoTheme THEN UNCHANGED <<reg, origin>>
       ELSE reg' = theme /\ origin' = "saved"
    /\ UNCHANGED <<mgr, dirs, side, work, settings, doc, disk, writable, theme>>

\* The engine's next frame falls asleep, also after the wait for it has given up:
\* m_engine_should_sleep stays set.  CEngine::Unload, between two frames, hangs there.
IsSaving == mpc \in {"saving", "saved"}
Sleep_Busy ==               \* mutant: in the middle of the command that it runs
    /\ engine = "live" /\ (mpc = "hang" \/ IsSaving)
    /\ engine' = "asleep" /\ quiet' = ~IsSaving
    /\ UNCHANGED <<mpc, mgr, dirs, work, settings, doc, disk, writable, look>>
Sleep ==
    /\ engine = "live" /\ jobs["engine"] = <<>> /\ (mpc = "hang" \/ IsSaving)
    /\ engine' = "asleep" /\ quiet' = ~IsSaving
    /\ UNCHANGED <<mpc, mgr, dirs, work, settings, doc, disk, writable, look>>

EnterUnload ==
    /\ engine = "live" /\ jobs["engine"] = <<>>
    /\ engine' = "unload" /\ quiet' = ~IsSaving
    /\ UNCHANGED <<mpc, mgr, dirs, work, settings, doc, disk, writable, look>>

\* The libraries are freed at the end, and at any step if the process dies: what is
\* in memory is gone.
Forget ==
    /\ mpc' = "off" /\ mgr' = FALSE /\ dirs' = FALSE /\ engine' = "out" /\ quiet' = TRUE
    /\ jobs' = [t \in Threads |-> <<>>] /\ stage' = [t \in Threads |-> "idle"]
    /\ overlap' = [t \in Threads |-> FALSE] /\ touched' = FALSE
    /\ settings' = Default /\ doc' = Empty
    /\ theme' = NoTheme /\ origin' = "init"
    /\ UNCHANGED <<disk, writable, reg>>
Unload == mpc = "saved" /\ Forget
Die == mpc # "off" /\ Forget

-----------------------------------------------------------------------------
(* The engine's thread: CUICheatSettings, CUIThemeEditor, the two commands,  *)
(* and whatever changes a variable, a bind or an in-command.  Panels are     *)
(* drawn in frames; commands also come from bound keys, and so out of the    *)
(* messages that SDL pumps while the engine sleeps.                          *)

InFrame == engine = "live" /\ jobs["engine"] = <<>>
OnKey == engine \in {"live", "asleep"} /\ jobs["engine"] = <<>>

SetEntry(e, x) ==
    /\ OnKey
    /\ settings' = [settings EXCEPT ![e] = x]
    /\ touched' = (touched \/ IsBusy("module")) /\ quiet' = FALSE
    /\ UNCHANGED <<mpc, mgr, dirs, engine, jobs, stage, overlap, doc, disk, writable, look>>

Command(job) ==
    /\ OnKey
    /\ Give("engine", <<job>>) /\ quiet' = FALSE
    /\ UNCHANGED <<mpc, mgr, dirs, engine, settings, doc, disk, writable, look>>

RestoreDefaults == InFrame /\ Command(Job("restore", "default"))

\* A file the other thread writes to cannot be removed or renamed.
IsOpen(f) == IsBusy("module") /\ Head(jobs["module"]) = Job("write", f)

Delete(f) ==
    /\ InFrame /\ ~IsOpen(f)
    /\ disk' = [disk EXCEPT ![f] = Missing]
    /\ UNCHANGED <<running, work, settings, doc, writable, look>>

Rename(f, g) ==
    /\ InFrame /\ ~IsOpen(f)
    /\ disk[f] # Missing /\ disk[g] = Missing
    /\ disk' = [disk EXCEPT ![g] = disk[f], ![f] = Missing]
    /\ UNCHANGED <<running, work, settings, doc, writable, look>>

UseTheme(th) ==
    /\ InFrame
    /\ theme' = th /\ origin' = IF th = reg THEN "saved" ELSE "picked"
    /\ UNCHANGED <<running, work, settings, doc, disk, writable, reg>>

-----------------------------------------------------------------------------
ModuleNext ==
    \/ Start \/ LoadUtil \/ LoadGui \/ MakeDirectories \/ InitConfig \/ ConfigReady
    \/ InstallHooks \/ LoadTheme \/ FailStart \/ LeaveLoop \/ HangEngine
    \/ Autosave \/ EndSave \/ Unload \/ Die
    \/ JobStep("module")

EngineNext ==
    \/ Sleep \/ EnterUnload \/ JobStep("engine") \/ RestoreDefaults
    \/ \E e \in Entries : \E x \in Values[e] : SetEntry(e, x)
    \/ \E f \in Names : Command(Job("write", f)) \/ Command(Job("load", f)) \/ Delete(f)
    \/ \E f, g \in Names : Rename(f, g)
    \/ \E th \in Themes : UseTheme(th)

Next == ModuleNext \/ EngineNext

\* The module's frames go on, and with them what they have begun; a start or an
\* end may hang, and the engine owes nothing.
Fairness == WF_vars(Autosave) /\ WF_vars(JobStep("module")) /\ WF_vars(EndSave)

Spec == Init /\ [][Next]_vars /\ Fairness

-----------------------------------------------------------------------------
(* Properties. *)

\* A shutdown whose engine was asleep, in CEngine::Unload or not hooked before the
\* last save began, and has run no command out of its sleep, leaves a file that says
\* exactly what the settings are, binds that were removed included, and the theme in
\* the registry: whatever its thread was doing to either when the end was asked for.
EndStoresAll ==
    mpc = "saved" /\ quiet /\ mgr =>
        /\ dirs /\ writable => disk["saved"] = Whole(Export(settings))
        /\ theme # NoTheme => reg = theme

\* A session opens with what the saved file holds, over the defaults: all of it
\* applied, nothing else; with the defaults when the file is missing or was cut
\* short.  Starts that fail before that, and deaths, leave the file as it is.
IsOpenSession == dirs /\ mpc \notin {"dirs", "initcfg"}
Register == INSTANCE SettingsRegister WITH
    isOpen <- IsOpenSession,
    held <- IF IsOpenSession THEN settings ELSE Default,
    stored <- disk["saved"].doc
StoreImplements == Register!Spec

\* A write during which the other thread neither had a job of its own nor changed a
\* setting leaves in the file exactly the settings, also after loads and writes that
\* did overlap.
Alone(t) == ~overlap[t] /\ (t = "module" => ~touched)
AloneIsWhole ==
    [][\A t \in Threads :
         IsBusy(t) /\ ~IsBusy(t)' /\ mpc' # "off" /\ dirs
         /\ Head(jobs[t]).do = "write" /\ Alone(t) =>
             disk'[File(t)] = Whole(Export(settings))]_vars

\* The theme in the registry is only replaced by the one on the screen, and by another
\* than was saved only if the user has picked it since, or the file that the registry
\* led to says that it is that theme, or that file is gone or this start has not come to
\* load it (then by "white").
ThemeKept ==
    [][reg' # reg =>
         /\ reg' = theme
         /\ origin = "picked" \/ (origin = "init" /\ theme = "white")]_vars

\* With the autosave on, a difference between the settings and the file does not last,
\* unless the settings keep changing, the session ends, or the engine's thread loads or
\* writes a configuration itself.
IsDirty ==
    /\ mpc \in {"run", "autosave"} /\ jobs["engine"] = <<>>
    /\ settings[Interval] # Off /\ writable
    /\ disk["saved"] # Whole(Export(settings))
DirtyIsSaved == <>[]IsDirty => []<><<settings' # settings>>_vars

=============================================================================
