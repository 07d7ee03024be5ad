-------------------------- MODULE ConfigStore_proofs ---------------------------
(***************************************************************************)
(* Theorems about ConfigStore, for all entries, values and themes: the     *)
(* type invariant, the three safety properties, and that the sessions are  *)
(* those of SettingsRegister.                                              *)
(*                                                                         *)
(* The inductive invariant follows a write: while no other job overlaps    *)
(* it, the document is empty when the file is opened and the export of the *)
(* settings when it is filled.  It says what a start has done to the       *)
(* settings at each point of it, and what the last save leaves behind.     *)
(***************************************************************************)
EXTENDS ConfigStore, TLAPS

WriteDefault == Job("write", "default")
LoadSaved == Job("load", "saved")
WriteSaved == Job("write", "saved")

Starting == {"off", "begin", "util", "deps"}
Early == Starting \cup {"dirs", "initcfg", "loaded"}
Jobless == Starting \cup {"dirs", "loaded", "phase2", "run", "hang", "saved"}

\* What a document makes of the defaults.
Loaded(d) == Register!Over(d, Default)

\* How far the session is.
Life ==
    /\ mpc \in Early => engine = "out"
    /\ engine # "out" => dirs
    /\ mpc \in Starting => ~dirs
    /\ mpc \in {"dirs", "initcfg", "loaded", "phase2", "run", "autosave"} => dirs
    /\ mpc \in Starting \cup {"dirs"} => settings = Default /\ doc = Empty
    /\ mpc \in {"off", "begin", "util"} => origin = "init"
    /\ origin = "saved" => theme = reg
    /\ origin = "init" => theme \in {"white", NoTheme}

\* What each thread has to do: the lists, and the stage of their first job.
Work ==
    /\ engine \in {"out", "unload"} \/ quiet => jobs["engine"] = <<>>
    /\ quiet => engine # "live"
    /\ engine = "out" => ~touched /\ \A t \in Threads : ~overlap[t]
    /\ ~IsBusy("module") => ~touched
    /\ \A t \in Threads :
          /\ IsBusy(t) => jobs[t] # <<>>
          /\ ~IsBusy(t) => ~overlap[t]
          /\ stage[t] = "filled" => Head(jobs[t]).do = "write"
    /\ (\A t \in Threads : IsBusy(t)) => \A t \in Threads : overlap[t]
    /\ mpc \in Jobless => jobs["module"] = <<>>
    /\ mpc = "initcfg" => jobs["module"] \in {<<WriteDefault, LoadSaved>>, <<LoadSaved>>, <<>>}
    /\ mpc \in {"autosave", "saving"} => jobs["module"] \in {<<WriteSaved>>, <<>>}

\* The document during a write that is alone.
Fresh ==
    \A t \in Threads : ~overlap[t] /\ IsBusy(t) /\ Head(jobs[t]).do = "write" =>
        /\ stage[t] = "opened" => doc = Empty
        /\ stage[t] = "filled" /\ Alone(t) => doc = Export(settings)

\* The settings while a start loads them.
Opening ==
    mpc = "initcfg" =>
        /\ jobs["module"] = <<WriteDefault, LoadSaved>> =>
              settings = Default /\ (~IsBusy("module") => doc = Empty)
        /\ jobs["module"] = <<LoadSaved>> =>
              /\ settings = Default
              /\ ~IsBusy("module") => Loaded(doc) = Default
              /\ IsBusy("module") => Loaded(doc) = Loaded(disk["saved"].doc)
        /\ jobs["module"] = <<>> => settings = Loaded(disk["saved"].doc)

\* What the last save of a session leaves, when the engine has been out of its way.
IsSaved == dirs /\ writable => disk["saved"] = Whole(Export(settings))
Ending ==
    quiet =>
        /\ mpc = "saving" /\ jobs["module"] = <<>> => IsSaved
        /\ mpc = "saving" => ~overlap["module"] /\ ~touched
        /\ mpc = "saved" /\ mgr => IsSaved /\ (theme # NoTheme => reg = theme)

IInv == TypeOK /\ Life /\ Work /\ Fresh /\ Opening /\ Ending

\* The definitions every step of the proofs needs.
\* (A step is a conjunction over the variables; these only name groups of them.)
USE DEF side, running, work, look, vars, Threads, Names, Themes, Go, InFrame, OnKey, Give,
        IsSaving, IsBusy, IsAt, File, Skip, BeginJob, EndJob, Reads, Other

-----------------------------------------------------------------------------
(* Settings, documents and lists of jobs. *)

LEMMA IsJob ==
  /\ \A f \in Names : \A do \in {"write", "load", "restore"} :
        Job(do, f) \in Jobs /\ Job(do, f).do = do /\ Job(do, f).name = f
  /\ \A j \in Jobs : j.do \in {"write", "load", "restore"} /\ j.name \in Names
  BY DEF Jobs, Job

LEMMA IsList ==
  /\ <<>> \in Seq(Jobs)
  /\ \A j \in Jobs : <<j>> \in Seq(Jobs) /\ <<j>> # <<>> /\ Head(<<j>>) = j /\ Tail(<<j>>) = <<>>
  /\ \A j, k \in Jobs :
        /\ <<j, k>> \in Seq(Jobs) /\ <<j, k>> # <<>> /\ <<j, k>> # <<k>> /\ <<j, k>> # <<j>>
        /\ Head(<<j, k>>) = j /\ Tail(<<j, k>>) = <<k>>
  /\ \A list \in Seq(Jobs) : list # <<>> => Head(list) \in Jobs /\ Tail(list) \in Seq(Jobs)
  OBVIOUS

LEMMA EmptyIsDoc == Empty \in Docs /\ DOMAIN Empty = {}
<1>1. Empty \in [{} -> AnyValue] /\ DOMAIN Empty = {}
  BY DEF Empty
<1> QED
  BY <1>1 DEF Docs

\* What a file can hold.
Contents == {Missing, Broken} \cup {Whole(d) : d \in Docs}
LEMMA IsContent ==
  /\ Missing \in Contents /\ Broken \in Contents /\ Missing # Broken
  /\ Missing.doc = Empty /\ Broken.doc = Empty
  /\ \A d : Whole(d).doc = d /\ Whole(d) # Missing /\ Whole(d) # Broken
  /\ \A d \in Docs : Whole(d) \in Contents
  /\ \A c \in Contents : c.doc \in Docs /\ (c \in {Missing, Broken} \/ c = Whole(c.doc))
<1>1. /\ Missing \in Contents /\ Broken \in Contents /\ Missing # Broken
      /\ Missing.doc = Empty /\ Broken.doc = Empty
  BY DEF Contents, Missing, Broken
<1>2. \A d : Whole(d).doc = d /\ Whole(d) # Missing /\ Whole(d) # Broken
  BY DEF Whole, Missing, Broken
<1>3. \A d \in Docs : Whole(d) \in Contents
  BY DEF Contents
<1>4. \A c \in Contents : c.doc \in Docs /\ (c \in {Missing, Broken} \/ c = Whole(c.doc))
  BY <1>1, <1>2, EmptyIsDoc DEF Contents
<1> QED
  BY <1>1, <1>2, <1>3, <1>4

\* Adding to a document what is set gives a document.
LEMMA Merged ==
  ASSUME NEW d \in Docs, NEW s \in Settings
  PROVE  [e \in DOMAIN d \cup DOMAIN Export(s) |-> IF s[e] # Unset THEN s[e] ELSE d[e]] \in Docs
<1> DEFINE m == [e \in DOMAIN d \cup DOMAIN Export(s) |-> IF s[e] # Unset THEN s[e] ELSE d[e]]
<1>1. PICK S \in SUBSET Entries :
        d \in [S -> AnyValue] /\ \A e \in S : d[e] \in Values[e] \ {Unset}
  BY DEF Docs
<1>2. DOMAIN m = DOMAIN d \cup DOMAIN Export(s) /\ DOMAIN m \in SUBSET Entries
  BY <1>1 DEF Export
<1>3. \A e \in DOMAIN m : m[e] \in AnyValue /\ m[e] \in Values[e] \ {Unset}
  BY <1>1, <1>2 DEF Export, Settings, AnyValue
<1>4. m \in [DOMAIN m -> AnyValue]
  BY <1>3
<1> HIDE DEF m
<1>5. m \in Docs
  BY <1>2, <1>3, <1>4 DEF Docs
<1> QED
  BY <1>5 DEF m

LEMMA Exported == \A s \in Settings : Export(s) \in Docs
<1> SUFFICES ASSUME NEW s \in Settings PROVE Export(s) \in Docs
  OBVIOUS
<1>1. DOMAIN Export(s) \in SUBSET Entries
  BY DEF Export
<1>2. \A e \in DOMAIN Export(s) : Export(s)[e] \in AnyValue /\ Export(s)[e] \in Values[e] \ {Unset}
  BY DEF Export, Settings, AnyValue
<1>3. Export(s) \in [DOMAIN Export(s) -> AnyValue]
  BY <1>2 DEF Export
<1> QED
  BY <1>1, <1>2, <1>3 DEF Docs

LEMMA DefaultIsSettings == Default \in Settings
  BY ConstantsAssumption DEF Settings, AnyValue

\* Applying a document to settings gives settings.
LEMMA Applied ==
  ASSUME NEW d \in Docs, NEW s \in Settings
  PROVE  [e \in Entries |-> IF e \in DOMAIN d THEN d[e] ELSE s[e]] \in Settings
<1>1. \A e \in DOMAIN d : d[e] \in AnyValue /\ d[e] \in Values[e]
  BY DEF Docs
<1> QED
  BY <1>1 DEF Settings

\* A save that is loaded by the next session restores every setting, what the export
\* leaves out included: it is not set by default either.
THEOREM ExportRestores == \A s \in Settings : Loaded(Export(s)) = s
<1> SUFFICES ASSUME NEW s \in Settings PROVE Loaded(Export(s)) = s
  OBVIOUS
<1>1. \A e \in Entries : s[e] = Unset => Default[e] = Unset
  BY ConstantsAssumption DEF Settings
<1>2. s \in [Entries -> AnyValue]
  BY DEF Settings
<1>3. \A e \in Entries : Loaded(Export(s))[e] = s[e]
  BY <1>1 DEF Loaded, Register!Over, Export
<1>4. Loaded(Export(s)) \in [Entries -> AnyValue]
  BY <1>2, <1>3 DEF Loaded, Register!Over
<1> QED
  BY <1>2, <1>3, <1>4

LEMMA LoadedEmpty == Loaded(Empty) = Default
<1>1. Default \in [Entries -> AnyValue]
  BY DefaultIsSettings DEF Settings
<1> QED
  BY <1>1, EmptyIsDoc DEF Loaded, Register!Over

-----------------------------------------------------------------------------
(* Each part of the invariant is kept by every step. *)

\* Types.
LEMMA StepTypeOK == IInv /\ [Next]_vars => TypeOK'
<1> SUFFICES ASSUME IInv, [Next]_vars PROVE TypeOK'
  OBVIOUS
<1> USE DEF IInv, TypeOK
<1>1. CASE Start
  BY <1>1 DEF Start
<1>2. CASE LoadUtil
  BY <1>2 DEF LoadUtil
<1>3. CASE LoadGui
  BY <1>3 DEF LoadGui
<1>4. CASE MakeDirectories
  BY <1>4 DEF MakeDirectories
<1>5. CASE InitConfig
  BY <1>5, IsJob, IsList, IsContent DEF InitConfig
<1>6. CASE ConfigReady
  BY <1>6 DEF ConfigReady
<1>7. CASE InstallHooks
  BY <1>7 DEF InstallHooks
<1>8. CASE LoadTheme
  BY <1>8 DEF LoadTheme
<1>9. CASE FailStart
  BY <1>9 DEF FailStart
<1>10. CASE LeaveLoop
  BY <1>10 DEF LeaveLoop
<1>11. CASE HangEngine
  BY <1>11, IsJob, IsList, IsContent DEF HangEngine
<1>12. CASE Autosave
  BY <1>12, IsJob, IsList, IsContent DEF Autosave
<1>13. CASE EndSave
  BY <1>13 DEF EndSave
<1>14. CASE Unload
  BY <1>14, EmptyIsDoc, DefaultIsSettings, IsList DEF Unload, Forget
<1>15. CASE Die
  BY <1>15, EmptyIsDoc, DefaultIsSettings, IsList DEF Die, Forget
<1>16. ASSUME NEW t \in Threads, OpenWrite(t) PROVE TypeOK'
  BY <1>16, EmptyIsDoc, IsJob, IsList, IsContent DEF OpenWrite, ToDirectory, Contents
<1>17. ASSUME NEW t \in Threads, CannotWrite(t) PROVE TypeOK'
  BY <1>17, IsJob, IsList, IsContent DEF CannotWrite
<1>18. ASSUME NEW t \in Threads, ExportEntries(t) PROVE TypeOK'
  <2>1. doc \in Docs /\ settings \in Settings
    OBVIOUS
  <2>2. [e \in DOMAIN doc \cup DOMAIN Export(settings) |->
           IF settings[e] # Unset THEN settings[e] ELSE doc[e]] \in Docs
    BY <2>1, Merged
  <2>3. doc' \in Docs
    BY <1>18, <2>2 DEF ExportEntries
  <2> QED
    BY <1>18, <2>3 DEF ExportEntries
<1>19. ASSUME NEW t \in Threads, EndWrite(t) PROVE TypeOK'
  <2>1. jobs[t] # <<>> /\ EndJob(t) /\ UNCHANGED <<running, settings, doc, writable, look>>
    BY <1>19 DEF EndWrite
  <2>2. jobs' \in [Threads -> Seq(Jobs)]
    BY <2>1, IsList
  <2>3. stage' \in [Threads -> {"idle", "opened", "filled"}] /\ overlap' \in [Threads -> BOOLEAN]
    BY <2>1
  <2>4. touched' \in BOOLEAN
    BY <2>1
  <2>5. disk' \in [Names -> Contents]
    BY <1>19, IsJob, IsList, IsContent DEF EndWrite, ToDirectory, Contents
  <2> QED
    BY <2>1, <2>2, <2>3, <2>4, <2>5 DEF Contents
<1>20. ASSUME NEW t \in Threads, ReadFile(t) PROVE TypeOK'
  BY <1>20, IsJob, IsList, IsContent DEF ReadFile, Contents
<1>21. ASSUME NEW t \in Threads, CannotRead(t) PROVE TypeOK'
  <2>1. Tail(jobs[t]) \in Seq(Jobs)
        /\ <<Job("write", "default"), Job("load", "default")>> \in Seq(Jobs)
    BY <1>21, IsJob, IsList DEF CannotRead
  <2>2. CASE Head(jobs[t]).do = "restore"
    <3>1. jobs' = [jobs EXCEPT ![t] = <<Job("write", "default"), Job("load", "default")>>]
      BY <1>21, <2>2 DEF CannotRead
    <3>2. jobs' \in [Threads -> Seq(Jobs)]
      BY <2>1, <3>1
    <3> QED
      BY <1>21, <3>2 DEF CannotRead
  <2>3. CASE Head(jobs[t]).do # "restore"
    <3>1. jobs' = [jobs EXCEPT ![t] = Tail(jobs[t])]
      BY <1>21, <2>3 DEF CannotRead
    <3>2. jobs' \in [Threads -> Seq(Jobs)]
      BY <2>1, <3>1
    <3> QED
      BY <1>21, <3>2 DEF CannotRead
  <2> QED
    BY <2>2, <2>3
<1>22. ASSUME NEW t \in Threads, ApplyEntries(t) PROVE TypeOK'
  <2>1. settings' \in Settings
    BY <1>22, Applied DEF ApplyEntries
  <2>2. Tail(jobs[t]) \in Seq(Jobs)
    BY <1>22, IsList DEF ApplyEntries
  <2> QED
    BY <1>22, <2>1, <2>2 DEF ApplyEntries
<1>23. ASSUME NEW e \in Entries, NEW x \in Values[e], SetEntry(e, x) PROVE TypeOK'
  BY <1>23 DEF SetEntry, Settings, AnyValue
<1>24. ASSUME NEW job \in Jobs, Command(job) PROVE TypeOK'
  BY <1>24, IsJob, IsList, IsContent DEF Command
<1>25. ASSUME NEW f \in Names, Delete(f) PROVE TypeOK'
  BY <1>25, IsJob, IsList, IsContent DEF Delete, Contents
<1>26. ASSUME NEW f \in Names, NEW g \in Names, Rename(f, g) PROVE TypeOK'
  BY <1>26 DEF Rename
<1>27. ASSUME NEW th \in Themes, UseTheme(th) PROVE TypeOK'
  BY <1>27 DEF UseTheme
<1>28. CASE Sleep
  BY <1>28 DEF Sleep
<1>29. CASE EnterUnload
  BY <1>29 DEF EnterUnload
<1>30. CASE UNCHANGED vars
  BY <1>30
<1>31. QED
  BY <1>1, <1>2, <1>3, <1>4, <1>5, <1>6, <1>7, <1>8, <1>9, <1>10, <1>11, <1>12, <1>13, <1>14,
     <1>15, <1>16, <1>17, <1>18, <1>19, <1>20, <1>21, <1>22, <1>23, <1>24, <1>25, <1>26, <1>27,
     <1>28, <1>29, <1>30, IsJob
     DEF Next, ModuleNext, EngineNext, JobStep, RestoreDefaults

\* Who has something to do, and when.
LEMMA Whose ==
  ASSUME IInv, NEW t \in Threads, jobs[t] # <<>>
  PROVE  /\ t = "engine" => engine \in {"live", "asleep"} /\ ~quiet /\ mpc \notin Early
         /\ t = "module" => mpc \in {"initcfg", "autosave", "saving"}
  BY DEF IInv, TypeOK, Life, Work, Early, Starting, Jobless

\* The lists of jobs get shorter, and differ.
LEMMA Shorter ==
  /\ WriteDefault \in Jobs /\ WriteDefault.do = "write" /\ WriteDefault.name = "default"
  /\ LoadSaved \in Jobs /\ LoadSaved.do = "load" /\ LoadSaved.name = "saved"
  /\ WriteSaved \in Jobs /\ WriteSaved.do = "write" /\ WriteSaved.name = "saved"
  /\ Tail(<<WriteDefault, LoadSaved>>) = <<LoadSaved>> /\ Tail(<<LoadSaved>>) = <<>>
  /\ Tail(<<WriteSaved>>) = <<>>
  /\ Head(<<WriteDefault, LoadSaved>>) = WriteDefault /\ Head(<<LoadSaved>>) = LoadSaved
  /\ Head(<<WriteSaved>>) = WriteSaved
  /\ <<WriteDefault, LoadSaved>> # <<LoadSaved>> /\ <<WriteDefault, LoadSaved>> # <<>>
  /\ <<LoadSaved>> # <<>> /\ <<WriteSaved>> # <<>>
  BY IsJob, IsList DEF WriteDefault, LoadSaved, WriteSaved

LEMMA IdleIs == IInv /\ OnKey => mpc \notin Early /\ jobs["engine"] = <<>> /\ ~IsBusy("engine")
  BY DEF IInv, TypeOK, Life, Work, Early, Starting

\* How far the session is.
LEMMA StepLife == IInv /\ [Next]_vars => Life'
<1> SUFFICES ASSUME IInv, [Next]_vars PROVE Life'
  OBVIOUS
<1> USE DEF IInv, TypeOK, Life, Early, Starting
<1>1. CASE Start
  BY <1>1 DEF Start
<1>2. CASE LoadUtil
  BY <1>2 DEF LoadUtil
<1>3. CASE LoadGui
  BY <1>3 DEF LoadGui
<1>4. CASE MakeDirectories
  BY <1>4 DEF MakeDirectories
<1>5. CASE InitConfig
  BY <1>5 DEF InitConfig
<1>6. CASE ConfigReady
  BY <1>6 DEF ConfigReady
<1>7. CASE InstallHooks
  BY <1>7 DEF InstallHooks
<1>8. CASE LoadTheme
  BY <1>8 DEF LoadTheme
<1>9. CASE FailStart
  BY <1>9 DEF FailStart
<1>10. CASE LeaveLoop
  BY <1>10 DEF LeaveLoop
<1>11. CASE HangEngine
  BY <1>11 DEF HangEngine
<1>12. CASE Autosave
  BY <1>12 DEF Autosave
<1>13. CASE EndSave
  BY <1>13 DEF EndSave
<1>14. CASE Unload
  BY <1>14 DEF Unload, Forget
<1>15. CASE Die
  BY <1>15 DEF Die, Forget
<1>16. ASSUME NEW t \in Threads, OpenWrite(t) PROVE Life'
  BY <1>16, Whose DEF OpenWrite
<1>17. ASSUME NEW t \in Threads, CannotWrite(t) PROVE Life'
  BY <1>17, Whose DEF CannotWrite
<1>18. ASSUME NEW t \in Threads, ExportEntries(t) PROVE Life'
  BY <1>18, Whose DEF ExportEntries
<1>19. ASSUME NEW t \in Threads, EndWrite(t) PROVE Life'
  BY <1>19, Whose DEF EndWrite
<1>20. ASSUME NEW t \in Threads, ReadFile(t) PROVE Life'
  BY <1>20, Whose DEF ReadFile
<1>21. ASSUME NEW t \in Threads, CannotRead(t) PROVE Life'
  BY <1>21, Whose DEF CannotRead
<1>22. ASSUME NEW t \in Threads, ApplyEntries(t) PROVE Life'
  BY <1>22, Whose DEF ApplyEntries
<1>23. ASSUME NEW e \in Entries, NEW x \in Values[e], SetEntry(e, x) PROVE Life'
  BY <1>23, IdleIs DEF SetEntry
<1>24. ASSUME NEW job \in Jobs, Command(job) PROVE Life'
  BY <1>24, IdleIs DEF Command
<1>25. ASSUME NEW f \in Names, Delete(f) PROVE Life'
  BY <1>25, IdleIs DEF Delete
<1>26. ASSUME NEW f \in Names, NEW g \in Names, Rename(f, g) PROVE Life'
  BY <1>26, IdleIs DEF Rename
<1>27. ASSUME NEW th \in Themes, UseTheme(th) PROVE Life'
  BY <1>27, IdleIs DEF UseTheme
<1>28. CASE Sleep
  BY <1>28 DEF Sleep
<1>29. CASE EnterUnload
  BY <1>29 DEF EnterUnload
<1>30. CASE UNCHANGED vars
  BY <1>30
<1>31. QED
  BY <1>1, <1>2, <1>3, <1>4, <1>5, <1>6, <1>7, <1>8, <1>9, <1>10, <1>11, <1>12, <1>13, <1>14,
     <1>15, <1>16, <1>17, <1>18, <1>19, <1>20, <1>21, <1>22, <1>23, <1>24, <1>25, <1>26, <1>27,
     <1>28, <1>29, <1>30, IsJob
     DEF Next, ModuleNext, EngineNext, JobStep, RestoreDefaults

\* The lists of jobs.
LEMMA StepWork == IInv /\ [Next]_vars => Work'
<1> SUFFICES ASSUME IInv, [Next]_vars PROVE Work'
  OBVIOUS
<1> USE DEF IInv, TypeOK, Work, Early, Starting, Jobless, Life
<1>1. CASE Start
  BY <1>1 DEF Start
<1>2. CASE LoadUtil
  BY <1>2 DEF LoadUtil
<1>3. CASE LoadGui
  BY <1>3 DEF LoadGui
<1>4. CASE MakeDirectories
  BY <1>4 DEF MakeDirectories
<1>5. CASE InitConfig
  BY <1>5, Whose, IsJob, IsList, IsContent DEF InitConfig, WriteDefault, LoadSaved, WriteSaved
<1>6. CASE ConfigReady
  BY <1>6 DEF ConfigReady
<1>7. CASE InstallHooks
  BY <1>7 DEF InstallHooks
<1>8. CASE LoadTheme
  BY <1>8 DEF LoadTheme
<1>9. CASE FailStart
  BY <1>9 DEF FailStart
<1>10. CASE LeaveLoop
  BY <1>10 DEF LeaveLoop
<1>11. CASE HangEngine
  BY <1>11, Whose, IsJob, IsList, IsContent DEF HangEngine, WriteDefault, LoadSaved, WriteSaved
<1>12. CASE Autosave
  BY <1>12, Whose, IsJob, IsList, IsContent DEF Autosave, WriteDefault, LoadSaved, WriteSaved
<1>13. CASE EndSave
  BY <1>13 DEF EndSave
<1>14. CASE Unload
  BY <1>14 DEF Unload, Forget
<1>15. CASE Die
  BY <1>15 DEF Die, Forget
<1>16. ASSUME NEW t \in Threads, OpenWrite(t) PROVE Work'
  <2>1. CASE t = "module"
    BY <1>16, <2>1, Whose, IsJob, IsList, IsContent
       DEF OpenWrite, WriteDefault, LoadSaved, WriteSaved
  <2>2. CASE t = "engine"
    BY <1>16, <2>2, Whose, IsJob, IsList, IsContent
       DEF OpenWrite, WriteDefault, LoadSaved, WriteSaved
  <2> QED
    BY <2>1, <2>2
<1>17. ASSUME NEW t \in Threads, CannotWrite(t) PROVE Work'
  BY <1>17, Whose, Shorter DEF CannotWrite
<1>18. ASSUME NEW t \in Threads, ExportEntries(t) PROVE Work'
  BY <1>18, Whose, IsJob, IsList, IsContent DEF ExportEntries, WriteDefault, LoadSaved, WriteSaved
<1>19. ASSUME NEW t \in Threads, EndWrite(t) PROVE Work'
  <2>0. EndJob(t) /\ UNCHANGED running /\ jobs[t] # <<>>
    BY <1>19 DEF EndWrite
  <2>1. jobs' = [jobs EXCEPT ![t] = Tail(jobs[t])] /\ UNCHANGED running /\ jobs[t] # <<>>
        /\ stage' = [stage EXCEPT ![t] = "idle"] /\ overlap' = [overlap EXCEPT ![t] = FALSE]
        /\ touched' = IF t = "module" THEN FALSE ELSE touched
    BY <2>0
  <2>2. mpc = "initcfg" => jobs'["module"] \in {<<WriteDefault, LoadSaved>>, <<LoadSaved>>, <<>>}
    BY <2>1, Shorter
  <2>3. mpc \in {"autosave", "saving"} => jobs'["module"] \in {<<WriteSaved>>, <<>>}
    BY <2>1, Shorter
  <2>4. mpc \in Jobless => jobs'["module"] = <<>>
    BY <2>1
  <2>5. engine \in {"out", "unload"} \/ quiet => jobs'["engine"] = <<>>
    BY <2>1
  <2>6. \A u \in Threads :
          /\ IsBusy(u)' => u # t
          /\ u # t => jobs'[u] = jobs[u] /\ stage'[u] = stage[u] /\ overlap'[u] = overlap[u]
    BY <2>1
  <2>7. ~IsBusy(t)' /\ stage'[t] = "idle" /\ ~overlap'[t]
    BY <2>1
  <2> HIDE DEF Jobless, Early, Starting
  <2> QED
    BY <2>1, <2>2, <2>3, <2>4, <2>5, <2>6, <2>7
<1>20. ASSUME NEW t \in Threads, ReadFile(t) PROVE Work'
  <2>1. CASE t = "module"
    BY <1>20, <2>1, Whose, IsJob, IsList, IsContent
       DEF ReadFile, WriteDefault, LoadSaved, WriteSaved
  <2>2. CASE t = "engine"
    BY <1>20, <2>2, Whose, IsJob, IsList, IsContent
       DEF ReadFile, WriteDefault, LoadSaved, WriteSaved
  <2> QED
    BY <2>1, <2>2
<1>21. ASSUME NEW t \in Threads, CannotRead(t) PROVE Work'
  <2>1. CASE t = "module"
    <3>1. jobs["module"] # <<>> /\ ~IsBusy("module") /\ ~overlap["module"]
          /\ UNCHANGED <<running, stage, overlap, touched>>
      BY <1>21, <2>1 DEF CannotRead
    <3>2. mpc = "initcfg" /\ jobs["module"] = <<LoadSaved>>
      BY <1>21, <2>1, <3>1, Whose, Shorter DEF CannotRead
    <3>3. jobs' = [jobs EXCEPT !["module"] = <<>>]
      BY <1>21, <2>1, <3>2, Shorter DEF CannotRead
    <3> QED
      BY <3>1, <3>2, <3>3
  <2>2. CASE t = "engine"
    BY <1>21, <2>2, Whose, IsJob, IsList, IsContent
       DEF CannotRead, WriteDefault, LoadSaved, WriteSaved
  <2> QED
    BY <2>1, <2>2
<1>22. ASSUME NEW t \in Threads, ApplyEntries(t) PROVE Work'
  BY <1>22, Whose, IsJob, IsList, IsContent DEF ApplyEntries, WriteDefault, LoadSaved, WriteSaved
<1>23. ASSUME NEW e \in Entries, NEW x \in Values[e], SetEntry(e, x) PROVE Work'
  BY <1>23, IdleIs, IsList DEF SetEntry
<1>24. ASSUME NEW job \in Jobs, Command(job) PROVE Work'
  BY <1>24, IdleIs, IsList DEF Command
<1>25. ASSUME NEW f \in Names, Delete(f) PROVE Work'
  BY <1>25, IdleIs, IsList DEF Delete
<1>26. ASSUME NEW f \in Names, NEW g \in Names, Rename(f, g) PROVE Work'
  BY <1>26, IdleIs, IsList DEF Rename
<1>27. ASSUME NEW th \in Themes, UseTheme(th) PROVE Work'
  BY <1>27, IdleIs, IsList DEF UseTheme
<1>28. CASE Sleep
  BY <1>28 DEF Sleep
<1>29. CASE EnterUnload
  BY <1>29 DEF EnterUnload
<1>30. CASE UNCHANGED vars
  BY <1>30
<1>31. QED
  BY <1>1, <1>2, <1>3, <1>4, <1>5, <1>6, <1>7, <1>8, <1>9, <1>10, <1>11, <1>12, <1>13, <1>14,
     <1>15, <1>16, <1>17, <1>18, <1>19, <1>20, <1>21, <1>22, <1>23, <1>24, <1>25, <1>26, <1>27,
     <1>28, <1>29, <1>30, IsJob
     DEF Next, ModuleNext, EngineNext, JobStep, RestoreDefaults

\* The document of a write.
LEMMA StepFresh == IInv /\ [Next]_vars => Fresh'
<1> SUFFICES ASSUME IInv, [Next]_vars PROVE Fresh'
  OBVIOUS
<1> USE DEF IInv, TypeOK, Work, Fresh, Alone, Jobless
<1>1. CASE Start
  BY <1>1 DEF Start
<1>2. CASE LoadUtil
  BY <1>2 DEF LoadUtil
<1>3. CASE LoadGui
  BY <1>3 DEF LoadGui
<1>4. CASE MakeDirectories
  BY <1>4 DEF MakeDirectories
<1>5. CASE InitConfig
  BY <1>5 DEF InitConfig
<1>6. CASE ConfigReady
  BY <1>6 DEF ConfigReady
<1>7. CASE InstallHooks
  BY <1>7 DEF InstallHooks
<1>8. CASE LoadTheme
  BY <1>8 DEF LoadTheme
<1>9. CASE FailStart
  BY <1>9 DEF FailStart
<1>10. CASE LeaveLoop
  BY <1>10 DEF LeaveLoop
<1>11. CASE HangEngine
  BY <1>11 DEF HangEngine
<1>12. CASE Autosave
  BY <1>12 DEF Autosave
<1>13. CASE EndSave
  BY <1>13 DEF EndSave
<1>14. CASE Unload
  BY <1>14 DEF Unload, Forget
<1>15. CASE Die
  BY <1>15 DEF Die, Forget
<1>16. ASSUME NEW t \in Threads, OpenWrite(t) PROVE Fresh'
  BY <1>16, Whose, IsJob, IsList, IsContent DEF OpenWrite
<1>17. ASSUME NEW t \in Threads, CannotWrite(t) PROVE Fresh'
  BY <1>17, Whose, IsJob, IsList, IsContent DEF CannotWrite
<1>18. ASSUME NEW t \in Threads, ExportEntries(t) PROVE Fresh'
  <2>1. stage[t] = "opened" /\ doc = Empty => doc' = Export(settings)
    BY <1>18, EmptyIsDoc DEF ExportEntries, Export
  <2>2. \A u \in Threads : u # t => ~(~overlap[u] /\ IsBusy(u))
    BY <1>18 DEF ExportEntries
  <2>3. ~overlap[t] => doc = Empty
    BY <1>18 DEF ExportEntries
  <2> QED
    BY <1>18, <2>1, <2>2, <2>3 DEF ExportEntries, Export
<1>19. ASSUME NEW t \in Threads, EndWrite(t) PROVE Fresh'
  BY <1>19, Whose, IsJob, IsList, IsContent DEF EndWrite
<1>20. ASSUME NEW t \in Threads, ReadFile(t) PROVE Fresh'
  <2>1. \A u \in Threads : IsBusy(u)' /\ ~overlap'[u] => u = t
    BY <1>20 DEF ReadFile
  <2>2. Head(jobs'[t]).do # "write"
    BY <1>20 DEF ReadFile
  <2> QED
    BY <1>20, <2>1, <2>2 DEF ReadFile
<1>21. ASSUME NEW t \in Threads, CannotRead(t) PROVE Fresh'
  BY <1>21, Whose, IsJob, IsList, IsContent DEF CannotRead
<1>22. ASSUME NEW t \in Threads, ApplyEntries(t) PROVE Fresh'
  BY <1>22, Whose, IsJob, IsList, IsContent DEF ApplyEntries
<1>23. ASSUME NEW e \in Entries, NEW x \in Values[e], SetEntry(e, x) PROVE Fresh'
  BY <1>23, IdleIs DEF SetEntry
<1>24. ASSUME NEW job \in Jobs, Command(job) PROVE Fresh'
  BY <1>24, IdleIs DEF Command
<1>25. ASSUME NEW f \in Names, Delete(f) PROVE Fresh'
  BY <1>25, IdleIs DEF Delete
<1>26. ASSUME NEW f \in Names, NEW g \in Names, Rename(f, g) PROVE Fresh'
  BY <1>26, IdleIs DEF Rename
<1>27. ASSUME NEW th \in Themes, UseTheme(th) PROVE Fresh'
  BY <1>27, IdleIs DEF UseTheme
<1>28. CASE Sleep
  BY <1>28 DEF Sleep
<1>29. CASE EnterUnload
  BY <1>29 DEF EnterUnload
<1>30. CASE UNCHANGED vars
  BY <1>30
<1>31. QED
  BY <1>1, <1>2, <1>3, <1>4, <1>5, <1>6, <1>7, <1>8, <1>9, <1>10, <1>11, <1>12, <1>13, <1>14,
     <1>15, <1>16, <1>17, <1>18, <1>19, <1>20, <1>21, <1>22, <1>23, <1>24, <1>25, <1>26, <1>27,
     <1>28, <1>29, <1>30, IsJob
     DEF Next, ModuleNext, EngineNext, JobStep, RestoreDefaults

\* The settings of a start.
LEMMA StepOpening == IInv /\ [Next]_vars => Opening'
<1> SUFFICES ASSUME IInv, [Next]_vars PROVE Opening'
  OBVIOUS
<1> USE DEF IInv, TypeOK, Opening
<1>1. CASE Start
  BY <1>1 DEF Start
<1>2. CASE LoadUtil
  BY <1>2 DEF LoadUtil
<1>3. CASE LoadGui
  BY <1>3 DEF LoadGui
<1>4. CASE MakeDirectories
  BY <1>4 DEF MakeDirectories
<1>5. CASE InitConfig
  BY <1>5, IsJob, IsList, IsContent, LoadedEmpty
     DEF InitConfig, Life, Work, Jobless, WriteDefault, LoadSaved
<1>6. CASE ConfigReady
  BY <1>6 DEF ConfigReady
<1>7. CASE InstallHooks
  BY <1>7 DEF InstallHooks
<1>8. CASE LoadTheme
  BY <1>8 DEF LoadTheme
<1>9. CASE FailStart
  BY <1>9 DEF FailStart
<1>10. CASE LeaveLoop
  BY <1>10 DEF LeaveLoop
<1>11. CASE HangEngine
  BY <1>11 DEF HangEngine
<1>12. CASE Autosave
  BY <1>12 DEF Autosave
<1>13. CASE EndSave
  BY <1>13 DEF EndSave
<1>14. CASE Unload
  BY <1>14 DEF Unload, Forget
<1>15. CASE Die
  BY <1>15 DEF Die, Forget
<1>16. ASSUME NEW t \in Threads, OpenWrite(t) PROVE Opening'
  BY <1>16, Whose, IsJob, IsList, IsContent
     DEF OpenWrite, Work, Life, Early, WriteDefault, LoadSaved, WriteSaved, Whole
<1>17. ASSUME NEW t \in Threads, CannotWrite(t) PROVE Opening'
  <2>1. SUFFICES ASSUME mpc = "initcfg" PROVE Opening'
    BY <1>17 DEF CannotWrite
  <2>2. t = "module" /\ jobs[t] = <<WriteDefault, LoadSaved>>
    BY <1>17, <2>1, Whose, IsJob, IsList DEF CannotWrite, Work, Life, Early, WriteDefault, LoadSaved
  <2>3. jobs'["module"] = <<LoadSaved>> /\ doc = Empty /\ settings = Default /\ ~IsBusy("module")
    BY <1>17, <2>1, <2>2, IsJob, IsList DEF CannotWrite, WriteDefault, LoadSaved
  <2> QED
    BY <1>17, <2>1, <2>3, LoadedEmpty, Shorter DEF CannotWrite
<1>18. ASSUME NEW t \in Threads, ExportEntries(t) PROVE Opening'
  BY <1>18, Whose, IsJob, IsList, IsContent
     DEF ExportEntries, Work, Life, Early, WriteDefault, LoadSaved, WriteSaved, Whole
<1>19. ASSUME NEW t \in Threads, EndWrite(t) PROVE Opening'
  <2>1. SUFFICES ASSUME mpc = "initcfg" PROVE Opening'
    BY <1>19 DEF EndWrite
  <2>2. t = "module" /\ jobs[t] = <<WriteDefault, LoadSaved>> /\ engine = "out"
    BY <1>19, <2>1, Whose, IsJob, IsList DEF EndWrite, Work, Life, Early, WriteDefault, LoadSaved
  <2>3. doc = Export(Default) /\ settings = Default
    BY <1>19, <2>1, <2>2, IsJob, IsList DEF EndWrite, Work, Fresh, Alone, WriteDefault, LoadSaved
  <2>4. jobs'["module"] = <<LoadSaved>> /\ ~IsBusy("module")'
    BY <1>19, <2>1, <2>2, IsJob, IsList DEF EndWrite, WriteDefault, LoadSaved
  <2>5. Loaded(doc) = Default
    BY <2>3, ExportRestores, DefaultIsSettings
  <2> QED
    BY <1>19, <2>1, <2>3, <2>4, <2>5, Shorter DEF EndWrite
<1>20. ASSUME NEW t \in Threads, ReadFile(t) PROVE Opening'
  <2>1. SUFFICES ASSUME mpc = "initcfg" PROVE Opening'
    BY <1>20 DEF ReadFile
  <2>2. t = "module" /\ jobs[t] = <<LoadSaved>>
    BY <1>20, <2>1, Whose, IsJob, IsList DEF ReadFile, Work, Life, Early, WriteDefault, LoadSaved
  <2>3. settings = Default /\ Loaded(doc) = Default /\ File(t) = "saved"
    BY <1>20, <2>1, <2>2, IsJob, IsList DEF ReadFile, LoadSaved
  <2>4. Loaded(doc') = Loaded(disk["saved"].doc)
    BY <1>20, <2>3, LoadedEmpty, IsContent DEF ReadFile
  <2> QED
    BY <1>20, <2>1, <2>2, <2>3, <2>4, IsJob, IsList DEF ReadFile, WriteDefault, LoadSaved, Loaded
<1>21. ASSUME NEW t \in Threads, CannotRead(t) PROVE Opening'
  <2>1. SUFFICES ASSUME mpc = "initcfg" PROVE Opening'
    BY <1>21 DEF CannotRead
  <2>2. t = "module" /\ jobs[t] = <<LoadSaved>>
    BY <1>21, <2>1, Whose, IsJob, IsList DEF CannotRead, Work, Life, Early, WriteDefault, LoadSaved
  <2>3. settings = Default /\ disk["saved"].doc = Empty /\ jobs'["module"] = <<>>
    BY <1>21, <2>1, <2>2, IsJob, IsList, IsContent DEF CannotRead, LoadSaved
  <2> QED
    BY <1>21, <2>1, <2>3, LoadedEmpty, IsJob, IsList DEF CannotRead, WriteDefault, LoadSaved
<1>22. ASSUME NEW t \in Threads, ApplyEntries(t) PROVE Opening'
  <2>1. SUFFICES ASSUME mpc = "initcfg" PROVE Opening'
    BY <1>22 DEF ApplyEntries
  <2>2. t = "module" /\ jobs[t] = <<LoadSaved>>
    BY <1>22, <2>1, Whose, IsJob, IsList
       DEF ApplyEntries, Work, Life, Early, WriteDefault, LoadSaved
  <2>3. settings = Default /\ Loaded(doc) = Loaded(disk["saved"].doc) /\ jobs'["module"] = <<>>
    BY <1>22, <2>1, <2>2, IsJob, IsList DEF ApplyEntries, LoadSaved
  <2>4. settings' = Loaded(doc)
    BY <1>22, <2>3 DEF ApplyEntries, Loaded, Register!Over
  <2> QED
    BY <1>22, <2>1, <2>3, <2>4, Shorter DEF ApplyEntries
<1>23. ASSUME NEW e \in Entries, NEW x \in Values[e], SetEntry(e, x) PROVE Opening'
  BY <1>23, IdleIs DEF SetEntry, Early
<1>24. ASSUME NEW job \in Jobs, Command(job) PROVE Opening'
  BY <1>24, IdleIs DEF Command, Early
<1>25. ASSUME NEW f \in Names, Delete(f) PROVE Opening'
  BY <1>25, IdleIs DEF Delete, Early
<1>26. ASSUME NEW f \in Names, NEW g \in Names, Rename(f, g) PROVE Opening'
  BY <1>26, IdleIs DEF Rename, Early
<1>27. ASSUME NEW th \in Themes, UseTheme(th) PROVE Opening'
  BY <1>27, IdleIs DEF UseTheme, Early
<1>28. CASE Sleep
  BY <1>28 DEF Sleep
<1>29. CASE EnterUnload
  BY <1>29 DEF EnterUnload
<1>30. CASE UNCHANGED vars
  BY <1>30
<1>31. QED
  BY <1>1, <1>2, <1>3, <1>4, <1>5, <1>6, <1>7, <1>8, <1>9, <1>10, <1>11, <1>12, <1>13, <1>14,
     <1>15, <1>16, <1>17, <1>18, <1>19, <1>20, <1>21, <1>22, <1>23, <1>24, <1>25, <1>26, <1>27,
     <1>28, <1>29, <1>30, IsJob
     DEF Next, ModuleNext, EngineNext, JobStep, RestoreDefaults

\* What the last save leaves.
LEMMA StepEnding == IInv /\ [Next]_vars => Ending'
<1> SUFFICES ASSUME IInv, [Next]_vars PROVE Ending'
  OBVIOUS
<1> USE DEF IInv, TypeOK, Ending, IsSaved
<1>1. CASE Start
  BY <1>1 DEF Start
<1>2. CASE LoadUtil
  BY <1>2 DEF LoadUtil
<1>3. CASE LoadGui
  BY <1>3 DEF LoadGui
<1>4. CASE MakeDirectories
  BY <1>4 DEF MakeDirectories
<1>5. CASE InitConfig
  BY <1>5 DEF InitConfig
<1>6. CASE ConfigReady
  BY <1>6 DEF ConfigReady
<1>7. CASE InstallHooks
  BY <1>7 DEF InstallHooks
<1>8. CASE LoadTheme
  BY <1>8 DEF LoadTheme
<1>9. CASE FailStart
  BY <1>9 DEF FailStart
<1>10. CASE LeaveLoop
  BY <1>10 DEF LeaveLoop
<1>11. CASE HangEngine
  BY <1>11, IsJob, IsList, IsContent DEF HangEngine, Work, Jobless
<1>12. CASE Autosave
  BY <1>12 DEF Autosave
<1>13. CASE EndSave
  BY <1>13 DEF EndSave, Work
<1>14. CASE Unload
  BY <1>14 DEF Unload, Forget
<1>15. CASE Die
  BY <1>15 DEF Die, Forget
<1>16. ASSUME NEW t \in Threads, OpenWrite(t) PROVE Ending'
  BY <1>16, Whose, IsJob, IsList, IsContent
     DEF OpenWrite, ToDirectory, Work, Fresh, Alone, WriteSaved
<1>17. ASSUME NEW t \in Threads, CannotWrite(t) PROVE Ending'
  BY <1>17, Whose, IsJob, IsList, IsContent
     DEF CannotWrite, ToDirectory, Work, Fresh, Alone, WriteSaved
<1>18. ASSUME NEW t \in Threads, ExportEntries(t) PROVE Ending'
  BY <1>18, Whose, IsJob, IsList, IsContent
     DEF ExportEntries, ToDirectory, Work, Fresh, Alone, WriteSaved
<1>19. ASSUME NEW t \in Threads, EndWrite(t) PROVE Ending'
  BY <1>19, Whose, IsJob, IsList, IsContent
     DEF EndWrite, ToDirectory, Work, Fresh, Alone, WriteSaved
<1>20. ASSUME NEW t \in Threads, ReadFile(t) PROVE Ending'
  BY <1>20, Whose, IsJob, IsList, IsContent
     DEF ReadFile, ToDirectory, Work, Fresh, Alone, WriteSaved
<1>21. ASSUME NEW t \in Threads, CannotRead(t) PROVE Ending'
  BY <1>21, Whose, IsJob, IsList, IsContent
     DEF CannotRead, ToDirectory, Work, Fresh, Alone, WriteSaved
<1>22. ASSUME NEW t \in Threads, ApplyEntries(t) PROVE Ending'
  BY <1>22, Whose, IsJob, IsList, IsContent
     DEF ApplyEntries, ToDirectory, Work, Fresh, Alone, WriteSaved
<1>23. ASSUME NEW e \in Entries, NEW x \in Values[e], SetEntry(e, x) PROVE Ending'
  BY <1>23, IdleIs DEF SetEntry, Early
<1>24. ASSUME NEW job \in Jobs, Command(job) PROVE Ending'
  BY <1>24, IdleIs DEF Command, Early
<1>25. ASSUME NEW f \in Names, Delete(f) PROVE Ending'
  BY <1>25, IdleIs DEF Delete, Early, Work
<1>26. ASSUME NEW f \in Names, NEW g \in Names, Rename(f, g) PROVE Ending'
  BY <1>26, IdleIs DEF Rename, Early, Work
<1>27. ASSUME NEW th \in Themes, UseTheme(th) PROVE Ending'
  BY <1>27, IdleIs DEF UseTheme, Early, Work
<1>28. CASE Sleep
  BY <1>28 DEF Sleep
<1>29. CASE EnterUnload
  BY <1>29 DEF EnterUnload
<1>30. CASE UNCHANGED vars
  BY <1>30
<1>31. QED
  BY <1>1, <1>2, <1>3, <1>4, <1>5, <1>6, <1>7, <1>8, <1>9, <1>10, <1>11, <1>12, <1>13, <1>14,
     <1>15, <1>16, <1>17, <1>18, <1>19, <1>20, <1>21, <1>22, <1>23, <1>24, <1>25, <1>26, <1>27,
     <1>28, <1>29, <1>30, IsJob
     DEF Next, ModuleNext, EngineNext, JobStep, RestoreDefaults

-----------------------------------------------------------------------------
(* The theorems. *)

LEMMA InitIInv == Init => IInv
<1> SUFFICES ASSUME Init PROVE IInv
  OBVIOUS
<1>1. TypeOK
  BY EmptyIsDoc, DefaultIsSettings, IsList, IsContent DEF Init, TypeOK, Contents
<1>2. Life
  BY DEF Init, Life, Early, Starting
<1>3. Work
  BY DEF Init, Work, Jobless, Starting
<1>4. Fresh /\ Opening /\ Ending
  BY DEF Init, Fresh, Opening, Ending
<1> QED
  BY <1>1, <1>2, <1>3, <1>4 DEF IInv

LEMMA StepIInv == IInv /\ [Next]_vars => IInv'
  BY StepTypeOK, StepLife, StepWork, StepFresh, StepOpening, StepEnding DEF IInv

\* The document, the files and the two threads, as long as the program exists.
THEOREM Invariance == Spec => []IInv
  BY InitIInv, StepIInv, PTL DEF Spec

\* The variables stay in their types: in particular every file holds a document.
THEOREM TypeCorrect == Spec => []TypeOK
<1>1. IInv => TypeOK
  BY DEF IInv
<1> QED
  BY <1>1, Invariance, PTL

\* The last save of a session has stored all of it, if the engine's thread was out of
\* its frames before that save began and has run no command out of its sleep.
THEOREM EndStores == Spec => []EndStoresAll
<1>1. IInv => EndStoresAll
  BY DEF IInv, Ending, IsSaved, EndStoresAll
<1> QED
  BY <1>1, Invariance, PTL

\* A write that is alone leaves the settings in the file.
THEOREM AloneWrites == Spec => AloneIsWhole
<1> DEFINE A == \A t \in Threads :
      IsBusy(t) /\ ~IsBusy(t)' /\ mpc' # "off" /\ dirs /\ Head(jobs[t]).do = "write" /\ Alone(t) =>
        disk'[File(t)] = Whole(Export(settings))
<1>1. IInv /\ [Next]_vars => [A]_vars
  <2> SUFFICES ASSUME IInv, [Next]_vars, NEW t \in Threads,
                      IsBusy(t), ~IsBusy(t)', mpc' # "off", dirs,
                      Head(jobs[t]).do = "write", Alone(t)
               PROVE  disk'[File(t)] = Whole(Export(settings))
    OBVIOUS
  <2> USE DEF IInv, TypeOK
  <2>1. \/ EndWrite(t) \/ ApplyEntries(t)
        \/ \E u \in Threads : u # t /\ JobStep(u)
        \/ UNCHANGED stage \/ Forget
    BY
       DEF Start, LoadUtil, LoadGui, MakeDirectories, InitConfig, ConfigReady, InstallHooks,
           LoadTheme, FailStart, LeaveLoop, HangEngine, Autosave, EndSave, Unload, Die,
           Forget, Sleep, EnterUnload, SetEntry, Command, RestoreDefaults, Delete, Rename,
           UseTheme, Next, ModuleNext, EngineNext, JobStep, OpenWrite, CannotWrite,
           ExportEntries, EndWrite, ReadFile, CannotRead, ApplyEntries
  <2>2. CASE EndWrite(t)
    <3>1. doc = Export(settings)
      BY <2>2 DEF EndWrite, Fresh, Alone
    <3>2. \A d : ToDirectory(File(t), d) => disk'[File(t)] = d
      BY <2>2, IsJob, IsList DEF ToDirectory, EndWrite
    <3> QED
      BY <2>2, <3>1, <3>2 DEF EndWrite, Alone
  <2>3. ~ApplyEntries(t)
    BY DEF ApplyEntries
  <2>4. ASSUME NEW u \in Threads, u # t, JobStep(u) PROVE FALSE
    BY <2>4
       DEF JobStep, OpenWrite, CannotWrite, ExportEntries, EndWrite, ReadFile, CannotRead,
           ApplyEntries
  <2> QED
    BY <2>1, <2>2, <2>3, <2>4 DEF Forget
<1> QED
  BY <1>1, Invariance, PTL DEF Spec, AloneIsWhole

\* The theme the user has is not lost from the registry.
THEOREM ThemeStays == Spec => ThemeKept
<1>1. IInv /\ [Next]_vars => [reg' # reg => /\ reg' = theme
                                            /\ \/ origin = "picked"
                                               \/ origin = "init" /\ theme = "white"]_vars
  <2> SUFFICES ASSUME IInv, [Next]_vars, reg' # reg
               PROVE  reg' = theme /\ (origin = "picked" \/ (origin = "init" /\ theme = "white"))
    OBVIOUS
  <2>1. EndSave
    BY
       DEF Start, LoadUtil, LoadGui, MakeDirectories, InitConfig, ConfigReady, InstallHooks,
           LoadTheme, FailStart, LeaveLoop, HangEngine, Autosave, EndSave, Unload, Die,
           Forget, Sleep, EnterUnload, SetEntry, Command, RestoreDefaults, Delete, Rename,
           UseTheme, Next, ModuleNext, EngineNext, JobStep, OpenWrite, CannotWrite,
           ExportEntries, EndWrite, ReadFile, CannotRead, ApplyEntries
  <2> QED
    BY <2>1 DEF EndSave, IInv, TypeOK, Life
<1> QED
  BY <1>1, Invariance, PTL DEF Spec, ThemeKept

-----------------------------------------------------------------------------
(* The sessions are those of SettingsRegister. *)

LEMMA RegisterTypes == Settings = Register!Settings /\ Docs \subseteq Register!Docs
<1>1. Settings = Register!Settings
  BY DEF Settings, AnyValue, Register!Settings, Register!Partial
<1>2. ASSUME NEW d \in Docs PROVE d \in Register!Docs
  <2>1. PICK S \in SUBSET Entries : d \in [S -> AnyValue] /\ \A e \in S : d[e] \in Values[e]
    BY <1>2 DEF Docs
  <2>2. d \in Register!Partial(S)
    BY <2>1 DEF AnyValue, Register!Partial
  <2> QED
    BY <2>1, <2>2 DEF Register!Docs
<1> QED
  BY <1>1, <1>2

\* What SettingsRegister sees of a state.
Held == IF IsOpenSession THEN settings ELSE Default
Stored == disk["saved"].doc
RegisterStep == Register!Next \/ UNCHANGED <<IsOpenSession, Held, Stored>>

LEMMA StoredIsDoc ==
  /\ TypeOK => Stored \in Register!Docs
  /\ TypeOK' => Stored' \in Register!Docs
  BY IsContent, RegisterTypes DEF TypeOK, Contents, Stored

\* A step that leaves the settings changes at most what is stored, of an open session.
LEMMA Storing ==
  ASSUME TypeOK', UNCHANGED <<running, settings>>, IsOpenSession \/ UNCHANGED Stored
  PROVE  RegisterStep
<1>1. UNCHANGED <<IsOpenSession, Held>>
  BY DEF IsOpenSession, Held
<1>2. CASE UNCHANGED Stored
  BY <1>1, <1>2 DEF RegisterStep
<1>3. CASE IsOpenSession
  <2>1. Stored' \in Register!Docs
    BY StoredIsDoc
  <2> QED
    BY <1>1, <1>3, <2>1 DEF RegisterStep, Register!Next, Register!Store, Held, Stored
<1> QED
  BY <1>2, <1>3

\* A step that leaves the files changes at most what is held, of an open session.
LEMMA Changing ==
  ASSUME TypeOK', UNCHANGED <<mpc, dirs, disk>>
  PROVE  RegisterStep
<1>1. UNCHANGED <<IsOpenSession, Stored>>
  BY DEF IsOpenSession, Stored
<1>2. CASE ~IsOpenSession
  BY <1>1, <1>2 DEF RegisterStep, Held
<1>3. CASE IsOpenSession
  <2>1. Held' \in Register!Settings
    BY <1>1, <1>3, RegisterTypes DEF Held, TypeOK
  <2> QED
    BY <1>1, <1>3, <2>1 DEF RegisterStep, Register!Next, Register!Change, Held, Stored
<1> QED
  BY <1>2, <1>3

\* A step that only changes where the module's thread is, but not whether it is open.
LEMMA Going ==
  ASSUME UNCHANGED <<settings, disk, IsOpenSession>>
  PROVE  RegisterStep
  BY DEF RegisterStep, Held, Stored

\* In a session that is not open, the module's thread writes the defaults at most.
LEMMA WritesDefaults ==
  ASSUME IInv, NEW t \in Threads, jobs[t] # <<>>, Head(jobs[t]).do = "write",
         NEW c, ToDirectory(File(t), c)
  PROVE  IsOpenSession \/ UNCHANGED Stored
<1>1. CASE ~dirs
  BY <1>1 DEF ToDirectory, Stored
<1>2. CASE dirs /\ ~IsOpenSession
  <2>1. mpc \in {"dirs", "initcfg"}
    BY <1>2 DEF IsOpenSession
  <2>2. t = "module" /\ mpc = "initcfg"
    BY <2>1, Whose DEF Early, Starting
  <2>3. File(t) = "default"
    BY <2>2, Shorter DEF IInv, Work
  <2>4. disk'["saved"] = disk["saved"]
    BY <1>2, <2>3 DEF ToDirectory, IInv, TypeOK
  <2> QED
    BY <2>4 DEF Stored
<1> QED
  BY <1>1, <1>2

\* The engine's thread is there in open sessions only.
LEMMA EngineInSession == IInv /\ engine # "out" => IsOpenSession
  BY DEF IInv, Life, Early, Starting, IsOpenSession

LEMMA StepSession == IInv /\ IInv' /\ [Next]_vars => RegisterStep
<1> SUFFICES ASSUME IInv, IInv', [Next]_vars PROVE RegisterStep
  OBVIOUS
<1>0. TypeOK /\ TypeOK' /\ Life /\ Work /\ Opening
  BY DEF IInv
<1>1. CASE Start
  BY <1>1, <1>0, Going DEF Start, IsOpenSession, Life, Starting
<1>2. CASE LoadUtil
  BY <1>2, <1>0, Going DEF LoadUtil, IsOpenSession, Life, Starting
<1>3. CASE LoadGui
  BY <1>3, <1>0, Going DEF LoadGui, IsOpenSession, Life, Starting
<1>4. CASE MakeDirectories
  BY <1>4, <1>0, Going DEF MakeDirectories, IsOpenSession, Life, Starting
<1>5. CASE InitConfig
  BY <1>5, <1>0, Going DEF InitConfig, IsOpenSession, Life, Starting
<1>6. CASE ConfigReady
  <2>1. ~IsOpenSession /\ IsOpenSession' /\ Held' = Loaded(Stored) /\ Stored' = Stored
    BY <1>6, <1>0 DEF ConfigReady, IsOpenSession, Held, Stored, Life, Opening
  <2> QED
    BY <2>1 DEF RegisterStep, Register!Next, Register!Enter, Loaded, Held, Stored
<1>7. CASE InstallHooks
  BY <1>7, <1>0, Going DEF InstallHooks, IsOpenSession, Life, Starting
<1>8. CASE LoadTheme
  BY <1>8, <1>0, Going DEF LoadTheme, IsOpenSession, Life, Starting
<1>9. CASE FailStart
  BY <1>9, <1>0, Going DEF FailStart, IsOpenSession, Life, Starting
<1>10. CASE LeaveLoop
  BY <1>10, <1>0, Going DEF LeaveLoop, IsOpenSession, Life, Starting
<1>11. CASE HangEngine
  BY <1>11, <1>0, Going DEF HangEngine, IsOpenSession, Life, Starting
<1>12. CASE Autosave
  BY <1>12, <1>0, Going DEF Autosave, IsOpenSession, Life, Starting
<1>13. CASE EndSave
  BY <1>13, <1>0, Going DEF EndSave, IsOpenSession, Life, Starting
<1>14. CASE Unload
  <2>1. ~IsOpenSession' /\ Held' = Default /\ Stored' = Stored
    BY <1>14 DEF Unload, Forget, IsOpenSession, Held, Stored
  <2>2. CASE IsOpenSession
    BY <2>1, <2>2 DEF RegisterStep, Register!Next, Register!Leave, Held, Stored
  <2>3. CASE ~IsOpenSession
    BY <2>1, <2>3 DEF RegisterStep, Held, IsOpenSession
  <2> QED
    BY <2>2, <2>3
<1>15. CASE Die
  <2>1. ~IsOpenSession' /\ Held' = Default /\ Stored' = Stored
    BY <1>15 DEF Die, Forget, IsOpenSession, Held, Stored
  <2>2. CASE IsOpenSession
    BY <2>1, <2>2 DEF RegisterStep, Register!Next, Register!Leave, Held, Stored
  <2>3. CASE ~IsOpenSession
    BY <2>1, <2>3 DEF RegisterStep, Held, IsOpenSession
  <2> QED
    BY <2>2, <2>3
<1>16. ASSUME NEW t \in Threads, OpenWrite(t) PROVE RegisterStep
  BY <1>16, <1>0, WritesDefaults, Storing DEF OpenWrite
<1>17. ASSUME NEW t \in Threads, CannotWrite(t) PROVE RegisterStep
  BY <1>17, <1>0, Changing DEF CannotWrite
<1>18. ASSUME NEW t \in Threads, ExportEntries(t) PROVE RegisterStep
  BY <1>18, <1>0, Changing DEF ExportEntries
<1>19. ASSUME NEW t \in Threads, EndWrite(t) PROVE RegisterStep
  <2>1. IsOpenSession \/ UNCHANGED Stored
    <3>1. PICK c : ToDirectory(File(t), c)
      BY <1>19 DEF EndWrite
    <3> QED
      BY <1>19, <3>1, WritesDefaults DEF EndWrite
  <2> QED
    BY <1>19, <1>0, <2>1, Storing DEF EndWrite
<1>20. ASSUME NEW t \in Threads, ReadFile(t) PROVE RegisterStep
  BY <1>20, <1>0, Changing DEF ReadFile
<1>21. ASSUME NEW t \in Threads, CannotRead(t) PROVE RegisterStep
  BY <1>21, <1>0, Changing DEF CannotRead
<1>22. ASSUME NEW t \in Threads, ApplyEntries(t) PROVE RegisterStep
  BY <1>22, <1>0, Changing DEF ApplyEntries
<1>23. ASSUME NEW e \in Entries, NEW x \in Values[e], SetEntry(e, x) PROVE RegisterStep
  BY <1>23, <1>0, Changing DEF SetEntry
<1>24. ASSUME NEW job \in Jobs, Command(job) PROVE RegisterStep
  BY <1>24, <1>0, Changing DEF Command
<1>25. ASSUME NEW f \in Names, Delete(f) PROVE RegisterStep
  BY <1>25, <1>0, EngineInSession, Storing DEF Delete
<1>26. ASSUME NEW f \in Names, NEW g \in Names, Rename(f, g) PROVE RegisterStep
  BY <1>26, <1>0, EngineInSession, Storing DEF Rename
<1>27. ASSUME NEW th \in Themes, UseTheme(th) PROVE RegisterStep
  BY <1>27, <1>0, Changing DEF UseTheme
<1>28. CASE Sleep
  BY <1>28, <1>0, Going DEF Sleep, IsOpenSession, Life, Starting
<1>29. CASE EnterUnload
  BY <1>29, <1>0, Going DEF EnterUnload, IsOpenSession, Life, Starting
<1>30. CASE UNCHANGED vars
  BY <1>30, <1>0, Changing
<1>31. QED
  BY <1>1, <1>2, <1>3, <1>4, <1>5, <1>6, <1>7, <1>8, <1>9, <1>10, <1>11, <1>12, <1>13, <1>14,
     <1>15, <1>16, <1>17, <1>18, <1>19, <1>20, <1>21, <1>22, <1>23, <1>24, <1>25, <1>26, <1>27,
     <1>28, <1>29, <1>30, IsJob
     DEF Next, ModuleNext, EngineNext, JobStep, RestoreDefaults

\* Every session opens with what the sessions before it have left.
THEOREM SessionsOfRegister == Spec => StoreImplements
<1>1. Init => Register!Init
  <2> SUFFICES ASSUME Init PROVE Register!Init
    OBVIOUS
  <2>1. Stored \in Register!Docs
    BY InitIInv, StoredIsDoc DEF IInv
  <2> QED
    BY <2>1 DEF Init, Register!Init, IsOpenSession, Stored
<1>2. IInv /\ IInv' /\ [Next]_vars =>
        [Register!Next]_<<IsOpenSession, IF IsOpenSession THEN settings ELSE Default,
                          disk["saved"].doc>>
  BY StepSession DEF RegisterStep, Held, Stored
<1> QED
  BY <1>1, <1>2, Invariance, PTL DEF Spec, StoreImplements, Register!Spec

=============================================================================
