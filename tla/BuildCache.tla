----------------------------- MODULE BuildCache -----------------------------
(***************************************************************************)
(* The incremental build of tools/vbuild.c: VBuild processes that share a  *)
(* project directory, the compilers they start, and a developer who edits  *)
(* the sources.                                                            *)
(*                                                                         *)
(* The tracked inputs are one file with a content and a modification time  *)
(* in seconds; the fingerprint is the content, collisions of the 64-bit    *)
(* hash aside.  The time test looks at the root source, its imports and    *)
(* the runtime sources or linker script only: an edit of the properties,   *)
(* the task file, the compiler or an implementation module is an edit that *)
(* keeps the modification time.  "run" stands for the default task "run    *)
(* depends build".  Tasks that only check take no lock, write nothing and  *)
(* are left out, and so is a VBuild that finds the project locked: it      *)
(* exits at once.                                                          *)
(***************************************************************************)
EXTENDS Naturals

CONSTANTS
    Pid,          \* process ids VBuild may run under
    Version,      \* contents of the inputs: positive numbers
    None,         \* no process
    MaxTime,      \* bound on the clock
    Modes         \* what may happen around VBuild, as sets of the words below

(* "faults": VBuild may be killed, renames and manifest writes may fail.   *)
(* "coarse": an edit may keep the modification time, or fall into the      *)
(* second of a build.  "busy": inputs may be edited while a build runs.    *)
ASSUME CacheAssumption ==
    /\ Version \subseteq Nat \ {0} /\ None \notin Pid /\ MaxTime \in Nat

ASSUME ModesAssumption == Modes \subseteq SUBSET {"faults", "coarse", "busy"}

VARIABLES
    mode,         \* the member of Modes in force
    clock,        \* seconds
    src,          \* the inputs: content and mtime
    artifact,     \* build/<output>
    manifest,     \* build/<output>.vbuild-inputs: a content, or 0 for no file
    temp,         \* build/<output>.vbuild-artifact-<pid>
    lock,         \* the process that holds .vbuild.lock
    pc,           \* per process: where it is in main,
    cmd,          \* what it was asked to do,
    current,      \* the result of the time test,
    fp            \* the fingerprint

local == <<cmd, current, fp>>
vars == <<mode, clock, src, artifact, manifest, temp, lock, pc, local>>

NoFile == [content |-> 0, mtime |-> 0, whole |-> FALSE]
Commands == {"build", "force", "run", "clean"}

Init ==
    /\ mode \in Modes
    /\ clock = 1
    /\ \E v \in Version : src = [content |-> v, mtime |-> 1]
    /\ artifact = NoFile /\ manifest = 0
    /\ temp = [p \in Pid |-> NoFile]
    /\ lock = None
    /\ pc = [p \in Pid |-> "idle"]
    /\ cmd = [p \in Pid |-> "build"] /\ current = [p \in Pid |-> FALSE] /\ fp = [p \in Pid |-> 0]

(* artifact_is_usable: there is a non-empty file. *)
Usable(file) == file.content # 0

At(p, place) == pc[p] = place
Goto(p, place) == pc' = [pc EXCEPT ![p] = place]

(* The process is gone, and its locals with it. *)
Leave(p) ==
    /\ Goto(p, "idle")
    /\ cmd' = [cmd EXCEPT ![p] = "build"]
    /\ current' = [current EXCEPT ![p] = FALSE]
    /\ fp' = [fp EXCEPT ![p] = 0]

(* main returns: the lock is released. *)
Exit(p) == Leave(p) /\ lock' = None

(* The end of the build task: exit, or go on to the run task. *)
BuildDone(p) ==
    IF cmd[p] = "run" THEN Goto(p, "run") /\ UNCHANGED <<lock, local>> ELSE Exit(p)
-----------------------------------------------------------------------------
(* acquire_project_lock, for a task graph that mutates the project. *)
Invoke(p, c) ==
    /\ At(p, "idle") /\ lock = None
    /\ lock' = p
    /\ Goto(p, IF c = "clean" THEN "clean" ELSE "stat")
    /\ cmd' = [cmd EXCEPT ![p] = c]
    /\ UNCHANGED <<clock, src, artifact, manifest, temp, current, fp>>

(* imports_are_current and build_inputs_are_current. *)
CheckTimes(p) ==
    /\ At(p, "stat")
    /\ Goto(p, "hash")
    /\ current' = [current EXCEPT ![p] = Usable(artifact) /\ artifact.mtime >= src.mtime]
    /\ UNCHANGED <<clock, src, artifact, manifest, temp, lock, cmd, fp>>

(* compute_fingerprint. *)
Fingerprint(p) ==
    /\ At(p, "hash")
    /\ Goto(p, "decide")
    /\ fp' = [fp EXCEPT ![p] = src.content]
    /\ UNCHANGED <<clock, src, artifact, manifest, temp, lock, cmd, current>>

(* The root source, an import or another input is missing or unreadable. *)
CheckFails(p) ==
    /\ pc[p] \in {"stat", "hash"}
    /\ Exit(p)
    /\ UNCHANGED <<clock, src, artifact, manifest, temp>>

(* Mutant: the modification times alone decide. *)
CurrentByTimes(p) == cmd[p] # "force" /\ current[p] /\ Usable(artifact)

Current(p) ==
    /\ cmd[p] # "force"
    /\ current[p]
    /\ Usable(artifact)
    /\ manifest = fp[p]

(* "Up to date". *)
UpToDate(p) ==
    /\ At(p, "decide") /\ Current(p)
    /\ BuildDone(p)
    /\ UNCHANGED <<clock, src, artifact, manifest, temp>>

(* Mutant: a temporary file that is already there is kept. *)
StartCompilerOver(p) ==
    /\ At(p, "decide") /\ ~Current(p)
    /\ Goto(p, "compile")
    /\ UNCHANGED <<clock, src, artifact, manifest, temp, lock, local>>

(* The temporary file of an earlier process of this number is removed and  *)
(* the compiler started.                                                   *)
StartCompiler(p) ==
    /\ At(p, "decide") /\ ~Current(p)
    /\ temp' = [temp EXCEPT ![p] = NoFile]
    /\ Goto(p, "compile")
    /\ UNCHANGED <<clock, src, artifact, manifest, lock, local>>

Compiling == {"compile", "emit"}
Orphaned == {"orphan_compile", "orphan_emit"}

(* Mutant: the compiler writes the artifact in place. *)
ReadInputsInPlace(p) ==
    /\ pc[p] \in {"compile", "orphan_compile"}
    /\ artifact' = [content |-> src.content, mtime |-> clock, whole |-> FALSE]
    /\ temp' = [temp EXCEPT ![p] = [content |-> src.content, mtime |-> clock, whole |-> FALSE]]
    /\ Goto(p, IF At(p, "compile") THEN "emit" ELSE "orphan_emit")
    /\ UNCHANGED <<clock, src, manifest, lock, local>>

(* The compiler reads the inputs and begins its output ... *)
ReadInputs(p) ==
    /\ pc[p] \in {"compile", "orphan_compile"}
    /\ temp' = [temp EXCEPT ![p] = [content |-> src.content, mtime |-> clock, whole |-> FALSE]]
    /\ Goto(p, IF At(p, "compile") THEN "emit" ELSE "orphan_emit")
    /\ UNCHANGED <<clock, src, artifact, manifest, lock, local>>

(* ... and completes it, unless "clean" has removed the file meanwhile.  A *)
(* compiler whose VBuild was killed goes on, and its number is free once   *)
(* it has ended.                                                           *)
Emit(p) ==
    /\ pc[p] \in {"emit", "orphan_emit"}
    /\ temp' = [temp EXCEPT ![p] =
                  IF Usable(@) THEN [content |-> @.content, mtime |-> clock, whole |-> TRUE] ELSE NoFile]
    /\ IF At(p, "emit") THEN Goto(p, "commit") /\ UNCHANGED local ELSE Leave(p)
    /\ UNCHANGED <<clock, src, artifact, manifest, lock>>

(* The compiler reports success without output: what lies at the temporary *)
(* path decides.                                                           *)
EmitNothing(p) ==
    /\ At(p, "compile")
    /\ IF Usable(temp[p]) THEN Goto(p, "commit") /\ UNCHANGED <<lock, local>> ELSE Exit(p)
    /\ UNCHANGED <<clock, src, artifact, manifest, temp>>

(* An orphaned compiler fails or is killed too: what it wrote stays. *)
OrphanEnds(p) ==
    /\ pc[p] \in Orphaned
    /\ Leave(p)
    /\ UNCHANGED <<clock, src, artifact, manifest, temp, lock>>

(* The compiler fails: the temporary file is removed. *)
CompileFails(p) ==
    /\ pc[p] \in Compiling
    /\ temp' = [temp EXCEPT ![p] = NoFile]
    /\ Exit(p)
    /\ UNCHANGED <<clock, src, artifact, manifest>>

(* atomic_replace_file of the artifact. *)
Commit(p) ==
    /\ At(p, "commit")
    /\ artifact' = temp[p]
    /\ temp' = [temp EXCEPT ![p] = NoFile]
    /\ Goto(p, "manifest")
    /\ UNCHANGED <<clock, src, manifest, lock, local>>

CommitFails(p) ==
    /\ "faults" \in mode
    /\ At(p, "commit")
    /\ temp' = [temp EXCEPT ![p] = NoFile]
    /\ Exit(p)
    /\ UNCHANGED <<clock, src, artifact, manifest>>

(* Mutant: a manifest that is already there is kept. *)
SaveOnce(p) ==
    /\ At(p, "manifest")
    /\ manifest' = IF manifest = 0 THEN fp[p] ELSE manifest
    /\ BuildDone(p)
    /\ UNCHANGED <<clock, src, artifact, temp>>

(* write_manifest: a temporary file, then a rename. *)
SaveManifest(p) ==
    /\ At(p, "manifest")
    /\ manifest' = fp[p]
    /\ BuildDone(p)
    /\ UNCHANGED <<clock, src, artifact, temp>>

(* write_manifest fails: the build fails, the new artifact stays. *)
ManifestFails(p) ==
    /\ "faults" \in mode
    /\ At(p, "manifest")
    /\ Exit(p)
    /\ UNCHANGED <<clock, src, artifact, manifest, temp>>

(* execute_action of a run task: the artifact is run, if it is usable. *)
Run(p) ==
    /\ At(p, "run")
    /\ Exit(p)
    /\ UNCHANGED <<clock, src, artifact, manifest, temp>>

(* clean_build removes file after file, in no particular order. *)
CleanFile(p) ==
    /\ At(p, "clean")
    /\ \/ artifact # NoFile /\ artifact' = NoFile /\ UNCHANGED <<manifest, temp>>
       \/ manifest # 0 /\ manifest' = 0 /\ UNCHANGED <<artifact, temp>>
       \/ \E q \in Pid : temp[q] # NoFile /\ temp' = [temp EXCEPT ![q] = NoFile]
                         /\ UNCHANGED <<artifact, manifest>>
    /\ UNCHANGED <<clock, src, lock, pc, local>>

CleanEnd(p) ==
    /\ At(p, "clean")
    /\ artifact = NoFile /\ manifest = 0
    /\ \A q \in Pid : temp[q] = NoFile \/ pc[q] \in Orphaned
    /\ Exit(p)
    /\ UNCHANGED <<clock, src, artifact, manifest, temp>>

(* VBuild is killed: the system releases its lock, a compiler it was       *)
(* waiting for lives on.                                                   *)
Kill(p) ==
    /\ "faults" \in mode
    /\ pc[p] \notin {"idle"} \cup Orphaned
    /\ lock' = None
    /\ CASE At(p, "compile") -> Goto(p, "orphan_compile") /\ UNCHANGED local
         [] At(p, "emit") -> Goto(p, "orphan_emit") /\ UNCHANGED local
         [] OTHER -> Leave(p)
    /\ UNCHANGED <<clock, src, artifact, manifest, temp>>

(* The developer changes an input. *)
Edit ==
    /\ "busy" \in mode \/ lock = None
    /\ \E v \in Version \ {src.content} :
         \/ /\ clock < MaxTime
            /\ clock' = clock + 1
            /\ src' = [content |-> v, mtime |-> clock + 1]
         \/ /\ "coarse" \in mode
            /\ src' \in [content : {v}, mtime : {src.mtime, clock}]
            /\ UNCHANGED clock
    /\ UNCHANGED <<artifact, manifest, temp, lock, pc, local>>

Step(p) ==
    \/ \E c \in Commands : Invoke(p, c)
    \/ CheckTimes(p) \/ CheckFails(p) \/ Fingerprint(p) \/ UpToDate(p) \/ StartCompiler(p)
    \/ ReadInputs(p) \/ Emit(p) \/ EmitNothing(p) \/ OrphanEnds(p) \/ CompileFails(p)
    \/ Commit(p) \/ CommitFails(p) \/ SaveManifest(p) \/ ManifestFails(p)
    \/ Run(p) \/ CleanFile(p) \/ CleanEnd(p) \/ Kill(p)

Next == (Edit \/ \E p \in Pid : Step(p)) /\ UNCHANGED mode

Spec == Init /\ [][Next]_vars
-----------------------------------------------------------------------------
File == [content : Version \cup {0}, mtime : Nat, whole : BOOLEAN]
Places ==
    {"idle", "stat", "hash", "decide", "commit", "manifest", "run", "clean"} \cup Compiling \cup Orphaned

TypeOK ==
    /\ mode \in Modes
    /\ clock \in Nat
    /\ src \in [content : Version, mtime : Nat]
    /\ artifact \in File
    /\ manifest \in Version \cup {0}
    /\ temp \in [Pid -> File]
    /\ lock \in Pid \cup {None}
    /\ pc \in [Pid -> Places]
    /\ cmd \in [Pid -> Commands]
    /\ current \in [Pid -> BOOLEAN]
    /\ fp \in [Pid -> Version \cup {0}]

(* "preventing concurrent operations from racing": of all VBuild processes *)
(* only the holder of the lock is past its start, however others ended.    *)
OneBuilder == \A p \in Pid : pc[p] \notin {"idle"} \cup Orphaned <=> lock = p

(* No step ever puts an unfinished output in the artifact's place, whether *)
(* compilers fail, VBuild is killed or a compiler outlives it.             *)
ArtifactWhole == Usable(artifact) => artifact.whole

(* "Up to date" is printed only when the artifact was compiled from the    *)
(* inputs as they are (and as they were when the fingerprint was taken).   *)
UpToDateIsFresh ==
    [][\A p \in Pid : UpToDate(p) /\ fp[p] = src.content => artifact.content = src.content]_vars

(* A successful build, and with it a run task that depends on it, uses an  *)
(* artifact compiled from the inputs as they are.                          *)
BuiltIsFresh ==
    \A p \in Pid : At(p, "manifest") \/ At(p, "run") => artifact.content = src.content

(* A failed compile preserves the previous artifact and manifest, and so   *)
(* does a killed VBuild's compiler.  (A failure after the artifact was     *)
(* replaced does not: see UpToDateIsFresh.)                                *)
FailurePreserves ==
    [][\A p \in Pid : pc[p] \in Compiling \cup Orphaned /\ pc'[p] # pc[p] =>
          UNCHANGED <<artifact, manifest>>]_vars

(* Unless builds are interrupted, the manifest never vouches for an        *)
(* artifact built from other inputs, also if the modification times show   *)
(* none of the edits.                                                      *)
ManifestTruthful ==
    "faults" \notin mode /\ lock = None /\ Usable(artifact) /\ manifest # 0 => manifest = artifact.content
=============================================================================
