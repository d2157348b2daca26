------------------------- MODULE BuildCache_proofs -------------------------
(***************************************************************************)
(* Proofs about BuildCache for any number of processes and contents.  The  *)
(* invariant Inv says who may be where (the lock), what lies at the        *)
(* temporary path, and how the artifact relates to the inputs: by          *)
(* modification time when edits advance it (TimesTell), by the manifest    *)
(* when VBuild never stops between artifact and manifest (ManifestTells).  *)
(***************************************************************************)
EXTENDS BuildCache, TLAPS

(* The temporary file is gone when the compiler starts and complete when   *)
(* it is put in place.                                                     *)
TempSound ==
    \A p \in Pid :
      /\ At(p, "compile") => temp[p] = NoFile
      /\ At(p, "emit") => Usable(temp[p])
      /\ At(p, "commit") => temp[p].whole /\ Usable(temp[p])

Inv == TypeOK /\ OneBuilder /\ ArtifactWhole /\ TempSound

(* No file is newer than the clock. *)
TimesPast == artifact.mtime <= clock /\ \A p \in Pid : temp[p].mtime <= clock

(* Edits that advance the clock are seen in the modification times.        *)
TimesTell ==
    /\ Usable(artifact) => artifact.content = src.content \/ artifact.mtime < src.mtime
    /\ \A p \in Pid : (At(p, "hash") \/ At(p, "decide")) /\ current[p] => artifact.content = src.content

(* Without faults the manifest is that of the artifact, but for the moment *)
(* between the two replacements.                                           *)
ManifestTells ==
    (\A p \in Pid : ~At(p, "manifest")) /\ Usable(artifact) /\ manifest # 0 => manifest = artifact.content

(* What a build has read is what the inputs still hold. *)
ReadsCurrent ==
    \A p \in Pid :
      /\ pc[p] \in {"decide", "compile", "emit", "commit", "manifest"} => fp[p] = src.content
      /\ At(p, "emit") \/ At(p, "commit") => temp[p].content = src.content

(* Inputs are edited between builds only, and either every edit shows in   *)
(* the modification times or no build stops half-way.                      *)
Quiet == \A m \in Modes : "busy" \notin m /\ ("coarse" \notin m \/ "faults" \notin m)

FreshInv ==
    /\ ReadsCurrent /\ BuiltIsFresh
    /\ TimesPast
    /\ "coarse" \notin mode => TimesTell
    /\ "faults" \notin mode => ManifestTells
-----------------------------------------------------------------------------
(* The initial state, a project that has never been built, satisfies Inv.  *)
LEMMA InitSound == Init => Inv
BY CacheAssumption DEF Init, Inv, TypeOK, OneBuilder, ArtifactWhole, TempSound, NoFile, File, Places,
   Commands, Compiling, Orphaned, Usable, At

(* A step of any action keeps every variable in its type.                  *)
LEMMA StepTyped ==
    ASSUME TypeOK, [Next]_vars PROVE TypeOK'
<1>0. mode' = mode
  BY DEF Next, vars
<1> USE <1>0, CacheAssumption DEF TypeOK, File, NoFile, Places, Compiling, Orphaned, Commands, local
<1>1. CASE Edit
  BY <1>1, SMTT(40) DEF Edit
<1>2. ASSUME NEW p \in Pid, Step(p) PROVE TypeOK'
  <2>1. ASSUME NEW c \in Commands, Invoke(p, c) PROVE TypeOK'
    BY <2>1 DEF Invoke, Goto
  <2>2. CASE CheckTimes(p)
    <3>1. (Usable(artifact) /\ artifact.mtime >= src.mtime) \in BOOLEAN
      OBVIOUS
    <3>2. current' \in [Pid -> BOOLEAN]
      BY <2>2, <3>1, Zenon DEF CheckTimes
    <3> QED
      BY <2>2, <3>2 DEF CheckTimes, Goto
  <2>3. CASE CheckFails(p)
    BY <2>3 DEF CheckFails, Exit, Leave, Goto
  <2>4. CASE Fingerprint(p)
    BY <2>4 DEF Fingerprint, Goto
  <2>5. CASE UpToDate(p)
    BY <2>5 DEF UpToDate, BuildDone, Exit, Leave, Goto
  <2>6. CASE StartCompiler(p)
    BY <2>6 DEF StartCompiler, Goto
  <2>7. CASE SaveManifest(p)
    BY <2>7 DEF SaveManifest, BuildDone, Exit, Leave, Goto
  <2>8. CASE Run(p)
    BY <2>8 DEF Run, Exit, Leave, Goto
  <2>9. CASE ReadInputs(p)
    BY <2>9 DEF ReadInputs, Goto
  <2>10. CASE Emit(p)
    BY <2>10 DEF Emit, Leave, Goto
  <2>11. CASE EmitNothing(p)
    BY <2>11 DEF EmitNothing, Exit, Leave, Goto
  <2>12. CASE OrphanEnds(p)
    BY <2>12 DEF OrphanEnds, Leave, Goto
  <2>13. CASE CompileFails(p)
    BY <2>13 DEF CompileFails, Exit, Leave, Goto
  <2>14. CASE Commit(p)
    BY <2>14 DEF Commit, Goto
  <2>15. CASE CommitFails(p)
    BY <2>15 DEF CommitFails, Exit, Leave, Goto
  <2>16. CASE ManifestFails(p)
    BY <2>16 DEF ManifestFails, Exit, Leave, Goto
  <2>17. CASE CleanFile(p)
    <3>1. CASE artifact' = NoFile /\ UNCHANGED <<manifest, temp>>
      BY <2>17, <3>1 DEF CleanFile
    <3>2. CASE manifest' = 0 /\ UNCHANGED <<artifact, temp>>
      BY <2>17, <3>2 DEF CleanFile
    <3>3. ASSUME NEW q \in Pid, temp' = [temp EXCEPT ![q] = NoFile], UNCHANGED <<artifact, manifest>>
          PROVE  TypeOK'
      BY <2>17, <3>3 DEF CleanFile
    <3> QED
      BY <2>17, <3>1, <3>2, <3>3 DEF CleanFile
  <2>18. CASE CleanEnd(p)
    BY <2>18 DEF CleanEnd, Exit, Leave, Goto
  <2>19. CASE Kill(p)
    BY <2>19, ZenonT(40) DEF Kill, Leave, Goto
  <2> QED
    BY <1>2, <2>1, <2>2, <2>3, <2>4, <2>5, <2>6, <2>7, <2>8, <2>9, <2>10, <2>11, <2>12,
       <2>13, <2>14, <2>15, <2>16, <2>17, <2>18, <2>19 DEF Step
<1>3. CASE UNCHANGED vars
  BY <1>3 DEF vars, local
<1> QED
  BY <1>1, <1>2, <1>3 DEF Next

(* The lock tells who is past its start, whatever step is taken.           *)
LEMMA StepLocked ==
    ASSUME TypeOK, OneBuilder, [Next]_vars PROVE OneBuilder'
<1>0. mode' = mode
  BY DEF Next, vars
<1> USE <1>0, CacheAssumption DEF TypeOK, OneBuilder, Places, Compiling, Orphaned, local, At
<1>1. CASE Edit
  BY <1>1 DEF Edit
<1>2. ASSUME NEW p \in Pid, Step(p) PROVE OneBuilder'
  <2>1. ASSUME NEW c \in Commands, Invoke(p, c) PROVE OneBuilder'
    BY <2>1 DEF Invoke, Goto
  <2>2. CASE CheckTimes(p)
    BY <2>2 DEF CheckTimes, Goto
  <2>3. CASE CheckFails(p)
    BY <2>3 DEF CheckFails, Exit, Leave, Goto
  <2>4. CASE Fingerprint(p)
    BY <2>4 DEF Fingerprint, Goto
  <2>5. CASE UpToDate(p)
    BY <2>5 DEF UpToDate, BuildDone, Exit, Leave, Goto
  <2>6. CASE StartCompiler(p)
    BY <2>6 DEF StartCompiler, Goto
  <2>7. CASE SaveManifest(p)
    BY <2>7 DEF SaveManifest, BuildDone, Exit, Leave, Goto
  <2>8. CASE Run(p)
    BY <2>8 DEF Run, Exit, Leave, Goto
  <2>9. CASE ReadInputs(p)
    BY <2>9 DEF ReadInputs, Goto
  <2>10. CASE Emit(p)
    BY <2>10 DEF Emit, Leave, Goto
  <2>11. CASE EmitNothing(p)
    BY <2>11 DEF EmitNothing, Exit, Leave, Goto
  <2>12. CASE OrphanEnds(p)
    BY <2>12 DEF OrphanEnds, Leave, Goto
  <2>13. CASE CompileFails(p)
    BY <2>13 DEF CompileFails, Exit, Leave, Goto
  <2>14. CASE Commit(p)
    BY <2>14 DEF Commit, Goto
  <2>15. CASE CommitFails(p)
    BY <2>15 DEF CommitFails, Exit, Leave, Goto
  <2>16. CASE ManifestFails(p)
    BY <2>16 DEF ManifestFails, Exit, Leave, Goto
  <2>17. CASE CleanFile(p)
    BY <2>17 DEF CleanFile
  <2>18. CASE CleanEnd(p)
    BY <2>18 DEF CleanEnd, Exit, Leave, Goto
  <2>19. CASE Kill(p)
    BY <2>19 DEF Kill, Leave, Goto
  <2> QED
    BY <1>2, <2>1, <2>2, <2>3, <2>4, <2>5, <2>6, <2>7, <2>8, <2>9, <2>10, <2>11, <2>12,
       <2>13, <2>14, <2>15, <2>16, <2>17, <2>18, <2>19 DEF Step
<1>3. CASE UNCHANGED vars
  BY <1>3 DEF vars, local
<1> QED
  BY <1>1, <1>2, <1>3 DEF Next

(* Temporary files and artifact stay sound; only the holder of the lock    *)
(* cleans, so no file of a running build is removed.                       *)
LEMMA StepWhole ==
    ASSUME Inv, [Next]_vars PROVE (ArtifactWhole /\ TempSound)'
<1>0. mode' = mode
  BY DEF Next, vars
<1> USE <1>0, CacheAssumption DEF Inv, TypeOK, OneBuilder, ArtifactWhole, TempSound, Usable, NoFile, File, Compiling, Orphaned, local, At
<1>1. CASE Edit
  BY <1>1, SMTT(40) DEF Edit
<1>2. ASSUME NEW p \in Pid, Step(p) PROVE (ArtifactWhole /\ TempSound)'
  <2>1. ASSUME NEW c \in Commands, Invoke(p, c) PROVE (ArtifactWhole /\ TempSound)'
    BY <2>1 DEF Invoke, Goto
  <2>2. CASE CheckTimes(p)
    BY <2>2 DEF CheckTimes, Goto
  <2>3. CASE CheckFails(p)
    BY <2>3 DEF CheckFails, Exit, Leave, Goto
  <2>4. CASE Fingerprint(p)
    BY <2>4 DEF Fingerprint, Goto
  <2>5. CASE UpToDate(p)
    BY <2>5 DEF UpToDate, BuildDone, Exit, Leave, Goto
  <2>6. CASE StartCompiler(p)
    BY <2>6 DEF StartCompiler, Goto
  <2>7. CASE SaveManifest(p)
    BY <2>7 DEF SaveManifest, BuildDone, Exit, Leave, Goto
  <2>8. CASE Run(p)
    BY <2>8 DEF Run, Exit, Leave, Goto
  <2>9. CASE ReadInputs(p)
    BY <2>9 DEF ReadInputs, Goto
  <2>10. CASE Emit(p)
    BY <2>10, ZenonT(40) DEF Emit, Leave, Goto
  <2>11. CASE EmitNothing(p)
    BY <2>11 DEF EmitNothing, Exit, Leave, Goto
  <2>12. CASE OrphanEnds(p)
    BY <2>12 DEF OrphanEnds, Leave, Goto
  <2>13. CASE CompileFails(p)
    BY <2>13 DEF CompileFails, Exit, Leave, Goto
  <2>14. CASE Commit(p)
    BY <2>14 DEF Commit, Goto
  <2>15. CASE CommitFails(p)
    BY <2>15 DEF CommitFails, Exit, Leave, Goto
  <2>16. CASE ManifestFails(p)
    BY <2>16 DEF ManifestFails, Exit, Leave, Goto
  <2>17. CASE CleanFile(p)
    BY <2>17, SMTT(40) DEF CleanFile
  <2>18. CASE CleanEnd(p)
    BY <2>18 DEF CleanEnd, Exit, Leave, Goto
  <2>19. CASE Kill(p)
    BY <2>19 DEF Kill, Leave, Goto
  <2> QED
    BY <1>2, <2>1, <2>2, <2>3, <2>4, <2>5, <2>6, <2>7, <2>8, <2>9, <2>10, <2>11, <2>12,
       <2>13, <2>14, <2>15, <2>16, <2>17, <2>18, <2>19 DEF Step
<1>3. CASE UNCHANGED vars
  BY <1>3 DEF vars, local
<1> QED
  BY <1>1, <1>2, <1>3 DEF Next

(* Inputs that change only between builds: what was read stays what the    *)
(* inputs hold, and times or manifest tell about the artifact.             *)
LEMMA StepFresh ==
    ASSUME Quiet, Inv, FreshInv, [Next]_vars PROVE FreshInv'
<1>0. mode' = mode /\ "busy" \notin mode /\ ("coarse" \notin mode \/ "faults" \notin mode)
  BY DEF Next, vars, Quiet, Inv, TypeOK
<1> USE <1>0, CacheAssumption DEF Inv, FreshInv, TypeOK, OneBuilder, TempSound, ReadsCurrent, BuiltIsFresh, TimesPast, TimesTell, ManifestTells,
      Usable, NoFile, File, Compiling, Orphaned, local, At
<1>1. CASE Edit
  <2>1. /\ UNCHANGED <<artifact, manifest, temp, pc, current, fp>>
        /\ lock = None /\ clock <= clock'
    BY <1>1 DEF Edit
  <2>2. \A q \in Pid : pc[q] \in {"idle"} \cup Orphaned
    BY <2>1
  <2>3. ReadsCurrent' /\ BuiltIsFresh'
    BY <2>1, <2>2
  <2>4. TimesPast'
    BY <1>1, <2>1 DEF Edit
  <2>5. "coarse" \notin mode => TimesTell'
    <3>1. "coarse" \notin mode => src'.mtime = clock + 1
      BY <1>1 DEF Edit
    <3> QED
      BY <2>1, <2>2, <3>1
  <2>6. "faults" \notin mode => ManifestTells'
    BY <2>1, SMTT(40)
  <2> QED
    BY <2>3, <2>4, <2>5, <2>6
<1>2. ASSUME NEW p \in Pid, Step(p) PROVE FreshInv'
  <2>1. ASSUME NEW c \in Commands, Invoke(p, c) PROVE FreshInv'
    BY <2>1 DEF Invoke, Goto
  <2>2. CASE CheckTimes(p)
    <3>1. ReadsCurrent' /\ BuiltIsFresh' /\ TimesPast'
      BY <2>2 DEF CheckTimes, Goto
    <3>2. "faults" \notin mode => ManifestTells'
      BY <2>2 DEF CheckTimes, Goto
    <3>3. current'[p] => Usable(artifact) /\ ~(artifact.mtime < src.mtime)
      <4>1. current'[p] = (Usable(artifact) /\ artifact.mtime >= src.mtime)
        BY <2>2, Zenon DEF CheckTimes
      <4>2. artifact.mtime >= src.mtime => ~(artifact.mtime < src.mtime)
        OBVIOUS
      <4> QED
        BY <4>1, <4>2, Zenon
    <3>4. "coarse" \notin mode => TimesTell'
      BY <2>2, <3>3 DEF CheckTimes, Goto
    <3> QED
      BY <3>1, <3>2, <3>4
  <2>3. CASE CheckFails(p)
    BY <2>3 DEF CheckFails, Exit, Leave, Goto
  <2>4. CASE Fingerprint(p)
    BY <2>4 DEF Fingerprint, Goto
  <2>5. CASE UpToDate(p)
    BY <2>5 DEF UpToDate, Current, BuildDone, Exit, Leave, Goto
  <2>6. CASE StartCompiler(p)
    BY <2>6 DEF StartCompiler, Goto
  <2>7. CASE SaveManifest(p)
    BY <2>7 DEF SaveManifest, BuildDone, Exit, Leave, Goto
  <2>8. CASE Run(p)
    BY <2>8 DEF Run, Exit, Leave, Goto
  <2>9. CASE ReadInputs(p)
    BY <2>9 DEF ReadInputs, Goto
  <2>10. CASE Emit(p)
    BY <2>10, SMTT(40) DEF Emit, Leave, Goto
  <2>11. CASE EmitNothing(p)
    <3>1. ~Usable(temp[p])
      BY <2>11 DEF EmitNothing
    <3>2. Exit(p) /\ UNCHANGED <<clock, src, artifact, manifest, temp>>
      BY <2>11, <3>1 DEF EmitNothing
    <3> QED
      BY <2>11, <3>2 DEF EmitNothing, Exit, Leave, Goto
  <2>12. CASE OrphanEnds(p)
    BY <2>12 DEF OrphanEnds, Leave, Goto
  <2>13. CASE CompileFails(p)
    BY <2>13 DEF CompileFails, Exit, Leave, Goto
  <2>14. CASE Commit(p)
    BY <2>14 DEF Commit, Goto
  <2>15. CASE CommitFails(p)
    BY <2>15 DEF CommitFails, Exit, Leave, Goto
  <2>16. CASE ManifestFails(p)
    BY <2>16 DEF ManifestFails, Exit, Leave, Goto
  <2>17. CASE CleanFile(p)
    <3>1. CASE artifact' = NoFile /\ UNCHANGED <<manifest, temp>>
      <4>1. \A q \in Pid : q # p => pc[q] \in {"idle", "orphan_compile", "orphan_emit"}
        BY <2>17 DEF CleanFile
      <4>2. pc' = pc /\ current' = current /\ fp' = fp /\ src' = src /\ clock' = clock /\ pc[p] = "clean"
        BY <2>17 DEF CleanFile
      <4>3. artifact'.content = 0 /\ artifact'.mtime = 0
        BY <3>1
      <4>4. ReadsCurrent' /\ BuiltIsFresh'
        BY <3>1, <4>1, <4>2
      <4>5. TimesPast' /\ ManifestTells'
        BY <3>1, <4>2, <4>3
      <4>6. TimesTell'
        BY <4>1, <4>2, <4>3
      <4> QED
        BY <4>4, <4>5, <4>6
    <3>2. CASE manifest' = 0 /\ UNCHANGED <<artifact, temp>>
      BY <2>17, <3>2 DEF CleanFile
    <3>3. ASSUME NEW q \in Pid, temp' = [temp EXCEPT ![q] = NoFile], UNCHANGED <<artifact, manifest>>
          PROVE  FreshInv'
      BY <2>17, <3>3 DEF CleanFile
    <3> QED
      BY <2>17, <3>1, <3>2, <3>3, SMTT(40) DEF CleanFile
  <2>18. CASE CleanEnd(p)
    BY <2>18 DEF CleanEnd, Exit, Leave, Goto
  <2>19. CASE Kill(p)
    BY <2>19 DEF Kill, Leave, Goto
  <2> QED
    BY <1>2, <2>1, <2>2, <2>3, <2>4, <2>5, <2>6, <2>7, <2>8, <2>9, <2>10, <2>11, <2>12,
       <2>13, <2>14, <2>15, <2>16, <2>17, <2>18, <2>19 DEF Step
<1>3. CASE UNCHANGED vars
  BY <1>3 DEF vars, local
<1> QED
  BY <1>1, <1>2, <1>3 DEF Next

-----------------------------------------------------------------------------
(* Type correctness, the lock, the temporary files and the artifact, in    *)
(* every reachable state, whatever faults and edits there are.             *)
THEOREM CacheInvariance == Spec => []Inv
<1>1. Inv /\ [Next]_vars => Inv'
  BY StepTyped, StepLocked, StepWhole DEF Inv
<1> QED
  BY InitSound, <1>1, PTL DEF Spec

(* Only the holder of the project lock is past its start.                  *)
THEOREM BuildersExclude == Spec => []OneBuilder
<1>1. Inv => OneBuilder
  BY DEF Inv
<1> QED
  BY CacheInvariance, <1>1, PTL

(* The artifact is never an unfinished output.                             *)
THEOREM ArtifactIsWhole == Spec => []ArtifactWhole
<1>1. Inv => ArtifactWhole
  BY DEF Inv
<1> QED
  BY CacheInvariance, <1>1, PTL

(* Neither a compiler that fails nor one that outlives its VBuild touches  *)
(* the artifact or the manifest.                                           *)
THEOREM FailuresPreserve == Spec => FailurePreserves
<1> DEFINE Kept == \A p \in Pid : pc[p] \in Compiling \cup Orphaned /\ pc'[p] # pc[p] =>
                                    UNCHANGED <<artifact, manifest>>
<1>1. Inv /\ [Next]_vars => Kept
  <2> SUFFICES ASSUME Inv, [Next]_vars, NEW q \in Pid, pc[q] \in Compiling \cup Orphaned, pc'[q] # pc[q]
               PROVE  UNCHANGED <<artifact, manifest>>
    OBVIOUS
  <2>1. CASE Edit
    BY <2>1 DEF Edit
  <2>2. ASSUME NEW p \in Pid, Step(p) PROVE UNCHANGED <<artifact, manifest>>
    <3>1. ASSUME Commit(p) \/ SaveManifest(p) \/ CleanFile(p) PROVE p # q /\ pc'[q] = pc[q]
      BY <3>1 DEF Inv, TypeOK, Commit, SaveManifest, BuildDone, CleanFile, Exit, Leave, Goto, At, Compiling, Orphaned
    <3> QED
      BY <2>2, <3>1 DEF Step, Invoke, CheckTimes, CheckFails, Fingerprint, UpToDate, StartCompiler, ReadInputs, Emit,
         EmitNothing, OrphanEnds, CompileFails, CommitFails, ManifestFails, Run, CleanEnd, Kill
  <2> QED
    BY <2>1, <2>2 DEF Next, vars
<1> QED
  BY CacheInvariance, <1>1, PTL DEF Spec, FailurePreserves

(* In quiet modes what was read and what lies in build/ agree with the     *)
(* inputs.                                                                 *)
THEOREM FreshInvariance ==
    ASSUME Quiet PROVE Spec => []FreshInv
<1>1. Init => FreshInv
  BY CacheAssumption DEF Init, FreshInv, ReadsCurrent, BuiltIsFresh, TimesPast, TimesTell, ManifestTells, NoFile, Usable, At
<1>2. Inv /\ FreshInv /\ [Next]_vars => FreshInv'
  BY StepFresh
<1> QED
  BY CacheInvariance, <1>1, <1>2, PTL DEF Spec

(* Then a build that succeeds leaves, and a run after it uses, an artifact *)
(* of the inputs as they are.                                              *)
THEOREM BuildsAreFresh ==
    ASSUME Quiet PROVE Spec => []BuiltIsFresh
<1>1. FreshInv => BuiltIsFresh
  BY DEF FreshInv
<1> QED
  BY FreshInvariance, <1>1, PTL

(* And "Up to date" is only said of such an artifact.                      *)
THEOREM UpToDateIsTrue ==
    ASSUME Quiet PROVE Spec => UpToDateIsFresh
<1> DEFINE Fresh == \A p \in Pid : UpToDate(p) /\ fp[p] = src.content => artifact.content = src.content
<1>1. Inv /\ FreshInv => Fresh
  BY CacheAssumption DEF Quiet, Inv, FreshInv, TypeOK, OneBuilder, TimesTell, ManifestTells, UpToDate, Current, Orphaned, At
<1> QED
  BY CacheInvariance, FreshInvariance, <1>1, PTL DEF UpToDateIsFresh

(* Without faults the manifest vouches for the artifact beside it.         *)
THEOREM ManifestIsTruthful ==
    ASSUME Quiet PROVE Spec => []ManifestTruthful
<1>1. Inv /\ FreshInv => ManifestTruthful
  BY CacheAssumption DEF Inv, FreshInv, OneBuilder, ManifestTells, ManifestTruthful, Orphaned, At
<1> QED
  BY CacheInvariance, FreshInvariance, <1>1, PTL
=============================================================================
