--------------------------- MODULE AnalysisProofs ---------------------------
(***************************************************************************)
(* Proofs about module AnalysisCommand, for every set of run directories,  *)
(* command lines and reuses: the file and the exit status agree; what a    *)
(* published document says of latency, goodput, warm-up and of what is     *)
(* missing holds of the raw events behind it; naming the directories the   *)
(* other way round changes no exact figure; and two ways to a report agree.*)
(***************************************************************************)
EXTENDS AnalysisCommand, Counting, FiniteSetTheorems, SequenceTheorems, WellFoundedInduction, TLAPS

-----------------------------------------------------------------------------
(* The file and the exit status.                                           *)

\* What `analyze` is about to serialize.
HasAnalysis ==
  Analyze(runs, cmd.config).error = "none" /\ data = Analyze(runs, cmd.config).value

\* A command that still has a step to take has not touched the file, but for
\* `analyze` from the open on, and that has something to write.
ControlInv ==
  /\ TypeOK
  /\ pc = "open" => cmd.from_file
  /\ pc \in {"load", "serialize", "open", "entries"} => result = before
  /\ pc = "serialize" => HasAnalysis
  /\ pc \in {"write", "written"} => Expressible
  /\ pc = "write" => result.state = "torn"
  /\ pc = "written" => OwnDocument
  /\ ArtifactMatchesExit

LEMMA StatusTypes ==
  /\ \A e : ExitStatus(e) \in {"1", "3", "traceback"}
  /\ \A c : StartStatus(c) \in {"1", "2", "running"}
  /\ \A c : ConfigStatus(c) \in {"1", "2", "running"}
BY DEF ExitStatus, StartStatus, ConfigStatus

LEMMA ControlInit == Init => ControlInv
<1> SUFFICES ASSUME Init PROVE ControlInv
  OBVIOUS
<1> USE CommandAssumption DEF CommandAssumption
<1>1. TypeOK
  BY DEF Init, TypeOK, Steps, Statuses
<1>2. ArtifactMatchesExit
  BY DEF Init, ArtifactMatchesExit
<1> QED
  BY <1>1, <1>2 DEF Init, ControlInv

\* A command that ends with a status other than 0 and "killed", the file
\* untouched so far.
LEMMA Refusing ==
  ASSUME ControlInv, pc # "idle", result = before,
         NEW status \in {"1", "2", "3", "traceback"}, Finish(status),
         UNCHANGED <<result, cmd, before, given, reuses>>
  PROVE  ControlInv'
BY DEF ControlInv, TypeOK, Steps, Statuses, Finish, ArtifactMatchesExit

\* A command that takes a further step, the file untouched.
LEMMA Going ==
  ASSUME ControlInv, pc # "idle", result = before,
         NEW step \in Steps \ {"idle", "write", "written"}, Proceed(step),
         step = "serialize" => cmd.verb = "analyze" /\ HasAnalysis',
         step = "entries" => cmd.verb = "report",
         step = "open" => cmd.from_file,
         UNCHANGED <<result, cmd, before, given, reuses>>
  PROVE  ControlInv'
BY DEF ControlInv, TypeOK, Steps, Statuses, Proceed, ArtifactMatchesExit

\* A command that ends in a traceback or is killed once it had something to
\* write, the file torn or its own.
LEMMA Failing ==
  ASSUME ControlInv, pc # "idle", Expressible, result.state = "torn" \/ OwnDocument,
         NEW status \in {"traceback", "killed"}, Finish(status),
         UNCHANGED <<result, cmd, runs, before, given, reuses>>
  PROVE  ControlInv'
BY DEF ControlInv, TypeOK, Steps, Statuses, Finish, ArtifactMatchesExit, Expressible,
       OwnDocument, Published

\* What is assumed of a command's configuration.
WellConfigured(c) ==
  /\ c.gate \in Nat /\ DOMAIN c.slo.objectives \subseteq Nat
  /\ c.threats \in Seq(STRING)
  /\ c.cost # None => /\ IsFiniteSet(DOMAIN c.cost.rates)
                      /\ \A i \in DOMAIN c.cost.rates :
                           c.cost.rates[i].usd \in Int /\ c.cost.rates[i].provenance \in STRING
  /\ c.knee # None => [k \in DOMAIN c.knee \ {"bracketed"} |-> c.knee[k]] # None

\* What a command line in use satisfies.
LEMMA InUse ==
  ASSUME ControlInv, pc # "idle"
  PROVE  /\ cmd.verb \in {"analyze", "report"}
         /\ cmd.from_file => cmd.verb = "report"
         /\ cmd.paths \in Seq(Paths)
         /\ WellConfigured(cmd.config)
<1>1. given \in 1..MaxCommands /\ cmd \in Commands[given]
  BY CommandAssumption DEF ControlInv, TypeOK, CommandAssumption
<1> QED
  BY <1>1, CommandAssumption, NoneAssumption DEF CommandAssumption, NoneAssumption, WellConfigured

LEMMA ControlStep == ControlInv /\ [Next]_vars => ControlInv'
<1> SUFFICES ASSUME ControlInv, [Next]_vars PROVE ControlInv'
  OBVIOUS
<1>1. CASE Start
  <2>1. PICK c \in Commands[given + 1] :
          /\ cmd' = c
          /\ exit' = StartStatus(c)
          /\ pc' = IF StartStatus(c) # "running" THEN "idle"
                   ELSE IF c.from_file THEN "open" ELSE "load"
    BY <1>1 DEF Start
  <2>2. given' \in 1..MaxCommands /\ reuses' \in 0..MaxReuses /\ cmd' \in Commands[given']
    BY <1>1, <2>1, CommandAssumption DEF Start, ControlInv, TypeOK, CommandAssumption
  <2>3. /\ pc' \in {"idle", "open", "load"} /\ exit' \in {"1", "2", "running"}
        /\ pc' = "idle" <=> exit' # "running"
        /\ pc' = "open" => cmd'.from_file
    BY <2>1, StatusTypes
  <2>4. result' = before' /\ result'.state \in {"absent", "torn", "document"}
    BY <1>1 DEF Start, ControlInv, TypeOK
  <2>5. TypeOK'
    BY <2>2, <2>3, <2>4, CommandAssumption DEF TypeOK, Steps, Statuses, CommandAssumption
  <2>6. ArtifactMatchesExit'
    BY <2>3, <2>4 DEF ArtifactMatchesExit
  <2> QED
    BY <2>3, <2>4, <2>5, <2>6 DEF ControlInv
<1>2. CASE Load
  <2> DEFINE path == cmd.paths[Len(runs) + 1]
             loaded == LoadRun(path, dirs[path])
  <2>1. /\ pc = "load" /\ result = before
        /\ UNCHANGED <<result, cmd, before, given, reuses>>
        /\ Proceed("load") \/ Finish(ExitStatus(loaded.error))
    BY <1>2 DEF Load, ControlInv
  <2> QED
    BY <2>1, StatusTypes, Refusing, Going DEF Steps
<1>3. CASE Analyse
  <2> DEFINE analysis == Analyze(runs, cmd.config)
             step == IF cmd.verb = "analyze" THEN "serialize" ELSE "entries"
  <2>1. /\ pc = "load" /\ result = before
        /\ UNCHANGED <<result, cmd, runs, before, given, reuses>>
        /\ \/ ConfigStatus(cmd) # "running" /\ Finish(ConfigStatus(cmd))
           \/ Finish(ExitStatus(analysis.error))
           \/ Proceed(step) /\ analysis.error = "none" /\ data' = analysis.value
    BY <1>3 DEF Analyse, TakeAnalysis, ControlInv
  <2>2. /\ step \in Steps \ {"idle", "write", "written"}
        /\ step = "serialize" => cmd.verb = "analyze"
        /\ step = "entries" => cmd.verb = "report"
        /\ step # "open"
    BY <2>1, InUse DEF Steps
  <2>3. Proceed(step) /\ analysis.error = "none" /\ data' = analysis.value => HasAnalysis'
    BY <2>1 DEF HasAnalysis
  <2> HIDE DEF analysis, step
  <2> QED
    BY <2>1, <2>2, <2>3, StatusTypes, Refusing, Going
<1>4. CASE Serialize
  <2> DEFINE document == ToDocument(data)
  <2>1. /\ pc = "serialize" /\ result = before
        /\ UNCHANGED <<cmd, runs, before, given, reuses>>
        /\ \/ (\E e : Finish(ExitStatus(e))) /\ UNCHANGED result
           \/ document.error = "none" /\ Proceed("write") /\ result' = [state |-> "torn"]
    BY <1>4 DEF Serialize, ControlInv
  <2>2. CASE (\E e : Finish(ExitStatus(e))) /\ UNCHANGED result
    BY <2>1, <2>2, StatusTypes, Refusing
  <2>3. CASE document.error = "none" /\ Proceed("write") /\ result' = [state |-> "torn"]
    <3>1. Expressible'
      BY <2>1, <2>3 DEF Expressible, HasAnalysis, ControlInv, TypeOK
    <3> HIDE DEF document
    <3> QED
      BY <2>1, <2>3, <3>1
         DEF ControlInv, TypeOK, Steps, Statuses, Proceed, ArtifactMatchesExit
  <2> QED
    BY <2>1, <2>2, <2>3
<1>5. CASE Write
  <2>1. /\ pc = "write" /\ Expressible /\ result.state = "torn" /\ cmd.verb = "analyze"
        /\ UNCHANGED <<cmd, runs, data, before, given, reuses>>
    BY <1>5 DEF Write, ControlInv, TypeOK
  <2>2. CASE Finish(ExitStatus("OSError")) /\ UNCHANGED result
    <3>1. ExitStatus("OSError") = "traceback"
      BY DEF ExitStatus
    <3> QED
      BY <2>1, <2>2, <3>1, Failing
  <2>3. CASE /\ result' = [state |-> "document", document |-> ToDocument(data).value,
                           runs |-> runs, config |-> cmd.config]
             /\ Proceed("written")
    <3>1. OwnDocument' /\ result'.state = "document"
      BY <2>1, <2>3 DEF OwnDocument, Published
    <3>2. Expressible'
      BY <2>1 DEF Expressible
    <3>3. pc' = "written" /\ exit' = exit
      BY <2>3 DEF Proceed
    <3>4. TypeOK'
      BY <2>1, <3>1, <3>3 DEF ControlInv, TypeOK, Steps, Statuses
    <3>5. ArtifactMatchesExit'
      BY <2>1, <3>3 DEF ArtifactMatchesExit
    <3> QED
      BY <3>1, <3>2, <3>3, <3>4, <3>5 DEF ControlInv
  <2> QED
    BY <1>5, <2>2, <2>3 DEF Write
<1>6. CASE Announce
  <2>1. /\ pc = "written" /\ Expressible /\ OwnDocument /\ cmd.verb = "analyze"
        /\ UNCHANGED <<result, cmd, runs, data, before, given, reuses>>
    BY <1>6 DEF Announce, ControlInv, TypeOK
  <2>2. CASE Finish("0")
    <3>1. OwnDocument'
      BY <2>1 DEF OwnDocument, Published
    <3> QED
      BY <2>1, <2>2, <3>1 DEF ControlInv, TypeOK, Steps, Statuses, Finish, ArtifactMatchesExit
  <2>3. CASE Finish(ExitStatus("OSError"))
    <3>1. ExitStatus("OSError") = "traceback"
      BY DEF ExitStatus
    <3> QED
      BY <2>1, <2>3, <3>1, Failing
  <2> QED
    BY <1>6, <2>2, <2>3 DEF Announce
<1>7. CASE Open
  <2>1. /\ pc = "open" /\ result = before
        /\ UNCHANGED <<result, cmd, before, given, reuses>>
        /\ \/ \E e : Finish(ExitStatus(e))
           \/ Proceed("entries")
    BY <1>7 DEF Open, ControlInv
  <2>2. cmd.verb = "report"
    BY <2>1, InUse DEF ControlInv
  <2> QED
    BY <2>1, <2>2, StatusTypes, Refusing, Going DEF Steps
<1>8. CASE ReadEntry
  <2>1. /\ pc = "entries" /\ result = before
        /\ UNCHANGED <<result, cmd, before, given, reuses>>
        /\ \/ \E e : Finish(ExitStatus(e))
           \/ Proceed("entries")
    BY <1>8 DEF ReadEntry, ControlInv
  <2>2. cmd.verb = "report"
    BY <2>1 DEF ControlInv, TypeOK
  <2> QED
    BY <2>1, <2>2, StatusTypes, Refusing, Going DEF Steps
<1>9. CASE RenderReport
  <2>1. /\ pc = "entries" /\ result = before
        /\ UNCHANGED <<result, cmd, before, given, reuses>>
        /\ \/ \E e : Finish(ExitStatus(e))
           \/ Finish("0")
    BY <1>9 DEF RenderReport, ControlInv
  <2>2. cmd.verb = "report"
    BY <2>1 DEF ControlInv, TypeOK
  <2>3. CASE Finish("0")
    BY <2>1, <2>2, <2>3 DEF ControlInv, TypeOK, Steps, Statuses, Finish, ArtifactMatchesExit
  <2> QED
    BY <2>1, <2>3, StatusTypes, Refusing
<1>10. CASE Kill
  <2>1. /\ pc # "idle" /\ Finish("killed")
        /\ UNCHANGED <<result, cmd, runs, data, before, given, reuses>>
    BY <1>10 DEF Kill
  <2>2. CASE pc \in {"write", "written"}
    BY <2>1, <2>2, Failing DEF ControlInv
  <2>3. CASE pc \notin {"write", "written"}
    <3>1. result = before
      BY <2>1, <2>3 DEF ControlInv, TypeOK, Steps
    <3> QED
      BY <2>1, <3>1 DEF ControlInv, TypeOK, Steps, Statuses, Finish, ArtifactMatchesExit
  <2> QED
    BY <2>2, <2>3
<1>11. CASE Reuse
  <2>1. reuses' \in 0..MaxReuses
    BY <1>11, CommandAssumption DEF Reuse, ControlInv, TypeOK, CommandAssumption
  <2>2. UNCHANGED <<result, pc, cmd, runs, data, exit, before, given>>
    BY <1>11 DEF Reuse
  <2> QED
    BY <2>1, <2>2 DEF ControlInv, TypeOK, ArtifactMatchesExit, Expressible, HasAnalysis,
                      OwnDocument, Published
<1>12. CASE UNCHANGED vars
  BY <1>12 DEF vars, ControlInv, TypeOK, ArtifactMatchesExit, Expressible, HasAnalysis,
               OwnDocument, Published
<1> QED
  BY <1>1, <1>2, <1>3, <1>4, <1>5, <1>6, <1>7, <1>8, <1>9, <1>10, <1>11, <1>12 DEF Next

\* Whatever the commands, one that has a step left has not touched the result
\* file, but for `analyze` from open(path, "w") on, which has a result that can
\* be expressed (cli.py:221-360).
THEOREM ControlInvariant == Spec => []ControlInv
BY ControlInit, ControlStep, PTL DEF Spec

\* A command is running exactly when it has a step left, and only `analyze`
\* gets as far as serializing (cli.py:221-231, 234-317).
THEOREM TypeCorrect == Spec => []TypeOK
<1>1. ControlInv => TypeOK
  BY DEF ControlInv
<1> QED
  BY <1>1, ControlInvariant, PTL

\* The file and the exit status agree, whatever the commands, the contents of
\* the directories, the moment a command is killed and the file operation that
\* fails (cli.py:28-36, result.py:227-236).
THEOREM FileAndStatusAgree == Spec => []ArtifactMatchesExit
<1>1. ControlInv => ArtifactMatchesExit
  BY DEF ControlInv
<1> QED
  BY <1>1, ControlInvariant, PTL

-----------------------------------------------------------------------------
(* The document is the analysis of the runs behind it.                     *)

Directories == {w[p] : w \in Worlds, p \in Paths} \cup Replacements

\* The runs load_run can have returned.
Loaded == {p \in Paths \X Directories : LoadRun(p[1], p[2]).error = "none"}
Loadable == {LoadRun(p[1], p[2]).value : p \in Loaded}

Analysed(rs, c, value) ==
  /\ rs \in Seq(Loadable)
  /\ WellConfigured(c)
  /\ Analyze(rs, c).error = "none"
  /\ value = Analyze(rs, c).value

LineageInv ==
  /\ dirs \in [Paths -> Directories]
  /\ runs \in Seq(Loadable)
  /\ pc \in {"serialize", "write"} => Analysed(runs, cmd.config, data)
  /\ pc = "write" => ToDocument(data).error = "none"
  /\ Published =>
       LET analysis == Analyze(result.runs, result.config).value
       IN  /\ Analysed(result.runs, result.config, analysis)
           /\ ToDocument(analysis).error = "none"
           /\ result.document = ToDocument(analysis).value

LEMMA LineageInit == Init => LineageInv
<1> SUFFICES ASSUME Init PROVE LineageInv
  OBVIOUS
<1>1. dirs \in [Paths -> Directories]
  BY DirectoryAssumption DEF Init, DirectoryAssumption, Directories
<1>2. runs \in Seq(Loadable)
  BY EmptySeq DEF Init
<1> QED
  BY <1>1, <1>2 DEF Init, LineageInv, Published

\* A step that leaves the directories, the runs and the file alone and does
\* not get to serializing.
LEMMA LineageKept ==
  ASSUME LineageInv, UNCHANGED <<dirs, runs, result>>, pc' \notin {"serialize", "write"}
  PROVE  LineageInv'
BY DEF LineageInv, Published, Analysed

LEMMA LineageStep == ControlInv /\ LineageInv /\ [Next]_vars => LineageInv'
<1> SUFFICES ASSUME ControlInv, LineageInv, [Next]_vars PROVE LineageInv'
  OBVIOUS
<1>1. CASE Start
  <2>1. /\ runs' = <<>> /\ dirs' = dirs /\ result' = result
        /\ pc' \in {"idle", "open", "load"}
    BY <1>1 DEF Start
  <2>2. runs' \in Seq(Loadable)
    BY <2>1, EmptySeq
  <2> QED
    BY <2>1, <2>2 DEF LineageInv, Published, Analysed
<1>2. CASE Load
  <2> DEFINE path == cmd.paths[Len(runs) + 1]
             loaded == LoadRun(path, dirs[path])
  <2>1. /\ dirs' = dirs /\ result' = result
        /\ pc' \notin {"serialize", "write"}
        /\ \/ runs' = runs
           \/ runs' = Append(runs, loaded.value) /\ loaded.error = "none"
    BY <1>2 DEF Load, Proceed, Finish
  <2>2. CASE runs' = runs
    BY <2>1, <2>2, LineageKept
  <2>3. CASE runs' = Append(runs, loaded.value) /\ loaded.error = "none"
    <3>1. cmd.paths \in Seq(Paths) /\ Len(runs) < Len(cmd.paths)
      BY <1>2, InUse DEF Load
    <3>2. Len(runs) \in Nat /\ runs \in Seq(Loadable)
      BY LenProperties DEF LineageInv
    <3>3. path \in Paths
      BY <3>1, <3>2, LenProperties, ElementOfSeq
    <3>4. dirs[path] \in Directories
      BY <3>3 DEF LineageInv
    <3>5. <<path, dirs[path]>> \in Loaded
      BY <2>3, <3>3, <3>4 DEF Loaded
    <3>6. loaded.value \in Loadable
      BY <3>5 DEF Loadable
    <3>7. runs' \in Seq(Loadable)
      BY <2>3, <3>2, <3>6, AppendProperties
    <3> QED
      BY <2>1, <3>7 DEF LineageInv, Published, Analysed
  <2> QED
    BY <2>1, <2>2, <2>3
<1>3. CASE Analyse
  <2>1. UNCHANGED <<dirs, runs, result, cmd>>
    BY <1>3 DEF Analyse
  <2>2. \/ pc' = "idle"
        \/ Analyze(runs, cmd.config).error = "none" /\ data' = Analyze(runs, cmd.config).value
           /\ pc' # "write"
    BY <1>3 DEF Analyse, TakeAnalysis, Finish, Proceed
  <2>3. WellConfigured(cmd.config)
    BY <1>3, InUse DEF Analyse
  <2> QED
    BY <2>1, <2>2, <2>3 DEF LineageInv, Published, Analysed
<1>4. CASE Serialize
  <2>1. /\ pc = "serialize" /\ UNCHANGED <<dirs, runs, cmd, data>>
        /\ \/ pc' = "idle" /\ UNCHANGED result
           \/ /\ pc' = "write" /\ result' = [state |-> "torn"]
              /\ ToDocument(data).error = "none"
    BY <1>4 DEF Serialize, Finish, Proceed
  <2>2. CASE pc' = "idle" /\ UNCHANGED result
    BY <2>1, <2>2, LineageKept
  <2>3. CASE /\ pc' = "write" /\ result' = [state |-> "torn"]
             /\ ToDocument(data).error = "none"
    BY <2>1, <2>3 DEF LineageInv, Published, Analysed
  <2> QED
    BY <2>1, <2>2, <2>3
<1>5. CASE Write
  <2>1. /\ pc = "write" /\ UNCHANGED <<dirs, runs, cmd, data>>
        /\ pc' \notin {"serialize", "write"}
    BY <1>5 DEF Write, Finish, Proceed
  <2>2. CASE UNCHANGED result
    BY <2>1, <2>2, LineageKept
  <2>3. CASE /\ result'.document = ToDocument(data).value
             /\ result'.runs = runs /\ result'.config = cmd.config
    <3>1. Analysed(runs, cmd.config, data) /\ ToDocument(data).error = "none"
      BY <2>1 DEF LineageInv
    <3>2. data = Analyze(result'.runs, result'.config).value
      BY <2>3, <3>1 DEF Analysed
    <3> QED
      BY <2>1, <2>3, <3>1, <3>2 DEF LineageInv, Analysed
  <2> QED
    BY <1>5, <2>2, <2>3 DEF Write
<1>6. CASE Announce \/ Open \/ ReadEntry \/ RenderReport \/ Kill
  <2>1. UNCHANGED <<dirs, runs, result>> /\ pc' \notin {"serialize", "write"}
    BY <1>6 DEF Announce, Open, ReadEntry, RenderReport, Kill, Finish, Proceed
  <2> QED
    BY <2>1, LineageKept
<1>7. CASE Reuse
  <2>1. /\ UNCHANGED <<result, pc, cmd, runs, data>>
        /\ \E p \in DOMAIN dirs, d \in Replacements : dirs' = [dirs EXCEPT ![p] = d]
    BY <1>7 DEF Reuse
  <2>2. dirs' \in [Paths -> Directories]
    BY <2>1 DEF LineageInv, Directories
  <2> QED
    BY <2>1, <2>2 DEF LineageInv, Published, Analysed
<1>8. CASE UNCHANGED vars
  BY <1>8 DEF vars, LineageInv, Published, Analysed
<1> QED
  BY <1>1, <1>2, <1>3, <1>4, <1>5, <1>6, <1>7, <1>8 DEF Next

\* Whatever is reused or killed in between, a document that is in the file is
\* the analysis, under its configuration, of runs that load_run once returned
\* (cli.py: _cmd_analyze, events.py: load_run).
THEOREM LineageInvariant == Spec => []LineageInv
BY ControlInvariant, LineageInit, LineageStep, PTL DEF Spec

-----------------------------------------------------------------------------
(* What is known of a run that was loaded, and of a run set.               *)

LEMMA LoadedRun ==
  ASSUME NEW r \in Loadable
  PROVE  /\ IsFiniteSet(DOMAIN r.events) /\ DOMAIN r.events \subseteq Nat
         /\ \A i \in DOMAIN r.events : WellFormed(r.events[i])
         /\ LET warm_up == r.manifest.warm_up
            IN  /\ warm_up.value \in Int \cup {None}
                /\ warm_up.policy = "discard-requests" => warm_up.value \in Nat \cup {None}
<1>1. PICK p \in Loaded : r = LoadRun(p[1], p[2]).value
  BY DEF Loadable
<1> DEFINE dir == p[2]
<1>2. dir \in Directories /\ LoadRun(p[1], dir).error = "none"
  BY DEF Loaded
<1>3. WellRecorded(dir)
  BY <1>2, DirectoryAssumption DEF Directories, DirectoryAssumption
<1>4. r.manifest = dir.manifest /\ r.events = EventsOf(dir.lines)
  BY <1>1, <1>2 DEF LoadRun, Refuse, Ok
<1>5. DOMAIN EventsOf(dir.lines) \subseteq DOMAIN dir.lines
  BY DEF EventsOf
<1>6. IsFiniteSet(DOMAIN EventsOf(dir.lines))
  BY <1>3, <1>5, FS_Subset DEF WellRecorded
<1>7. \A i \in DOMAIN EventsOf(dir.lines) :
        dir.lines[i].kind = "event" /\ EventsOf(dir.lines)[i] = dir.lines[i].event
  BY DEF EventsOf
<1> QED
  BY <1>3, <1>4, <1>5, <1>6, <1>7 DEF WellRecorded

LEMMA NamesFinite ==
  ASSUME NEW rs \in Seq(Loadable)
  PROVE  /\ IsFiniteSet(Names(rs))
         /\ \A x \in Names(rs) : WellFormed(EventAt(rs, x))
         /\ \A x \in Names(rs) : /\ EventAt(rs, x).scheduled_send_ts \in Nat
                                 /\ EventAt(rs, x).status = "ok" => ~EventAt(rs, x).shed
<1> DEFINE part(i) == {i} \X DOMAIN rs[i].events
           parts == {part(i) : i \in DOMAIN rs}
           f == [i \in DOMAIN rs |-> part(i)]
<1>1. IsFiniteSet(DOMAIN rs) /\ \A i \in DOMAIN rs : rs[i] \in Loadable
  BY LenProperties, ElementOfSeq, FS_Interval
<1>2. \A i \in DOMAIN rs : IsFiniteSet(part(i))
  BY <1>1, LoadedRun, FS_Singleton, FS_Product
<1>3. f \in Surjection(DOMAIN rs, parts)
  BY DEF Surjection
<1>4. IsFiniteSet(parts)
  BY <1>1, <1>3, FS_Surjection
<1>5. IsFiniteSet(UNION parts)
  BY <1>2, <1>4, FS_UNION
<1>6. \A x \in UNION parts : x[1] \in DOMAIN rs /\ x[2] \in DOMAIN rs[x[1]].events
  OBVIOUS
<1>7. \A x \in Names(rs) : WellFormed(EventAt(rs, x))
  BY <1>1, <1>6, LoadedRun DEF Names, EventAt
<1> QED
  BY <1>5, <1>7 DEF Names, WellFormed

-----------------------------------------------------------------------------
(* What an analysis that was not refused computed, and what of it the      *)
(* document keeps.                                                         *)

PoolOf(rs) == Measured(rs, Kept(rs))
GoodputOfRuns(rs, c) == Goodput(PoolOf(rs), c.slo, Window(rs, Kept(rs)))
CostOfRuns(rs, c) ==
  ComputeCost(c.cost, Window(rs, Kept(rs)), Cardinality(WithStatus(PoolOf(rs), "ok")),
              InputTokens(PoolOf(rs)) + OutputTokens(PoolOf(rs)), OutputTokens(PoolOf(rs)))

\* What was computed after the warm-up was applied, refused or not.
Outcome(rs, c) ==
  FirstRefusal(rs, c, PoolOf(rs), WarmupReport(rs), Window(rs, Kept(rs)),
               GoodputOfRuns(rs, c), CostOfRuns(rs, c))

LEMMA WarmedUp ==
  ASSUME NEW rs, ApplyWarmup(rs).error = "none"
  PROVE  ApplyWarmup(rs).value = [kept |-> Kept(rs), report |-> WarmupReport(rs)]
BY DEF ApplyWarmup, Refuse, Ok

LEMMA AnalyzeOutcome ==
  ASSUME NEW rs, NEW c
  PROVE  Analyze(rs, c) = IF ~Poolable(rs) THEN Refuse("ComparabilityError")
                          ELSE IF DuplicateIds(rs) THEN Refuse("ResultNotExpressibleError")
                          ELSE IF ApplyWarmup(rs).error # "none" THEN ApplyWarmup(rs)
                          ELSE Outcome(rs, c)
<1> DEFINE warm == ApplyWarmup(rs)
<1>1. CASE warm.error # "none"
  BY <1>1 DEF Analyze
<1>2. CASE warm.error = "none"
  <2>1. warm.value = [kept |-> Kept(rs), report |-> WarmupReport(rs)]
    BY <1>2, WarmedUp
  <2> HIDE DEF warm
  <2>2. warm.value.kept = Kept(rs) /\ warm.value.report = WarmupReport(rs)
    BY <2>1
  <2>3. MeasuredPart(rs, c, Measured(rs, warm.value.kept), warm.value.report,
                     Window(rs, warm.value.kept)) = Outcome(rs, c)
    BY <2>2 DEF MeasuredPart, Outcome, GoodputOfRuns, CostOfRuns, PoolOf
  <2> QED
    BY <1>2, <2>3 DEF Analyze, warm
<1> QED
  BY <1>1, <1>2

LEMMA AnalysisAssembled ==
  ASSUME NEW rs, NEW c, Analyze(rs, c).error = "none"
  PROVE  /\ Poolable(rs) /\ ApplyWarmup(rs).error = "none"
         /\ ~TablesRefused(PoolOf(rs), c)
         /\ GoodputOfRuns(rs, c).error = "none" /\ CostOfRuns(rs, c).error = "none"
         /\ Analyze(rs, c) = Outcome(rs, c)
         /\ Analyze(rs, c).value = Assemble(rs, c, PoolOf(rs), WarmupReport(rs),
                                           GoodputOfRuns(rs, c).value, CostOfRuns(rs, c).value)
<1>1. Poolable(rs) /\ ApplyWarmup(rs).error = "none" /\ Analyze(rs, c) = Outcome(rs, c)
  BY AnalyzeOutcome DEF Refuse
<1> DEFINE goodput == GoodputOfRuns(rs, c)
           cost == CostOfRuns(rs, c)
           window == Window(rs, Kept(rs))
           pool == PoolOf(rs)
           assembled == Assemble(rs, c, pool, WarmupReport(rs), goodput.value, cost.value)
<1>2. FirstRefusal(rs, c, pool, WarmupReport(rs), window, goodput, cost).error = "none"
  BY <1>1 DEF Outcome
<1> HIDE DEF goodput, cost, window, pool
<1>3. /\ window # 0 /\ ~TablesRefused(pool, c)
      /\ goodput.error = "none" /\ cost.error = "none"
      /\ FirstRefusal(rs, c, pool, WarmupReport(rs), window, goodput, cost) = Ok(assembled)
  BY <1>2 DEF FirstRefusal, Refuse
<1>4. Outcome(rs, c) = Ok(assembled)
  BY <1>3 DEF Outcome, goodput, cost, window, pool
<1>5. Ok(assembled).value = assembled
  BY DEF Ok
<1> QED
  BY <1>1, <1>3, <1>4, <1>5 DEF goodput, cost, window, pool

LEMMA AnalysisParts ==
  ASSUME NEW rs, NEW c, Analyze(rs, c).error = "none"
  PROVE  /\ GoodputOfRuns(rs, c).error = "none"
         /\ Analyze(rs, c).value.goodput = GoodputOfRuns(rs, c).value
         /\ Analyze(rs, c).value.latency = LatencyOf(PoolOf(rs), c)
         /\ ApplyWarmup(rs).error = "none"
<1> DEFINE goodput == GoodputOfRuns(rs, c).value
           cost == CostOfRuns(rs, c).value
<1>1. Analyze(rs, c).value = Assemble(rs, c, PoolOf(rs), WarmupReport(rs), goodput, cost)
  BY AnalysisAssembled
<1> HIDE DEF goodput, cost
<1>2. /\ Analyze(rs, c).value.goodput = goodput
      /\ Analyze(rs, c).value.latency = LatencyOf(PoolOf(rs), c)
  BY <1>1 DEF Assemble
<1> QED
  BY <1>2, AnalysisAssembled DEF goodput

LEMMA DocumentParts ==
  ASSUME NEW r, ToDocument(r).error = "none"
  PROVE  /\ r.latency.kind = "tables"
         /\ ToDocument(r).value.tables = r.latency.tables
         /\ ToDocument(r).value.goodput = [g \in DOMAIN r.goodput \ {"counts"} |-> r.goodput[g]]
BY DEF ToDocument, Refuse, Ok

LEMMA TablesMeanNotWithheld ==
  ASSUME NEW pool, NEW c, LatencyOf(pool, c).kind = "tables"
  PROVE  /\ Withholding(pool, c) = "none"
         /\ ~GateTripped(pool, c.gate)
         /\ ~NoSamples(pool)
         /\ DOMAIN LatencyOf(pool, c).tables = Tabled(pool)
<1>1. Withholding(pool, c) \in {"error-shed-gate", "no-samples", "none"}
  BY DEF Withholding
<1>2. Withholding(pool, c) = "none"
  BY <1>1 DEF LatencyOf
<1>3. ~GateTripped(pool, c.gate) /\ ~NoSamples(pool)
  BY <1>2 DEF Withholding
<1> QED
  BY <1>2, <1>3 DEF LatencyOf

LEMMA PoolFacts ==
  ASSUME NEW rs
  PROVE  /\ DOMAIN PoolOf(rs) = Kept(rs)
         /\ \A x \in Kept(rs) : PoolOf(rs)[x] = EventAt(rs, x)
         /\ Kept(rs) \subseteq Names(rs)
BY DEF PoolOf, Measured, Kept

\* The file that is there comes from runs that were loaded, an analysis that
\* was not refused and a gate that did not trip.
LEMMA Behind ==
  ASSUME LineageInv, Published
  PROVE  /\ result.runs \in Seq(Loadable)
         /\ WellConfigured(result.config)
         /\ ~GateTripped(PoolOf(result.runs), result.config.gate)
         /\ ~NoSamples(PoolOf(result.runs))
         /\ DOMAIN result.document.tables = Tabled(PoolOf(result.runs))
         /\ GoodputOfRuns(result.runs, result.config).error = "none"
         /\ LET g == GoodputOfRuns(result.runs, result.config).value
            IN  result.document.goodput = [k \in DOMAIN g \ {"counts"} |-> g[k]]
<1> DEFINE rs == result.runs
           c == result.config
           analysis == Analyze(rs, c).value
<1>1. Analysed(rs, c, analysis) /\ ToDocument(analysis).error = "none"
      /\ result.document = ToDocument(analysis).value
  BY DEF LineageInv
<1>2. rs \in Seq(Loadable) /\ WellConfigured(c) /\ Analyze(rs, c).error = "none"
  BY <1>1 DEF Analysed
<1>3. /\ GoodputOfRuns(rs, c).error = "none"
      /\ analysis.goodput = GoodputOfRuns(rs, c).value
      /\ analysis.latency = LatencyOf(PoolOf(rs), c)
  BY <1>2, AnalysisParts
<1> HIDE DEF analysis
<1>4. LatencyOf(PoolOf(rs), c).kind = "tables"
  BY <1>1, <1>3, DocumentParts
<1>5. /\ ~GateTripped(PoolOf(rs), c.gate) /\ ~NoSamples(PoolOf(rs))
      /\ DOMAIN LatencyOf(PoolOf(rs), c).tables = Tabled(PoolOf(rs))
  BY <1>4, TablesMeanNotWithheld
<1>6. /\ result.document.tables = analysis.latency.tables
      /\ result.document.goodput =
           [k \in DOMAIN analysis.goodput \ {"counts"} |-> analysis.goodput[k]]
  BY <1>1, DocumentParts
<1> QED
  BY <1>2, <1>3, <1>5, <1>6

-----------------------------------------------------------------------------
(* Latency is withheld.                                                    *)

LEMMA FailedCount ==
  ASSUME NEW rs \in Seq(Loadable)
  PROVE  LET pool == PoolOf(rs)
             failed == {x \in Kept(rs) : EventAt(rs, x).status \in {"error", "shed"}}
         IN  /\ Cardinality(failed) =
                  Cardinality(WithStatus(pool, "error")) + Cardinality(WithStatus(pool, "shed"))
             /\ Cardinality(failed) \in Nat
<1> DEFINE errors == WithStatus(PoolOf(rs), "error")
           shed == WithStatus(PoolOf(rs), "shed")
           failed == {x \in Kept(rs) : EventAt(rs, x).status \in {"error", "shed"}}
<1>1. IsFiniteSet(Kept(rs))
  BY NamesFinite, PoolFacts, FS_Subset
<1>2. /\ errors = {x \in Kept(rs) : EventAt(rs, x).status = "error"}
      /\ shed = {x \in Kept(rs) : EventAt(rs, x).status = "shed"}
  BY PoolFacts DEF WithStatus
<1>3. IsFiniteSet(errors) /\ IsFiniteSet(shed)
  BY <1>1, <1>2, FS_Subset
<1>4. errors \cap shed = {} /\ errors \cup shed = failed
  BY <1>2
<1> HIDE DEF errors, shed, failed
<1>5. Cardinality(errors \cup shed) =
        Cardinality(errors) + Cardinality(shed) - Cardinality(errors \cap shed)
  BY <1>3, FS_Union
<1>6. Cardinality(errors) \in Nat /\ Cardinality(shed) \in Nat
  BY <1>3, FS_CardinalityType
<1>7. Cardinality(failed) = Cardinality(errors) + Cardinality(shed)
  <2>1. Cardinality(failed) = Cardinality(errors) + Cardinality(shed) - Cardinality({})
    BY <1>4, <1>5, Zenon
  <2>2. Cardinality({}) = 0
    BY FS_EmptySet
  <2> QED
    BY <1>6, <2>1, <2>2
<1>8. Cardinality(failed) \in Nat
  BY <1>6, <1>7
<1> QED
  BY <1>7, <1>8 DEF errors, shed, failed

LEMMA LineageWithholds == LineageInv => WithheldNeverPublished
<1> SUFFICES ASSUME LineageInv, Published PROVE WithheldNeverPublished
  BY DEF WithheldNeverPublished
<1> DEFINE rs == result.runs
           pool == PoolOf(rs)
           failed == {x \in Kept(rs) : EventAt(rs, x).status \in {"error", "shed"}}
<1>1. /\ rs \in Seq(Loadable) /\ result.config.gate \in Nat
      /\ ~GateTripped(pool, result.config.gate) /\ ~NoSamples(pool)
      /\ DOMAIN result.document.tables = Tabled(pool)
  BY Behind DEF WellConfigured
<1>2. DOMAIN pool = Kept(rs) /\ \A x \in Kept(rs) : pool[x] = EventAt(rs, x)
  BY PoolFacts
<1>3. Cardinality(Kept(rs)) \in Nat
  BY <1>1, NamesFinite, PoolFacts, FS_Subset, FS_CardinalityType
<1>4. 100 * Cardinality(failed) <= result.config.gate * Cardinality(Kept(rs))
  <2>1. ~(100 * Cardinality(failed) > result.config.gate * Cardinality(Kept(rs)))
    BY <1>1, <1>2, FailedCount DEF GateTripped
  <2>2. Cardinality(failed) \in Nat
    BY <1>1, FailedCount
  <2> QED
    BY <1>1, <1>3, <2>1, <2>2
<1>5. DOMAIN TtftPool(pool) # {} /\ DOMAIN E2EPool(pool) # {}
  BY <1>1 DEF NoSamples
<1>6. \E x \in Kept(rs) : EventAt(rs, x).status = "ok"
  BY <1>2, <1>5 DEF E2EPool, WithStatus
<1>7. \E x \in Kept(rs) : EventAt(rs, x).ttft # None
  BY <1>2, <1>5 DEF TtftPool
<1>8. {"ttft_seconds", "e2e_duration_seconds"} \subseteq Tabled(pool)
  BY <1>5 DEF Tabled, Pools
<1> QED
  BY <1>1, <1>4, <1>6, <1>7, <1>8 DEF WithheldNeverPublished

\* Latency is never published from a window the declared gate withholds, nor
\* without a sample of each required signal, recounted from the raw events
\* behind the file (result.py:142-154, 346-381).
THEOREM WithheldIsNeverPublished == Spec => []WithheldNeverPublished
BY LineageInvariant, LineageWithholds, PTL

-----------------------------------------------------------------------------
(* Goodput is over every measured request.                                 *)

LEMMA LeastElement ==
  ASSUME NEW S, S \subseteq Nat, S # {}
  PROVE  MinOf(S) \in S /\ \A y \in S : MinOf(S) <= y
<1> DEFINE R == OpToRel(<, Nat)
<1>1. IsWellFoundedOn(R, Nat)
  BY NatLessThanWellFounded
<1> HIDE DEF R
<1>2. PICK x \in S : \A y \in S : ~(<<y, x>> \in R)
  BY <1>1, WFMin
<1>3. \A y \in S : ~(y < x)
  BY <1>2 DEF R, OpToRel
<1>4. \A y \in S : x <= y
  BY <1>3
<1> QED
  BY <1>4 DEF MinOf

LEMMA VerdictMeansAll ==
  ASSUME NEW e, NEW objectives, DOMAIN objectives \subseteq Nat
  PROVE  Verdict(e, objectives) = "holds" <=>
           \A i \in DOMAIN objectives : Objective(e, objectives[i]) = "holds"
<1> DEFINE judged == [i \in DOMAIN objectives |-> Objective(e, objectives[i])]
           bad == {i \in DOMAIN judged : judged[i] # "holds"}
<1>1. Verdict(e, objectives) = IF bad = {} THEN "holds" ELSE judged[MinOf(bad)]
  BY DEF Verdict, FirstThatFails
<1>2. bad # {} => MinOf(bad) \in bad
  BY LeastElement
<1>3. bad # {} => Verdict(e, objectives) # "holds"
  BY <1>1, <1>2
<1> QED
  BY <1>1, <1>3

LEMMA GoodputFigures ==
  ASSUME NEW rs, NEW c, WellConfigured(c), GoodputOfRuns(rs, c).error = "none"
  PROVE  LET ev(x) == EventAt(rs, x)
             holds(x) == \A i \in DOMAIN c.slo.objectives :
                           Objective(ev(x), c.slo.objectives[i]) = "holds"
             meeting == {x \in Kept(rs) : ev(x).status = "ok" /\ holds(x)}
             shed == {x \in Kept(rs) : ev(x).shed \/ ev(x).status = "shed"}
             g == GoodputOfRuns(rs, c).value
         IN  /\ {"ratio", "shed_rate"} \subseteq DOMAIN g \ {"counts"}
             /\ g.ratio = <<Cardinality(meeting), Cardinality(Kept(rs))>>
             /\ g.shed_rate = <<Cardinality(shed), Cardinality(Kept(rs))>>
<1> DEFINE pool == PoolOf(rs)
           objectives == c.slo.objectives
           verdicts == [x \in {y \in DOMAIN pool : pool[y].status = "ok"} |->
                          Verdict(pool[x], objectives)]
           ev(x) == EventAt(rs, x)
           holds(x) == \A i \in DOMAIN objectives : Objective(ev(x), objectives[i]) = "holds"
           meeting == {x \in Kept(rs) : ev(x).status = "ok" /\ holds(x)}
           shed == {x \in Kept(rs) : ev(x).shed \/ ev(x).status = "shed"}
           g == GoodputOfRuns(rs, c).value
<1>1. GoodputOfRuns(rs, c) = GoodputFrom(pool, c.slo, Window(rs, Kept(rs)), verdicts)
  BY DEF GoodputOfRuns, Goodput
<1> HIDE DEF verdicts, pool
<1>2. /\ g.ratio = <<Cardinality({x \in DOMAIN verdicts : verdicts[x] = "holds"}),
                     Cardinality(DOMAIN pool)>>
      /\ g.shed_rate = <<Cardinality({x \in DOMAIN pool : pool[x].shed \/ pool[x].status = "shed"}),
                         Cardinality(DOMAIN pool)>>
      /\ {"ratio", "shed_rate"} \subseteq DOMAIN g \ {"counts"}
  BY <1>1 DEF GoodputFrom, Offered, Refuse, Ok
<1> USE DEF verdicts, pool
<1>3. DOMAIN pool = Kept(rs) /\ \A x \in Kept(rs) : pool[x] = EventAt(rs, x)
  BY PoolFacts
<1>4. \A x \in Kept(rs) : Verdict(ev(x), objectives) = "holds" <=> holds(x)
  BY VerdictMeansAll DEF WellConfigured
<1>5. {x \in DOMAIN verdicts : verdicts[x] = "holds"} = meeting
  BY <1>3, <1>4
<1>6. {x \in DOMAIN pool : pool[x].shed \/ pool[x].status = "shed"} = shed
  BY <1>3
<1> HIDE DEF meeting, shed, verdicts, pool, g
<1>7. /\ g.ratio = <<Cardinality(meeting), Cardinality(Kept(rs))>>
      /\ g.shed_rate = <<Cardinality(shed), Cardinality(Kept(rs))>>
  BY <1>2, <1>3, <1>5, <1>6
<1> QED
  BY <1>2, <1>7 DEF meeting, shed, g

LEMMA LineageCounts == LineageInv => GoodputCountsEveryRequest
<1> SUFFICES ASSUME LineageInv, Published PROVE GoodputCountsEveryRequest
  BY DEF GoodputCountsEveryRequest
<1> DEFINE rs == result.runs
           c == result.config
           kept == Kept(rs)
           ev(x) == EventAt(rs, x)
           holds(x) == \A i \in DOMAIN c.slo.objectives :
                         Objective(ev(x), c.slo.objectives[i]) = "holds"
           meeting == {x \in kept : ev(x).status = "ok" /\ holds(x)}
           shed == {x \in kept : ev(x).shed \/ ev(x).status = "shed"}
           g == GoodputOfRuns(rs, c).value
           d == result.document.goodput
<1>1. /\ rs \in Seq(Loadable) /\ WellConfigured(c) /\ GoodputOfRuns(rs, c).error = "none"
      /\ d = [k \in DOMAIN g \ {"counts"} |-> g[k]]
  BY Behind
<1>2. /\ {"ratio", "shed_rate"} \subseteq DOMAIN g \ {"counts"}
      /\ g.ratio = <<Cardinality(meeting), Cardinality(kept)>>
      /\ g.shed_rate = <<Cardinality(shed), Cardinality(kept)>>
  BY <1>1, GoodputFigures
<1>3. /\ IsFiniteSet(kept) /\ kept \subseteq Names(rs)
      /\ \A x \in kept : ev(x).status = "ok" => ~ev(x).shed
  BY <1>1, NamesFinite, PoolFacts, FS_Subset
<1>4. meeting \cap shed = {} /\ meeting \cup shed \subseteq kept
  BY <1>3
<1>5. IsFiniteSet(meeting) /\ IsFiniteSet(shed)
  BY <1>3, FS_Subset
<1> HIDE DEF meeting, shed, g, kept, d
<1>6. d.ratio = <<Cardinality(meeting), Cardinality(kept)>>
      /\ d.shed_rate = <<Cardinality(shed), Cardinality(kept)>>
  BY <1>1, <1>2
<1>7. Cardinality(meeting) + Cardinality(shed) <= Cardinality(kept)
  <2>1. Cardinality(meeting \cup shed) =
          Cardinality(meeting) + Cardinality(shed) - Cardinality(meeting \cap shed)
    BY <1>5, FS_Union
  <2>2. Cardinality(meeting \cup shed) = Cardinality(meeting) + Cardinality(shed) - Cardinality({})
    BY <1>4, <2>1, Zenon
  <2>3. Cardinality({}) = 0
    BY FS_EmptySet
  <2>4. Cardinality(meeting \cup shed) <= Cardinality(kept)
    BY <1>3, <1>4, FS_Subset
  <2>5. Cardinality(meeting) \in Nat /\ Cardinality(shed) \in Nat
    BY <1>5, FS_CardinalityType
  <2> QED
    BY <2>2, <2>3, <2>4, <2>5
<1> QED
  BY <1>6, <1>7 DEF GoodputCountsEveryRequest, meeting, kept, d

\* Goodput is over every measured request, and counts those that succeeded
\* and met each objective alone (goodput.py:162-201).
THEOREM GoodputIsOverEveryRequest == Spec => []GoodputCountsEveryRequest
BY LineageInvariant, LineageCounts, PTL

-----------------------------------------------------------------------------
(* The warm-up cuts the earliest.                                          *)

LEMMA EarlierHasSmallerPosition ==
  ASSUME NEW rs \in Seq(Loadable), NEW x \in Names(rs), NEW y \in Names(rs),
         RepKey(rs, x) = RepKey(rs, y),
         EventAt(rs, y).scheduled_send_ts < EventAt(rs, x).scheduled_send_ts
  PROVE  /\ Position(rs, y) <= Position(rs, x)
         /\ Position(rs, y) \in Nat /\ Position(rs, x) \in Nat
<1> DEFINE group == Group(rs, RepKey(rs, x))
           before_x == {z \in group : SentBefore(rs, z, x)}
           before_y == {z \in group : SentBefore(rs, z, y)}
<1>1. group \subseteq Names(rs)
  BY DEF Group
<1>2. IsFiniteSet(group)
  BY <1>1, NamesFinite, FS_Subset
<1>3. \A z \in Names(rs) : EventAt(rs, z).scheduled_send_ts \in Nat
  BY NamesFinite
<1>4. \A z \in group : SentBefore(rs, z, y) => SentBefore(rs, z, x)
  BY <1>1, <1>3 DEF SentBefore
<1>5. before_y \subseteq before_x
  BY <1>4
<1>6. IsFiniteSet(before_x)
  BY <1>2, FS_Subset
<1>7. /\ Cardinality(before_y) <= Cardinality(before_x)
      /\ Cardinality(before_y) \in Nat /\ Cardinality(before_x) \in Nat
  BY <1>5, <1>6, FS_Subset, FS_CardinalityType
<1>8. Position(rs, x) = Cardinality(before_x) /\ Position(rs, y) = Cardinality(before_y)
  BY DEF Position
<1> QED
  BY <1>7, <1>8

LEMMA WarmupCuts ==
  ASSUME NEW rs \in Seq(Loadable), rs # <<>>, ApplyWarmup(rs).error = "none"
  PROVE  CutsTheEarliest(rs)
<1> DEFINE w == rs[1].manifest.warm_up
           due(x) == EventAt(rs, x).scheduled_send_ts
<1>1. SUFFICES ASSUME NEW x \in Names(rs), NEW y \in Names(rs),
                      RepKey(rs, x) = RepKey(rs, y),
                      Discarded(rs, x), ~Discarded(rs, y)
               PROVE  due(x) <= due(y)
  BY DEF CutsTheEarliest, Kept
<1>2. due(x) \in Nat /\ due(y) \in Nat
  BY NamesFinite
<1>3. rs[1] \in Loadable
  BY EmptySeq, ElementOfSeq
<1>4. w.value \in Int \cup {None}
  BY <1>3, LoadedRun
<1>5. w.policy # "none" => w.value # None
  BY DEF ApplyWarmup, Refuse
<1>6. CASE w.policy = "discard-requests"
  <2>1. Position(rs, x) < w.value /\ ~(Position(rs, y) < w.value)
    BY <1>1, <1>6 DEF Discarded
  <2>2. w.value \in Int
    BY <1>4, <1>5, <1>6
  <2>3. CASE due(y) < due(x)
    BY <1>1, <2>1, <2>2, <2>3, EarlierHasSmallerPosition
  <2> QED
    BY <1>2, <2>3
<1>7. CASE w.policy = "discard-duration"
  <2> DEFINE start == RepetitionStart(rs, RepKey(rs, x))
  <2>1. due(x) - start < w.value /\ ~(due(y) - start < w.value)
    BY <1>1, <1>7 DEF Discarded
  <2>2. w.value \in Int
    BY <1>4, <1>5, <1>7
  <2>3. start \in Nat
    <3> DEFINE starts == {due(z) : z \in Group(rs, RepKey(rs, x))}
    <3>1. starts \subseteq Nat /\ due(x) \in starts
      BY <1>1, NamesFinite DEF Group
    <3>2. start = MinOf(starts)
      BY DEF RepetitionStart
    <3> HIDE DEF starts, start
    <3>3. MinOf(starts) \in starts
      BY <3>1, LeastElement
    <3>4. start \in starts
      BY <3>2, <3>3
    <3> QED
      BY <3>1, <3>4
  <2> QED
    BY <1>2, <2>1, <2>2, <2>3
<1>8. CASE w.policy \notin {"discard-requests", "discard-duration"}
  BY <1>1, <1>8 DEF Discarded
<1> QED
  BY <1>6, <1>7, <1>8

\* Whatever run set a command has loaded, the warm-up cuts from each
\* repetition only what was due no later than all it keeps, although the file
\* is in the order of completion (warmup.py:72-89).
THEOREM WarmupCutsTheEarliest ==
  Spec => [](runs # <<>> /\ ApplyWarmup(runs).error = "none" => CutsTheEarliest(runs))
<1>1. LineageInv => (runs # <<>> /\ ApplyWarmup(runs).error = "none" => CutsTheEarliest(runs))
  BY WarmupCuts DEF LineageInv
<1> QED
  BY <1>1, LineageInvariant, PTL

-----------------------------------------------------------------------------
(* What a document leaves out is explained.                                *)

LEMMA ConcatValues ==
  ASSUME NEW S, NEW s \in Seq(S), NEW t \in Seq(S)
  PROVE  s \o t \in Seq(S) /\ Values(s \o t) = Values(s) \cup Values(t)
<1> DEFINE m == Len(s)
           n == Len(t)
           both == s \o t
<1>1. /\ both \in Seq(S) /\ Len(both) = m + n
      /\ \A i \in 1..m : both[i] = s[i]
      /\ \A i \in 1..n : both[m + i] = t[i]
  <2>1. \A i \in 1..(m + n) : both[i] = IF i <= m THEN s[i] ELSE t[i - m]
    BY ConcatProperties
  <2>2. m \in Nat /\ n \in Nat
    BY LenProperties
  <2>3. \A i \in 1..m : i \in 1..(m + n) /\ i <= m
    BY <2>2
  <2>4. \A i \in 1..n : m + i \in 1..(m + n) /\ ~(m + i <= m) /\ (m + i) - m = i
    BY <2>2
  <2> HIDE DEF m, n, both
  <2>5. both \in Seq(S) /\ Len(both) = m + n
    BY ConcatProperties DEF both, m, n
  <2> QED
    BY <2>1, <2>3, <2>4, <2>5
<1>2. DOMAIN s = 1..m /\ DOMAIN t = 1..n /\ DOMAIN both = 1..(m + n) /\ m \in Nat /\ n \in Nat
  BY <1>1, LenProperties
<1> HIDE DEF m, n, both
<1>3. ASSUME NEW i \in 1..(m + n) PROVE i \in 1..m \/ \E j \in 1..n : i = m + j
  <2>1. i <= m \/ (i - m \in 1..n /\ i = m + (i - m))
    BY <1>2
  <2> QED
    BY <1>2, <2>1
<1>4. ASSUME NEW v \in Values(both) PROVE v \in Values(s) \cup Values(t)
  <2>1. PICK i \in 1..(m + n) : v = both[i]
    BY <1>2 DEF Values
  <2> QED
    BY <1>1, <1>2, <1>3, <2>1 DEF Values
<1>5. ASSUME NEW i \in 1..m PROVE s[i] \in Values(both)
  <2>1. i \in 1..(m + n)
    BY <1>2
  <2> QED
    BY <1>1, <1>2, <2>1 DEF Values
<1>6. ASSUME NEW i \in 1..n PROVE t[i] \in Values(both)
  <2>1. m + i \in 1..(m + n)
    BY <1>2
  <2> QED
    BY <1>1, <1>2, <2>1 DEF Values
<1>7. Values(s) \cup Values(t) \subseteq Values(both)
  BY <1>2, <1>5, <1>6 DEF Values
<1> QED
  BY <1>1, <1>4, <1>7 DEF both

LEMMA OneString ==
  ASSUME NEW S, NEW threat \in S
  PROVE  <<threat>> \in Seq(S) /\ Values(<<threat>>) = {threat}
<1> DEFINE one == <<threat>>
<1>1. one = Append(<<>>, threat) /\ <<>> \in Seq(S) /\ Len(<<>>) = 0
  BY EmptySeq
<1>2. ASSUME NEW none \in Seq(S), Len(none) = 0
      PROVE  LET longer == Append(none, threat)
             IN  longer \in Seq(S) /\ Len(longer) = 1 /\ longer[1] = threat
  <2>1. Append(none, threat)[Len(none) + 1] = threat /\ Len(none) + 1 = 1
    BY <1>2, AppendProperties
  <2> QED
    BY <1>2, <2>1, AppendProperties
<1>3. one \in Seq(S) /\ Len(one) = 1 /\ one[1] = threat
  BY <1>1, <1>2
<1> HIDE DEF one
<1>4. DOMAIN one = {1}
  BY <1>3, LenProperties
<1>5. Values(one) = {threat}
  BY <1>3, <1>4 DEF Values
<1> QED
  BY <1>3, <1>5 DEF one

\* One more threat, or none.
LEMMA ThreatAdded ==
  ASSUME NEW S, NEW s \in Seq(S), NEW threat \in S, NEW t, t = <<threat>> \/ t = <<>>
  PROVE  /\ s \o t \in Seq(S)
         /\ \A v : v \in Values(s \o t) <=> v \in Values(s) \/ (t # <<>> /\ v = threat)
<1>1. CASE t = <<threat>>
  <2> DEFINE one == <<threat>>
  <2>1. one \in Seq(S) /\ Values(one) = {threat}
    BY OneString
  <2>2. one # <<>>
    OBVIOUS
  <2> HIDE DEF one
  <2>3. s \o one \in Seq(S) /\ Values(s \o one) = Values(s) \cup {threat}
    BY <2>1, ConcatValues
  <2>4. t = one
    BY <1>1 DEF one
  <2> QED
    BY <2>2, <2>3, <2>4
<1>2. CASE t = <<>>
  <2>1. s \o t = s
    BY <1>2, ConcatEmptySeq
  <2> QED
    BY <1>2, <2>1
<1> QED
  BY <1>1, <1>2

OwnThreats ==
  {"withheld", "repetitions", "no-sweep", "unbracketed", "cost", "no-warm-up",
   "no-streaming", "summary-only", "canceled"}

\* The threats are the author's and those the code has a reason for.
LEMMA ThreatsAre ==
  ASSUME NEW pool, NEW cfg, cfg.threats \in Seq(STRING), NEW reps, NEW cost, NEW policy
  PROVE  /\ Threats(pool, cfg, reps, cost, policy) \in Seq(STRING \cup OwnThreats)
         /\ \A v : v \in Values(Threats(pool, cfg, reps, cost, policy)) <=>
              \/ v \in Values(cfg.threats)
              \/ Withholding(pool, cfg) # "none" /\ v = "withheld"
              \/ reps < 3 /\ v = "repetitions"
              \/ cfg.knee = None /\ v = "no-sweep"
              \/ cfg.knee # None /\ ~cfg.knee.bracketed /\ v = "unbracketed"
              \/ ~cost.available /\ v = "cost"
              \/ policy = "none" /\ v = "no-warm-up"
              \/ Streaming(pool) = {} /\ v = "no-streaming"
              \/ SummaryOnly(pool) # {} /\ v = "summary-only"
              \/ WithStatus(pool, "canceled") # {} /\ v = "canceled"
<1> DEFINE S == STRING \cup OwnThreats
           t1 == Listed(Withholding(pool, cfg) # "none", "withheld")
           t2 == Listed(reps < 3, "repetitions")
           t3 == Listed(cfg.knee = None, "no-sweep")
           t4 == Listed(cfg.knee # None /\ ~cfg.knee.bracketed, "unbracketed")
           t5 == Listed(~cost.available, "cost")
           t6 == Listed(policy = "none", "no-warm-up")
           t7 == Listed(Streaming(pool) = {}, "no-streaming")
           t8 == Listed(SummaryOnly(pool) # {}, "summary-only")
           t9 == Listed(WithStatus(pool, "canceled") # {}, "canceled")
           s1 == cfg.threats \o t1
           s2 == s1 \o t2
           s3 == s2 \o t3
           s4 == s3 \o t4
           s5 == s4 \o t5
           s6 == s5 \o t6
           s7 == s6 \o t7
           s8 == s7 \o t8
           s9 == s8 \o t9
<1>1. cfg.threats \in Seq(S) /\ OwnThreats \subseteq S
  BY SeqMonotonic
<1>2. /\ "withheld" \in S /\ "repetitions" \in S /\ "no-sweep" \in S
      /\ "unbracketed" \in S /\ "cost" \in S /\ "no-warm-up" \in S
      /\ "no-streaming" \in S /\ "summary-only" \in S /\ "canceled" \in S
  BY DEF OwnThreats
<1> HIDE DEF S
<1>3. Threats(pool, cfg, reps, cost, policy) = s9
  BY DEF Threats
<1>4. (t1 = <<"withheld">> \/ t1 = <<>>) /\ (t1 # <<>> <=> Withholding(pool, cfg) # "none")
  BY DEF Listed
<1>5. (t2 = <<"repetitions">> \/ t2 = <<>>) /\ (t2 # <<>> <=> reps < 3)
  BY DEF Listed
<1>6. (t3 = <<"no-sweep">> \/ t3 = <<>>) /\ (t3 # <<>> <=> cfg.knee = None)
  BY DEF Listed
<1>7. (t4 = <<"unbracketed">> \/ t4 = <<>>) /\ (t4 # <<>> <=> cfg.knee # None /\ ~cfg.knee.bracketed)
  BY DEF Listed
<1>8. (t5 = <<"cost">> \/ t5 = <<>>) /\ (t5 # <<>> <=> ~cost.available)
  BY DEF Listed
<1>9. (t6 = <<"no-warm-up">> \/ t6 = <<>>) /\ (t6 # <<>> <=> policy = "none")
  BY DEF Listed
<1>10. (t7 = <<"no-streaming">> \/ t7 = <<>>) /\ (t7 # <<>> <=> Streaming(pool) = {})
  BY DEF Listed
<1>11. (t8 = <<"summary-only">> \/ t8 = <<>>) /\ (t8 # <<>> <=> SummaryOnly(pool) # {})
  BY DEF Listed
<1>12. (t9 = <<"canceled">> \/ t9 = <<>>) /\ (t9 # <<>> <=> WithStatus(pool, "canceled") # {})
  BY DEF Listed
<1> HIDE DEF t1, t2, t3, t4, t5, t6, t7, t8, t9
<1>13. /\ s1 \in Seq(S)
       /\ \A v : v \in Values(s1) <=> v \in Values(cfg.threats) \/ (t1 # <<>> /\ v = "withheld")
  BY <1>1, <1>2, <1>4, ThreatAdded
<1> HIDE DEF s1
<1>14. /\ s2 \in Seq(S)
       /\ \A v : v \in Values(s2) <=> v \in Values(s1) \/ (t2 # <<>> /\ v = "repetitions")
  BY <1>1, <1>2, <1>5, <1>13, ThreatAdded
<1> HIDE DEF s2
<1>15. /\ s3 \in Seq(S)
       /\ \A v : v \in Values(s3) <=> v \in Values(s2) \/ (t3 # <<>> /\ v = "no-sweep")
  BY <1>1, <1>2, <1>6, <1>14, ThreatAdded
<1> HIDE DEF s3
<1>16. /\ s4 \in Seq(S)
       /\ \A v : v \in Values(s4) <=> v \in Values(s3) \/ (t4 # <<>> /\ v = "unbracketed")
  BY <1>1, <1>2, <1>7, <1>15, ThreatAdded
<1> HIDE DEF s4
<1>17. /\ s5 \in Seq(S)
       /\ \A v : v \in Values(s5) <=> v \in Values(s4) \/ (t5 # <<>> /\ v = "cost")
  BY <1>1, <1>2, <1>8, <1>16, ThreatAdded
<1> HIDE DEF s5
<1>18. /\ s6 \in Seq(S)
       /\ \A v : v \in Values(s6) <=> v \in Values(s5) \/ (t6 # <<>> /\ v = "no-warm-up")
  BY <1>1, <1>2, <1>9, <1>17, ThreatAdded
<1> HIDE DEF s6
<1>19. /\ s7 \in Seq(S)
       /\ \A v : v \in Values(s7) <=> v \in Values(s6) \/ (t7 # <<>> /\ v = "no-streaming")
  BY <1>1, <1>2, <1>10, <1>18, ThreatAdded
<1> HIDE DEF s7
<1>20. /\ s8 \in Seq(S)
       /\ \A v : v \in Values(s8) <=> v \in Values(s7) \/ (t8 # <<>> /\ v = "summary-only")
  BY <1>1, <1>2, <1>11, <1>19, ThreatAdded
<1> HIDE DEF s8
<1>21. /\ s9 \in Seq(S)
       /\ \A v : v \in Values(s9) <=> v \in Values(s8) \/ (t9 # <<>> /\ v = "canceled")
  BY <1>1, <1>2, <1>12, <1>20, ThreatAdded
<1> HIDE DEF s9
<1>22. Threats(pool, cfg, reps, cost, policy) \in Seq(STRING \cup OwnThreats)
  BY <1>3, <1>21 DEF S
<1>23. \A v : v \in Values(s4) <=>
          \/ v \in Values(cfg.threats)
          \/ Withholding(pool, cfg) # "none" /\ v = "withheld"
          \/ reps < 3 /\ v = "repetitions"
          \/ cfg.knee = None /\ v = "no-sweep"
          \/ cfg.knee # None /\ ~cfg.knee.bracketed /\ v = "unbracketed"
  BY <1>4, <1>5, <1>6, <1>7, <1>13, <1>14, <1>15, <1>16
<1> QED
  BY <1>3, <1>8, <1>9, <1>10, <1>11, <1>12, <1>17, <1>18, <1>19, <1>20, <1>21, <1>22, <1>23

LEMMA PoolTyped ==
  ASSUME NEW rs \in Seq(Loadable)
  PROVE  /\ IsFiniteSet(DOMAIN PoolOf(rs))
         /\ \A x \in DOMAIN PoolOf(rs) : WellFormed(PoolOf(rs)[x])
BY NamesFinite, PoolFacts, FS_Subset

LEMMA TokensTyped ==
  ASSUME NEW rs \in Seq(Loadable)
  PROVE  InputTokens(PoolOf(rs)) \in Nat /\ OutputTokens(PoolOf(rs)) \in Nat
<1> DEFINE pool == PoolOf(rs)
           inputs == [x \in DOMAIN pool |-> pool[x].input_tokens]
           outputs == [x \in DOMAIN pool |-> pool[x].output_tokens]
<1>1. /\ IsFiniteSet(DOMAIN pool)
      /\ \A x \in DOMAIN pool : inputs[x] \in Nat /\ outputs[x] \in Nat
  BY PoolTyped DEF WellFormed
<1>2. DOMAIN inputs = DOMAIN pool /\ DOMAIN outputs = DOMAIN pool
  OBVIOUS
<1> HIDE DEF pool, inputs, outputs
<1>3. ASSUME NEW f, DOMAIN f = DOMAIN pool, \A x \in DOMAIN pool : f[x] \in Nat
      PROVE  SumFunction(f) \in Nat
  <2>1. \A x \in DOMAIN pool : f[x] \in Int /\ f[x] >= 0
    BY <1>3
  <2>2. SumFunctionOnSet(f, DOMAIN pool) \in Int /\ SumFunctionOnSet(f, DOMAIN pool) >= 0
    BY <1>1, <2>1, SumType
  <2> QED
    BY <1>3, <2>2 DEF SumFunction
<1>4. SumFunction(inputs) \in Nat /\ SumFunction(outputs) \in Nat
  BY <1>1, <1>2, <1>3
<1> QED
  BY <1>4 DEF InputTokens, OutputTokens, inputs, outputs, pool

\* The extremes of a finite set of numbers are among them.
LEMMA Extremes ==
  ASSUME NEW S, IsFiniteSet(S)
  PROVE  S \subseteq Int /\ S # {} =>
           /\ MinOf(S) \in S /\ \A y \in S : MinOf(S) <= y
           /\ MaxOf(S) \in S /\ \A y \in S : MaxOf(S) >= y
<1>1. SUFFICES ASSUME S \subseteq Int /\ S # {}
               PROVE  /\ MinOf(S) \in S /\ \A y \in S : MinOf(S) <= y
                      /\ MaxOf(S) \in S /\ \A y \in S : MaxOf(S) >= y
  OBVIOUS
<1>2. (\E x \in S : \A y \in S : x <= y) /\ \E x \in S : \A y \in S : x >= y
  BY <1>1, FiniteExtremes
<1> QED
  BY <1>2 DEF MinOf, MaxOf

LEMMA WindowTyped ==
  ASSUME NEW rs \in Seq(Loadable)
  PROVE  /\ Window(rs, Kept(rs)) \in Int
         /\ IsFiniteSet({RepKey(rs, x) : x \in Kept(rs)})
         /\ \A key \in {RepKey(rs, x) : x \in Kept(rs)} : Span(rs, Kept(rs), key) \in Int
<1> DEFINE keys == {RepKey(rs, x) : x \in Kept(rs)}
           spans == [key \in keys |-> Span(rs, Kept(rs), key)]
<1>1. /\ IsFiniteSet(Kept(rs))
      /\ \A x \in Kept(rs) : EventAt(rs, x).end_ts \in Int /\ EventAt(rs, x).scheduled_send_ts \in Int
  <2>1. \A x \in Names(rs) : EventAt(rs, x).end_ts \in Int /\ EventAt(rs, x).scheduled_send_ts \in Int
    BY NamesFinite DEF WellFormed
  <2> QED
    BY <2>1, NamesFinite, PoolFacts, FS_Subset
<1>2. IsFiniteSet(keys)
  <2> DEFINE key == [x \in Kept(rs) |-> RepKey(rs, x)]
  <2>1. keys = {key[x] : x \in Kept(rs)}
    OBVIOUS
  <2> HIDE DEF keys, key
  <2> QED
    BY <1>1, <2>1, ImageFinite
<1>3. ASSUME NEW key \in keys PROVE Span(rs, Kept(rs), key) \in Int
  <2> DEFINE part == {x \in Kept(rs) : RepKey(rs, x) = key}
             ends == {EventAt(rs, x).end_ts : x \in part}
             sends == {EventAt(rs, x).scheduled_send_ts : x \in part}
  <2>1. IsFiniteSet(part) /\ part # {}
    BY <1>1, FS_Subset
  <2>2. ends # {} /\ ends \subseteq Int /\ sends # {} /\ sends \subseteq Int
    BY <1>1, <2>1
  <2>3. IsFiniteSet(ends) /\ IsFiniteSet(sends)
    <3> DEFINE end == [x \in part |-> EventAt(rs, x).end_ts]
               send == [x \in part |-> EventAt(rs, x).scheduled_send_ts]
    <3>1. ends = {end[x] : x \in part} /\ sends = {send[x] : x \in part}
      OBVIOUS
    <3> HIDE DEF ends, end, sends, send, part
    <3> QED
      BY <2>1, <3>1, ImageFinite
  <2>4. Span(rs, Kept(rs), key) = MaxOf(ends) - MinOf(sends)
    BY DEF Span
  <2> HIDE DEF ends, sends
  <2>5. MaxOf(ends) \in ends /\ MinOf(sends) \in sends
    BY <2>2, <2>3, Extremes
  <2>6. MaxOf(ends) \in Int /\ MinOf(sends) \in Int
    BY <2>2, <2>5
  <2> QED
    BY <2>4, <2>6
<1>4. DOMAIN spans = keys /\ \A key \in keys : spans[key] \in Int
  BY <1>3
<1>5. Window(rs, Kept(rs)) = SumFunction(spans)
  BY DEF Window
<1>6. SumFunction(spans) \in Int
  <2> HIDE DEF spans, keys
  <2>1. SumFunctionOnSet(spans, keys) \in Int
    BY <1>2, <1>4, SumType
  <2> QED
    BY <1>4, <2>1 DEF SumFunction
<1> QED
  BY <1>2, <1>3, <1>5, <1>6

\* A cost that could be had is available or not, and if it is, its figures are
\* there.
LEMMA CostTyped ==
  ASSUME NEW rs \in Seq(Loadable), NEW c, WellConfigured(c), CostOfRuns(rs, c).error = "none"
  PROVE  LET cost == CostOfRuns(rs, c).value
         IN  /\ cost.available \in BOOLEAN
             /\ cost.available =>
                  /\ cost # None
                  /\ [k \in DOMAIN cost \ {"available", "provenance"} |-> cost[k]] # None
<1> DEFINE pool == PoolOf(rs)
           ok == Cardinality(WithStatus(pool, "ok"))
           out == OutputTokens(pool)
           tokens == InputTokens(pool) + out
           window == Window(rs, Kept(rs))
           matching == Matching(c.cost)
           rate == c.cost.rates[CHOOSE i \in matching : TRUE]
           usd == rate.usd * window
           Figures == {"per_request", "per_token", "per_output_token"}
           per_output == IF out > 0 THEN <<usd, out>> ELSE None
           full == [available |-> TRUE, per_request |-> <<usd, ok>>, per_token |-> <<usd, tokens>>,
                    per_output_token |-> per_output, provenance |-> rate.provenance]
           cost == CostOfRuns(rs, c).value
<1>1. IsFiniteSet(WithStatus(pool, "ok")) /\ ok \in Nat /\ out \in Nat /\ tokens \in Nat /\ window \in Int
  <2>1. WithStatus(pool, "ok") \subseteq DOMAIN pool /\ IsFiniteSet(DOMAIN pool)
    BY PoolTyped DEF WithStatus
  <2>2. IsFiniteSet(WithStatus(pool, "ok")) /\ ok \in Nat
    BY <2>1, FS_Subset, FS_CardinalityType
  <2>3. InputTokens(pool) \in Nat /\ out \in Nat /\ window \in Int
    BY TokensTyped, WindowTyped
  <2> HIDE DEF pool, ok, out, window
  <2> QED
    BY <2>2, <2>3
<1>2. \/ cost.available = FALSE
      \/ c.cost # None /\ Cardinality(matching) = 1 /\ cost = full
  <2> HIDE DEF pool, ok, out, tokens, window, matching, rate, usd, full, per_output
  <2>1. CostOfRuns(rs, c) = ComputeCost(c.cost, window, ok, tokens, out)
    BY DEF CostOfRuns, window, ok, tokens, out, pool
  <2> DEFINE computed == ComputeCost(c.cost, window, ok, tokens, out)
  <2>2. \/ \E reason : computed = Unavailable(reason)
        \/ computed = Refuse("CostError")
        \/ computed = Ok(full) /\ c.cost # None /\ Cardinality(matching) = 1
    BY <1>1 DEF ComputeCost, full, per_output, usd, rate, matching
  <2>3. computed.error = "none"
    BY <2>1
  <2> HIDE DEF computed
  <2>4. \A reason : computed = Unavailable(reason) => computed.value.available = FALSE
    BY DEF Unavailable, Ok
  <2>5. computed # Refuse("CostError")
    BY <2>3 DEF Refuse
  <2>6. Ok(full).value = full
    BY DEF Ok
  <2> QED
    BY <2>1, <2>2, <2>4, <2>5, <2>6 DEF computed
<1>3. full.available = TRUE
  OBVIOUS
<1>4. SUFFICES ASSUME c.cost # None, Cardinality(matching) = 1, cost = full
               PROVE  /\ full # None
                      /\ [k \in DOMAIN full \ {"available", "provenance"} |-> full[k]] # None
  <2> HIDE DEF full, cost, matching
  <2> QED
    BY <1>3, <1>2 DEF cost
<1>5. rate.provenance \in STRING /\ usd \in Int
  <2>1. matching \subseteq DOMAIN c.cost.rates /\ IsFiniteSet(DOMAIN c.cost.rates)
    BY <1>4 DEF Matching, WellConfigured
  <2>2. matching # {}
    <3> HIDE DEF matching, cost, full
    <3>1. Cardinality(matching) = 1 /\ Cardinality({}) = 0
      BY <1>4, FS_EmptySet
    <3>2. matching = {} => 1 = 0
      BY <3>1, Zenon
    <3> QED
      BY <3>2, SMT
  <2>3. (CHOOSE i \in matching : TRUE) \in DOMAIN c.cost.rates
    BY <2>1, <2>2
  <2>4. rate.usd \in Int /\ rate.provenance \in STRING
    BY <1>4, <2>3 DEF WellConfigured
  <2> HIDE DEF rate, window
  <2> QED
    BY <1>1, <2>4
<1> HIDE DEF pool, ok, out, tokens, window, matching, rate, usd
<1>6. /\ <<usd, ok>> \in Int \X Int /\ <<usd, tokens>> \in Int \X Int
      /\ per_output \in (Int \X Int) \cup {None}
  BY <1>1, <1>5
<1>7. [k \in DOMAIN full \ {"available", "provenance"} |-> full[k]]
        \in [Figures -> (Int \X Int) \cup {None}]
  <2>1. DOMAIN full \ {"available", "provenance"} = Figures
    OBVIOUS
  <2>2. /\ full["per_request"] = <<usd, ok>> /\ full["per_token"] = <<usd, tokens>>
        /\ full["per_output_token"] = per_output
    OBVIOUS
  <2> HIDE DEF full, per_output
  <2> QED
    BY <1>6, <2>1, <2>2
<1>8. full \in [available : BOOLEAN, per_request : Int \X Int, per_token : Int \X Int,
                per_output_token : (Int \X Int) \cup {None}, provenance : STRING]
  BY <1>5, <1>6
<1> HIDE DEF full, Figures
<1> QED
  BY <1>7, <1>8, NoneAssumption DEF NoneAssumption, Figures

\* What a document says beside its tables and its goodput.
Says(d, rs, c) ==
  LET cost == CostOfRuns(rs, c).value
      policy == WarmupReport(rs).policy
  IN  /\ d.knee = IF c.knee = None THEN None
                  ELSE [k \in DOMAIN c.knee \ {"bracketed"} |-> c.knee[k]]
      /\ d.cost = IF ~cost.available THEN None
                  ELSE [k \in DOMAIN cost \ {"available", "provenance"} |-> cost[k]]
      /\ d.run_count = Repetitions(rs)
      /\ d.handling.policy = policy
      /\ d.threats = Threats(PoolOf(rs), c, Repetitions(rs), cost, policy)

LEMMA DocumentStatements ==
  ASSUME NEW rs, NEW c, Analyze(rs, c).error = "none",
         ToDocument(Analyze(rs, c).value).error = "none"
  PROVE  Says(ToDocument(Analyze(rs, c).value).value, rs, c)
<1> DEFINE goodput == GoodputOfRuns(rs, c).value
           cost == CostOfRuns(rs, c).value
           warmup == WarmupReport(rs)
           r == Analyze(rs, c).value
           d == ToDocument(r).value
<1>1. r = Assemble(rs, c, PoolOf(rs), warmup, goodput, cost)
  BY AnalysisAssembled
<1> HIDE DEF goodput, cost, warmup, r
<1>2. /\ r.knee = c.knee /\ r.cost = cost /\ r.run_count = Repetitions(rs) /\ r.warmup = warmup
      /\ r.threats = Threats(PoolOf(rs), c, Repetitions(rs), cost, warmup.policy)
  BY <1>1 DEF Assemble
<1>3. ToDocument(r).error = "none"
  BY DEF r
<1>4. /\ d.knee = IF r.knee = None THEN None
                  ELSE [k \in DOMAIN r.knee \ {"bracketed"} |-> r.knee[k]]
      /\ d.cost = IF ~r.cost.available THEN None
                  ELSE [k \in DOMAIN r.cost \ {"available", "provenance"} |-> r.cost[k]]
      /\ d.run_count = r.run_count /\ d.threats = r.threats
      /\ d.handling = HandlingStatement(r.warmup)
  BY <1>3 DEF ToDocument, Refuse, Ok
<1>5. d.handling.policy = warmup.policy
  <2>1. HandlingStatement(warmup).policy = warmup.policy
    BY DEF HandlingStatement
  <2> HIDE DEF d
  <2> QED
    BY <1>2, <1>4, <2>1
<1> HIDE DEF d
<1> QED
  BY <1>2, <1>4, <1>5 DEF Says, d, r, cost, warmup

\* No sample of a gap means no stream at all, or a stream known only by its
\* summary.
LEMMA NoGaps ==
  ASSUME NEW pool, \A x \in DOMAIN pool : WellFormed(pool[x]),
         "itl_seconds" \notin Tabled(pool)
  PROVE  Streaming(pool) = {} \/ SummaryOnly(pool) # {}
<1>1. DOMAIN ItlPool(pool) = {}
  BY DEF Tabled, Pools
<1>2. ASSUME NEW x \in WithSeries(pool) PROVE FALSE
  <2> DEFINE s == pool[x].itl.series
  <2>1. x \in DOMAIN pool /\ s # <<>> /\ s \in Seq(Int)
    BY <1>2 DEF WithSeries, WellFormed
  <2> HIDE DEF s
  <2>2. 1 \in DOMAIN s
    BY <2>1, EmptySeq, LenProperties
  <2>3. <<x, 1>> \in DOMAIN ItlPool(pool)
    BY <1>2, <2>2 DEF ItlPool, s
  <2> QED
    BY <1>1, <2>3
<1>3. ASSUME NEW x \in Streaming(pool) PROVE x \in SummaryOnly(pool)
  <2>1. x \in DOMAIN pool /\ pool[x].itl # None
    BY DEF Streaming
  <2>2. pool[x].itl.series # <<>> => x \in WithSeries(pool)
    BY <2>1 DEF WithSeries
  <2>3. pool[x].itl.series # <<>> \/ pool[x].itl.summary # None
    BY <2>1 DEF WellFormed
  <2> QED
    BY <1>2, <2>1, <2>2, <2>3 DEF SummaryOnly
<1> QED
  BY <1>3

LEMMA LineageExplains == LineageInv => NullsExplained
<1> SUFFICES ASSUME LineageInv, Published PROVE NullsExplained
  BY DEF NullsExplained
<1> DEFINE rs == result.runs
           c == result.config
           pool == PoolOf(rs)
           d == result.document
           cost == CostOfRuns(rs, c).value
           policy == WarmupReport(rs).policy
           named == {d.threats[i] : i \in DOMAIN d.threats}
<1>1. /\ rs \in Seq(Loadable) /\ WellConfigured(c)
      /\ DOMAIN d.tables = Tabled(pool)
  BY Behind
<1>2. /\ Analyze(rs, c).error = "none" /\ ToDocument(Analyze(rs, c).value).error = "none"
      /\ d = ToDocument(Analyze(rs, c).value).value
  BY DEF LineageInv, Analysed
<1>3. /\ d.knee = IF c.knee = None THEN None
                  ELSE [k \in DOMAIN c.knee \ {"bracketed"} |-> c.knee[k]]
      /\ d.cost = IF ~cost.available THEN None
                  ELSE [k \in DOMAIN cost \ {"available", "provenance"} |-> cost[k]]
      /\ d.run_count = Repetitions(rs) /\ d.handling.policy = policy
      /\ d.threats = Threats(pool, c, Repetitions(rs), cost, policy)
  <2>1. Says(d, rs, c)
    BY <1>2, DocumentStatements
  <2> QED
    BY <2>1 DEF Says
<1>4. named = Values(d.threats)
  BY DEF Values
<1>5. CostOfRuns(rs, c).error = "none"
  BY <1>2, AnalysisAssembled
<1>6. cost.available => [k \in DOMAIN cost \ {"available", "provenance"} |-> cost[k]] # None
  BY <1>1, <1>5, CostTyped
<1>7. \A x \in DOMAIN pool : WellFormed(pool[x])
  BY <1>1, PoolTyped
<1> HIDE DEF pool, cost, policy, d
<1>8. /\ Repetitions(rs) < 3 => "repetitions" \in named
      /\ c.knee = None => "no-sweep" \in named
      /\ ~cost.available => "cost" \in named
      /\ policy = "none" => "no-warm-up" \in named
      /\ Streaming(pool) = {} => "no-streaming" \in named
      /\ SummaryOnly(pool) # {} => "summary-only" \in named
  <2> DEFINE all == Threats(pool, c, Repetitions(rs), cost, policy)
  <2>1. c.threats \in Seq(STRING)
    BY <1>1 DEF WellConfigured
  <2>2. named = Values(all)
    BY <1>3, <1>4
  <2> HIDE DEF named, rs, c
  <2> QED
    BY <2>1, <2>2, ThreatsAre
<1> HIDE DEF named
<1>9. d.knee = None => c.knee = None
  BY <1>1, <1>3 DEF WellConfigured
<1>10. d.cost = None => ~cost.available
  BY <1>3, <1>6
<1>11. "itl_seconds" \notin DOMAIN d.tables =>
         "no-streaming" \in named \/ "summary-only" \in named
  BY <1>1, <1>7, <1>8, NoGaps
<1>12. /\ d.knee = None => "no-sweep" \in named
       /\ d.cost = None => "cost" \in named
       /\ "itl_seconds" \notin DOMAIN d.tables => named \cap {"no-streaming", "summary-only"} # {}
       /\ d.run_count < 3 => "repetitions" \in named
       /\ d.handling.policy = "none" => "no-warm-up" \in named
  BY <1>3, <1>8, <1>9, <1>10, <1>11
<1> QED
  BY <1>12 DEF NullsExplained, d, named

\* Whatever a published document leaves out or cannot support is named among
\* its threats (result.py:412-455).
THEOREM WhatIsMissingIsExplained == Spec => []NullsExplained
BY LineageInvariant, LineageExplains, PTL

-----------------------------------------------------------------------------
(* What the warm-up cuts, counted.                                         *)

\* The events of a repetition in the order of the scheduled sends.
SendOrder(rs, G) == {z \in G \X G : SentBefore(rs, z[1], z[2])}

LEMMA GroupFacts ==
  ASSUME NEW rs \in Seq(Loadable), NEW key
  PROVE  /\ IsFiniteSet(Group(rs, key))
         /\ StrictOrder(Group(rs, key), SendOrder(rs, Group(rs, key)))
         /\ \A x \in Group(rs, key) :
              Position(rs, x) = Cardinality(Below(Group(rs, key), SendOrder(rs, Group(rs, key)), x))
<1> DEFINE G == Group(rs, key)
           R == SendOrder(rs, G)
<1>1. G \subseteq Names(rs) /\ \A x \in G : RepKey(rs, x) = key
  BY DEF Group
<1>2. IsFiniteSet(G)
  BY <1>1, NamesFinite, FS_Subset
<1>3. ASSUME NEW x \in G
      PROVE  /\ EventAt(rs, x).scheduled_send_ts \in Nat
             /\ x = <<x[1], x[2]>> /\ x[2] \in Nat /\ x[1] = key[1]
  <2>1. PICK i \in DOMAIN rs : x \in {i} \X DOMAIN rs[i].events
    BY <1>1 DEF Names
  <2>2. rs[i] \in Loadable
    BY <2>1, LenProperties, ElementOfSeq
  <2>3. DOMAIN rs[i].events \subseteq Nat
    BY <2>2, LoadedRun
  <2>4. x = <<x[1], x[2]>> /\ x[2] \in DOMAIN rs[i].events
    BY <2>1
  <2>5. x[1] = key[1]
    BY <1>1 DEF RepKey
  <2> QED
    BY <1>1, <2>3, <2>4, <2>5, NamesFinite
<1>4. \A x, y \in G : <<x, y>> \in R <=> SentBefore(rs, x, y)
  BY DEF SendOrder
<1> HIDE DEF R, G
<1>5. \A x \in G : <<x, x>> \notin R
  BY <1>3, <1>4 DEF SentBefore
<1>6. ASSUME NEW x \in G, NEW y \in G, x # y PROVE <<x, y>> \in R \/ <<y, x>> \in R
  <2>1. x[2] # y[2]
    BY <1>3, <1>6
  <2> QED
    BY <1>3, <1>4, <2>1 DEF SentBefore
<1>7. ASSUME NEW x \in G, NEW y \in G, NEW z \in G, <<x, y>> \in R, <<y, z>> \in R
      PROVE  <<x, z>> \in R
  BY <1>3, <1>4, <1>7 DEF SentBefore
<1>8. ASSUME NEW x \in G
      PROVE  Position(rs, x) = Cardinality(Below(G, R, x))
  <2>1. Below(G, R, x) = {y \in G : SentBefore(rs, y, x)}
    BY <1>4 DEF Below
  <2>2. Group(rs, RepKey(rs, x)) = G
    BY <1>1 DEF G
  <2> QED
    BY <2>1, <2>2 DEF Position
<1>9. StrictOrder(G, R)
  BY <1>5, <1>6, <1>7 DEF StrictOrder
<1> QED
  BY <1>2, <1>8, <1>9 DEF G, R

\* A count policy cuts its count, or the whole repetition.
LEMMA CountCut ==
  ASSUME NEW rs \in Seq(Loadable), rs # <<>>, NEW key,
         rs[1].manifest.warm_up.policy = "discard-requests",
         rs[1].manifest.warm_up.value \in Nat
  PROVE  Cardinality({x \in Group(rs, key) : Discarded(rs, x)}) =
           MinOf({Cardinality(Group(rs, key)), rs[1].manifest.warm_up.value})
<1> DEFINE G == Group(rs, key)
           R == SendOrder(rs, G)
           k == rs[1].manifest.warm_up.value
           n == Cardinality(G)
<1>1. /\ IsFiniteSet(G) /\ StrictOrder(G, R)
      /\ \A x \in G : Position(rs, x) = Cardinality(Below(G, R, x))
  BY GroupFacts
<1>2. \A x \in G : Discarded(rs, x) <=> Cardinality(Below(G, R, x)) < k
  BY <1>1 DEF Discarded
<1>3. {x \in G : Discarded(rs, x)} = {x \in G : Cardinality(Below(G, R, x)) < k}
  BY <1>2
<1> HIDE DEF G, R, k
<1>4. k \in Nat
  BY DEF k
<1>5. Cardinality({x \in G : Cardinality(Below(G, R, x)) < k}) = IF k < n THEN k ELSE n
  BY <1>1, <1>4, RankCount
<1>6. n \in Nat
  BY <1>1, FS_CardinalityType
<1>7. MinOf({n, k}) = IF k < n THEN k ELSE n
  <2> HIDE DEF n
  <2>1. {n, k} \subseteq Nat /\ {n, k} # {}
    BY <1>4, <1>6
  <2>2. MinOf({n, k}) \in {n, k} /\ \A y \in {n, k} : MinOf({n, k}) <= y
    BY <2>1, LeastElement
  <2> QED
    BY <1>4, <1>6, <2>2
<1> HIDE DEF n
<1>8. Cardinality({x \in G : Discarded(rs, x)}) = Cardinality({x \in G : Cardinality(Below(G, R, x)) < k})
  BY <1>3, Zenon
<1>9. Cardinality({x \in G : Discarded(rs, x)}) = MinOf({n, k})
  BY <1>5, <1>7, <1>8, Zenon
<1> QED
  BY <1>9 DEF G, k, n

\* What was cut and what is kept add up.
LEMMA CutAndKept ==
  ASSUME NEW rs \in Seq(Loadable)
  PROVE  WarmupReport(rs).excluded_total + WarmupReport(rs).kept_total = Cardinality(Names(rs))
<1> DEFINE cut == {x \in Names(rs) : Discarded(rs, x)}
           keys == RepKeys(rs)
           key == [x \in cut |-> RepKey(rs, x)]
           counts == [k \in keys |-> Cardinality({x \in Group(rs, k) : Discarded(rs, x)})]
<1>1. IsFiniteSet(Names(rs))
  BY NamesFinite
<1>2. IsFiniteSet(cut) /\ IsFiniteSet(Kept(rs))
  BY <1>1, PoolFacts, FS_Subset
<1>3. IsFiniteSet(keys)
  <2> DEFINE all == [x \in Names(rs) |-> RepKey(rs, x)]
  <2>1. keys = {all[x] : x \in Names(rs)}
    BY DEF RepKeys
  <2> HIDE DEF all, keys
  <2> QED
    BY <1>1, <2>1, ImageFinite
<1>4. key \in [cut -> keys]
  BY DEF RepKeys
<1>5. ASSUME NEW k \in keys PROVE counts[k] = Cardinality({x \in cut : key[x] = k})
  <2>1. {x \in Group(rs, k) : Discarded(rs, x)} = {x \in cut : key[x] = k}
    BY DEF Group
  <2> QED
    BY <2>1
<1>6. DOMAIN counts = keys /\ WarmupReport(rs).excluded_total = SumFunction(counts)
      /\ WarmupReport(rs).kept_total = Cardinality(Kept(rs))
  BY DEF WarmupReport
<1>7. cut \cup Kept(rs) = Names(rs) /\ cut \cap Kept(rs) = {}
  BY DEF Kept
<1> HIDE DEF cut, keys, key, counts
<1>8. SumFunction(counts) = Cardinality(cut)
  BY <1>2, <1>3, <1>4, <1>5, <1>6, SumOfClasses DEF SumFunction
<1>9. Cardinality(cut) + Cardinality(Kept(rs)) = Cardinality(Names(rs))
  <2>1. Cardinality(cut \cup Kept(rs)) =
          Cardinality(cut) + Cardinality(Kept(rs)) - Cardinality(cut \cap Kept(rs))
    BY <1>2, FS_Union
  <2>2. Cardinality(cut \cap Kept(rs)) = 0
    BY <1>7, FS_EmptySet
  <2>3. Cardinality(cut) \in Nat /\ Cardinality(Kept(rs)) \in Nat
    BY <1>2, FS_CardinalityType
  <2>4. Cardinality(cut \cup Kept(rs)) = Cardinality(Names(rs))
    BY <1>7
  <2> QED
    BY <2>1, <2>2, <2>3, <2>4
<1> QED
  BY <1>6, <1>8, <1>9

LEMMA LineagePrefix == LineageInv => WarmupIsPrefix
<1> SUFFICES ASSUME LineageInv, LoadDone, ApplyWarmup(runs).error = "none" PROVE WarmupIsPrefix
  BY DEF WarmupIsPrefix
<1> DEFINE made == ApplyWarmup(runs).value.report
           w == runs[1].manifest.warm_up
<1>1. runs \in Seq(Loadable) /\ runs # <<>>
  BY DEF LineageInv, LoadDone
<1>2. made = WarmupReport(runs)
  <2>1. ApplyWarmup(runs).value = [kept |-> Kept(runs), report |-> WarmupReport(runs)]
    BY WarmedUp
  <2> QED
    BY <2>1
<1>3. CutsTheEarliest(runs)
  BY <1>1, WarmupCuts
<1>4. runs[1] \in Loadable
  BY <1>1, EmptySeq, ElementOfSeq
<1>5. w.policy = "discard-requests" => w.value \in Nat
  <2>1. w.policy = "discard-requests" => w.value \in Nat \cup {None}
    BY <1>4, LoadedRun
  <2>2. w.policy # "none" => w.value # None
    BY DEF ApplyWarmup, Refuse
  <2> QED
    BY <2>1, <2>2
<1>6. ASSUME made.policy = "discard-requests", NEW key \in RepKeys(runs)
      PROVE  made.excluded[key] = MinOf({Cardinality(Group(runs, key)), made.value})
  <2>1. /\ made.policy = w.policy /\ made.value = w.value
        /\ made.excluded[key] = Cardinality({x \in Group(runs, key) : Discarded(runs, x)})
    BY <1>2 DEF WarmupReport
  <2> HIDE DEF made
  <2> QED
    BY <1>1, <1>5, <1>6, <2>1, CountCut
<1>7. made.excluded_total + made.kept_total = Cardinality(Names(runs))
  BY <1>1, <1>2, CutAndKept
<1> QED
  BY <1>3, <1>6, <1>7 DEF WarmupIsPrefix

\* Whatever run set a command has loaded, the warm-up cuts a prefix of each
\* repetition in the order of the scheduled sends, a count policy exactly its
\* count, and what is cut and what is kept add up (warmup.py:28-103).
THEOREM WarmupCutsAPrefix == Spec => []WarmupIsPrefix
BY LineageInvariant, LineagePrefix, PTL

-----------------------------------------------------------------------------
(* Quantiles.                                                              *)

IsPool(pool) ==
  /\ IsFiniteSet(DOMAIN pool) /\ DOMAIN pool # {}
  /\ \A x \in DOMAIN pool : pool[x] \in Int

LEMMA PoolSize ==
  ASSUME NEW pool, IsPool(pool)
  PROVE  Cardinality(DOMAIN pool) \in Nat /\ Cardinality(DOMAIN pool) >= 1
<1> DEFINE S == DOMAIN pool
<1>1. IsFiniteSet(S) /\ S # {}
  BY DEF IsPool
<1> HIDE DEF S
<1>2. Cardinality(S) \in Nat /\ Cardinality(S) # 0
  BY <1>1, FS_CardinalityType, FS_EmptySet
<1> QED
  BY <1>2 DEF S

LEMMA OrderStatistics ==
  ASSUME NEW pool, IsPool(pool), NEW k \in 1..Cardinality(DOMAIN pool)
  PROVE  /\ OrderStatistic(pool, k) \in Values(pool)
         /\ OrderStatistic(pool, k) \in Int
         /\ IsKth(pool, DOMAIN pool, k, OrderStatistic(pool, k))
<1> DEFINE S == DOMAIN pool
           is(v) == IsKth(pool, S, k, v)
<1>1. IsFiniteSet(S) /\ \A x \in S : pool[x] \in Int
  BY DEF IsPool
<1>2. OrderStatistic(pool, k) = CHOOSE v \in Values(pool) : is(v)
  BY DEF OrderStatistic, IsKth, Under, UpTo
<1>3. \E x \in S : is(pool[x])
  <2> HIDE DEF S
  <2> QED
    BY <1>1, KthExists DEF S
<1>4. Values(pool) = {pool[x] : x \in S}
  BY DEF Values
<1> HIDE DEF is
<1>5. OrderStatistic(pool, k) \in Values(pool) /\ is(OrderStatistic(pool, k))
  BY <1>2, <1>3, <1>4
<1> QED
  BY <1>1, <1>4, <1>5 DEF is

LEMMA OrderStatisticsRise ==
  ASSUME NEW pool, IsPool(pool), NEW k \in 1..Cardinality(DOMAIN pool),
         NEW l \in 1..Cardinality(DOMAIN pool), k <= l
  PROVE  OrderStatistic(pool, k) <= OrderStatistic(pool, l)
<1> DEFINE S == DOMAIN pool
<1>1. IsFiniteSet(S) /\ \A x \in S : pool[x] \in Int
  BY DEF IsPool
<1>2. /\ OrderStatistic(pool, k) \in Int /\ IsKth(pool, S, k, OrderStatistic(pool, k))
      /\ OrderStatistic(pool, l) \in Int /\ IsKth(pool, S, l, OrderStatistic(pool, l))
  BY OrderStatistics
<1>3. k \in Int /\ l \in Int
  BY PoolSize
<1> HIDE DEF S
<1> QED
  BY <1>1, <1>2, <1>3, KthMonotone

Thousandths == 0..999

\* The two order statistics a quantile interpolates between.
Scaled(pool, q) == (Cardinality(DOMAIN pool) - 1) * q
LeftOf(pool, q) == Scaled(pool, q) \div 1000
RestOf(pool, q) == Scaled(pool, q) % 1000
NextOf(pool, q) == MinOf({LeftOf(pool, q) + 2, Cardinality(DOMAIN pool)})
LowOf(pool, q) == OrderStatistic(pool, LeftOf(pool, q) + 1)
HighOf(pool, q) == OrderStatistic(pool, NextOf(pool, q))

LEMMA QuantileIs ==
  ASSUME NEW pool, NEW q
  PROVE  Quantile(pool, q) =
           1000 * LowOf(pool, q) + RestOf(pool, q) * (HighOf(pool, q) - LowOf(pool, q))
BY DEF Quantile, Scaled, LeftOf, RestOf, NextOf, LowOf, HighOf

Interpolates(pool, q) ==
  /\ LeftOf(pool, q) \in Nat /\ RestOf(pool, q) \in 0..999
  /\ Scaled(pool, q) = 1000 * LeftOf(pool, q) + RestOf(pool, q)
  /\ LeftOf(pool, q) + 1 \in 1..Cardinality(DOMAIN pool)
  /\ NextOf(pool, q) \in 1..Cardinality(DOMAIN pool)
  /\ NextOf(pool, q) = IF LeftOf(pool, q) + 2 <= Cardinality(DOMAIN pool)
                         THEN LeftOf(pool, q) + 2 ELSE Cardinality(DOMAIN pool)
  /\ RestOf(pool, q) = 0 => Quantile(pool, q) = 1000 * LowOf(pool, q)
  /\ LowOf(pool, q) \in Int /\ HighOf(pool, q) \in Int /\ LowOf(pool, q) <= HighOf(pool, q)
  /\ Quantile(pool, q) \in Int
  /\ 1000 * LowOf(pool, q) <= Quantile(pool, q)
  /\ Quantile(pool, q) <= 1000 * HighOf(pool, q)

LEMMA Interpolated ==
  ASSUME NEW pool, IsPool(pool), NEW q \in Thousandths
  PROVE  Interpolates(pool, q)
<1> DEFINE n == Cardinality(DOMAIN pool)
           h == Scaled(pool, q)
           left == LeftOf(pool, q)
           r == RestOf(pool, q)
           next == NextOf(pool, q)
           low == LowOf(pool, q)
           high == HighOf(pool, q)
<1>1. n \in Nat /\ n >= 1
  BY PoolSize
<1>2. h \in Nat /\ h <= (n - 1) * 999
  <2>1. ASSUME NEW m \in Nat PROVE m * q \in Nat /\ m * q <= m * 999
    BY DEF Thousandths
  <2>2. n - 1 \in Nat
    BY <1>1
  <2> QED
    BY <2>1, <2>2 DEF Scaled
<1> HIDE DEF n, h
<1>3. left \in Nat /\ r \in 0..999 /\ h = 1000 * left + r
  BY <1>2 DEF h, LeftOf, RestOf
<1> HIDE DEF left, r
<1>4. left + 1 <= n
  BY <1>1, <1>2, <1>3
<1>5. next = IF left + 2 <= n THEN left + 2 ELSE n
  <2>1. ASSUME NEW a \in Int, NEW b \in Int PROVE MinOf({a, b}) = IF a <= b THEN a ELSE b
    BY DEF MinOf
  <2> QED
    BY <1>1, <1>3, <2>1 DEF NextOf, n, left
<1> HIDE DEF next
<1>6. left + 1 \in 1..n /\ next \in 1..n /\ left + 1 <= next
  BY <1>1, <1>3, <1>4, <1>5
<1>7. low \in Int /\ high \in Int /\ low <= high
  BY <1>6, OrderStatistics, OrderStatisticsRise DEF n, left, next, LowOf, HighOf
<1>8. Quantile(pool, q) = 1000 * low + r * (high - low)
  BY QuantileIs DEF left, r, next
<1> HIDE DEF low, high
<1>9. /\ r * (high - low) \in Int /\ r * (high - low) >= 0
      /\ r * (high - low) <= 1000 * (high - low)
  <2>1. ASSUME NEW d \in Nat PROVE r * d \in Int /\ r * d >= 0 /\ r * d <= 1000 * d
    BY <1>3
  <2>2. high - low \in Nat
    BY <1>7
  <2> QED
    BY <2>1, <2>2
<1> DEFINE p == r * (high - low)
<1> HIDE DEF p
<1>10. p \in Int /\ p >= 0 /\ p <= 1000 * (high - low) /\ Quantile(pool, q) = 1000 * low + p
  BY <1>8, <1>9 DEF p
<1>11. /\ Quantile(pool, q) \in Int
       /\ 1000 * low <= Quantile(pool, q) /\ Quantile(pool, q) <= 1000 * high
  BY <1>7, <1>10
<1>12. r = 0 => Quantile(pool, q) = 1000 * low
  <2>1. ASSUME NEW d \in Nat PROVE 0 * d = 0
    OBVIOUS
  <2>2. high - low \in Nat
    BY <1>7
  <2>3. r = 0 => p = 0
    BY <2>1, <2>2 DEF p
  <2> QED
    BY <1>7, <1>10, <2>3
<1> QED
  BY <1>3, <1>5, <1>6, <1>7, <1>11, <1>12 DEF Interpolates, n, h, left, r, next, low, high

\* Where a quantile lies among the values of its pool.
PlacedIn(pool, v, q) ==
  LET n == Cardinality(DOMAIN pool)
      left == ((n - 1) * q) \div 1000
      over == Cardinality({x \in DOMAIN pool : 1000 * pool[x] >= v})
  IN  /\ Cardinality({x \in DOMAIN pool : 1000 * pool[x] <= v}) > left
      /\ over >= n - 1 - left
      /\ (n - 1) * q % 1000 = 0 => over >= n - left

LEMMA QuantilePlaced ==
  ASSUME NEW pool, IsPool(pool), NEW q \in Thousandths
  PROVE  PlacedIn(pool, Quantile(pool, q), q)
<1> DEFINE S == DOMAIN pool
           n == Cardinality(S)
           left == LeftOf(pool, q)
           r == RestOf(pool, q)
           next == NextOf(pool, q)
           low == LowOf(pool, q)
           high == HighOf(pool, q)
           v == Quantile(pool, q)
           A == {x \in S : 1000 * pool[x] <= v}
           B == {x \in S : 1000 * pool[x] >= v}
           AtLeast(w) == {x \in S : pool[x] >= w}
<1>1. /\ IsFiniteSet(S) /\ \A x \in S : pool[x] \in Int
      /\ n \in Nat
  BY PoolSize DEF IsPool
<1>2. /\ left \in Nat /\ left + 1 \in 1..n /\ next \in 1..n
      /\ next = IF left + 2 <= n THEN left + 2 ELSE n
      /\ r \in 0..999
      /\ r = 0 => v = 1000 * low
      /\ low \in Int /\ high \in Int /\ v \in Int /\ 1000 * low <= v /\ v <= 1000 * high
  <2>1. Interpolates(pool, q)
    BY Interpolated
  <2> HIDE DEF A, B, AtLeast
  <2> QED
    BY <2>1 DEF Interpolates
<1>3. IsKth(pool, S, left + 1, low) /\ IsKth(pool, S, next, high)
  BY <1>2, OrderStatistics DEF LowOf, HighOf
<1> HIDE DEF v, low, high, next, r, left
<1>4. UpTo(pool, S, low) \in SUBSET A
  BY <1>1, <1>2 DEF UpTo
<1>5. AtLeast(high) \in SUBSET B
  BY <1>1, <1>2
<1>6. r = 0 => AtLeast(low) \in SUBSET B
  BY <1>1, <1>2
<1>7. A \in SUBSET S /\ B \in SUBSET S
  OBVIOUS
<1> HIDE DEF A, B
<1>8. \A w \in Int : /\ Cardinality(Under(pool, S, w)) + Cardinality(AtLeast(w)) = n
                     /\ Cardinality(Under(pool, S, w)) \in Nat
                     /\ IsFiniteSet(AtLeast(w))
  <2> SUFFICES ASSUME NEW w \in Int
               PROVE  /\ Cardinality(Under(pool, S, w)) + Cardinality(AtLeast(w)) = n
                      /\ Cardinality(Under(pool, S, w)) \in Nat
                      /\ IsFiniteSet(AtLeast(w))
    OBVIOUS
  <2>1. AtLeast(w) \in SUBSET S
    OBVIOUS
  <2> HIDE DEF S
  <2> QED
    BY <1>1, <2>1, LevelSets, LevelsAddUp, FS_Subset
<1> HIDE DEF S
<1>9. IsFiniteSet(A) /\ IsFiniteSet(B) /\ Cardinality(A) \in Nat /\ Cardinality(B) \in Nat
  BY <1>1, <1>7, FS_Subset, FS_CardinalityType
<1>10. Cardinality(A) > left
  <2>1. Cardinality(UpTo(pool, S, low)) <= Cardinality(A)
    BY <1>4, <1>9, FS_Subset
  <2>2. Cardinality(UpTo(pool, S, low)) \in Nat
    BY <1>1, LevelSets
  <2>3. Cardinality(UpTo(pool, S, low)) >= left + 1
    BY <1>3 DEF IsKth
  <2> QED
    BY <1>2, <1>9, <2>1, <2>2, <2>3
<1> HIDE DEF AtLeast
<1>11. \A w \in Int : Cardinality(AtLeast(w)) \in Nat
  BY <1>8, FS_CardinalityType
<1>12. Cardinality(B) >= n - 1 - left
  <2>1. Cardinality(AtLeast(high)) <= Cardinality(B)
    BY <1>5, <1>9, FS_Subset
  <2>2. Cardinality(Under(pool, S, high)) < next
    BY <1>3 DEF IsKth
  <2> QED
    BY <1>1, <1>2, <1>8, <1>9, <1>11, <2>1, <2>2
<1>13. r = 0 => Cardinality(B) >= n - left
  <2>1. r = 0 => Cardinality(AtLeast(low)) <= Cardinality(B)
    BY <1>6, <1>9, FS_Subset
  <2>2. Cardinality(Under(pool, S, low)) < left + 1
    BY <1>3 DEF IsKth
  <2> QED
    BY <1>1, <1>2, <1>8, <1>9, <1>11, <2>1, <2>2
<1> QED
  BY <1>10, <1>12, <1>13 DEF PlacedIn, A, B, S, v, left, r, LeftOf, RestOf, Scaled
LEMMA QuantilesRise ==
  ASSUME NEW pool, IsPool(pool), NEW q \in Thousandths, NEW p \in Thousandths, q <= p
  PROVE  Quantile(pool, q) <= Quantile(pool, p)
<1> DEFINE n == Cardinality(DOMAIN pool)
<1>1. n \in Nat /\ n >= 1
  BY PoolSize
<1>2. Scaled(pool, q) <= Scaled(pool, p)
  <2>1. ASSUME NEW m \in Nat PROVE m * q <= m * p
    BY DEF Thousandths
  <2>2. n - 1 \in Nat
    BY <1>1
  <2> HIDE DEF n
  <2>3. (n - 1) * q <= (n - 1) * p
    BY <2>1, <2>2
  <2> QED
    BY <2>3 DEF Scaled, n
<1>3. Interpolates(pool, q) /\ Interpolates(pool, p)
  BY Interpolated
<1>4. /\ LeftOf(pool, q) \in Nat /\ LeftOf(pool, p) \in Nat
      /\ RestOf(pool, q) \in Nat /\ RestOf(pool, p) \in Nat
      /\ LeftOf(pool, q) <= LeftOf(pool, p)
      /\ LeftOf(pool, q) = LeftOf(pool, p) => RestOf(pool, q) <= RestOf(pool, p)
  <2> DEFINE a == LeftOf(pool, q)
             b == LeftOf(pool, p)
             r == RestOf(pool, q)
             t == RestOf(pool, p)
  <2>1. /\ a \in Nat /\ r \in 0..999 /\ Scaled(pool, q) = 1000 * a + r
        /\ b \in Nat /\ t \in 0..999 /\ Scaled(pool, p) = 1000 * b + t
    BY <1>3 DEF Interpolates
  <2> HIDE DEF a, b, r, t
  <2>2. 1000 * a + r <= 1000 * b + t
    BY <1>2, <2>1
  <2>3. a \in Nat /\ b \in Nat /\ r \in Nat /\ t \in Nat /\ a <= b /\ (a = b => r <= t)
    BY <2>1, <2>2
  <2> QED
    BY <2>3 DEF a, b, r, t
<1>5. CASE LeftOf(pool, q) < LeftOf(pool, p)
  <2>1. NextOf(pool, q) <= LeftOf(pool, p) + 1
    BY <1>1, <1>3, <1>5 DEF Interpolates
  <2>2. NextOf(pool, q) \in 1..n /\ LeftOf(pool, p) + 1 \in 1..n
    BY <1>3 DEF Interpolates
  <2>3. HighOf(pool, q) <= LowOf(pool, p)
    BY <2>1, <2>2, OrderStatisticsRise DEF HighOf, LowOf
  <2> HIDE DEF n
  <2> QED
    BY <1>3, <2>3 DEF Interpolates
<1>6. CASE LeftOf(pool, q) = LeftOf(pool, p)
  <2>1. LowOf(pool, q) = LowOf(pool, p) /\ HighOf(pool, q) = HighOf(pool, p)
    BY <1>6 DEF LowOf, HighOf, NextOf
  <2> DEFINE low == LowOf(pool, p)
             d == HighOf(pool, p) - LowOf(pool, p)
             r == RestOf(pool, q)
             t == RestOf(pool, p)
  <2>2. low \in Int /\ d \in Nat /\ r \in Nat /\ t \in Nat /\ r <= t
    <3>1. low \in Int /\ d \in Nat
      BY <1>3 DEF Interpolates
    <3>2. r \in Nat /\ t \in Nat /\ r <= t
      BY <1>6, <1>4
    <3> QED
      BY <3>1, <3>2
  <2>3. Quantile(pool, q) = 1000 * low + r * d /\ Quantile(pool, p) = 1000 * low + t * d
    BY <2>1, QuantileIs
  <2> HIDE DEF low, d, r, t
  <2>4. r * d <= t * d /\ r * d \in Int /\ t * d \in Int
    BY <2>2
  <2> DEFINE x == r * d
             y == t * d
  <2>5. x <= y /\ x \in Int /\ y \in Int
    BY <2>4
  <2>6. Quantile(pool, q) = 1000 * low + x /\ Quantile(pool, p) = 1000 * low + y
    BY <2>3
  <2> HIDE DEF x, y
  <2> QED
    BY <2>2, <2>5, <2>6
<1> QED
  BY <1>4, <1>5, <1>6

LEMMA QuantileBelowMax ==
  ASSUME NEW pool, IsPool(pool), NEW q \in Thousandths
  PROVE  Quantile(pool, q) <= 1000 * MaxOf(Values(pool))
<1> DEFINE S == DOMAIN pool
           V == {pool[x] : x \in S}
<1>1. IsFiniteSet(S) /\ S # {} /\ \A x \in S : pool[x] \in Int
  BY DEF IsPool
<1>2. V \subseteq Int /\ V # {}
  BY <1>1
<1>3. IsFiniteSet(V)
  <2> HIDE DEF S
  <2> QED
    BY <1>1, ImageFinite
<1>4. Values(pool) = V
  BY DEF Values
<1> HIDE DEF V
<1>5. MaxOf(V) \in Int /\ \A v \in V : MaxOf(V) >= v
  BY <1>2, <1>3, Extremes
<1>6. Interpolates(pool, q)
  BY Interpolated
<1>7. HighOf(pool, q) \in V
  <2>1. NextOf(pool, q) \in 1..Cardinality(DOMAIN pool)
    BY <1>6 DEF Interpolates
  <2> QED
    BY <1>4, <2>1, OrderStatistics DEF HighOf
<1>8. HighOf(pool, q) <= MaxOf(V)
  BY <1>2, <1>5, <1>7
<1> QED
  BY <1>4, <1>5, <1>6, <1>8 DEF Interpolates

\* A pool and the set of its samples, each with its value third.
Samples(pool, h, Z) ==
  /\ Z = {h[x] : x \in DOMAIN pool}
  /\ \A x \in DOMAIN pool : h[x][3] = pool[x]
  /\ \A x, y \in DOMAIN pool : h[x] = h[y] => x = y

LEMMA SamplesCounted ==
  ASSUME NEW pool, IsFiniteSet(DOMAIN pool), NEW h, NEW Z, Samples(pool, h, Z)
  PROVE  /\ Cardinality(Z) = Cardinality(DOMAIN pool)
         /\ \A v, q : PlacedIn(pool, v, q) => Placed(Z, v, q)
<1> SUFFICES ASSUME NEW v
             PROVE  /\ Cardinality(Z) = Cardinality(DOMAIN pool)
                    /\ \A q : PlacedIn(pool, v, q) => Placed(Z, v, q)
  OBVIOUS
<1> DEFINE S == DOMAIN pool
           A == {x \in S : 1000 * pool[x] <= v}
           B == {x \in S : 1000 * pool[x] >= v}
<1>1. /\ Z = {h[x] : x \in S} /\ \A x \in S : h[x][3] = pool[x]
      /\ \A x, y \in S : h[x] = h[y] => x = y
  BY DEF Samples
<1>2. /\ {z \in Z : 1000 * z[3] <= v} = {h[x] : x \in A}
      /\ {z \in Z : 1000 * z[3] >= v} = {h[x] : x \in B}
  BY <1>1
<1>3. A \in SUBSET S /\ B \in SUBSET S /\ S \in SUBSET S /\ IsFiniteSet(S)
  OBVIOUS
<1> HIDE DEF A, B, S
<1>4. ASSUME NEW I \in SUBSET S PROVE Cardinality({h[x] : x \in I}) = Cardinality(I)
  <2>1. IsFiniteSet(I) /\ \A x, y \in I : h[x] = h[y] => x = y
    BY <1>1, <1>3, FS_Subset
  <2> QED
    BY <2>1, ImageSize
<1>5. /\ Cardinality({h[x] : x \in A}) = Cardinality(A)
      /\ Cardinality({h[x] : x \in B}) = Cardinality(B)
      /\ Cardinality({h[x] : x \in S}) = Cardinality(S)
  BY <1>3, <1>4
<1>6. /\ Cardinality(Z) = Cardinality(S)
      /\ Cardinality({z \in Z : 1000 * z[3] <= v}) = Cardinality(A)
      /\ Cardinality({z \in Z : 1000 * z[3] >= v}) = Cardinality(B)
  BY <1>1, <1>2, <1>5
<1> HIDE DEF A, B, S
<1>7. ASSUME NEW q, PlacedIn(pool, v, q) PROVE Placed(Z, v, q)
  <2> DEFINE n == Cardinality(S)
             under == Cardinality(A)
             over == Cardinality(B)
  <2>1. /\ under > ((n - 1) * q) \div 1000
        /\ over >= n - 1 - (((n - 1) * q) \div 1000)
        /\ (n - 1) * q % 1000 = 0 => over >= n - (((n - 1) * q) \div 1000)
    BY <1>7 DEF PlacedIn, A, B, S
  <2>2. /\ Cardinality(Z) = n
        /\ Cardinality({z \in Z : 1000 * z[3] <= v}) = under
        /\ Cardinality({z \in Z : 1000 * z[3] >= v}) = over
    BY <1>6
  <2> HIDE DEF n, under, over
  <2> QED
    BY <2>1, <2>2 DEF Placed
<1> QED
  BY <1>6, <1>7 DEF S
-----------------------------------------------------------------------------
(* The tables of a document are over the raw samples.                      *)

LEMMA TableIsOver ==
  ASSUME NEW pool, IsPool(pool), NEW h, NEW Z, Samples(pool, h, Z)
  PROVE  TableOver(Z, Table(pool))
<1> DEFINE t == Table(pool)
           n == Cardinality(DOMAIN pool)
<1>1. IsFiniteSet(DOMAIN pool)
  BY DEF IsPool
<1>2. Cardinality(Z) = n
  BY <1>1, SamplesCounted
<1>3. ASSUME NEW q \in Thousandths
      PROVE  Placed(Z, Quantile(pool, q), q)
  BY <1>1, SamplesCounted, QuantilePlaced
<1> DEFINE q50 == 500
           q90 == 900
           q95 == 950
           q99 == 990
           q999 == 999
<1>4. /\ q50 \in Thousandths /\ q90 \in Thousandths /\ q95 \in Thousandths
      /\ q99 \in Thousandths /\ q999 \in Thousandths
      /\ q50 <= q90 /\ q90 <= q95 /\ q95 <= q99 /\ q99 <= q999
  BY DEF Thousandths
<1>5. /\ t.n = n /\ t.p50 = Quantile(pool, q50) /\ t.p90 = Quantile(pool, q90)
      /\ t.p95 = Quantile(pool, q95) /\ t.p99 = Quantile(pool, q99)
      /\ t.p999 = IF n >= P999MinSamples THEN Quantile(pool, q999) ELSE None
      /\ t.max = MaxOf(Values(pool))
  BY DEF Table
<1> HIDE DEF t, n, q50, q90, q95, q99, q999
<1>6. /\ Placed(Z, t.p50, q50) /\ Placed(Z, t.p90, q90)
      /\ Placed(Z, t.p95, q95) /\ Placed(Z, t.p99, q99)
      /\ Placed(Z, Quantile(pool, q999), q999)
  BY <1>3, <1>5, <1>4
<1>7. /\ t.p50 <= t.p90 /\ t.p90 <= t.p95 /\ t.p95 <= t.p99
      /\ t.p99 <= Quantile(pool, q999)
  BY <1>5, <1>4, QuantilesRise
<1>8. t.p99 <= 1000 * t.max
  BY <1>5, <1>4, QuantileBelowMax
<1>9. Quantile(pool, q999) # None
  <2>1. Interpolates(pool, q999)
    BY <1>4, Interpolated
  <2>2. Quantile(pool, q999) \in Int
    BY <2>1 DEF Interpolates
  <2> QED
    BY <2>2, NoneAssumption DEF NoneAssumption
<1>10. (t.p999 # None) <=> (t.n >= P999MinSamples)
  BY <1>5, <1>9
<1>11. t.p999 # None => t.p999 = Quantile(pool, q999)
  BY <1>5
<1>12. t.p999 # None => Placed(Z, t.p999, q999) /\ t.p99 <= t.p999
  BY <1>6, <1>7, <1>11
<1>13. t.n = Cardinality(Z)
  BY <1>2, <1>5
<1> QED
  BY <1>6, <1>7, <1>8, <1>10, <1>12, <1>13 DEF TableOver, t, q50, q90, q95, q99, q999

\* A pool of result.py and the raw samples of its signal.
TimeToFirst(rs) == {y \in Kept(rs) : EventAt(rs, y).ttft # None}
Succeeded(rs) == {y \in Kept(rs) : EventAt(rs, y).status = "ok"}
Streams(rs) == {y \in Kept(rs) : EventAt(rs, y).itl # None}

LEMMA EventTypes ==
  ASSUME NEW rs \in Seq(Loadable)
  PROVE  /\ IsFiniteSet(Kept(rs))
         /\ \A x \in Kept(rs) :
              /\ PoolOf(rs)[x] = EventAt(rs, x)
              /\ EventAt(rs, x).ttft # None => EventAt(rs, x).ttft \in Int
              /\ E2E(EventAt(rs, x)) \in Int
              /\ EventAt(rs, x).itl # None =>
                   /\ EventAt(rs, x).itl.max_stall \in Int
                   /\ EventAt(rs, x).itl.series \in Seq(Int)
<1>1. DOMAIN PoolOf(rs) = Kept(rs) /\ \A x \in Kept(rs) : PoolOf(rs)[x] = EventAt(rs, x)
  BY PoolFacts
<1>2. IsFiniteSet(Kept(rs)) /\ \A x \in Kept(rs) : WellFormed(EventAt(rs, x))
  BY <1>1, PoolTyped
<1> QED
  BY <1>1, <1>2 DEF WellFormed, E2E

LEMMA TtftSampled ==
  ASSUME NEW rs \in Seq(Loadable)
  PROVE  LET pool == TtftPool(PoolOf(rs))
         IN  /\ IsFiniteSet(DOMAIN pool) /\ \A x \in DOMAIN pool : pool[x] \in Int
             /\ \E h : Samples(pool, h, RawSamples(rs).ttft_seconds)
<1> DEFINE pool == TtftPool(PoolOf(rs))
           h == [x \in TimeToFirst(rs) |-> <<x, 0, EventAt(rs, x).ttft>>]
<1>1. /\ DOMAIN pool = TimeToFirst(rs)
      /\ \A x \in TimeToFirst(rs) : x \in Kept(rs) /\ pool[x] = EventAt(rs, x).ttft
      /\ IsFiniteSet(TimeToFirst(rs))
  <2>1. DOMAIN PoolOf(rs) = Kept(rs) /\ \A x \in Kept(rs) : PoolOf(rs)[x] = EventAt(rs, x)
    BY PoolFacts
  <2>2. TimeToFirst(rs) = {y \in DOMAIN PoolOf(rs) : PoolOf(rs)[y].ttft # None}
    BY <2>1 DEF TimeToFirst
  <2>3. TimeToFirst(rs) \in SUBSET Kept(rs)
    BY DEF TimeToFirst
  <2> QED
    BY <2>1, <2>2, <2>3, EventTypes, FS_Subset DEF TtftPool
<1>2. \A x \in TimeToFirst(rs) : pool[x] \in Int
  BY <1>1, EventTypes DEF TimeToFirst
<1>3. RawSamples(rs).ttft_seconds = {h[x] : x \in TimeToFirst(rs)}
  BY DEF RawSamples, TimeToFirst
<1> HIDE DEF pool
<1>4. Samples(pool, h, RawSamples(rs).ttft_seconds)
  BY <1>1, <1>3 DEF Samples
<1> QED
  BY <1>1, <1>2, <1>4 DEF pool
LEMMA E2ESampled ==
  ASSUME NEW rs \in Seq(Loadable)
  PROVE  LET pool == E2EPool(PoolOf(rs))
         IN  /\ IsFiniteSet(DOMAIN pool) /\ \A x \in DOMAIN pool : pool[x] \in Int
             /\ \E h : Samples(pool, h, RawSamples(rs).e2e_duration_seconds)
<1> DEFINE pool == E2EPool(PoolOf(rs))
           h == [x \in Succeeded(rs) |->
                   <<x, 0, EventAt(rs, x).end_ts - EventAt(rs, x).scheduled_send_ts>>]
<1>1. /\ DOMAIN pool = Succeeded(rs)
      /\ \A x \in Succeeded(rs) : x \in Kept(rs) /\ pool[x] = E2E(EventAt(rs, x))
      /\ IsFiniteSet(Succeeded(rs))
  <2>1. DOMAIN PoolOf(rs) = Kept(rs) /\ \A x \in Kept(rs) : PoolOf(rs)[x] = EventAt(rs, x)
    BY PoolFacts
  <2>2. Succeeded(rs) = WithStatus(PoolOf(rs), "ok")
    BY <2>1 DEF Succeeded, WithStatus
  <2>3. Succeeded(rs) \in SUBSET Kept(rs)
    BY DEF Succeeded
  <2> QED
    BY <2>1, <2>2, <2>3, EventTypes, FS_Subset DEF E2EPool
<1>2. \A x \in Succeeded(rs) : pool[x] \in Int
  BY <1>1, EventTypes
<1>3. RawSamples(rs).e2e_duration_seconds = {h[x] : x \in Succeeded(rs)}
  BY DEF RawSamples, Succeeded
<1> HIDE DEF pool
<1>4. Samples(pool, h, RawSamples(rs).e2e_duration_seconds)
  BY <1>1, <1>3 DEF Samples, E2E
<1> QED
  BY <1>1, <1>2, <1>4 DEF pool

LEMMA StallsSampled ==
  ASSUME NEW rs \in Seq(Loadable)
  PROVE  LET pool == StallPool(PoolOf(rs))
         IN  /\ IsFiniteSet(DOMAIN pool) /\ \A x \in DOMAIN pool : pool[x] \in Int
             /\ \E h : Samples(pool, h, RawSamples(rs).max_stall_seconds)
<1> DEFINE pool == StallPool(PoolOf(rs))
           h == [x \in Streams(rs) |-> <<x, 0, EventAt(rs, x).itl.max_stall>>]
<1>1. /\ DOMAIN pool = Streams(rs)
      /\ \A x \in Streams(rs) : x \in Kept(rs) /\ pool[x] = EventAt(rs, x).itl.max_stall
      /\ IsFiniteSet(Streams(rs))
  <2>1. DOMAIN PoolOf(rs) = Kept(rs) /\ \A x \in Kept(rs) : PoolOf(rs)[x] = EventAt(rs, x)
    BY PoolFacts
  <2>2. Streams(rs) = Streaming(PoolOf(rs))
    BY <2>1 DEF Streams, Streaming
  <2>3. Streams(rs) \in SUBSET Kept(rs)
    BY DEF Streams
  <2> QED
    BY <2>1, <2>2, <2>3, EventTypes, FS_Subset DEF StallPool
<1>2. \A x \in Streams(rs) : pool[x] \in Int
  BY <1>1, EventTypes DEF Streams
<1>3. RawSamples(rs).max_stall_seconds = {h[x] : x \in Streams(rs)}
  BY DEF RawSamples, Streams
<1> HIDE DEF pool
<1>4. Samples(pool, h, RawSamples(rs).max_stall_seconds)
  BY <1>1, <1>3 DEF Samples
<1> QED
  BY <1>1, <1>2, <1>4 DEF pool

\* The gaps of a stream are named by the event and the number of the gap.
Gaps(rs) == UNION {{x} \X DOMAIN EventAt(rs, x).itl.series : x \in Streams(rs)}

LEMMA GapsFinite ==
  ASSUME NEW rs \in Seq(Loadable)
  PROVE  /\ IsFiniteSet(Gaps(rs))
         /\ \A y \in Gaps(rs) : /\ y = <<y[1], y[2]>> /\ y[1] \in Streams(rs)
                                /\ y[2] \in DOMAIN EventAt(rs, y[1]).itl.series
                                /\ EventAt(rs, y[1]).itl.series[y[2]] \in Int
         /\ \A x \in Streams(rs) : \A i \in DOMAIN EventAt(rs, x).itl.series :
              <<x, i>> \in Gaps(rs)
<1> DEFINE series(x) == EventAt(rs, x).itl.series
           of == [x \in Streams(rs) |-> {x} \X DOMAIN series(x)]
           G == {of[x] : x \in Streams(rs)}
<1>1. IsFiniteSet(Streams(rs)) /\ \A x \in Streams(rs) : series(x) \in Seq(Int)
  <2>1. Streams(rs) \in SUBSET Kept(rs)
    BY DEF Streams
  <2> QED
    BY <2>1, EventTypes, FS_Subset DEF Streams
<1>2. \A x \in Streams(rs) : /\ DOMAIN series(x) = 1..Len(series(x))
                             /\ Len(series(x)) \in Nat
                             /\ \A i \in DOMAIN series(x) : series(x)[i] \in Int
  BY <1>1, LenProperties, ElementOfSeq
<1>3. ASSUME NEW x \in Streams(rs) PROVE IsFiniteSet(of[x])
  <2> DEFINE D == DOMAIN series(x)
  <2>1. IsFiniteSet(D)
    <3>1. ASSUME NEW m \in Nat PROVE IsFiniteSet(1..m)
      BY FS_Interval
    <3> QED
      BY <1>2, <3>1
  <2>2. IsFiniteSet({x})
    BY FS_Singleton
  <2>3. of[x] = {x} \X D
    OBVIOUS
  <2> HIDE DEF D, of
  <2> QED
    BY <2>1, <2>2, <2>3, FS_Product
<1>4. IsFiniteSet(G) /\ \A g \in G : IsFiniteSet(g)
  <2>1. IsFiniteSet(G)
    <3> HIDE DEF of
    <3> QED
      BY <1>1, ImageFinite
  <2> QED
    BY <1>3, <2>1
<1>5. IsFiniteSet(UNION G)
  <2> HIDE DEF G
  <2> QED
    BY <1>4, FS_UNION
<1>6. Gaps(rs) = UNION G
  BY DEF Gaps
<1>7. \A y : y \in Gaps(rs) <=> \E x \in Streams(rs) : y \in {x} \X DOMAIN series(x)
  BY DEF Gaps
<1> QED
  BY <1>2, <1>5, <1>6, <1>7

LEMMA GapsSampled ==
  ASSUME NEW rs \in Seq(Loadable)
  PROVE  LET pool == ItlPool(PoolOf(rs))
         IN  /\ IsFiniteSet(DOMAIN pool) /\ \A x \in DOMAIN pool : pool[x] \in Int
             /\ \E h : Samples(pool, h, RawSamples(rs).itl_seconds)
<1> DEFINE pool == ItlPool(PoolOf(rs))
           series(x) == EventAt(rs, x).itl.series
           h == [y \in Gaps(rs) |-> <<y[1], y[2], series(y[1])[y[2]]>>]
<1>1. DOMAIN PoolOf(rs) = Kept(rs) /\ \A x \in Kept(rs) : PoolOf(rs)[x] = EventAt(rs, x)
  BY PoolFacts
<1>2. /\ WithSeries(PoolOf(rs)) = {x \in Streams(rs) : series(x) # <<>>}
      /\ \A x \in Streams(rs) : PoolOf(rs)[x] = EventAt(rs, x) /\ x \in DOMAIN PoolOf(rs)
  BY <1>1 DEF WithSeries, Streams
<1>3. DOMAIN pool = Gaps(rs) /\ \A y \in Gaps(rs) : pool[y] = series(y[1])[y[2]]
  <2>1. DOMAIN pool = UNION {{x} \X DOMAIN PoolOf(rs)[x].itl.series : x \in WithSeries(PoolOf(rs))}
    BY DEF ItlPool
  <2>2. \A y : y \in DOMAIN pool <=>
                 \E x \in WithSeries(PoolOf(rs)) : y \in {x} \X DOMAIN PoolOf(rs)[x].itl.series
    BY <2>1
  <2>3. \A y : y \in Gaps(rs) <=> \E x \in Streams(rs) : y \in {x} \X DOMAIN series(x)
    BY DEF Gaps
  <2>4. \A x \in Streams(rs) : series(x) = <<>> => DOMAIN series(x) = {}
    OBVIOUS
  <2>5. DOMAIN pool = Gaps(rs)
    <3>1. ASSUME NEW y \in DOMAIN pool PROVE y \in Gaps(rs)
      BY <1>2, <2>2, <2>3
    <3>2. ASSUME NEW y \in Gaps(rs) PROVE y \in DOMAIN pool
      BY <1>2, <2>2, <2>3, <2>4
    <3> QED
      BY <3>1, <3>2
  <2>6. \A y \in DOMAIN pool : pool[y] = PoolOf(rs)[y[1]].itl.series[y[2]]
    BY DEF ItlPool
  <2>7. \A y \in Gaps(rs) : PoolOf(rs)[y[1]] = EventAt(rs, y[1])
    BY <1>2, GapsFinite
  <2> HIDE DEF pool
  <2> QED
    BY <2>5, <2>6, <2>7
<1>4. IsFiniteSet(Gaps(rs)) /\ \A y \in Gaps(rs) : pool[y] \in Int
  BY <1>3, GapsFinite
<1>5. RawSamples(rs).itl_seconds = {h[y] : y \in Gaps(rs)}
  <2> DEFINE R == UNION {{<<x, i, series(x)[i]>> : i \in DOMAIN series(x)} : x \in Streams(rs)}
  <2>1. RawSamples(rs).itl_seconds = R
    BY DEF RawSamples, Streams
  <2>2. \A z : z \in R <=> \E x \in Streams(rs) : \E i \in DOMAIN series(x) :
                             z = <<x, i, series(x)[i]>>
    OBVIOUS
  <2> HIDE DEF R
  <2>3. ASSUME NEW z \in R PROVE \E y \in Gaps(rs) : z = h[y]
    <3>1. PICK x \in Streams(rs) : \E i \in DOMAIN series(x) : z = <<x, i, series(x)[i]>>
      BY <2>2
    <3>2. PICK i \in DOMAIN series(x) : z = <<x, i, series(x)[i]>>
      BY <3>1
    <3>3. <<x, i>> \in Gaps(rs)
      BY GapsFinite
    <3>4. h[<<x, i>>] = <<x, i, series(x)[i]>>
      BY <3>3
    <3> QED
      BY <3>2, <3>3, <3>4
  <2>4. ASSUME NEW y \in Gaps(rs) PROVE h[y] \in R
    <3>1. y[1] \in Streams(rs) /\ y[2] \in DOMAIN series(y[1])
      BY GapsFinite
    <3> QED
      BY <2>2, <3>1
  <2> HIDE DEF h
  <2> QED
    BY <2>1, <2>3, <2>4
<1> HIDE DEF pool
<1>6. Samples(pool, h, RawSamples(rs).itl_seconds)
  <2>1. \A x, y \in Gaps(rs) : h[x] = h[y] => x = y
    <3> SUFFICES ASSUME NEW x \in Gaps(rs), NEW y \in Gaps(rs), h[x] = h[y] PROVE x = y
      OBVIOUS
    <3>1. x[1] = y[1] /\ x[2] = y[2]
      OBVIOUS
    <3>2. x = <<x[1], x[2]>> /\ y = <<y[1], y[2]>>
      BY GapsFinite
    <3> QED
      BY <3>1, <3>2
  <2>2. \A y \in Gaps(rs) : h[y][3] = pool[y]
    BY <1>3
  <2> HIDE DEF h
  <2> QED
    BY <1>3, <1>5, <2>1, <2>2 DEF Samples
<1> HIDE DEF h
<1> QED
  BY <1>3, <1>4, <1>6 DEF pool

LEMMA SignalSampled ==
  ASSUME NEW rs \in Seq(Loadable), NEW s \in DOMAIN Pools(PoolOf(rs))
  PROVE  LET pool == Pools(PoolOf(rs))[s]
         IN  /\ IsFiniteSet(DOMAIN pool) /\ \A x \in DOMAIN pool : pool[x] \in Int
             /\ \E h : Samples(pool, h, RawSamples(rs)[s])
<1> DEFINE p == PoolOf(rs)
<1>1. s \in {"ttft_seconds", "e2e_duration_seconds", "itl_seconds", "max_stall_seconds"}
  BY DEF Pools
<1>2. CASE s = "ttft_seconds"
  <2>1. Pools(p)[s] = TtftPool(p) /\ RawSamples(rs)[s] = RawSamples(rs).ttft_seconds
    BY <1>2 DEF Pools
  <2> QED
    BY <2>1, TtftSampled
<1>3. CASE s = "e2e_duration_seconds"
  <2>1. Pools(p)[s] = E2EPool(p) /\ RawSamples(rs)[s] = RawSamples(rs).e2e_duration_seconds
    BY <1>3 DEF Pools
  <2> QED
    BY <2>1, E2ESampled
<1>4. CASE s = "itl_seconds"
  <2>1. Pools(p)[s] = ItlPool(p) /\ RawSamples(rs)[s] = RawSamples(rs).itl_seconds
    BY <1>4 DEF Pools
  <2> QED
    BY <2>1, GapsSampled
<1>5. CASE s = "max_stall_seconds"
  <2>1. Pools(p)[s] = StallPool(p) /\ RawSamples(rs)[s] = RawSamples(rs).max_stall_seconds
    BY <1>5 DEF Pools
  <2> QED
    BY <2>1, StallsSampled
<1> QED
  BY <1>1, <1>2, <1>3, <1>4, <1>5

\* The tables of a document are those of its pools.
LEMMA TablesBehind ==
  ASSUME LineageInv, Published
  PROVE  LET pool == PoolOf(result.runs)
         IN  result.document.tables = [s \in Tabled(pool) |-> Table(Pools(pool)[s])]
<1> DEFINE rs == result.runs
           c == result.config
           analysis == Analyze(rs, c).value
<1>1. /\ Analysed(rs, c, analysis) /\ ToDocument(analysis).error = "none"
      /\ result.document = ToDocument(analysis).value
  BY DEF LineageInv
<1>2. Analyze(rs, c).error = "none"
  BY <1>1 DEF Analysed
<1>3. analysis.latency = LatencyOf(PoolOf(rs), c)
  BY <1>2, AnalysisParts
<1> HIDE DEF analysis
<1>4. LatencyOf(PoolOf(rs), c).kind = "tables"
  BY <1>1, <1>3, DocumentParts
<1>5. result.document.tables = LatencyOf(PoolOf(rs), c).tables
  BY <1>1, <1>3, DocumentParts
<1>6. Withholding(PoolOf(rs), c) = "none"
  BY <1>4, TablesMeanNotWithheld
<1> QED
  BY <1>5, <1>6 DEF LatencyOf

LEMMA TablesCoverSamples ==
  ASSUME LineageInv, Published
  PROVE  LET samples == RawSamples(result.runs)
             tables == result.document.tables
         IN  /\ DOMAIN tables = {s \in DOMAIN samples : samples[s] # {}}
             /\ \A s \in DOMAIN tables : TableOver(samples[s], tables[s])
<1> DEFINE rs == result.runs
           tables == result.document.tables
           samples == RawSamples(rs)
           P == Pools(PoolOf(rs))
<1>1. rs \in Seq(Loadable)
  BY Behind
<1>2. tables = [s \in {t \in DOMAIN P : DOMAIN P[t] # {}} |-> Table(P[s])]
  BY TablesBehind DEF Tabled
<1>3. DOMAIN samples = DOMAIN P
  BY DEF RawSamples, Pools
<1> HIDE DEF samples, rs, tables
<1>4. \A s \in DOMAIN P : /\ IsFiniteSet(DOMAIN P[s]) /\ \A x \in DOMAIN P[s] : P[s][x] \in Int
                          /\ \E h : Samples(P[s], h, samples[s])
  BY <1>1, SignalSampled DEF samples
<1> HIDE DEF P
<1>5. ASSUME NEW s \in DOMAIN P
      PROVE  samples[s] = {} <=> DOMAIN P[s] = {}
  <2>1. PICK h : Samples(P[s], h, samples[s])
    BY <1>4
  <2>2. samples[s] = {h[x] : x \in DOMAIN P[s]}
    BY <2>1 DEF Samples
  <2> QED
    BY <2>2
<1>6. DOMAIN tables = {s \in DOMAIN samples : samples[s] # {}}
  BY <1>2, <1>3, <1>5
<1>7. ASSUME NEW s \in DOMAIN tables
      PROVE  TableOver(samples[s], tables[s])
  <2>1. s \in DOMAIN P /\ DOMAIN P[s] # {} /\ tables[s] = Table(P[s])
    BY <1>2
  <2>2. IsPool(P[s])
    BY <1>4, <2>1 DEF IsPool
  <2>3. PICK h : Samples(P[s], h, samples[s])
    BY <1>4, <2>1
  <2> QED
    BY <2>1, <2>2, <2>3, TableIsOver
<1> QED
  BY <1>6, <1>7 DEF rs, tables, samples

LEMMA LineageTables == LineageInv => TablesOverRawSamples
BY TablesCoverSamples DEF TablesOverRawSamples

\* Every table of a published document is over all the raw samples of its
\* signal in all the repetitions kept, each percentile lies where they put
\* it, the percentiles rise up to the maximum, and p999 is there exactly when
\* there are samples enough (result.py:316-337, percentiles.py:90-132).
THEOREM TablesAreOverRawSamples == Spec => []TablesOverRawSamples
BY LineageInvariant, LineageTables, PTL

-----------------------------------------------------------------------------
(* A report from a file agrees with one from the runs behind it.           *)

\* A file that holds the document of an analysis that was not refused.
Backed(file) ==
  LET analysis == Analyze(file.runs, file.config).value
  IN  /\ Analysed(file.runs, file.config, analysis)
      /\ ToDocument(analysis).error = "none"
      /\ file.document = ToDocument(analysis).value

CommandLines == UNION {Commands[n] : n \in 1..MaxCommands}

\* What a report shows is what the document behind it says, with the threats
\* and anomalies of a command line.
ShowsFile(shown, document, found, c) ==
  LET model == FromDocument(document, found, c.config.threats, c.config.anomalies)
  IN  /\ model.error = "none"
      /\ Render(model.value).error = "none"
      /\ shown = Render(model.value).value

ReportsInv ==
  /\ pc = "load" => ~cmd.from_file
  /\ pc = "entries" /\ cmd.from_file => Backed(data)
  /\ report # None /\ report.shown.source = "file" =>
       /\ Backed(report.of)
       /\ \E c \in CommandLines : ShowsFile(report.shown, report.of.document, report.entries, c)

LEMMA ReportsInit == Init => ReportsInv
BY DEF Init, ReportsInv

\* A report that comes from a file was made from one.
LEMMA FileReport ==
  ASSUME NEW r, NEW found,
         Render(FromAnalysis(r, found)).error = "none"
  PROVE  Render(FromAnalysis(r, found)).value.source # "file"
<1> DEFINE m == FromAnalysis(r, found)
<1>1. m.source \in {"analysis", "analysis-withheld"}
  BY DEF FromAnalysis
<1> HIDE DEF m
<1>2. Render(m).value.source = m.source
  BY DEF Render, Refuse, Ok, m
<1> QED
  BY <1>1, <1>2 DEF m

LEMMA ReportsStep == ControlInv /\ LineageInv /\ ReportsInv /\ [Next]_vars => ReportsInv'
<1> SUFFICES ASSUME ControlInv, LineageInv, ReportsInv, [Next]_vars PROVE ReportsInv'
  OBVIOUS
<1>1. ASSUME UNCHANGED report,
             pc' = "load" => ~cmd'.from_file,
             pc' = "entries" /\ cmd'.from_file => Backed(data)'
      PROVE  ReportsInv'
  <2>1. Backed(report.of)' <=> Backed(report.of)
    BY <1>1 DEF Backed, Analysed
  <2>2. \A c : ShowsFile(report.shown, report.of.document, report.entries, c)'
                 <=> ShowsFile(report.shown, report.of.document, report.entries, c)
    BY <1>1 DEF ShowsFile
  <2> QED
    BY <1>1, <2>1, <2>2 DEF ReportsInv
<1>2. ASSUME UNCHANGED <<report, cmd, data>>, pc' \in {"load", "entries"} => pc' = pc
      PROVE  ReportsInv'
  <2>1. Backed(data)' <=> Backed(data)
    BY <1>2 DEF Backed, Analysed
  <2> QED
    BY <1>1, <1>2, <2>1 DEF ReportsInv
<1>3. CASE Start
  <2>1. UNCHANGED report /\ pc' # "entries"
    BY <1>3 DEF Start
  <2>2. pc' = "load" => ~cmd'.from_file
    BY <1>3 DEF Start
  <2> QED
    BY <1>1, <2>1, <2>2
<1>4. CASE Load \/ Serialize \/ Write \/ Announce \/ ReadEntry \/ Kill \/ Reuse
  <2>1. UNCHANGED <<report, cmd, data>> /\ (pc' \in {"load", "entries"} => pc' = pc)
    BY <1>4 DEF Load, Serialize, Write, Announce, ReadEntry, Kill, Reuse, Finish, Proceed
  <2> QED
    BY <1>2, <2>1
<1>5. CASE Analyse
  <2>1. UNCHANGED <<report, cmd>> /\ pc = "load" /\ ~cmd.from_file
    BY <1>5 DEF Analyse, ReportsInv
  <2> QED
    BY <1>1, <2>1
<1>6. CASE Open
  <2>1. UNCHANGED <<report, cmd>> /\ pc' # "load"
    BY <1>6 DEF Open, Finish, Proceed
  <2>2. pc' = "entries" => result.state \notin {"absent", "torn"} /\ data' = result
    BY <1>6 DEF Open, Finish, Proceed
  <2>3. pc' = "entries" => Published /\ data' = result
    BY <2>2 DEF ControlInv, TypeOK, Published
  <2>4. Published => Backed(result)
    BY DEF LineageInv, Backed
  <2>5. data' = result => (Backed(data)' <=> Backed(result))
    BY DEF Backed, Analysed
  <2> QED
    BY <1>1, <2>1, <2>3, <2>4, <2>5
<1>7. CASE RenderReport
  <2>1. UNCHANGED <<cmd, data>> /\ pc' = "idle" /\ pc = "entries"
    BY <1>7 DEF RenderReport, Finish
  <2>2. CASE UNCHANGED report
    BY <1>2, <2>1, <2>2
  <2>3. CASE report' # report
    <3> DEFINE model == ModelOf
               rendered == IF model.error # "none" THEN model ELSE Render(model.value)
    <3>1. rendered.error = "none" /\ report' = [shown |-> rendered.value, of |-> data, entries |-> entries]
      BY <1>7, <2>3 DEF RenderReport
    <3> HIDE DEF model
    <3>2. /\ model.error = "none" /\ Render(model.value).error = "none"
          /\ report'.shown = Render(model.value).value
          /\ report'.of = data /\ report'.entries = entries
      BY <3>1
    <3>3. CASE cmd.from_file
      <4>1. Backed(data)
        BY <2>1, <3>3 DEF ReportsInv
      <4>2. cmd \in CommandLines
        BY <2>1, CommandAssumption DEF ControlInv, TypeOK, CommandAssumption, CommandLines
      <4>3. model = FromDocument(data.document, entries, cmd.config.threats, cmd.config.anomalies)
        BY <3>3 DEF model, ModelOf
      <4>4. ShowsFile(report'.shown, data.document, entries, cmd)
        BY <3>2, <4>3 DEF ShowsFile
      <4>5. Backed(report.of)' <=> Backed(data)
        BY <3>2 DEF Backed, Analysed
      <4>6. ShowsFile(report.shown, report.of.document, report.entries, cmd)'
              <=> ShowsFile(report'.shown, data.document, entries, cmd)
        BY <2>1, <3>2 DEF ShowsFile
      <4>7. (\E c \in CommandLines : ShowsFile(report.shown, report.of.document, report.entries, c))'
        BY <2>1, <4>2, <4>4, <4>6
      <4> QED
        BY <2>1, <4>1, <4>5, <4>7 DEF ReportsInv
    <3>4. CASE ~cmd.from_file
      <4>1. model = Ok(FromAnalysis(data, entries))
        BY <3>4 DEF model, ModelOf
      <4>2. model.value = FromAnalysis(data, entries)
        BY <4>1 DEF Ok
      <4>3. report'.shown.source # "file"
        BY <3>2, <4>2, FileReport
      <4> QED
        BY <2>1, <4>3 DEF ReportsInv
    <3> QED
      BY <3>3, <3>4
  <2> QED
    BY <2>2, <2>3
<1>8. CASE UNCHANGED vars
  BY <1>2, <1>8 DEF vars
<1> QED
  BY <1>3, <1>4, <1>5, <1>6, <1>7, <1>8 DEF Next

\* A report to be rendered from a file, and one that was, stand on a file that
\* holds the document of an analysis.
THEOREM ReportsInvariant == Spec => []ReportsInv
BY ControlInvariant, LineageInvariant, ReportsInit, ReportsStep, PTL DEF Spec

\* What the sections of a rendered report say.
LEMMA Sections ==
  ASSUME NEW m, Reportable(m)
  PROVE  LET shown == Render(m).value
         IN  /\ shown.throughput.figures = m.throughput /\ shown.throughput.pooled = m.pooled
             /\ m.withheld = None => shown.latency.tables = m.tables
             /\ shown.goodput.figures = [g \in DOMAIN m.goodput \ {"counts"} |-> m.goodput[g]]
             /\ shown.validity.handling = m.handling
             /\ shown.cost = IF m.cost = None THEN [kind |-> "null", why |-> m.cost_null_reason]
                             ELSE [kind |-> "cost", cost |-> m.cost]
<1> DEFINE shown == Render(m).value
<1>1. /\ shown.throughput = ThroughputSection(m) /\ shown.latency = LatencySection(m)
      /\ shown.goodput = GoodputSection(m) /\ shown.validity = ValiditySection(m)
      /\ shown.cost = CostSection(m)
  BY DEF Render, Ok
<1>2. m.withheld = None => LatencySection(m).tables = m.tables
  BY DEF LatencySection
<1>3. GoodputSection(m).figures = [g \in DOMAIN m.goodput \ {"counts"} |-> m.goodput[g]]
  BY DEF GoodputSection
<1>4. ValiditySection(m).handling = m.handling
  BY DEF ValiditySection
<1> HIDE DEF shown
<1> QED
  BY <1>1, <1>2, <1>3, <1>4 DEF shown, ThroughputSection, CostSection

LEMMA RenderedIsReportable ==
  ASSUME NEW m, Render(m).error = "none"
  PROVE  Reportable(m)
BY DEF Render, Refuse

\* The reason given for a null cost, when the code named it and no author's
\* threat spoke of cost before.
LEMMA ReasonIsTheCodes ==
  ASSUME NEW S, NEW own \in Seq(S), NEW more \in Seq(S),
         "cost" \in Values(own), "author-cost" \notin Values(own)
  PROVE  CostNullReason(own \o more) = "cost"
<1> DEFINE all == own \o more
           matching == {i \in DOMAIN all : all[i] \in {"author-cost", "cost"}}
<1>1. /\ Len(own) \in Nat /\ Len(more) \in Nat /\ Len(all) = Len(own) + Len(more)
      /\ DOMAIN own = 1..Len(own) /\ DOMAIN all = 1..Len(all)
      /\ \A i \in 1..Len(own) : all[i] = own[i]
  BY ConcatProperties, LenProperties
<1>2. PICK k \in DOMAIN own : own[k] = "cost"
  BY DEF Values
<1> HIDE DEF all
<1>3. k \in matching /\ matching \subseteq Nat
  BY <1>1, <1>2
<1>4. MinOf(matching) \in matching /\ MinOf(matching) <= k
  BY <1>3, LeastElement
<1>5. MinOf(matching) \in DOMAIN own /\ MinOf(matching) \in 1..Len(own)
  BY <1>1, <1>2, <1>3, <1>4
<1>6. all[MinOf(matching)] \in {"author-cost", "cost"} /\ all[MinOf(matching)] = own[MinOf(matching)]
  BY <1>1, <1>4, <1>5
<1>7. own[MinOf(matching)] # "author-cost"
  BY <1>5 DEF Values
<1>8. CostNullReason(all) = IF matching = {} THEN "validity-gap" ELSE all[MinOf(matching)]
  BY DEF CostNullReason
<1> HIDE DEF matching
<1> QED
  BY <1>3, <1>6, <1>7, <1>8 DEF all

\* What the two builders make of an analysis: of its document, and directly.
LEMMA FromTheFile ==
  ASSUME NEW document, NEW found, NEW T, NEW A,
         FromDocument(document, found, T, A).error = "none"
  PROVE  LET m == FromDocument(document, found, T, A).value
         IN  /\ m.manifests = found /\ m.run_count = document.run_count
             /\ m.refs = document.links /\ m.withheld = None
             /\ m.throughput = document.throughput /\ m.pooled = document.pooled
             /\ m.tables = document.tables /\ m.goodput = document.goodput
             /\ m.handling = document.handling /\ m.cost = document.cost
             /\ m.cost = None => m.cost_null_reason = CostNullReason(document.threats \o T)
BY DEF FromDocument, Refuse, Ok

LEMMA FromTheAnalysis ==
  ASSUME NEW r, NEW found, r.latency.kind = "tables"
  PROVE  LET m == FromAnalysis(r, found)
         IN  /\ m.manifests = found /\ m.run_count = r.run_count
             /\ m.refs = r.manifest_refs /\ m.withheld = None /\ m.checks = "analysis"
             /\ m.throughput = r.throughput /\ m.pooled = r.pooled
             /\ m.tables = r.latency.tables /\ m.goodput = r.goodput
             /\ m.handling = HandlingStatement(r.warmup)
             /\ m.cost = IF r.cost.available THEN r.cost ELSE None
             /\ ~r.cost.available => m.cost_null_reason = "cost"
BY DEF FromAnalysis

LEMMA DocumentOf ==
  ASSUME NEW r, ToDocument(r).error = "none"
  PROVE  LET d == ToDocument(r).value
         IN  /\ r.latency.kind = "tables"
             /\ d.links = r.manifest_refs /\ d.run_count = r.run_count
             /\ d.throughput = r.throughput /\ d.pooled = r.pooled
             /\ d.tables = r.latency.tables
             /\ d.goodput = [g \in DOMAIN r.goodput \ {"counts"} |-> r.goodput[g]]
             /\ d.handling = HandlingStatement(r.warmup)
             /\ d.threats = r.threats
             /\ d.cost = IF ~r.cost.available THEN None
                         ELSE [k \in DOMAIN r.cost \ {"available", "provenance"} |-> r.cost[k]]
BY DEF ToDocument, Refuse, Ok

\* What is known of the cost of an analysis and of the threats beside it.
LEMMA CostOfAnalysis ==
  ASSUME NEW rs \in Seq(Loadable), NEW c, WellConfigured(c), Analyze(rs, c).error = "none"
  PROVE  LET r == Analyze(rs, c).value
         IN  /\ r.cost.available \in BOOLEAN
             /\ r.cost.available =>
                  /\ r.cost # None
                  /\ [k \in DOMAIN r.cost \ {"available", "provenance"} |-> r.cost[k]] # None
             /\ r.threats \in Seq(STRING \cup OwnThreats)
             /\ ~r.cost.available => "cost" \in Values(r.threats)
             /\ "author-cost" \in Values(r.threats) => "author-cost" \in Values(c.threats)
<1> DEFINE goodput == GoodputOfRuns(rs, c).value
           cost == CostOfRuns(rs, c).value
           warmup == WarmupReport(rs)
           r == Analyze(rs, c).value
<1>1. r = Assemble(rs, c, PoolOf(rs), warmup, goodput, cost) /\ CostOfRuns(rs, c).error = "none"
  BY AnalysisAssembled
<1>2. /\ cost.available \in BOOLEAN
      /\ cost.available =>
           /\ cost # None
           /\ [k \in DOMAIN cost \ {"available", "provenance"} |-> cost[k]] # None
  BY <1>1, CostTyped
<1> HIDE DEF goodput, cost, warmup, r
<1>3. /\ r.cost = cost
      /\ r.threats = Threats(PoolOf(rs), c, Repetitions(rs), cost, warmup.policy)
  BY <1>1 DEF Assemble
<1>4. c.threats \in Seq(STRING)
  BY DEF WellConfigured
<1>5. /\ r.threats \in Seq(STRING \cup OwnThreats)
      /\ ~cost.available => "cost" \in Values(r.threats)
      /\ "author-cost" \in Values(r.threats) => "author-cost" \in Values(c.threats)
  <2> DEFINE threats == Threats(PoolOf(rs), c, Repetitions(rs), cost, warmup.policy)
  <2>1. threats \in Seq(STRING \cup OwnThreats)
    BY <1>4, ThreatsAre
  <2>2. ~cost.available => "cost" \in Values(threats)
    BY <1>4, ThreatsAre
  <2>3. "author-cost" \in Values(threats) => "author-cost" \in Values(c.threats)
    <3>1. ASSUME NEW v \in Values(threats)
          PROVE  v \in Values(c.threats) \/ v \in OwnThreats
      BY <1>4, ThreatsAre DEF OwnThreats
    <3>2. "author-cost" \notin OwnThreats
      BY DEF OwnThreats
    <3> HIDE DEF threats
    <3> QED
      BY <3>1, <3>2
  <2> HIDE DEF threats
  <2> QED
    BY <1>3, <2>1, <2>2, <2>3 DEF threats
<1> QED
  BY <1>2, <1>3, <1>5 DEF r

LEMMA Agreement ==
  ASSUME NEW file, Backed(file), NEW shown, NEW found,
         NEW c, c.config.threats \in Seq(STRING), ShowsFile(shown, file.document, found, c)
  PROVE  ShowTheSame(shown, Render(FromAnalysis(Analyze(file.runs, file.config).value, found)).value,
                     Values(file.config.threats))
<1> DEFINE r == Analyze(file.runs, file.config).value
           d == file.document
           T == c.config.threats
           model == FromDocument(d, found, T, c.config.anomalies)
           m == model.value
           n == FromAnalysis(r, found)
           again == Render(n).value
<1>1. /\ Analysed(file.runs, file.config, r) /\ ToDocument(r).error = "none"
      /\ d = ToDocument(r).value
  BY DEF Backed
<1>2. /\ file.runs \in Seq(Loadable) /\ WellConfigured(file.config)
      /\ Analyze(file.runs, file.config).error = "none"
  BY <1>1 DEF Analysed
<1>3. /\ r.cost.available \in BOOLEAN
      /\ r.cost.available =>
           /\ r.cost # None
           /\ [k \in DOMAIN r.cost \ {"available", "provenance"} |-> r.cost[k]] # None
      /\ r.threats \in Seq(STRING \cup OwnThreats)
      /\ ~r.cost.available => "cost" \in Values(r.threats)
      /\ "author-cost" \in Values(r.threats) => "author-cost" \in Values(file.config.threats)
  BY <1>2, CostOfAnalysis
<1>4. /\ model.error = "none" /\ Render(m).error = "none" /\ shown = Render(m).value
  BY DEF ShowsFile
<1>5. T \in Seq(STRING \cup OwnThreats)
  BY SeqMonotonic
<1> HIDE DEF r, d, T
<1>6. /\ r.latency.kind = "tables"
      /\ d.links = r.manifest_refs /\ d.run_count = r.run_count
      /\ d.throughput = r.throughput /\ d.pooled = r.pooled
      /\ d.tables = r.latency.tables
      /\ d.goodput = [g \in DOMAIN r.goodput \ {"counts"} |-> r.goodput[g]]
      /\ d.handling = HandlingStatement(r.warmup)
      /\ d.threats = r.threats
      /\ d.cost = IF ~r.cost.available THEN None
                  ELSE [k \in DOMAIN r.cost \ {"available", "provenance"} |-> r.cost[k]]
  BY <1>1, DocumentOf
<1>7. /\ m.manifests = found /\ m.run_count = d.run_count
      /\ m.refs = d.links /\ m.withheld = None
      /\ m.throughput = d.throughput /\ m.pooled = d.pooled
      /\ m.tables = d.tables /\ m.goodput = d.goodput
      /\ m.handling = d.handling /\ m.cost = d.cost
      /\ m.cost = None => m.cost_null_reason = CostNullReason(d.threats \o T)
  BY <1>4, FromTheFile
<1>8. /\ n.manifests = found /\ n.run_count = r.run_count
      /\ n.refs = r.manifest_refs /\ n.withheld = None /\ n.checks = "analysis"
      /\ n.throughput = r.throughput /\ n.pooled = r.pooled
      /\ n.tables = r.latency.tables /\ n.goodput = r.goodput
      /\ n.handling = HandlingStatement(r.warmup)
      /\ n.cost = IF r.cost.available THEN r.cost ELSE None
      /\ ~r.cost.available => n.cost_null_reason = "cost"
  BY <1>6, FromTheAnalysis
<1> HIDE DEF model, m, n
<1>9. Reportable(m)
  BY <1>4, RenderedIsReportable
<1>10. Reportable(n)
  BY <1>6, <1>7, <1>8, <1>9, NoneAssumption DEF Reportable, NoneAssumption
<1>11. /\ shown.throughput.figures = m.throughput /\ shown.throughput.pooled = m.pooled
       /\ shown.latency.tables = m.tables
       /\ shown.goodput.figures = [g \in DOMAIN m.goodput \ {"counts"} |-> m.goodput[g]]
       /\ shown.validity.handling = m.handling
       /\ shown.cost = IF m.cost = None THEN [kind |-> "null", why |-> m.cost_null_reason]
                       ELSE [kind |-> "cost", cost |-> m.cost]
  BY <1>4, <1>7, <1>9, Sections
<1>12. /\ again.throughput.figures = n.throughput /\ again.throughput.pooled = n.pooled
       /\ again.latency.tables = n.tables
       /\ again.goodput.figures = [g \in DOMAIN n.goodput \ {"counts"} |-> n.goodput[g]]
       /\ again.validity.handling = n.handling
       /\ again.cost = IF n.cost = None THEN [kind |-> "null", why |-> n.cost_null_reason]
                       ELSE [kind |-> "cost", cost |-> n.cost]
  BY <1>8, <1>10, Sections
<1> HIDE DEF again
<1>13. shown.goodput.figures = again.goodput.figures
  BY <1>6, <1>7, <1>8, <1>11, <1>12
<1>14. m.cost = None <=> n.cost = None
  BY <1>3, <1>6, <1>7, <1>8
<1>15. shown.cost.kind = again.cost.kind
  BY <1>11, <1>12, <1>14
<1>16. ASSUME "author-cost" \notin Values(file.config.threats), shown.cost.kind # "cost"
       PROVE  shown.cost = again.cost
  <2>1. m.cost = None /\ n.cost = None
    BY <1>11, <1>14, <1>16
  <2>2. ~r.cost.available
    BY <1>3, <1>8, <2>1
  <2>3. CostNullReason(r.threats \o T) = "cost"
    BY <1>3, <1>5, <1>16, <2>2, ReasonIsTheCodes
  <2>4. m.cost_null_reason = n.cost_null_reason
    BY <1>6, <1>7, <1>8, <2>1, <2>2, <2>3
  <2> QED
    BY <1>11, <1>12, <2>1, <2>4
<1>17. ShowTheSame(shown, again, Values(file.config.threats))
  BY <1>6, <1>7, <1>8, <1>11, <1>12, <1>13, <1>15, <1>16 DEF ShowTheSame
<1> QED
  BY <1>17 DEF again, n, r

\* A report rendered from a result file shows the figures that a report from
\* the raw events behind it would show, and gives a null cost the reason the
\* analysis had, unless an author's threat spoke of cost before: the two
\* builders of report.py:365-523 and 526-659 agree for every document that
\* result.py writes, whatever happened to the directories since.
THEOREM ReportsAreTheSame == Spec => []ReportsAgree
<1>1. ReportsInv => ReportsAgree
  <2> SUFFICES ASSUME ReportsInv, report # None, report.shown.source = "file"
               PROVE  ReportsAgree
    BY DEF ReportsAgree
  <2>1. /\ Backed(report.of)
        /\ \E c \in CommandLines : ShowsFile(report.shown, report.of.document, report.entries, c)
    BY DEF ReportsInv
  <2>2. PICK c \in CommandLines : ShowsFile(report.shown, report.of.document, report.entries, c)
    BY <2>1
  <2>3. c.config.threats \in Seq(STRING)
    BY CommandAssumption DEF CommandAssumption, CommandLines
  <2>4. ShowTheSame(report.shown,
                    Render(FromAnalysis(Analyze(report.of.runs, report.of.config).value,
                                        report.entries)).value,
                    Values(report.of.config.threats))
    BY <2>1, <2>2, <2>3, Agreement
  <2> QED
    BY <2>4 DEF ReportsAgree
<1> QED
  BY <1>1, ReportsInvariant, PTL

-----------------------------------------------------------------------------
(* The order in which run directories are named.                           *)

\* The runs in the opposite order, and what becomes of the name of an event.
Turned(rs) == [i \in DOMAIN rs |-> rs[Len(rs) + 1 - i]]
Turn(rs) == [x \in Names(rs) |-> <<Len(rs) + 1 - x[1], x[2]>>]

LEMMA TurnedRuns ==
  ASSUME NEW rs \in Seq(Loadable)
  PROVE  /\ Turned(rs) \in Seq(Loadable)
         /\ Len(rs) \in Nat /\ Len(Turned(rs)) = Len(rs)
         /\ DOMAIN rs = 1..Len(rs) /\ DOMAIN Turned(rs) = 1..Len(rs)
         /\ \A i \in 1..Len(rs) : Turned(rs)[i] = rs[Len(rs) + 1 - i]
         /\ \A i \in 1..Len(rs) : rs[i] = Turned(rs)[Len(rs) + 1 - i]
         /\ rs # <<>> => Turned(rs) # <<>>
<1> DEFINE n == Len(rs)
           qs == Turned(rs)
<1>1. n \in Nat /\ DOMAIN rs = 1..n /\ \A i \in 1..n : rs[i] \in Loadable
  BY LenProperties, ElementOfSeq
<1> HIDE DEF n
<1>2. \A i \in 1..n : n + 1 - i \in 1..n /\ n + 1 - (n + 1 - i) = i
  BY <1>1
<1>3. qs \in [1..n -> Loadable]
  BY <1>1, <1>2 DEF Turned, n
<1>4. \A i \in 1..n : qs[i] = rs[n + 1 - i]
  BY <1>1 DEF Turned, n
<1>5. \A i \in 1..n : rs[i] = qs[n + 1 - i]
  BY <1>2, <1>4
<1> HIDE DEF qs
<1>6. qs \in Seq(Loadable)
  BY <1>1, <1>3, SeqDef
<1>7. Len(qs) = n
  BY <1>1, <1>3, <1>6, LenProperties
<1>8. rs # <<>> => qs # <<>>
  BY <1>6, <1>7, EmptySeq DEF n
<1> QED
  BY <1>1, <1>3, <1>4, <1>5, <1>6, <1>7, <1>8 DEF n, qs

LEMMA TurnedNames ==
  ASSUME NEW rs \in Seq(Loadable)
  PROVE  /\ Matches(Turn(rs), Names(rs), Names(Turned(rs)))
         /\ \A x \in Names(rs) :
              /\ EventAt(Turned(rs), Turn(rs)[x]) = EventAt(rs, x)
              /\ Turn(rs)[x][2] = x[2]
         /\ \A x, y \in Names(rs) :
              RepKey(rs, x) = RepKey(rs, y)
                <=> RepKey(Turned(rs), Turn(rs)[x]) = RepKey(Turned(rs), Turn(rs)[y])
<1> DEFINE n == Len(rs)
           qs == Turned(rs)
           t == Turn(rs)
<1>1. /\ n \in Nat /\ DOMAIN rs = 1..n /\ DOMAIN qs = 1..n
      /\ \A i \in 1..n : qs[i] = rs[n + 1 - i] /\ rs[i] = qs[n + 1 - i]
  BY TurnedRuns
<1>2. \A i \in 1..n : n + 1 - i \in 1..n /\ n + 1 - (n + 1 - i) = i
  BY <1>1
<1>3. \A x \in Names(rs) : t[x] = <<n + 1 - x[1], x[2]>>
  BY DEF Turn
<1> HIDE DEF n, qs, t
<1>4. \A x : x \in Names(rs) <=> \E i \in 1..n : \E j \in DOMAIN rs[i].events : x = <<i, j>>
  BY <1>1 DEF Names
<1>5. \A x : x \in Names(qs) <=> \E i \in 1..n : \E j \in DOMAIN qs[i].events : x = <<i, j>>
  BY <1>1 DEF Names
<1>6. ASSUME NEW x \in Names(rs)
      PROVE  /\ x[1] \in 1..n /\ n + 1 - x[1] \in 1..n /\ x = <<x[1], x[2]>>
             /\ t[x] \in Names(qs) /\ t[x][1] = n + 1 - x[1] /\ t[x][2] = x[2]
             /\ EventAt(qs, t[x]) = EventAt(rs, x)
  <2>1. PICK i \in 1..n : \E j \in DOMAIN rs[i].events : x = <<i, j>>
    BY <1>4
  <2>2. PICK j \in DOMAIN rs[i].events : x = <<i, j>>
    BY <2>1
  <2>3. t[x] = <<n + 1 - i, j>>
    BY <1>3, <2>2
  <2>4. n + 1 - i \in 1..n /\ qs[n + 1 - i] = rs[i]
    BY <1>1, <1>2
  <2>5. t[x] \in Names(qs)
    BY <1>5, <2>2, <2>3, <2>4
  <2>6. EventAt(qs, t[x]) = EventAt(rs, x)
    BY <2>2, <2>3, <2>4 DEF EventAt
  <2> QED
    BY <2>2, <2>3, <2>4, <2>5, <2>6
<1>7. ASSUME NEW x \in Names(rs), NEW y \in Names(rs)
      PROVE  /\ t[x] = t[y] => x = y
             /\ x[1] = y[1] <=> t[x][1] = t[y][1]
  <2>1. /\ x[1] \in 1..n /\ x = <<x[1], x[2]>> /\ t[x][1] = n + 1 - x[1] /\ t[x][2] = x[2]
        /\ y[1] \in 1..n /\ y = <<y[1], y[2]>> /\ t[y][1] = n + 1 - y[1] /\ t[y][2] = y[2]
    BY <1>6
  <2>2. x[1] = y[1] <=> n + 1 - x[1] = n + 1 - y[1]
    BY <1>1, <2>1
  <2> QED
    BY <2>1, <2>2
<1>8. ASSUME NEW z \in Names(qs) PROVE \E x \in Names(rs) : t[x] = z
  <2>1. PICK i \in 1..n : \E j \in DOMAIN qs[i].events : z = <<i, j>>
    BY <1>5
  <2>2. PICK j \in DOMAIN qs[i].events : z = <<i, j>>
    BY <2>1
  <2> DEFINE x == <<n + 1 - i, j>>
  <2>3. n + 1 - i \in 1..n /\ rs[n + 1 - i] = qs[i]
    BY <1>1
  <2>4. x \in Names(rs)
    BY <1>4, <2>2, <2>3
  <2>5. t[x] = <<n + 1 - (n + 1 - i), j>>
    BY <1>3, <2>4
  <2>6. t[x] = z
    BY <1>2, <2>2, <2>5
  <2> QED
    BY <2>4, <2>6
<1>9. Matches(t, Names(rs), Names(qs))
  BY <1>6, <1>7, <1>8 DEF Matches
<1>10. ASSUME NEW x \in Names(rs), NEW y \in Names(rs)
       PROVE  RepKey(rs, x) = RepKey(rs, y) <=> RepKey(qs, t[x]) = RepKey(qs, t[y])
  BY <1>6, <1>7 DEF RepKey
<1> QED
  BY <1>6, <1>9, <1>10 DEF qs, t

\* The warm-up does not depend on the order.
LEMMA TurnedDiscards ==
  ASSUME NEW rs \in Seq(Loadable), rs # <<>>, Poolable(rs)
  PROVE  /\ Turned(rs)[1].manifest.warm_up = rs[1].manifest.warm_up
         /\ \A x \in Names(rs) : Discarded(rs, x) <=> Discarded(Turned(rs), Turn(rs)[x])
         /\ Matches(Turn(rs), Kept(rs), Kept(Turned(rs)))
<1> DEFINE n == Len(rs)
           qs == Turned(rs)
           t == Turn(rs)
<1>1. /\ Matches(t, Names(rs), Names(qs))
      /\ \A x \in Names(rs) : EventAt(qs, t[x]) = EventAt(rs, x) /\ t[x][2] = x[2]
      /\ \A x, y \in Names(rs) : RepKey(rs, x) = RepKey(rs, y) <=> RepKey(qs, t[x]) = RepKey(qs, t[y])
  BY TurnedNames
<1>2. IsFiniteSet(Names(rs))
  BY NamesFinite
<1>3. qs[1].manifest.warm_up = rs[1].manifest.warm_up
  <2>1. n \in Nat /\ DOMAIN rs = 1..n /\ \A i \in 1..n : qs[i] = rs[n + 1 - i]
    BY TurnedRuns
  <2>2. n >= 1
    BY <2>1, EmptySeq, LenProperties
  <2>3. qs[1] = rs[n]
    BY <2>1, <2>2
  <2>4. n >= 2 => rs[1].manifest["warm_up"] = rs[n].manifest["warm_up"]
    BY <2>1 DEF Poolable, ComparabilityKeys
  <2> HIDE DEF n, qs
  <2> QED
    BY <2>1, <2>2, <2>3, <2>4
<1> HIDE DEF n, qs, t
<1>4. ASSUME NEW x \in Names(rs)
      PROVE  /\ t[x] \in Names(qs)
             /\ Matches(t, Group(rs, RepKey(rs, x)), Group(qs, RepKey(qs, t[x])))
  <2>1. /\ Group(rs, RepKey(rs, x)) \subseteq Names(rs)
        /\ Group(qs, RepKey(qs, t[x])) \subseteq Names(qs)
        /\ \A y \in Names(rs) : y \in Group(rs, RepKey(rs, x)) <=> t[y] \in Group(qs, RepKey(qs, t[x]))
    BY <1>1 DEF Group, Matches
  <2>2. t[x] \in Names(qs)
    BY <1>1 DEF Matches
  <2> QED
    BY <1>1, <2>1, <2>2, MatchedPart
<1>5. ASSUME NEW x \in Names(rs)
      PROVE  Position(qs, t[x]) = Position(rs, x)
  <2> DEFINE G == Group(rs, RepKey(rs, x))
             H == Group(qs, RepKey(qs, t[x]))
             A == {y \in G : SentBefore(rs, y, x)}
             B == {y \in H : SentBefore(qs, y, t[x])}
  <2>1. Matches(t, G, H) /\ G \subseteq Names(rs)
    BY <1>4 DEF Group
  <2> HIDE DEF G, H
  <2>2. \A y \in G : SentBefore(rs, y, x) <=> SentBefore(qs, t[y], t[x])
    BY <1>1, <2>1 DEF SentBefore
  <2>3. A \subseteq G /\ B \subseteq H /\ \A y \in G : y \in A <=> t[y] \in B
    BY <2>1, <2>2 DEF Matches
  <2>4. IsFiniteSet(A)
    BY <1>2, <2>1, <2>3, FS_Subset
  <2>5. Position(rs, x) = Cardinality(A) /\ Position(qs, t[x]) = Cardinality(B)
    BY DEF Position, G, H
  <2> HIDE DEF A, B
  <2>6. Matches(t, A, B)
    BY <2>1, <2>3, MatchedPart
  <2> QED
    BY <2>4, <2>5, <2>6, MatchedSize
<1>6. ASSUME NEW x \in Names(rs)
      PROVE  RepetitionStart(qs, RepKey(qs, t[x])) = RepetitionStart(rs, RepKey(rs, x))
  <2> DEFINE G == Group(rs, RepKey(rs, x))
             H == Group(qs, RepKey(qs, t[x]))
  <2>1. Matches(t, G, H) /\ G \subseteq Names(rs)
    BY <1>4 DEF Group
  <2> HIDE DEF G, H
  <2>2. {EventAt(qs, y).scheduled_send_ts : y \in H} = {EventAt(rs, y).scheduled_send_ts : y \in G}
    BY <1>1, <2>1 DEF Matches
  <2> QED
    BY <2>2 DEF RepetitionStart, G, H
<1>7. ASSUME NEW x \in Names(rs)
      PROVE  Discarded(rs, x) <=> Discarded(qs, t[x])
  BY <1>1, <1>3, <1>5, <1>6 DEF Discarded
<1>8. Matches(t, Kept(rs), Kept(qs))
  <2>1. /\ Kept(rs) \subseteq Names(rs) /\ Kept(qs) \subseteq Names(qs)
        /\ \A x \in Names(rs) : x \in Kept(rs) <=> t[x] \in Kept(qs)
    BY <1>1, <1>7 DEF Kept, Matches
  <2> QED
    BY <1>1, <2>1, MatchedPart
<1> QED
  BY <1>3, <1>7, <1>8 DEF qs, t

\* ... nor do the verdicts on the run set.
LEMMA TurnedVerdicts ==
  ASSUME NEW rs \in Seq(Loadable), rs # <<>>, Poolable(rs)
  PROVE  /\ Poolable(Turned(rs))
         /\ DuplicateIds(rs) <=> DuplicateIds(Turned(rs))
         /\ ApplyWarmup(rs).error = ApplyWarmup(Turned(rs)).error
         /\ WarmupReport(rs).policy = WarmupReport(Turned(rs)).policy
<1> DEFINE n == Len(rs)
           qs == Turned(rs)
           t == Turn(rs)
<1>1. /\ n \in Nat /\ Len(qs) = n /\ DOMAIN rs = 1..n /\ DOMAIN qs = 1..n
      /\ \A i \in 1..n : qs[i] = rs[n + 1 - i] /\ rs[i] = qs[n + 1 - i]
  BY TurnedRuns
<1>2. /\ qs[1].manifest.warm_up = rs[1].manifest.warm_up
      /\ Matches(t, Kept(rs), Kept(qs))
  BY TurnedDiscards
<1>3. \A i \in 1..n : n + 1 - i \in 1..n
  BY <1>1
<1> HIDE DEF qs, t
<1>4. Poolable(qs)
  <2>1. \A i \in 1..n : \A key \in ComparabilityKeys : rs[1].manifest[key] = rs[i].manifest[key]
    BY <1>1 DEF Poolable
  <2> HIDE DEF n
  <2>2. ASSUME NEW i \in 2..n, NEW key \in ComparabilityKeys
        PROVE  qs[1].manifest[key] = qs[i].manifest[key]
    <3>1. 1 \in 1..n /\ i \in 1..n
      BY <1>1
    <3>2. /\ qs[1] = rs[n + 1 - 1] /\ n + 1 - 1 \in 1..n
          /\ qs[i] = rs[n + 1 - i] /\ n + 1 - i \in 1..n
      BY <1>1, <1>3, <3>1
    <3> QED
      BY <2>1, <3>2
  <2> QED
    BY <1>1, <2>2 DEF Poolable
<1>5. DuplicateIds(rs) => DuplicateIds(qs)
  <2> SUFFICES ASSUME NEW i \in 1..n, NEW j \in 1..n, i # j,
                      rs[i].manifest.run_id = rs[j].manifest.run_id
               PROVE  DuplicateIds(qs)
    BY <1>1 DEF DuplicateIds
  <2> DEFINE k == n + 1 - i
             l == n + 1 - j
  <2>1. k \in 1..n /\ l \in 1..n /\ k # l /\ rs[i] = qs[k] /\ rs[j] = qs[l]
    BY <1>1
  <2> HIDE DEF k, l, n
  <2>2. k \in DOMAIN qs /\ l \in DOMAIN qs /\ qs[k].manifest.run_id = qs[l].manifest.run_id
    BY <1>1, <2>1
  <2> QED
    BY <2>1, <2>2 DEF DuplicateIds
<1>6. DuplicateIds(qs) => DuplicateIds(rs)
  <2> SUFFICES ASSUME NEW i \in 1..n, NEW j \in 1..n, i # j,
                      qs[i].manifest.run_id = qs[j].manifest.run_id
               PROVE  DuplicateIds(rs)
    BY <1>1 DEF DuplicateIds
  <2> DEFINE k == n + 1 - i
             l == n + 1 - j
  <2>1. k \in 1..n /\ l \in 1..n /\ k # l /\ qs[i] = rs[k] /\ qs[j] = rs[l]
    BY <1>1
  <2> HIDE DEF k, l, n
  <2>2. k \in DOMAIN rs /\ l \in DOMAIN rs /\ rs[k].manifest.run_id = rs[l].manifest.run_id
    BY <1>1, <2>1
  <2> QED
    BY <2>1, <2>2 DEF DuplicateIds
<1>7. Kept(rs) = {} <=> Kept(qs) = {}
  BY <1>2 DEF Matches
<1>8. ApplyWarmup(rs).error = ApplyWarmup(qs).error
  BY <1>2, <1>7 DEF ApplyWarmup, Refuse, Ok
<1>9. WarmupReport(rs).policy = WarmupReport(qs).policy
  BY <1>2 DEF WarmupReport
<1> QED
  BY <1>4, <1>5, <1>6, <1>8, <1>9 DEF qs

\* One pool is the other under new names.
SamePool(f, P, Q) ==
  /\ Matches(f, DOMAIN P, DOMAIN Q)
  /\ \A x \in DOMAIN P : Q[f[x]] = P[x]

LEMMA TurnedPool ==
  ASSUME NEW rs \in Seq(Loadable), rs # <<>>, Poolable(rs)
  PROVE  SamePool(Turn(rs), PoolOf(rs), PoolOf(Turned(rs)))
<1> DEFINE qs == Turned(rs)
           t == Turn(rs)
<1>1. /\ DOMAIN PoolOf(rs) = Kept(rs) /\ \A x \in Kept(rs) : PoolOf(rs)[x] = EventAt(rs, x)
      /\ Kept(rs) \subseteq Names(rs)
      /\ DOMAIN PoolOf(qs) = Kept(qs) /\ \A x \in Kept(qs) : PoolOf(qs)[x] = EventAt(qs, x)
  BY PoolFacts
<1>2. Matches(t, Kept(rs), Kept(qs))
  BY TurnedDiscards
<1>3. \A x \in Names(rs) : EventAt(qs, t[x]) = EventAt(rs, x)
  BY TurnedNames
<1> HIDE DEF qs, t
<1>4. ASSUME NEW x \in Kept(rs) PROVE PoolOf(qs)[t[x]] = PoolOf(rs)[x]
  BY <1>1, <1>2, <1>3 DEF Matches
<1> QED
  BY <1>1, <1>2, <1>4 DEF SamePool, qs, t

LEMMA SamePart ==
  ASSUME NEW f, NEW P, NEW Q, SamePool(f, P, Q), IsFiniteSet(DOMAIN P),
         NEW A, A \subseteq DOMAIN P, NEW B, B \subseteq DOMAIN Q,
         \A x \in DOMAIN P : x \in A <=> f[x] \in B
  PROVE  /\ Matches(f, A, B) /\ IsFiniteSet(A)
         /\ Cardinality(A) = Cardinality(B) /\ (A = {} <=> B = {})
<1>1. Matches(f, A, B)
  BY MatchedPart DEF SamePool
<1>2. IsFiniteSet(A)
  BY FS_Subset
<1> QED
  BY <1>1, <1>2, MatchedSize

LEMMA SameValues ==
  ASSUME NEW f, NEW P, NEW Q, SamePool(f, P, Q)
  PROVE  Values(P) = Values(Q)
BY DEF SamePool, Matches, Values

LEMMA SameQuantile ==
  ASSUME NEW f, NEW P, IsPool(P), NEW Q, SamePool(f, P, Q), NEW q \in Thousandths
  PROVE  Quantile(P, q) = Quantile(Q, q)
<1> DEFINE n == Cardinality(DOMAIN P)
<1>1. /\ IsFiniteSet(DOMAIN P) /\ DOMAIN P # {} /\ \A x \in DOMAIN P : P[x] \in Int
      /\ Matches(f, DOMAIN P, DOMAIN Q) /\ \A x \in DOMAIN P : Q[f[x]] = P[x]
  BY DEF IsPool, SamePool
<1>2. IsFiniteSet(DOMAIN Q) /\ Cardinality(DOMAIN Q) = n /\ DOMAIN Q # {}
  BY <1>1, MatchedSize
<1>3. IsPool(Q)
  BY <1>1, <1>2 DEF IsPool, Matches
<1>4. n \in Nat
  BY PoolSize
<1>5. ASSUME NEW k \in 1..n
      PROVE  OrderStatistic(P, k) = OrderStatistic(Q, k)
  <2> DEFINE u == OrderStatistic(P, k)
             v == OrderStatistic(Q, k)
  <2>1. u \in Int /\ IsKth(P, DOMAIN P, k, u)
    BY OrderStatistics
  <2>2. v \in Int /\ IsKth(Q, DOMAIN Q, k, v)
    BY <1>2, <1>3, OrderStatistics
  <2>3. k \in Int
    BY <1>4
  <2> HIDE DEF u, v
  <2>4. u = v
    BY <1>1, <2>1, <2>2, <2>3, MatchedKth
  <2> QED
    BY <2>4 DEF u, v
<1>6. Scaled(P, q) = Scaled(Q, q)
  BY <1>2 DEF Scaled
<1>7. LeftOf(P, q) = LeftOf(Q, q) /\ RestOf(P, q) = RestOf(Q, q)
  BY <1>6 DEF LeftOf, RestOf
<1>8. NextOf(P, q) = NextOf(Q, q)
  BY <1>2, <1>7 DEF NextOf
<1>9. LeftOf(P, q) + 1 \in 1..n /\ NextOf(P, q) \in 1..n
  <2>1. Interpolates(P, q)
    BY Interpolated
  <2> QED
    BY <2>1 DEF Interpolates
<1>10. LowOf(P, q) = LowOf(Q, q)
  BY <1>5, <1>7, <1>9 DEF LowOf
<1>11. HighOf(P, q) = HighOf(Q, q)
  BY <1>5, <1>8, <1>9 DEF HighOf
<1> QED
  BY <1>7, <1>10, <1>11, QuantileIs

LEMMA SameTable ==
  ASSUME NEW f, NEW P, IsPool(P), NEW Q, SamePool(f, P, Q)
  PROVE  Table(P) = Table(Q)
<1>1. /\ IsFiniteSet(DOMAIN P) /\ \A x \in DOMAIN P : P[x] \in Int
      /\ Matches(f, DOMAIN P, DOMAIN Q) /\ \A x \in DOMAIN P : Q[f[x]] = P[x]
  BY DEF IsPool, SamePool
<1>2. Cardinality(DOMAIN Q) = Cardinality(DOMAIN P)
  BY <1>1, MatchedSize
<1>3. \A q \in Thousandths : Quantile(P, q) = Quantile(Q, q)
  BY SameQuantile
<1>4. Values(P) = Values(Q)
  BY SameValues
<1>5. Total(P) = Total(Q)
  BY <1>1, MatchedSum DEF Total, SumFunction
<1> DEFINE q50 == 500
           q90 == 900
           q95 == 950
           q99 == 990
           q999 == 999
<1>6. /\ q50 \in Thousandths /\ q90 \in Thousandths /\ q95 \in Thousandths
      /\ q99 \in Thousandths /\ q999 \in Thousandths
  BY DEF Thousandths
<1> DEFINE Of(p) == [n |-> Cardinality(DOMAIN p), p50 |-> Quantile(p, q50), p90 |-> Quantile(p, q90),
                     p95 |-> Quantile(p, q95), p99 |-> Quantile(p, q99),
                     p999 |-> IF Cardinality(DOMAIN p) >= P999MinSamples
                              THEN Quantile(p, q999) ELSE None,
                     max |-> MaxOf(Values(p)), mean |-> <<Total(p), Cardinality(DOMAIN p)>>]
<1>7. Table(P) = Of(P) /\ Table(Q) = Of(Q)
  BY DEF Table
<1> HIDE DEF q50, q90, q95, q99, q999
<1>8. Of(P) = Of(Q)
  BY <1>2, <1>3, <1>4, <1>5, <1>6
<1> QED
  BY <1>7, <1>8

\* The pools of the signals, of pools of events that are the same.
LEMMA SameSignals ==
  ASSUME NEW f, NEW P, NEW Q, SamePool(f, P, Q)
  PROVE  /\ SamePool(f, TtftPool(P), TtftPool(Q))
         /\ SamePool(f, E2EPool(P), E2EPool(Q))
         /\ SamePool(f, StallPool(P), StallPool(Q))
         /\ \E g : SamePool(g, ItlPool(P), ItlPool(Q))
<1>1. /\ Matches(f, DOMAIN P, DOMAIN Q)
      /\ \A x \in DOMAIN P : f[x] \in DOMAIN Q /\ Q[f[x]] = P[x]
  BY DEF SamePool, Matches
<1>2. SamePool(f, TtftPool(P), TtftPool(Q))
  <2> DEFINE A == DOMAIN TtftPool(P)
             B == DOMAIN TtftPool(Q)
  <2>1. A \subseteq DOMAIN P /\ B \subseteq DOMAIN Q /\ \A x \in DOMAIN P : x \in A <=> f[x] \in B
    BY <1>1 DEF TtftPool
  <2>2. \A x \in A : TtftPool(P)[x] = P[x].ttft
    BY DEF TtftPool
  <2>3. \A y \in B : TtftPool(Q)[y] = Q[y].ttft
    BY DEF TtftPool
  <2> HIDE DEF A, B
  <2>4. Matches(f, A, B)
    BY <1>1, <2>1, MatchedPart
  <2> QED
    BY <1>1, <2>1, <2>2, <2>3, <2>4 DEF SamePool, A, B
<1>3. SamePool(f, E2EPool(P), E2EPool(Q))
  <2> DEFINE A == DOMAIN E2EPool(P)
             B == DOMAIN E2EPool(Q)
  <2>1. A \subseteq DOMAIN P /\ B \subseteq DOMAIN Q /\ \A x \in DOMAIN P : x \in A <=> f[x] \in B
    BY <1>1 DEF E2EPool, WithStatus
  <2>2. \A x \in A : E2EPool(P)[x] = E2E(P[x])
    BY DEF E2EPool
  <2>3. \A y \in B : E2EPool(Q)[y] = E2E(Q[y])
    BY DEF E2EPool
  <2> HIDE DEF A, B
  <2>4. Matches(f, A, B)
    BY <1>1, <2>1, MatchedPart
  <2> QED
    BY <1>1, <2>1, <2>2, <2>3, <2>4 DEF SamePool, A, B
<1>4. SamePool(f, StallPool(P), StallPool(Q))
  <2> DEFINE A == DOMAIN StallPool(P)
             B == DOMAIN StallPool(Q)
  <2>1. A \subseteq DOMAIN P /\ B \subseteq DOMAIN Q /\ \A x \in DOMAIN P : x \in A <=> f[x] \in B
    BY <1>1 DEF StallPool, Streaming
  <2>2. \A x \in A : StallPool(P)[x] = P[x].itl.max_stall
    BY DEF StallPool
  <2>3. \A y \in B : StallPool(Q)[y] = Q[y].itl.max_stall
    BY DEF StallPool
  <2> HIDE DEF A, B
  <2>4. Matches(f, A, B)
    BY <1>1, <2>1, MatchedPart
  <2> QED
    BY <1>1, <2>1, <2>2, <2>3, <2>4 DEF SamePool, A, B
<1>5. \E g : SamePool(g, ItlPool(P), ItlPool(Q))
  <2> DEFINE A == DOMAIN ItlPool(P)
             B == DOMAIN ItlPool(Q)
             g == [z \in A |-> <<f[z[1]], z[2]>>]
  <2>1. /\ WithSeries(P) \subseteq DOMAIN P /\ WithSeries(Q) \subseteq DOMAIN Q
        /\ \A x \in DOMAIN P : x \in WithSeries(P) <=> f[x] \in WithSeries(Q)
    BY <1>1 DEF WithSeries
  <2>2. Matches(f, WithSeries(P), WithSeries(Q))
    BY <1>1, <2>1, MatchedPart
  <2>3. /\ \A z : z \in A <=> \E x \in WithSeries(P) : \E i \in DOMAIN P[x].itl.series : z = <<x, i>>
        /\ \A z : z \in B <=> \E x \in WithSeries(Q) : \E i \in DOMAIN Q[x].itl.series : z = <<x, i>>
    BY DEF ItlPool
  <2>4. /\ \A z \in A : ItlPool(P)[z] = P[z[1]].itl.series[z[2]]
        /\ \A z \in B : ItlPool(Q)[z] = Q[z[1]].itl.series[z[2]]
    BY DEF ItlPool
  <2>5. \A z \in A : g[z] = <<f[z[1]], z[2]>>
    OBVIOUS
  <2> HIDE DEF A, B, g
  <2>6. ASSUME NEW z \in A
        PROVE  /\ z = <<z[1], z[2]>> /\ z[1] \in WithSeries(P) /\ z[1] \in DOMAIN P
               /\ g[z] \in B /\ ItlPool(Q)[g[z]] = ItlPool(P)[z]
    <3>1. PICK x \in WithSeries(P) : \E i \in DOMAIN P[x].itl.series : z = <<x, i>>
      BY <2>3
    <3>2. PICK i \in DOMAIN P[x].itl.series : z = <<x, i>>
      BY <3>1
    <3>3. x \in DOMAIN P /\ Q[f[x]] = P[x] /\ f[x] \in WithSeries(Q)
      BY <1>1, <2>1
    <3>4. g[z] = <<f[x], i>>
      BY <2>5, <3>2
    <3>5. g[z] \in B
      BY <2>3, <3>2, <3>3, <3>4
    <3> QED
      BY <2>4, <3>2, <3>3, <3>4, <3>5
  <2>7. ASSUME NEW z \in A, NEW w \in A, g[z] = g[w]
        PROVE  z = w
    <3>1. f[z[1]] = f[w[1]] /\ z[2] = w[2]
      BY <2>5, <2>7
    <3>2. z[1] = w[1]
      BY <1>1, <2>6, <3>1 DEF Matches
    <3> QED
      BY <2>6, <3>1, <3>2
  <2>8. ASSUME NEW w \in B
        PROVE  \E z \in A : g[z] = w
    <3>1. PICK y \in WithSeries(Q) : \E i \in DOMAIN Q[y].itl.series : w = <<y, i>>
      BY <2>3
    <3>2. PICK i \in DOMAIN Q[y].itl.series : w = <<y, i>>
      BY <3>1
    <3>3. PICK x \in WithSeries(P) : f[x] = y
      BY <2>2 DEF Matches
    <3>4. Q[y] = P[x]
      BY <1>1, <2>1, <3>3
    <3>5. <<x, i>> \in A
      BY <2>3, <3>2, <3>4
    <3>6. g[<<x, i>>] = w
      BY <2>5, <3>2, <3>3, <3>5
    <3> QED
      BY <3>5, <3>6
  <2>9. Matches(g, A, B)
    BY <2>6, <2>7, <2>8 DEF Matches
  <2> QED
    BY <2>6, <2>9 DEF SamePool, A, B
<1> QED
  BY <1>2, <1>3, <1>4, <1>5

LEMMA SameSignal ==
  ASSUME NEW f, NEW P, NEW Q, SamePool(f, P, Q), NEW s \in DOMAIN Pools(P)
  PROVE  s \in DOMAIN Pools(Q) /\ \E g : SamePool(g, Pools(P)[s], Pools(Q)[s])
<1>1. /\ s \in {"ttft_seconds", "e2e_duration_seconds", "itl_seconds", "max_stall_seconds"}
      /\ s \in DOMAIN Pools(Q)
  BY DEF Pools
<1>2. CASE s = "ttft_seconds"
  <2>1. Pools(P)[s] = TtftPool(P) /\ Pools(Q)[s] = TtftPool(Q)
    BY <1>2 DEF Pools
  <2> QED
    BY <1>1, <2>1, SameSignals
<1>3. CASE s = "e2e_duration_seconds"
  <2>1. Pools(P)[s] = E2EPool(P) /\ Pools(Q)[s] = E2EPool(Q)
    BY <1>3 DEF Pools
  <2> QED
    BY <1>1, <2>1, SameSignals
<1>4. CASE s = "itl_seconds"
  <2>1. Pools(P)[s] = ItlPool(P) /\ Pools(Q)[s] = ItlPool(Q)
    BY <1>4 DEF Pools
  <2> QED
    BY <1>1, <2>1, SameSignals
<1>5. CASE s = "max_stall_seconds"
  <2>1. Pools(P)[s] = StallPool(P) /\ Pools(Q)[s] = StallPool(Q)
    BY <1>5 DEF Pools
  <2> QED
    BY <1>1, <2>1, SameSignals
<1> QED
  BY <1>1, <1>2, <1>3, <1>4, <1>5

LEMMA SameCounts ==
  ASSUME NEW f, NEW P, NEW Q, SamePool(f, P, Q), IsFiniteSet(DOMAIN P)
  PROVE  /\ Cardinality(DOMAIN P) = Cardinality(DOMAIN Q)
         /\ \A s : /\ Cardinality(WithStatus(P, s)) = Cardinality(WithStatus(Q, s))
                   /\ WithStatus(P, s) = {} <=> WithStatus(Q, s) = {}
         /\ Streaming(P) = {} <=> Streaming(Q) = {}
         /\ SummaryOnly(P) = {} <=> SummaryOnly(Q) = {}
<1>1. /\ Matches(f, DOMAIN P, DOMAIN Q)
      /\ \A x \in DOMAIN P : f[x] \in DOMAIN Q /\ Q[f[x]] = P[x]
  BY DEF SamePool, Matches
<1>2. ASSUME NEW A, A \subseteq DOMAIN P, NEW B, B \subseteq DOMAIN Q,
             \A x \in DOMAIN P : x \in A <=> f[x] \in B
      PROVE  Cardinality(A) = Cardinality(B) /\ (A = {} <=> B = {})
  BY <1>2, SamePart
<1>3. Cardinality(DOMAIN P) = Cardinality(DOMAIN Q)
  BY <1>1, MatchedSize
<1>4. ASSUME NEW s
      PROVE  /\ Cardinality(WithStatus(P, s)) = Cardinality(WithStatus(Q, s))
             /\ WithStatus(P, s) = {} <=> WithStatus(Q, s) = {}
  <2>1. /\ WithStatus(P, s) \subseteq DOMAIN P /\ WithStatus(Q, s) \subseteq DOMAIN Q
        /\ \A x \in DOMAIN P : x \in WithStatus(P, s) <=> f[x] \in WithStatus(Q, s)
    BY <1>1 DEF WithStatus
  <2> QED
    BY <1>2, <2>1
<1>5. Streaming(P) = {} <=> Streaming(Q) = {}
  <2>1. /\ Streaming(P) \subseteq DOMAIN P /\ Streaming(Q) \subseteq DOMAIN Q
        /\ \A x \in DOMAIN P : x \in Streaming(P) <=> f[x] \in Streaming(Q)
    BY <1>1 DEF Streaming
  <2> QED
    BY <1>2, <2>1
<1>6. SummaryOnly(P) = {} <=> SummaryOnly(Q) = {}
  <2>1. /\ SummaryOnly(P) \subseteq DOMAIN P /\ SummaryOnly(Q) \subseteq DOMAIN Q
        /\ \A x \in DOMAIN P : x \in SummaryOnly(P) <=> f[x] \in SummaryOnly(Q)
    BY <1>1 DEF SummaryOnly, Streaming, WithSeries
  <2> QED
    BY <1>2, <2>1
<1> QED
  BY <1>3, <1>4, <1>5, <1>6

LEMMA SameTokens ==
  ASSUME NEW f, NEW P, NEW Q, SamePool(f, P, Q), IsFiniteSet(DOMAIN P),
         \A x \in DOMAIN P : WellFormed(P[x])
  PROVE  InputTokens(P) = InputTokens(Q) /\ OutputTokens(P) = OutputTokens(Q)
<1>1. Matches(f, DOMAIN P, DOMAIN Q) /\ \A x \in DOMAIN P : f[x] \in DOMAIN Q /\ Q[f[x]] = P[x]
  BY DEF SamePool, Matches
<1>2. InputTokens(P) = InputTokens(Q)
  <2> DEFINE p == [x \in DOMAIN P |-> P[x].input_tokens]
             q == [x \in DOMAIN Q |-> Q[x].input_tokens]
  <2>1. \A x \in DOMAIN P : p[x] \in Int /\ q[f[x]] = p[x]
    BY <1>1 DEF WellFormed
  <2>2. InputTokens(P) = SumFunctionOnSet(p, DOMAIN P) /\ InputTokens(Q) = SumFunctionOnSet(q, DOMAIN Q)
    BY DEF InputTokens, SumFunction
  <2> HIDE DEF p, q
  <2> QED
    BY <1>1, <2>1, <2>2, MatchedSum
<1>3. OutputTokens(P) = OutputTokens(Q)
  <2> DEFINE p == [x \in DOMAIN P |-> P[x].output_tokens]
             q == [x \in DOMAIN Q |-> Q[x].output_tokens]
  <2>1. \A x \in DOMAIN P : p[x] \in Int /\ q[f[x]] = p[x]
    BY <1>1 DEF WellFormed
  <2>2. OutputTokens(P) = SumFunctionOnSet(p, DOMAIN P) /\ OutputTokens(Q) = SumFunctionOnSet(q, DOMAIN Q)
    BY DEF OutputTokens, SumFunction
  <2> HIDE DEF p, q
  <2> QED
    BY <1>1, <2>1, <2>2, MatchedSum
<1> QED
  BY <1>2, <1>3

\* Every signal has finitely many samples, all of them integers.
HasSamples(P) ==
  \A s \in DOMAIN Pools(P) :
    IsFiniteSet(DOMAIN Pools(P)[s]) /\ \A x \in DOMAIN Pools(P)[s] : Pools(P)[s][x] \in Int

LEMMA SameLatency ==
  ASSUME NEW f, NEW P, NEW Q, SamePool(f, P, Q), IsFiniteSet(DOMAIN P), HasSamples(P), NEW c
  PROVE  /\ Withholding(P, c) = Withholding(Q, c)
         /\ LatencyOf(P, c) = LatencyOf(Q, c)
         /\ TablesRefused(P, c) <=> TablesRefused(Q, c)
<1>1. DOMAIN Pools(P) = DOMAIN Pools(Q)
  BY DEF Pools
<1>2. ASSUME NEW s \in DOMAIN Pools(P)
      PROVE  /\ DOMAIN Pools(P)[s] = {} <=> DOMAIN Pools(Q)[s] = {}
             /\ DOMAIN Pools(P)[s] # {} => Table(Pools(P)[s]) = Table(Pools(Q)[s])
             /\ PooledTable(Pools(P)[s]).error = PooledTable(Pools(Q)[s]).error
  <2> DEFINE p == Pools(P)[s]
             q == Pools(Q)[s]
  <2>1. PICK g : SamePool(g, p, q)
    BY SameSignal
  <2>2. IsFiniteSet(DOMAIN p) /\ \A x \in DOMAIN p : p[x] \in Int
    BY DEF HasSamples
  <2> HIDE DEF p, q
  <2>3. DOMAIN p = {} <=> DOMAIN q = {}
    BY <2>1 DEF SamePool, Matches
  <2>4. DOMAIN p # {} => Table(p) = Table(q)
    BY <2>1, <2>2, SameTable DEF IsPool
  <2>5. (\E x \in DOMAIN p : p[x] < 0) <=> \E x \in DOMAIN q : q[x] < 0
    BY <2>1 DEF SamePool, Matches
  <2>6. PooledTable(p).error = PooledTable(q).error
    BY <2>3, <2>5 DEF PooledTable, Refuse, Ok
  <2> QED
    BY <2>3, <2>4, <2>6 DEF p, q
<1>3. Tabled(P) = Tabled(Q) /\ Tabled(P) \subseteq DOMAIN Pools(P)
  BY <1>1, <1>2 DEF Tabled
<1>4. NoSamples(P) <=> NoSamples(Q)
  <2>1. SamePool(f, TtftPool(P), TtftPool(Q)) /\ SamePool(f, E2EPool(P), E2EPool(Q))
    BY SameSignals
  <2>2. DOMAIN TtftPool(P) = {} <=> DOMAIN TtftPool(Q) = {}
    BY <2>1 DEF SamePool, Matches
  <2>3. DOMAIN E2EPool(P) = {} <=> DOMAIN E2EPool(Q) = {}
    BY <2>1 DEF SamePool, Matches
  <2> QED
    BY <2>2, <2>3 DEF NoSamples
<1>5. GateTripped(P, c.gate) <=> GateTripped(Q, c.gate)
  BY SameCounts DEF GateTripped
<1>6. Withholding(P, c) = Withholding(Q, c)
  BY <1>4, <1>5 DEF Withholding
<1>7. \A s \in Tabled(P) : Table(Pools(P)[s]) = Table(Pools(Q)[s])
  BY <1>2 DEF Tabled
<1>8. [s \in Tabled(P) |-> Table(Pools(P)[s])] = [s \in Tabled(Q) |-> Table(Pools(Q)[s])]
  BY <1>3, <1>7
<1>9. LatencyOf(P, c) = LatencyOf(Q, c)
  BY <1>6, <1>8 DEF LatencyOf
<1>10. TablesRefused(P, c) <=> TablesRefused(Q, c)
  BY <1>2, <1>3, <1>6 DEF TablesRefused
<1> QED
  BY <1>6, <1>9, <1>10

LEMMA SameGoodput ==
  ASSUME NEW f, NEW P, NEW Q, SamePool(f, P, Q), IsFiniteSet(DOMAIN P), NEW slo, NEW window
  PROVE  Goodput(P, slo, window) = Goodput(Q, slo, window)
<1> DEFINE ok(pool) == {y \in DOMAIN pool : pool[y].status = "ok"}
           verdicts(pool) == [x \in ok(pool) |-> Verdict(pool[x], slo.objectives)]
           meeting(pool) == {x \in DOMAIN verdicts(pool) : verdicts(pool)[x] = "holds"}
           wrong(pool) == {x \in DOMAIN verdicts(pool) : verdicts(pool)[x] = "error"}
           streaming(pool) == {x \in DOMAIN pool : pool[x].itl # None}
           stalled(pool) == {x \in streaming(pool) : pool[x].itl.max_stall > MinOf(StallBounds(slo))}
           shed(pool) == {x \in DOMAIN pool : pool[x].shed \/ pool[x].status = "shed"}
<1>1. /\ Matches(f, DOMAIN P, DOMAIN Q)
      /\ \A x \in DOMAIN P : f[x] \in DOMAIN Q /\ Q[f[x]] = P[x]
  BY DEF SamePool, Matches
<1>2. Cardinality(DOMAIN P) = Cardinality(DOMAIN Q) /\ (DOMAIN P = {} <=> DOMAIN Q = {})
  BY <1>1, MatchedSize
<1>3. Cardinality(meeting(P)) = Cardinality(meeting(Q))
  <2>1. /\ meeting(P) \subseteq DOMAIN P /\ meeting(Q) \subseteq DOMAIN Q
        /\ \A x \in DOMAIN P : x \in meeting(P) <=> f[x] \in meeting(Q)
    BY <1>1
  <2> HIDE DEF meeting
  <2> QED
    BY <2>1, SamePart
<1>4. wrong(P) = {} <=> wrong(Q) = {}
  <2>1. /\ wrong(P) \subseteq DOMAIN P /\ wrong(Q) \subseteq DOMAIN Q
        /\ \A x \in DOMAIN P : x \in wrong(P) <=> f[x] \in wrong(Q)
    BY <1>1
  <2> HIDE DEF wrong
  <2> QED
    BY <2>1, SamePart
<1>5. Cardinality(streaming(P)) = Cardinality(streaming(Q)) /\ (streaming(P) = {} <=> streaming(Q) = {})
  <2>1. /\ streaming(P) \subseteq DOMAIN P /\ streaming(Q) \subseteq DOMAIN Q
        /\ \A x \in DOMAIN P : x \in streaming(P) <=> f[x] \in streaming(Q)
    BY <1>1
  <2> HIDE DEF streaming
  <2> QED
    BY <2>1, SamePart
<1>6. Cardinality(stalled(P)) = Cardinality(stalled(Q))
  <2>1. /\ stalled(P) \subseteq DOMAIN P /\ stalled(Q) \subseteq DOMAIN Q
        /\ \A x \in DOMAIN P : x \in stalled(P) <=> f[x] \in stalled(Q)
    BY <1>1
  <2> HIDE DEF stalled
  <2> QED
    BY <2>1, SamePart
<1>7. Cardinality(shed(P)) = Cardinality(shed(Q))
  <2>1. /\ shed(P) \subseteq DOMAIN P /\ shed(Q) \subseteq DOMAIN Q
        /\ \A x \in DOMAIN P : x \in shed(P) <=> f[x] \in shed(Q)
    BY <1>1
  <2> HIDE DEF shed
  <2> QED
    BY <2>1, SamePart
<1> DEFINE Of(pool) ==
             IF DOMAIN pool = {} \/ window <= 0 \/ StallBounds(slo) = {} \/ wrong(pool) # {}
             THEN Refuse("SLOError")
             ELSE Ok([slo |-> slo.slo_id,
                      per_second |-> <<Cardinality(meeting(pool)), window>>,
                      ratio |-> <<Cardinality(meeting(pool)), Cardinality(DOMAIN pool)>>,
                      shed_rate |-> <<Cardinality(shed(pool)), Cardinality(DOMAIN pool)>>,
                      stall_rate |-> IF streaming(pool) = {} THEN <<0, 1>>
                                     ELSE <<Cardinality(stalled(pool)), Cardinality(streaming(pool))>>,
                      stall_threshold |-> MinOf(StallBounds(slo)),
                      counts |-> <<Cardinality(meeting(pool)), Cardinality(DOMAIN pool),
                                   Cardinality(stalled(pool)), Cardinality(streaming(pool))>>])
<1>8. ASSUME NEW pool PROVE Goodput(pool, slo, window) = Of(pool)
  <2>1. (\E x \in DOMAIN verdicts(pool) : verdicts(pool)[x] = "error") <=> wrong(pool) # {}
    OBVIOUS
  <2>2. Goodput(pool, slo, window) = GoodputFrom(pool, slo, window, verdicts(pool))
    BY DEF Goodput
  <2> HIDE DEF verdicts, wrong
  <2> QED
    BY <2>1, <2>2 DEF GoodputFrom, Offered
<1> HIDE DEF ok, verdicts, meeting, wrong, streaming, stalled, shed
<1>9. Of(P) = Of(Q)
  BY <1>2, <1>3, <1>4, <1>5, <1>6, <1>7
<1> QED
  BY <1>8, <1>9

\* The repetitions of some events, matched.
KeysOf(rs, A) == {RepKey(rs, x) : x \in A}

KeysMatch(rs, A, B, g) ==
  /\ Matches(g, KeysOf(rs, A), KeysOf(Turned(rs), B))
  /\ \A x \in A : g[RepKey(rs, x)] = RepKey(Turned(rs), Turn(rs)[x])

LEMMA TurnedKeys ==
  ASSUME NEW rs \in Seq(Loadable), NEW A, A \subseteq Names(rs), NEW B, B \subseteq Names(Turned(rs)),
         Matches(Turn(rs), A, B)
  PROVE  IsFiniteSet(KeysOf(rs, A)) /\ \E g : KeysMatch(rs, A, B, g)
<1> DEFINE qs == Turned(rs)
           t == Turn(rs)
           h == [x \in A |-> RepKey(rs, x)]
           w(key) == CHOOSE x \in A : RepKey(rs, x) = key
           K == {RepKey(rs, x) : x \in A}
           L == {RepKey(qs, y) : y \in B}
           g == [key \in K |-> RepKey(qs, t[w(key)])]
<1>1. \A x, y \in A : RepKey(rs, x) = RepKey(rs, y) <=> RepKey(qs, t[x]) = RepKey(qs, t[y])
  BY TurnedNames
<1>2. IsFiniteSet(K)
  <2>1. IsFiniteSet(A) /\ K = {h[x] : x \in A}
    BY NamesFinite, FS_Subset
  <2> HIDE DEF h, K
  <2> QED
    BY <2>1, ImageFinite
<1> HIDE DEF qs, t
<1>3. ASSUME NEW x \in A PROVE g[RepKey(rs, x)] = RepKey(qs, t[x])
  <2>1. w(RepKey(rs, x)) \in A /\ RepKey(rs, w(RepKey(rs, x))) = RepKey(rs, x)
    OBVIOUS
  <2>2. RepKey(qs, t[w(RepKey(rs, x))]) = RepKey(qs, t[x])
    BY <1>1, <2>1
  <2> QED
    BY <2>2
<1> HIDE DEF g, w
<1>4. \A x \in A : t[x] \in B
  BY DEF Matches, t
<1>5. \A y \in B : \E x \in A : t[x] = y
  BY DEF Matches, t
<1>6. Matches(g, K, L)
  <2>1. \A key \in K : g[key] \in L
    BY <1>3, <1>4
  <2>2. ASSUME NEW k \in K, NEW l \in K, g[k] = g[l] PROVE k = l
    BY <1>1, <1>3, <2>2
  <2>3. ASSUME NEW l \in L PROVE \E k \in K : g[k] = l
    BY <1>3, <1>5
  <2> QED
    BY <2>1, <2>2, <2>3 DEF Matches
<1>7. KeysMatch(rs, A, B, g)
  BY <1>3, <1>6 DEF KeysMatch, KeysOf, qs, t
<1> QED
  BY <1>2, <1>7 DEF KeysOf

LEMMA TurnedRepetitions ==
  ASSUME NEW rs \in Seq(Loadable)
  PROVE  Repetitions(rs) = Repetitions(Turned(rs))
<1> DEFINE K == {RepKey(rs, x) : x \in Names(rs)}
           L == {RepKey(Turned(rs), y) : y \in Names(Turned(rs))}
<1>1. Matches(Turn(rs), Names(rs), Names(Turned(rs)))
  BY TurnedNames
<1>2. IsFiniteSet(KeysOf(rs, Names(rs))) /\ \E g : KeysMatch(rs, Names(rs), Names(Turned(rs)), g)
  BY <1>1, TurnedKeys
<1>3. IsFiniteSet(K) /\ \E g : Matches(g, K, L)
  BY <1>2 DEF KeysMatch, KeysOf
<1> HIDE DEF K, L
<1>4. Cardinality(K) = Cardinality(L)
  BY <1>3, MatchedSize
<1> QED
  BY <1>4 DEF Repetitions, RepKeys, K, L

LEMMA TurnedWindow ==
  ASSUME NEW rs \in Seq(Loadable), rs # <<>>, Poolable(rs)
  PROVE  Window(rs, Kept(rs)) = Window(Turned(rs), Kept(Turned(rs)))
<1> DEFINE qs == Turned(rs)
           t == Turn(rs)
           A == Kept(rs)
           B == Kept(qs)
           K == {RepKey(rs, x) : x \in A}
           L == {RepKey(qs, y) : y \in B}
           p == [key \in K |-> Span(rs, A, key)]
           q == [key \in L |-> Span(qs, B, key)]
<1>1. Matches(t, A, B) /\ A \subseteq Names(rs) /\ B \subseteq Names(qs)
  BY TurnedDiscards DEF Kept
<1>2. /\ \A x \in A : EventAt(qs, t[x]) = EventAt(rs, x)
      /\ \A x, y \in A : RepKey(rs, x) = RepKey(rs, y) <=> RepKey(qs, t[x]) = RepKey(qs, t[y])
  BY <1>1, TurnedNames
<1>3. IsFiniteSet(KeysOf(rs, A)) /\ \E g : KeysMatch(rs, A, B, g)
  <2> HIDE DEF A, B, p, q
  <2> QED
    BY <1>1, TurnedKeys
<1>4. PICK g : KeysMatch(rs, A, B, g)
  BY <1>3
<1>5. /\ IsFiniteSet(K) /\ Matches(g, K, L)
       /\ \A x \in A : g[RepKey(rs, x)] = RepKey(qs, t[x])
  BY <1>3, <1>4 DEF KeysMatch, KeysOf
<1>6. \A key \in K : Span(rs, A, key) \in Int
  BY WindowTyped
<1> HIDE DEF qs, t, A, B
<1>7. ASSUME NEW x \in A
      PROVE  Span(qs, B, RepKey(qs, t[x])) = Span(rs, A, RepKey(rs, x))
  <2> DEFINE G == {y \in A : RepKey(rs, y) = RepKey(rs, x)}
             H == {y \in B : RepKey(qs, y) = RepKey(qs, t[x])}
  <2>1. G \subseteq A /\ H \subseteq B /\ \A y \in A : y \in G <=> t[y] \in H
    BY <1>1, <1>2 DEF Matches
  <2>2. /\ Span(rs, A, RepKey(rs, x)) = MaxOf({EventAt(rs, y).end_ts : y \in G})
                                        - MinOf({EventAt(rs, y).scheduled_send_ts : y \in G})
        /\ Span(qs, B, RepKey(qs, t[x])) = MaxOf({EventAt(qs, y).end_ts : y \in H})
                                           - MinOf({EventAt(qs, y).scheduled_send_ts : y \in H})
    BY DEF Span
  <2> HIDE DEF G, H
  <2>3. Matches(t, G, H)
    BY <1>1, <2>1, MatchedPart
  <2>4. {EventAt(qs, y).end_ts : y \in H} = {EventAt(rs, y).end_ts : y \in G}
    BY <1>2, <2>1, <2>3 DEF Matches
  <2>5. {EventAt(qs, y).scheduled_send_ts : y \in H} = {EventAt(rs, y).scheduled_send_ts : y \in G}
    BY <1>2, <2>1, <2>3 DEF Matches
  <2> QED
    BY <2>2, <2>4, <2>5
<1>8. \A key \in K : p[key] \in Int /\ q[g[key]] = p[key]
  <2> SUFFICES ASSUME NEW x \in A
               PROVE  p[RepKey(rs, x)] \in Int /\ q[g[RepKey(rs, x)]] = p[RepKey(rs, x)]
    OBVIOUS
  <2>1. p[RepKey(rs, x)] = Span(rs, A, RepKey(rs, x)) /\ p[RepKey(rs, x)] \in Int
    BY <1>6
  <2>2. g[RepKey(rs, x)] = RepKey(qs, t[x]) /\ RepKey(qs, t[x]) \in L
    BY <1>1, <1>5 DEF Matches
  <2>3. q[RepKey(qs, t[x])] = Span(qs, B, RepKey(qs, t[x]))
    BY <2>2
  <2> QED
    BY <1>7, <2>1, <2>2, <2>3
<1>9. /\ Window(rs, A) = SumFunctionOnSet(p, K)
      /\ Window(qs, B) = SumFunctionOnSet(q, L)
  BY DEF Window, SumFunction
<1> HIDE DEF K, L, p, q
<1>10. SumFunctionOnSet(p, K) = SumFunctionOnSet(q, L)
  BY <1>8, <1>5, MatchedSum
<1> QED
  BY <1>9, <1>10 DEF A, B, qs

\* What an analysis computes after the warm-up.
LEMMA TurnedPieces ==
  ASSUME NEW rs \in Seq(Loadable), rs # <<>>, Poolable(rs), NEW c
  PROVE  LET qs == Turned(rs)
             P == PoolOf(rs)
             Q == PoolOf(qs)
         IN  /\ Window(rs, Kept(rs)) = Window(qs, Kept(qs))
             /\ GoodputOfRuns(rs, c) = GoodputOfRuns(qs, c)
             /\ CostOfRuns(rs, c) = CostOfRuns(qs, c)
             /\ TablesRefused(P, c) <=> TablesRefused(Q, c)
             /\ LatencyOf(P, c) = LatencyOf(Q, c)
             /\ Withholding(P, c) = Withholding(Q, c)
             /\ OutputTokens(P) = OutputTokens(Q)
             /\ Cardinality(DOMAIN P) = Cardinality(DOMAIN Q)
             /\ \A s : /\ Cardinality(WithStatus(P, s)) = Cardinality(WithStatus(Q, s))
                       /\ WithStatus(P, s) = {} <=> WithStatus(Q, s) = {}
             /\ Streaming(P) = {} <=> Streaming(Q) = {}
             /\ SummaryOnly(P) = {} <=> SummaryOnly(Q) = {}
<1> DEFINE qs == Turned(rs)
           P == PoolOf(rs)
           Q == PoolOf(qs)
           t == Turn(rs)
<1>1. SamePool(t, P, Q)
  BY TurnedPool
<1>2. IsFiniteSet(DOMAIN P) /\ \A x \in DOMAIN P : WellFormed(P[x])
  BY PoolTyped
<1>3. HasSamples(P)
  BY SignalSampled DEF HasSamples
<1>4. Window(rs, Kept(rs)) = Window(qs, Kept(qs))
  BY TurnedWindow
<1> DEFINE window == Window(rs, Kept(rs))
<1>5. GoodputOfRuns(rs, c) = Goodput(P, c.slo, window) /\ GoodputOfRuns(qs, c) = Goodput(Q, c.slo, window)
  BY <1>4 DEF GoodputOfRuns
<1>6. /\ CostOfRuns(rs, c) = ComputeCost(c.cost, window, Cardinality(WithStatus(P, "ok")),
                                          InputTokens(P) + OutputTokens(P), OutputTokens(P))
      /\ CostOfRuns(qs, c) = ComputeCost(c.cost, window, Cardinality(WithStatus(Q, "ok")),
                                          InputTokens(Q) + OutputTokens(Q), OutputTokens(Q))
  BY <1>4 DEF CostOfRuns
<1> HIDE DEF P, Q, t, window
<1>7. InputTokens(P) = InputTokens(Q) /\ OutputTokens(P) = OutputTokens(Q)
  BY <1>1, <1>2, SameTokens
<1>8. /\ Cardinality(DOMAIN P) = Cardinality(DOMAIN Q)
      /\ \A s : /\ Cardinality(WithStatus(P, s)) = Cardinality(WithStatus(Q, s))
                /\ WithStatus(P, s) = {} <=> WithStatus(Q, s) = {}
      /\ Streaming(P) = {} <=> Streaming(Q) = {}
      /\ SummaryOnly(P) = {} <=> SummaryOnly(Q) = {}
  BY <1>1, <1>2, SameCounts
<1>9. Goodput(P, c.slo, window) = Goodput(Q, c.slo, window)
  BY <1>1, <1>2, SameGoodput
<1>10. /\ Withholding(P, c) = Withholding(Q, c)
       /\ LatencyOf(P, c) = LatencyOf(Q, c)
       /\ TablesRefused(P, c) <=> TablesRefused(Q, c)
  BY <1>1, <1>2, <1>3, SameLatency
<1>11. CostOfRuns(rs, c) = CostOfRuns(qs, c)
  BY <1>6, <1>7, <1>8
<1> QED
  BY <1>4, <1>5, <1>7, <1>8, <1>9, <1>10, <1>11 DEF P, Q

\* The median and the range of the parts of a pool do not depend on the names
\* of its samples, nor on those of the parts.
LEMMA SameDispersion ==
  ASSUME NEW f, NEW P, NEW Q, SamePool(f, P, Q), IsPool(P), NEW kp, NEW kq,
         \A x, y \in DOMAIN P : kp[x] = kp[y] <=> kq[f[x]] = kq[f[y]]
  PROVE  LET c == Dispersion(P, kp)
             d == Dispersion(Q, kq)
         IN  c.median = d.median /\ c.min = d.min /\ c.max = d.max
<1> DEFINE K == {kp[x] : x \in DOMAIN P}
           L == {kq[y] : y \in DOMAIN Q}
           partP(k) == [x \in {y \in DOMAIN P : kp[y] = k} |-> P[x]]
           partQ(k) == [x \in {y \in DOMAIN Q : kq[y] = k} |-> Q[x]]
           p == [k \in K |-> Quantile(partP(k), 500)]
           q == [k \in L |-> Quantile(partQ(k), 500)]
           w(k) == CHOOSE x \in DOMAIN P : kp[x] = k
           g == [k \in K |-> kq[f[w(k)]]]
<1>1. /\ IsFiniteSet(DOMAIN P) /\ DOMAIN P # {} /\ \A x \in DOMAIN P : P[x] \in Int
      /\ Matches(f, DOMAIN P, DOMAIN Q) /\ \A x \in DOMAIN P : Q[f[x]] = P[x]
  BY DEF IsPool, SamePool
<1>2. /\ \A x \in DOMAIN P : f[x] \in DOMAIN Q
      /\ \A y \in DOMAIN Q : \E x \in DOMAIN P : f[x] = y
  BY <1>1 DEF Matches
<1>3. ASSUME NEW x \in DOMAIN P PROVE g[kp[x]] = kq[f[x]]
  <2>1. w(kp[x]) \in DOMAIN P /\ kp[w(kp[x])] = kp[x]
    OBVIOUS
  <2> QED
    BY <2>1
<1>4. IsFiniteSet(K) /\ K # {}
  <2> DEFINE h == [x \in DOMAIN P |-> kp[x]]
             D == DOMAIN P
  <2>1. K = {h[x] : x \in D}
    OBVIOUS
  <2> HIDE DEF h, D
  <2>2. IsFiniteSet({h[x] : x \in D})
    BY <1>1, ImageFinite DEF D
  <2>3. D # {} => K # {}
    BY <2>1
  <2> QED
    BY <1>1, <2>1, <2>2, <2>3 DEF D
<1> HIDE DEF g, w
<1>5. Matches(g, K, L)
  <2>1. \A k \in K : g[k] \in L
    BY <1>2, <1>3
  <2>2. ASSUME NEW k \in K, NEW l \in K, g[k] = g[l] PROVE k = l
    BY <1>3, <2>2
  <2>3. ASSUME NEW l \in L PROVE \E k \in K : g[k] = l
    BY <1>2, <1>3
  <2> QED
    BY <2>1, <2>2, <2>3 DEF Matches
<1>6. 500 \in Thousandths
  BY DEF Thousandths
<1>7. ASSUME NEW k \in K
      PROVE  IsPool(partP(k)) /\ Quantile(partP(k), 500) = Quantile(partQ(g[k]), 500)
  <2> DEFINE A == {y \in DOMAIN P : kp[y] = k}
             B == {y \in DOMAIN Q : kq[y] = g[k]}
             a == partP(k)
             b == partQ(g[k])
  <2>1. PICK z \in DOMAIN P : kp[z] = k
    OBVIOUS
  <2>2. \A x \in DOMAIN P : x \in A <=> f[x] \in B
    BY <1>2, <1>3, <2>1
  <2>3. A \subseteq DOMAIN P /\ B \subseteq DOMAIN Q /\ z \in A
    BY <2>1
  <2>4. /\ DOMAIN a = A /\ \A x \in A : a[x] = P[x]
        /\ DOMAIN b = B /\ \A x \in B : b[x] = Q[x]
    OBVIOUS
  <2> HIDE DEF A, B, a, b
  <2>5. Matches(f, A, B) /\ IsFiniteSet(A)
    BY <1>1, <2>2, <2>3, SamePart
  <2>6. IsPool(a)
    BY <1>1, <2>3, <2>4, <2>5 DEF IsPool
  <2>7. SamePool(f, a, b)
    BY <1>1, <2>2, <2>3, <2>4, <2>5 DEF SamePool
  <2>8. Quantile(a, 500) = Quantile(b, 500)
    BY <1>6, <2>6, <2>7, SameQuantile
  <2> QED
    BY <2>6, <2>8 DEF a, b
<1>8. DOMAIN p = K /\ DOMAIN q = L /\ \A k \in K : p[k] \in Int /\ q[g[k]] = p[k]
  <2>1. ASSUME NEW k \in K PROVE Quantile(partP(k), 500) \in Int
    <3>1. IsPool(partP(k))
      BY <1>7
    <3> HIDE DEF partP
    <3> QED
      BY <1>6, <3>1, Interpolated DEF Interpolates
  <2>2. \A k \in K : g[k] \in L
    BY <1>5 DEF Matches
  <2> HIDE DEF partP, partQ, K, L
  <2> QED
    BY <1>7, <2>1, <2>2
<1>9. /\ Dispersion(P, kp).median = Quantile(p, 500) /\ Dispersion(Q, kq).median = Quantile(q, 500)
      /\ Dispersion(P, kp).min = MinOf(Values(p)) /\ Dispersion(Q, kq).min = MinOf(Values(q))
      /\ Dispersion(P, kp).max = MaxOf(Values(p)) /\ Dispersion(Q, kq).max = MaxOf(Values(q))
  BY DEF Dispersion
<1> HIDE DEF p, q, K, L, partP, partQ
<1>10. IsPool(p) /\ SamePool(g, p, q)
  BY <1>4, <1>5, <1>8 DEF IsPool, SamePool
<1>11. Quantile(p, 500) = Quantile(q, 500) /\ Values(p) = Values(q)
  BY <1>6, <1>10, SameQuantile, SameValues
<1> QED
  BY <1>9, <1>11

\* The dispersion of the two signals that have one.
Dispersions(rs, pool) ==
  LET key == [x \in DOMAIN pool |-> RepKey(rs, x)]
  IN  [ttft_seconds |-> Dispersion(TtftPool(pool), key),
       e2e_duration_seconds |-> Dispersion(E2EPool(pool), key)]

LEMMA TurnedDispersion ==
  ASSUME NEW rs \in Seq(Loadable), rs # <<>>, Poolable(rs), ~NoSamples(PoolOf(rs))
  PROVE  Spread(Dispersions(rs, PoolOf(rs))) = Spread(Dispersions(Turned(rs), PoolOf(Turned(rs))))
<1> DEFINE qs == Turned(rs)
           t == Turn(rs)
           P == PoolOf(rs)
           Q == PoolOf(qs)
           kp == [x \in DOMAIN P |-> RepKey(rs, x)]
           kq == [x \in DOMAIN Q |-> RepKey(qs, x)]
<1>1. SamePool(t, P, Q)
  BY TurnedPool
<1>2. HasSamples(P)
  BY SignalSampled DEF HasSamples
<1>3. DOMAIN P \subseteq Names(rs)
  BY PoolFacts
<1>4. \A x, y \in Names(rs) : RepKey(rs, x) = RepKey(rs, y) <=> RepKey(qs, t[x]) = RepKey(qs, t[y])
  BY TurnedNames
<1>5. \A x \in DOMAIN P : t[x] \in DOMAIN Q
  BY <1>1 DEF SamePool, Matches
<1>6. \A x, y \in DOMAIN P : kp[x] = kp[y] <=> kq[t[x]] = kq[t[y]]
  BY <1>3, <1>4, <1>5
<1>7. /\ SamePool(t, TtftPool(P), TtftPool(Q)) /\ SamePool(t, E2EPool(P), E2EPool(Q))
      /\ DOMAIN TtftPool(P) \subseteq DOMAIN P /\ DOMAIN E2EPool(P) \subseteq DOMAIN P
  BY <1>1, SameSignals DEF TtftPool, E2EPool, WithStatus
<1>8. IsPool(TtftPool(P)) /\ IsPool(E2EPool(P))
  <2>1. /\ "ttft_seconds" \in DOMAIN Pools(P) /\ Pools(P)["ttft_seconds"] = TtftPool(P)
        /\ "e2e_duration_seconds" \in DOMAIN Pools(P) /\ Pools(P)["e2e_duration_seconds"] = E2EPool(P)
    BY DEF Pools
  <2>2. DOMAIN TtftPool(P) # {} /\ DOMAIN E2EPool(P) # {}
    BY DEF NoSamples
  <2> HIDE DEF P
  <2> QED
    BY <1>2, <2>1, <2>2 DEF HasSamples, IsPool
<1> DEFINE ttft(pool, key) == Dispersion(TtftPool(pool), key)
           e2e(pool, key) == Dispersion(E2EPool(pool), key)
<1> HIDE DEF qs, t, P, Q, kp, kq
<1>9. /\ ttft(P, kp).median = ttft(Q, kq).median
      /\ ttft(P, kp).min = ttft(Q, kq).min /\ ttft(P, kp).max = ttft(Q, kq).max
  BY <1>6, <1>7, <1>8, SameDispersion
<1>10. /\ e2e(P, kp).median = e2e(Q, kq).median
       /\ e2e(P, kp).min = e2e(Q, kq).min /\ e2e(P, kp).max = e2e(Q, kq).max
  BY <1>6, <1>7, <1>8, SameDispersion
<1>11. /\ Dispersions(rs, P) = [ttft_seconds |-> ttft(P, kp), e2e_duration_seconds |-> e2e(P, kp)]
       /\ Dispersions(qs, Q) = [ttft_seconds |-> ttft(Q, kq), e2e_duration_seconds |-> e2e(Q, kq)]
  BY DEF Dispersions, kp, kq
<1> HIDE DEF ttft, e2e
<1> DEFINE S == {"ttft_seconds", "e2e_duration_seconds"}
           dp == Dispersions(rs, P)
           dq == Dispersions(qs, Q)
<1>12. /\ DOMAIN dp = S /\ DOMAIN dq = S
       /\ dp["ttft_seconds"] = ttft(P, kp) /\ dp["e2e_duration_seconds"] = e2e(P, kp)
       /\ dq["ttft_seconds"] = ttft(Q, kq) /\ dq["e2e_duration_seconds"] = e2e(Q, kq)
  BY <1>11
<1> HIDE DEF dp, dq
<1>13. \A s \in S : dp[s].median = dq[s].median /\ dp[s].min = dq[s].min /\ dp[s].max = dq[s].max
  BY <1>9, <1>10, <1>12
<1>14. Spread(dp) = Spread(dq)
  <2>1. \A s \in S : <<dp[s].median, dp[s].min, dp[s].max>> = <<dq[s].median, dq[s].min, dq[s].max>>
    BY <1>13
  <2> QED
    BY <1>12, <2>1 DEF Spread
<1> QED
  BY <1>14 DEF dp, dq, P, Q, qs

LEMMA TurnedAnalysis ==
  ASSUME NEW rs \in Seq(Loadable), rs # <<>>, Poolable(rs), NEW c
  PROVE  SameFigures(Analyze(rs, c), Analyze(Turned(rs), c))
<1> DEFINE qs == Turned(rs)
           P == PoolOf(rs)
           Q == PoolOf(qs)
           window == Window(rs, Kept(rs))
           goodput == GoodputOfRuns(rs, c)
           cost == CostOfRuns(rs, c)
           there == Analyze(rs, c)
           back == Analyze(qs, c)
           first == Assemble(rs, c, P, WarmupReport(rs), goodput.value, cost.value)
           second == Assemble(qs, c, Q, WarmupReport(qs), goodput.value, cost.value)
<1>1. /\ Poolable(qs) /\ (DuplicateIds(rs) <=> DuplicateIds(qs))
      /\ ApplyWarmup(rs).error = ApplyWarmup(qs).error
      /\ WarmupReport(rs).policy = WarmupReport(qs).policy
  BY TurnedVerdicts
<1>2. /\ there = IF DuplicateIds(rs) THEN Refuse("ResultNotExpressibleError")
                 ELSE IF ApplyWarmup(rs).error # "none" THEN ApplyWarmup(rs) ELSE Outcome(rs, c)
      /\ back = IF DuplicateIds(qs) THEN Refuse("ResultNotExpressibleError")
                ELSE IF ApplyWarmup(qs).error # "none" THEN ApplyWarmup(qs) ELSE Outcome(qs, c)
  BY <1>1, AnalyzeOutcome
<1>3. /\ window = Window(qs, Kept(qs)) /\ goodput = GoodputOfRuns(qs, c) /\ cost = CostOfRuns(qs, c)
      /\ TablesRefused(P, c) <=> TablesRefused(Q, c)
      /\ LatencyOf(P, c) = LatencyOf(Q, c)
      /\ Withholding(P, c) = Withholding(Q, c)
      /\ OutputTokens(P) = OutputTokens(Q)
      /\ Cardinality(DOMAIN P) = Cardinality(DOMAIN Q)
      /\ \A s : /\ Cardinality(WithStatus(P, s)) = Cardinality(WithStatus(Q, s))
                /\ WithStatus(P, s) = {} <=> WithStatus(Q, s) = {}
      /\ Streaming(P) = {} <=> Streaming(Q) = {}
      /\ SummaryOnly(P) = {} <=> SummaryOnly(Q) = {}
  BY TurnedPieces
<1>4. Repetitions(rs) = Repetitions(qs)
  BY TurnedRepetitions
<1>5. /\ DOMAIN P = Kept(rs) /\ DOMAIN Q = Kept(qs)
  BY PoolFacts
<1>6. /\ Outcome(rs, c) = FirstRefusal(rs, c, P, WarmupReport(rs), window, goodput, cost)
      /\ Outcome(qs, c) = FirstRefusal(qs, c, Q, WarmupReport(qs), window, goodput, cost)
  BY <1>3 DEF Outcome
<1> HIDE DEF qs, P, Q, window, goodput, cost, there, back
<1>7. \/ /\ Outcome(rs, c) = Outcome(qs, c) /\ Outcome(rs, c).error # "none"
      \/ Outcome(rs, c) = Ok(first) /\ Outcome(qs, c) = Ok(second)
  <2> HIDE DEF first, second
  <2>1. CASE window = 0
    <3>1. /\ Outcome(rs, c) = Refuse("ZeroDivisionError")
          /\ Outcome(qs, c) = Refuse("ZeroDivisionError")
      BY <1>6, <2>1 DEF FirstRefusal
    <3> QED
      BY <3>1 DEF Refuse
  <2>2. CASE window # 0 /\ TablesRefused(P, c)
    <3>1. /\ Outcome(rs, c) = Refuse("EmptyPoolError")
          /\ Outcome(qs, c) = Refuse("EmptyPoolError")
      BY <1>3, <1>6, <2>2 DEF FirstRefusal
    <3> QED
      BY <3>1 DEF Refuse
  <2>3. CASE window # 0 /\ ~TablesRefused(P, c)
    <3>1. Outcome(rs, c) = IF goodput.error # "none" THEN goodput
                           ELSE IF cost.error # "none" THEN cost ELSE Ok(first)
      BY <1>6, <2>3 DEF FirstRefusal, first
    <3>2. Outcome(qs, c) = IF goodput.error # "none" THEN goodput
                           ELSE IF cost.error # "none" THEN cost ELSE Ok(second)
      BY <1>3, <1>6, <2>3 DEF FirstRefusal, second
    <3> QED
      BY <3>1, <3>2
  <2> QED
    BY <2>1, <2>2, <2>3
<1>8. Threats(P, c, Repetitions(rs), cost.value, WarmupReport(rs).policy)
        = Threats(Q, c, Repetitions(qs), cost.value, WarmupReport(qs).policy)
  BY <1>1, <1>3, <1>4 DEF Threats
<1>9. \A figure \in {"throughput", "window", "latency", "goodput", "cost", "run_count",
                     "threats", "pooled", "error_rate", "shed_rate"} :
        first[figure] = second[figure]
  <2>1. window = Window(rs, DOMAIN P) /\ window = Window(qs, DOMAIN Q)
    BY <1>3, <1>5 DEF window
  <2>2. first.throughput = second.throughput /\ first.window = second.window
    BY <1>3, <2>1 DEF Assemble
  <2>3. /\ first.latency = second.latency /\ first.goodput = second.goodput
        /\ first.cost = second.cost /\ first.run_count = second.run_count
    BY <1>3, <1>4 DEF Assemble
  <2>4. first.threats = second.threats
    BY <1>8 DEF Assemble
  <2>5. /\ first.pooled = second.pooled /\ first.error_rate = second.error_rate
        /\ first.shed_rate = second.shed_rate
    BY <1>3 DEF Assemble
  <2> HIDE DEF first, second
  <2> QED
    BY <2>2, <2>3, <2>4, <2>5
<1>10. ASSUME first.latency.kind = "tables", first.run_count > 1
       PROVE  Spread(first.dispersion) = Spread(second.dispersion)
  <2>1. /\ first.latency = LatencyOf(P, c) /\ second.latency = LatencyOf(Q, c)
        /\ first.run_count = Repetitions(rs) /\ second.run_count = Repetitions(qs)
    BY DEF Assemble
  <2>2. /\ first.dispersion = IF first.latency.kind = "tables" /\ first.run_count > 1
                              THEN Dispersions(rs, P) ELSE None
        /\ second.dispersion = IF second.latency.kind = "tables" /\ second.run_count > 1
                               THEN Dispersions(qs, Q) ELSE None
    BY DEF Assemble, Dispersions
  <2> HIDE DEF first, second
  <2>3. first.dispersion = Dispersions(rs, P) /\ second.dispersion = Dispersions(qs, Q)
    BY <1>3, <1>4, <1>10, <2>1, <2>2
  <2>4. ~NoSamples(P)
    <3>1. LatencyOf(P, c).kind = "tables"
      BY <1>10, <2>1
    <3>2. Withholding(P, c) = "none"
      BY <3>1 DEF LatencyOf, Withholding
    <3> QED
      BY <3>2 DEF Withholding
  <2> QED
    BY <2>3, <2>4, TurnedDispersion DEF P, Q, qs
<1> HIDE DEF first, second
<1>11. Ok(first).error = "none" /\ Ok(first).value = first /\ Ok(second).error = "none" /\ Ok(second).value = second
  BY DEF Ok
<1>12. CASE DuplicateIds(rs) \/ ApplyWarmup(rs).error # "none"
  <2>1. there.error = back.error /\ there.error # "none"
    BY <1>1, <1>2, <1>12 DEF Refuse
  <2> QED
    BY <2>1 DEF SameFigures, there, back, qs
<1>13. CASE ~DuplicateIds(rs) /\ ApplyWarmup(rs).error = "none"
  <2>1. there = Outcome(rs, c) /\ back = Outcome(qs, c)
    BY <1>1, <1>2, <1>13
  <2>2. SameFigures(there, back)
    BY <1>7, <1>9, <1>11, <1>10, <2>1 DEF SameFigures
  <2> QED
    BY <2>2 DEF there, back, qs
<1> QED
  BY <1>12, <1>13

LEMMA LineageOrder == LineageInv => OrderIndependent
<1> SUFFICES ASSUME LineageInv, LoadDone PROVE OrderIndependent
  BY DEF OrderIndependent
<1> DEFINE qs == Turned(runs)
           c == cmd.config
<1>1. runs \in Seq(Loadable) /\ runs # <<>>
  BY DEF LineageInv, LoadDone
<1>2. qs \in Seq(Loadable) /\ qs # <<>> /\ Turned(qs) = runs
  <2> DEFINE n == Len(runs)
  <2>1. /\ qs \in Seq(Loadable) /\ qs # <<>>
        /\ n \in Nat /\ DOMAIN runs = 1..n /\ DOMAIN qs = 1..n /\ Len(qs) = n
        /\ \A i \in 1..n : runs[i] = qs[n + 1 - i]
    BY <1>1, TurnedRuns
  <2>2. runs \in [1..n -> Loadable]
    BY <1>1, <2>1, LenProperties
  <2>3. Turned(qs) = [i \in 1..n |-> qs[n + 1 - i]]
    BY <2>1 DEF Turned
  <2> HIDE DEF n, qs
  <2>4. runs = [i \in 1..n |-> qs[n + 1 - i]]
    BY <2>1, <2>2
  <2> QED
    BY <2>1, <2>3, <2>4
<1>3. qs = [i \in DOMAIN runs |-> runs[Len(runs) + 1 - i]]
  BY DEF Turned
<1> HIDE DEF qs
<1>4. CASE Poolable(runs)
  <2>1. SameFigures(Analyze(runs, c), Analyze(qs, c))
    BY <1>1, <1>4, TurnedAnalysis DEF qs
  <2> QED
    BY <1>3, <2>1 DEF OrderIndependent
<1>5. CASE ~Poolable(runs)
  <2>1. ~Poolable(qs)
    BY <1>2, <1>5, TurnedVerdicts
  <2>2. Analyze(runs, c) = Refuse("ComparabilityError") /\ Analyze(qs, c) = Refuse("ComparabilityError")
    BY <1>5, <2>1, AnalyzeOutcome
  <2>3. SameFigures(Analyze(runs, c), Analyze(qs, c))
    BY <2>2 DEF SameFigures, Refuse
  <2> QED
    BY <1>3, <2>3 DEF OrderIndependent
<1> QED
  BY <1>4, <1>5

\* Whatever run set a command has loaded, naming its directories in the
\* opposite order changes neither the verdict nor an exact figure of the
\* analysis - window, throughput, tables, spread of the repetitions, goodput,
\* rates, cost, threats - although the warm-up policy and the keys to agree on
\* are those of the first run, and the figures are sums and ranks over pools
\* whose samples then bear other names (events.py:169-185, warmup.py).  Nothing
\* is said of the confidence intervals, which depend on the order of a pool
\* (percentiles.py:119-135).
THEOREM OrderDoesNotMatter == Spec => []OrderIndependent
BY LineageInvariant, LineageOrder, PTL

=============================================================================
