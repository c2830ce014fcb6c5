--------------------------- MODULE CampaignProofs ---------------------------
(***************************************************************************)
(* Proofs about module Campaign, for every number of points, repetitions,  *)
(* requests and starts: what the loader accepts comes from one execution,  *)
(* a campaign that reports success left complete runs of its own, and its  *)
(* summary says what is in the directories it lists.                       *)
(***************************************************************************)
EXTENDS Campaign, FiniteSetTheorems, SequenceTheorems, TLAPS

-----------------------------------------------------------------------------
(* The lines of one execution of a repetition.                             *)

LineOf(d, c, i) ==
  [kind |-> "event",
   event |-> [run_id |-> d, repetition |-> d[2], campaign |-> c, number |-> i]]

LinesOf(d, c) == {LineOf(d, c, i) : i \in 1..Planned} \cup {Torn}

\* The first events of campaign c in directory d, the last perhaps cut short.
Recorded(d, lines, c) ==
  /\ lines \in Seq(LinesOf(d, c))
  /\ Len(lines) <= Planned
  /\ \A i \in 1..Len(lines) : lines[i] = LineOf(d, c, i) \/ (i = Len(lines) /\ lines[i] = Torn)

\* All of them, whole.
Full(d, lines, c) ==
  /\ Recorded(d, lines, c)
  /\ Len(lines) = Planned
  /\ \A i \in 1..Planned : lines[i] = LineOf(d, c, i)

LEMMA Positive ==
  /\ Points \in Nat \ {0} /\ Repetitions \in Nat \ {0} /\ Planned \in Nat \ {0}
  /\ FactsRepetitions \in Nat
  /\ <<1, 1>> \in Places /\ <<Points, Repetitions>> \in Places
<1>1. /\ Points \in Nat \ {0} /\ Repetitions \in Nat \ {0} /\ Planned \in Nat \ {0}
      /\ FactsRepetitions \in Nat
  BY CampaignAssumption DEF CampaignAssumption
<1>2. 1 \in 1..Points /\ 1 \in 1..Repetitions /\ Points \in 1..Points /\ Repetitions \in 1..Repetitions
  BY <1>1
<1> QED
  BY <1>1, <1>2 DEF Places

LEMMA LineIsNotTorn == \A d, c, i : LineOf(d, c, i) # Torn
BY DEF LineOf, Torn

LEMMA LineFields ==
  ASSUME NEW d, NEW c, NEW i
  PROVE  /\ LineOf(d, c, i).kind = "event"
         /\ LineOf(d, c, i).event.run_id = d
         /\ LineOf(d, c, i).event.repetition = d[2]
         /\ LineOf(d, c, i).event.campaign = c
         /\ LineOf(d, c, i).event.number = i
BY DEF LineOf

LEMMA EmptyRecorded == ASSUME NEW d, NEW c PROVE Recorded(d, <<>>, c)
BY EmptySeq, CampaignAssumption DEF Recorded, CampaignAssumption

LEMMA WholeRecorded ==
  ASSUME NEW d, NEW c, NEW lines, Recorded(d, lines, c)
  PROVE  /\ Whole(lines) \in Seq(LinesOf(d, c))
         /\ Len(Whole(lines)) \in 0..Planned
         /\ \A i \in 1..Len(Whole(lines)) : Whole(lines)[i] = LineOf(d, c, i)
         /\ Complete(lines) => Full(d, lines, c)
<1> DEFINE n == Len(lines)
<1>1. lines \in Seq(LinesOf(d, c)) /\ n \in Nat /\ n <= Planned /\ Planned \in Nat \ {0}
  BY LenProperties, CampaignAssumption DEF Recorded, CampaignAssumption
<1>2. CASE lines # <<>> /\ lines[n] = Torn
  <2>1. n \in Nat \ {0}
    BY <1>1, <1>2, EmptySeq
  <2>2. Whole(lines) = SubSeq(lines, 1, n - 1)
    BY <1>2 DEF Whole
  <2>3. /\ SubSeq(lines, 1, n - 1) \in Seq(LinesOf(d, c))
        /\ Len(SubSeq(lines, 1, n - 1)) = n - 1
        /\ \A i \in 1..(n - 1) : SubSeq(lines, 1, n - 1)[i] = lines[i]
    <3>1. n - 1 \in Int /\ 1 \in Int
      BY <2>1
    <3>2. \A i \in 1..(n - 1) : lines[i] \in LinesOf(d, c)
      BY <1>1, <2>1, ElementOfSeq
    <3>3. /\ SubSeq(lines, 1, n - 1) \in Seq(LinesOf(d, c))
          /\ Len(SubSeq(lines, 1, n - 1)) = IF 1 <= n - 1 THEN (n - 1) - 1 + 1 ELSE 0
          /\ \A i \in 1..((n - 1) - 1 + 1) : SubSeq(lines, 1, n - 1)[i] = lines[1 + i - 1]
      BY <3>1, <3>2, SubSeqProperties
    <3> DEFINE cut == SubSeq(lines, 1, n - 1)
    <3> HIDE DEF n, cut
    <3>4. Len(cut) = n - 1
      BY <2>1, <3>3 DEF cut
    <3>5. (n - 1) - 1 + 1 = n - 1 /\ \A i \in 1..(n - 1) : 1 + i - 1 = i
      BY <2>1
    <3>6. \A i \in 1..(n - 1) : cut[i] = lines[i]
      BY <3>3, <3>5 DEF cut
    <3> QED
      BY <3>3, <3>4, <3>6 DEF cut
  <2>4. \A i \in 1..(n - 1) : lines[i] = LineOf(d, c, i)
    BY <1>1, <2>1 DEF Recorded
  <2>5. ~Complete(lines)
    BY <1>1, <2>1, <2>2, <2>3 DEF Complete
  <2>6. Len(Whole(lines)) = n - 1 /\ n - 1 \in 0..Planned
    BY <1>1, <2>1, <2>2, <2>3
  <2>7. \A i \in 1..(n - 1) : Whole(lines)[i] = LineOf(d, c, i)
    BY <2>2, <2>3, <2>4
  <2>8. Whole(lines) \in Seq(LinesOf(d, c))
    BY <2>2, <2>3
  <2> HIDE DEF n
  <2> QED
    BY <2>5, <2>6, <2>7, <2>8
<1>3. CASE ~(lines # <<>> /\ lines[n] = Torn)
  <2>1. Whole(lines) = lines
    BY <1>3 DEF Whole
  <2>2. \A i \in 1..n : lines[i] = LineOf(d, c, i)
    BY <1>1, <1>3, EmptySeq DEF Recorded
  <2>3. Complete(lines) => n = Planned
    BY <1>1, <2>1 DEF Complete
  <2> QED
    BY <1>1, <2>1, <2>2, <2>3 DEF Full
<1> QED
  BY <1>2, <1>3

LEMMA SpillRecorded ==
  ASSUME NEW d, NEW c, NEW lines, Recorded(d, lines, c), Len(Whole(lines)) < Planned,
         NEW line \in {LineOf(d, c, Len(Whole(lines)) + 1), Torn}
  PROVE  Recorded(d, Append(Whole(lines), line), c)
<1> DEFINE whole == Whole(lines)
           k == Len(whole)
           longer == Append(whole, line)
<1>1. /\ whole \in Seq(LinesOf(d, c)) /\ k \in Nat /\ k < Planned /\ Planned \in Nat
      /\ \A i \in 1..k : whole[i] = LineOf(d, c, i)
  BY WholeRecorded, CampaignAssumption DEF CampaignAssumption
<1>2. line \in LinesOf(d, c)
  BY <1>1 DEF LinesOf
<1> HIDE DEF whole
<1>3. /\ longer \in Seq(LinesOf(d, c)) /\ Len(longer) = k + 1
      /\ \A i \in 1..k : longer[i] = whole[i]
      /\ longer[k + 1] = line
  BY <1>1, <1>2, AppendProperties
<1>4. \A i \in 1..(k + 1) : longer[i] = LineOf(d, c, i) \/ (i = k + 1 /\ longer[i] = Torn)
  BY <1>1, <1>3 DEF whole
<1>5. Recorded(d, longer, c)
  BY <1>1, <1>3, <1>4 DEF Recorded
<1> QED
  BY <1>5 DEF whole

LEMMA FlushRecorded ==
  ASSUME NEW d, NEW c, NEW k \in 0..Planned
  PROVE  Recorded(d, [i \in 1..k |-> LineOf(d, c, i)], c)
<1> DEFINE lines == [i \in 1..k |-> LineOf(d, c, i)]
<1>1. Planned \in Nat /\ k \in Nat
  BY CampaignAssumption DEF CampaignAssumption
<1>2. lines \in [1..k -> LinesOf(d, c)]
  BY <1>1 DEF LinesOf
<1>3. lines \in Seq(LinesOf(d, c)) /\ Len(lines) = k
  BY <1>1, <1>2, SeqDef
<1> QED
  BY <1>1, <1>3 DEF Recorded

-----------------------------------------------------------------------------
(* The inductive invariant.                                                *)

Files == {"absent", "torn", "valid"}
Manifests == [run_id : Places, repetitions : Nat, campaign : Nat]
AnyLine ==
  [kind : {"event"},
   event : [run_id : Places, repetition : Nat, campaign : Nat, number : Nat]] \cup {Torn}
RunDirs == [manifest_file : Files, manifest : Manifests \cup {None},
            events_file : Files, lines : Seq(AnyLine)]

Working == {"probe", "prepare", "manifest", "reference", "run"}

Before(d, e) == d[1] < e[1] \/ (d[1] = e[1] /\ d[2] < e[2])
Done(d) == <<campaign, d, "completed">> \in ended

\* How a repetition ends.
Ways == {"refused", "aborted", "completed"}

TypeInv ==
  /\ dirs \in [Places -> RunDirs]
  /\ campaign \in Nat
  /\ step \in Working \cup {"idle", "summary", "record"}
  /\ at \in Places
  /\ \A c \in Nat, d \in Places, how \in Ways : <<c, d, how>> \in ended => c <= campaign

\* A directory holds one execution, of a campaign no later than its
\* manifest's, and of the manifest's own if that one completed here.
OneExecution(d, dir) ==
  LET own == dir.manifest
      listed == dir.manifest_file = "valid"
  IN  /\ listed => own \in Manifests /\ own.run_id = d /\ own.campaign <= campaign
                   /\ own.repetitions = FactsRepetitions
      /\ \E c \in 0..campaign :
           /\ Recorded(d, dir.lines, c)
           /\ listed => c <= own.campaign
           /\ listed /\ <<own.campaign, d, "completed">> \in ended => c = own.campaign

DirInv == \A d \in Places : OneExecution(d, dirs[d])

\* What the step at hand has left in the directory at hand.
StepInv ==
  /\ step = "probe" => at = <<1, 1>>
  /\ step \in {"reference", "run"} =>
       dirs[at].manifest_file = "valid" /\ dirs[at].manifest.campaign = campaign
  /\ step = "run" =>
       dirs[at].events_file = "valid" /\ Recorded(at, dirs[at].lines, campaign)

\* The repetitions complete in their order, and stay complete.
DoneInv ==
  /\ step \in Working => \A d \in Places : Done(d) => Before(d, at)
  /\ step \in Working => \A d \in Places : Before(d, at) => Done(d)
  /\ \A d, e \in Places : Done(d) /\ Before(e, d) => Done(e)
  /\ \A d \in Places : Done(d) =>
       /\ dirs[d].manifest_file = "valid" /\ dirs[d].events_file = "valid"
       /\ dirs[d].manifest.campaign = campaign
       /\ Full(d, dirs[d].lines, campaign)
  /\ outcome = "ok" => Done(<<Points, Repetitions>>)

CampaignInv == TypeInv /\ DirInv /\ StepInv /\ DoneInv

LEMMA LinesType ==
  ASSUME NEW d \in Places, NEW c \in Nat, NEW lines \in Seq(LinesOf(d, c))
  PROVE  lines \in Seq(AnyLine)
<1>1. d[2] \in Nat /\ Planned \in Nat
  BY Positive DEF Places
<1>2. \A i \in 1..Planned : LineOf(d, c, i) \in AnyLine
  BY <1>1 DEF LineOf, AnyLine
<1>3. LinesOf(d, c) \subseteq AnyLine
  BY <1>2 DEF LinesOf, AnyLine
<1> QED
  BY <1>3, SeqMonotonic

LEMMA CampaignInit == Init => CampaignInv
<1> SUFFICES ASSUME Init PROVE CampaignInv
  OBVIOUS
<1>1. <<>> \in Seq(AnyLine)
  BY EmptySeq
<1>2. TypeInv
  BY <1>1, Positive DEF Init, TypeInv, RunDirs, Files, Working
<1>3. \A d \in Places : dirs[d].manifest_file = "absent" /\ dirs[d].lines = <<>>
  BY DEF Init
<1>4. campaign = 0 /\ ended = {} /\ step = "idle" /\ outcome = "none"
  BY DEF Init
<1>5. DirInv
  BY <1>3, <1>4, EmptyRecorded DEF DirInv, OneExecution
<1>6. StepInv /\ DoneInv
  BY <1>4 DEF StepInv, DoneInv, Done, Working
<1> QED
  BY <1>2, <1>5, <1>6 DEF CampaignInv

\* A step that leaves the directories and the history alone.
LEMMA Bystander ==
  ASSUME CampaignInv, UNCHANGED <<dirs, campaign, at, ended>>,
         step' \in {"idle", "summary", "record"} \/ (step = "probe" /\ step' = "prepare"),
         outcome' = "ok" => outcome = "ok" \/ Done(<<Points, Repetitions>>)
  PROVE  CampaignInv'
<1>1. TypeInv'
  BY DEF CampaignInv, TypeInv, Working
<1>2. DirInv'
  BY DEF CampaignInv, DirInv, OneExecution
<1>3. StepInv'
  BY DEF CampaignInv, StepInv
<1>4. \A d \in Places : Done(d)' <=> Done(d)
  BY DEF Done
<1>5. step' \in Working => step \in Working
  BY DEF Working
<1>6. /\ step' \in Working => \A d \in Places : Done(d)' => Before(d, at)'
      /\ step' \in Working => \A d \in Places : Before(d, at)' => Done(d)'
  BY <1>4, <1>5 DEF CampaignInv, DoneInv, Before
<1>7. \A d, e \in Places : Done(d)' /\ Before(e, d)' => Done(e)'
  BY <1>4 DEF CampaignInv, DoneInv, Before
<1>8. outcome' = "ok" => Done(<<Points, Repetitions>>)'
  BY DEF CampaignInv, DoneInv, Done
<1>9. \A d \in Places : Done(d)' =>
       /\ dirs'[d].manifest_file = "valid" /\ dirs'[d].events_file = "valid"
       /\ dirs'[d].manifest.campaign = campaign'
       /\ Full(d, dirs'[d].lines, campaign')
  BY <1>4 DEF CampaignInv, DoneInv
<1>10. DoneInv'
  BY <1>6, <1>7, <1>8, <1>9 DEF DoneInv
<1> QED
  BY <1>1, <1>2, <1>3, <1>10 DEF CampaignInv

\* A step of runOnce: it touches only the directory at hand, whose repetition
\* has not completed, and completes nothing.
LEMMA InPlace ==
  ASSUME CampaignInv, step \in Working,
         UNCHANGED <<campaign, at, outcome>>,
         dirs' \in [Places -> RunDirs],
         \A d \in Places \ {at} : dirs'[d] = dirs[d],
         \A c, d : <<c, d, "completed">> \in ended' <=> <<c, d, "completed">> \in ended,
         \A c \in Nat, d \in Places, how \in Ways : <<c, d, how>> \in ended' => c <= campaign,
         OneExecution(at, dirs'[at]),
         step' \in {"manifest", "reference", "run", "summary"},
         StepInv'
  PROVE  CampaignInv'
<1>1. TypeInv'
  BY DEF CampaignInv, TypeInv, Working
<1>2. DirInv'
  <2>1. SUFFICES ASSUME NEW d \in Places PROVE OneExecution(d, dirs[d])'
    BY DEF DirInv
  <2>2. OneExecution(d, dirs'[d])
    BY DEF CampaignInv, DirInv
  <2> QED
    BY <2>2 DEF OneExecution
<1>3. \A d : Done(d)' <=> Done(d)
  BY DEF Done
<1>4. ~Done(at)
  <2>1. ~Before(at, at)
    BY DEF Before, CampaignInv, TypeInv, Places
  <2> QED
    BY <2>1 DEF CampaignInv, TypeInv, DoneInv
<1>5. /\ step' \in Working => \A d \in Places : Done(d)' => Before(d, at)'
      /\ step' \in Working => \A d \in Places : Before(d, at)' => Done(d)'
      /\ \A d, e \in Places : Done(d)' /\ Before(e, d)' => Done(e)'
  BY <1>3 DEF CampaignInv, DoneInv, Before
<1>6. \A d \in Places : Done(d)' =>
       /\ dirs'[d].manifest_file = "valid" /\ dirs'[d].events_file = "valid"
       /\ dirs'[d].manifest.campaign = campaign'
       /\ Full(d, dirs'[d].lines, campaign')
  <2>1. SUFFICES ASSUME NEW d \in Places, Done(d)
                 PROVE  /\ dirs'[d].manifest_file = "valid" /\ dirs'[d].events_file = "valid"
                        /\ dirs'[d].manifest.campaign = campaign'
                        /\ Full(d, dirs'[d].lines, campaign')
    BY <1>3
  <2>2. dirs'[d] = dirs[d]
    BY <1>4, <2>1
  <2> QED
    BY <2>1, <2>2 DEF CampaignInv, DoneInv
<1>7. outcome' = "ok" => Done(<<Points, Repetitions>>)'
  BY <1>3 DEF CampaignInv, DoneInv
<1>8. DoneInv'
  BY <1>5, <1>6, <1>7 DEF DoneInv
<1> QED
  BY <1>1, <1>2, <1>8 DEF CampaignInv

\* What the history says after a repetition that did not complete.
LEMMA GivenUp ==
  ASSUME CampaignInv, NEW how \in {"refused", "aborted"}, GiveUp(how)
  PROVE  /\ \A c, d : <<c, d, "completed">> \in ended' <=> <<c, d, "completed">> \in ended
         /\ \A c \in Nat, d \in Places, h \in Ways : <<c, d, h>> \in ended' => c <= campaign
         /\ step' = "summary" /\ StepInv'
         /\ UNCHANGED <<campaign, at, outcome>>
<1>1. /\ ended' = ended \cup {<<campaign, at, how>>} /\ step' = "summary"
      /\ UNCHANGED <<campaign, at, outcome>>
  BY DEF GiveUp
<1>2. StepInv'
  BY <1>1 DEF StepInv
<1>3. \A c \in Nat, d \in Places, h \in Ways : <<c, d, h>> \in ended' => c <= campaign
  BY <1>1 DEF CampaignInv, TypeInv
<1> QED
  BY <1>1, <1>2, <1>3

LEMMA PrepareStep == CampaignInv /\ Prepare => CampaignInv'
<1> SUFFICES ASSUME CampaignInv, Prepare PROVE CampaignInv'
  OBVIOUS
<1>1. step = "prepare" /\ step \in Working /\ at \in Places /\ dirs \in [Places -> RunDirs]
      /\ \A c \in Nat, d \in Places, how \in Ways : <<c, d, how>> \in ended => c <= campaign
  BY DEF Prepare, Working, CampaignInv, TypeInv
<1>2. OneExecution(at, dirs[at])
  BY <1>1 DEF CampaignInv, DirInv
<1>3. CASE GiveUp("refused") /\ UNCHANGED dirs
  BY <1>1, <1>2, <1>3, GivenUp, InPlace
<1>4. CASE /\ dirs' = [dirs EXCEPT ![at].manifest_file = "torn"]
           /\ step' = "manifest"
           /\ UNCHANGED <<summary, campaign, at, points, current, outcome, ended>>
  <2>1. dirs' \in [Places -> RunDirs] /\ \A d \in Places \ {at} : dirs'[d] = dirs[d]
    BY <1>1, <1>4 DEF RunDirs, Files
  <2>2. dirs'[at].manifest_file = "torn" /\ dirs'[at].lines = dirs[at].lines
    BY <1>1, <1>4 DEF RunDirs
  <2>3. OneExecution(at, dirs'[at])
    BY <1>2, <2>2 DEF OneExecution
  <2>4. StepInv'
    BY <1>4 DEF StepInv
  <2> QED
    BY <1>1, <1>4, <2>1, <2>3, <2>4, InPlace
<1> QED
  BY <1>3, <1>4 DEF Prepare

\* What is known when a step of runOnce starts.
LEMMA AtHand ==
  ASSUME CampaignInv, step \in Working
  PROVE  /\ at \in Places /\ dirs \in [Places -> RunDirs] /\ campaign \in Nat
         /\ \A c \in Nat, d \in Places, how \in Ways : <<c, d, how>> \in ended => c <= campaign
         /\ OneExecution(at, dirs[at])
         /\ <<campaign, at, "completed">> \notin ended
<1>1. at \in Places /\ dirs \in [Places -> RunDirs] /\ campaign \in Nat
  BY DEF CampaignInv, TypeInv
<1>2. ~Before(at, at)
  BY <1>1 DEF Before, Places
<1>3. ~Done(at)
  BY <1>1, <1>2 DEF CampaignInv, DoneInv
<1> QED
  BY <1>1, <1>3 DEF CampaignInv, TypeInv, DirInv, Done

LEMMA WriteManifestStep == CampaignInv /\ WriteManifest => CampaignInv'
<1> SUFFICES ASSUME CampaignInv, WriteManifest PROVE CampaignInv'
  OBVIOUS
<1> DEFINE manifest == [run_id |-> at, repetitions |-> FactsRepetitions, campaign |-> campaign]
<1>1. step = "manifest" /\ step \in Working
  BY DEF WriteManifest, Working
<1>2. /\ at \in Places /\ dirs \in [Places -> RunDirs] /\ campaign \in Nat
      /\ \A c \in Nat, d \in Places, how \in Ways : <<c, d, how>> \in ended => c <= campaign
      /\ OneExecution(at, dirs[at])
      /\ <<campaign, at, "completed">> \notin ended
  BY <1>1, AtHand
<1>3. CASE GiveUp("refused") /\ UNCHANGED dirs
  BY <1>1, <1>2, <1>3, GivenUp, InPlace
<1>4. CASE /\ dirs' = [dirs EXCEPT ![at].manifest_file = "valid", ![at].manifest = manifest]
           /\ step' = "reference"
           /\ UNCHANGED <<summary, campaign, at, points, current, outcome, ended>>
  <2>1. manifest \in Manifests
    BY <1>2, Positive DEF Manifests
  <2>2. dirs'[at] = [dirs[at] EXCEPT !.manifest_file = "valid", !.manifest = manifest]
    BY <1>2, <1>4
  <2> HIDE DEF manifest
  <2>3. /\ dirs'[at].manifest_file = "valid" /\ dirs'[at].manifest = manifest
        /\ dirs'[at].lines = dirs[at].lines
        /\ dirs'[at] \in RunDirs
    BY <1>2, <2>1, <2>2 DEF RunDirs, Files
  <2>4. dirs' \in [Places -> RunDirs] /\ \A d \in Places \ {at} : dirs'[d] = dirs[d]
    BY <1>2, <1>4, <2>3
  <2>5. manifest.run_id = at /\ manifest.campaign = campaign /\ manifest.repetitions = FactsRepetitions
    BY DEF manifest
  <2>6. PICK c \in 0..campaign : Recorded(at, dirs[at].lines, c)
    BY <1>2 DEF OneExecution
  <2>7. OneExecution(at, dirs'[at])
    BY <1>2, <2>1, <2>3, <2>5, <2>6 DEF OneExecution
  <2>8. StepInv'
    BY <1>4, <2>3, <2>5 DEF StepInv
  <2> QED
    BY <1>1, <1>2, <1>4, <2>4, <2>7, <2>8, InPlace
<1> QED
  BY <1>3, <1>4 DEF WriteManifest

\* A step that leaves the manifest of this campaign and lines of this
\* campaign behind.
LEMMA OwnLines ==
  ASSUME CampaignInv, step \in {"reference", "run"},
         NEW dir, dir.manifest_file = "valid", dir.manifest = dirs[at].manifest,
         Recorded(at, dir.lines, campaign)
  PROVE  OneExecution(at, dir)
<1>1. /\ dirs[at].manifest_file = "valid" /\ dirs[at].manifest.campaign = campaign
      /\ OneExecution(at, dirs[at]) /\ campaign \in Nat
  BY AtHand DEF CampaignInv, StepInv, Working
<1>2. campaign \in 0..campaign /\ campaign <= campaign
  BY <1>1
<1> QED
  BY <1>1, <1>2 DEF OneExecution

LEMMA CreateEventsStep == CampaignInv /\ CreateEvents => CampaignInv'
<1> SUFFICES ASSUME CampaignInv, CreateEvents PROVE CampaignInv'
  OBVIOUS
<1>1. step = "reference" /\ step \in Working
  BY DEF CreateEvents, Working
<1>2. /\ at \in Places /\ dirs \in [Places -> RunDirs] /\ campaign \in Nat
      /\ \A c \in Nat, d \in Places, how \in Ways : <<c, d, how>> \in ended => c <= campaign
      /\ OneExecution(at, dirs[at])
  BY <1>1, AtHand
<1>3. CASE GiveUp("refused") /\ UNCHANGED dirs
  BY <1>1, <1>2, <1>3, GivenUp, InPlace
<1>4. CASE dirs' = [dirs EXCEPT ![at].events_file = "valid", ![at].lines = Emptied(@)]
  <2>1. dirs'[at] = [dirs[at] EXCEPT !.events_file = "valid", !.lines = <<>>]
    BY <1>2, <1>4 DEF Emptied
  <2>2. <<>> \in Seq(AnyLine)
    BY EmptySeq
  <2>3. /\ dirs'[at].events_file = "valid" /\ dirs'[at].lines = <<>>
        /\ dirs'[at].manifest_file = dirs[at].manifest_file
        /\ dirs'[at].manifest = dirs[at].manifest
        /\ dirs'[at] \in RunDirs
    BY <1>2, <2>1, <2>2 DEF RunDirs, Files
  <2>4. dirs' \in [Places -> RunDirs] /\ \A d \in Places \ {at} : dirs'[d] = dirs[d]
    BY <1>2, <1>4, <2>3
  <2>5. dirs[at].manifest_file = "valid" /\ dirs[at].manifest.campaign = campaign
    BY <1>1 DEF CampaignInv, StepInv
  <2>6. Recorded(at, dirs'[at].lines, campaign)
    BY <2>3, EmptyRecorded
  <2>7. OneExecution(at, dirs'[at])
    BY <1>1, <2>3, <2>5, <2>6, OwnLines
  <2>8. CASE GiveUp("refused")
    BY <1>1, <1>2, <2>4, <2>7, <2>8, GivenUp, InPlace
  <2>9. CASE /\ step' = "run"
             /\ UNCHANGED <<summary, campaign, at, points, current, outcome, ended>>
    <3>1. StepInv'
      BY <2>3, <2>5, <2>6, <2>9 DEF StepInv
    <3> QED
      BY <1>1, <1>2, <2>4, <2>7, <2>9, <3>1, InPlace
  <2> QED
    BY <1>1, <1>3, <2>8, <2>9 DEF CreateEvents
<1> QED
  BY <1>3, <1>4 DEF CreateEvents

\* Lines of this campaign put into the file while the run executes.
LEMMA Recording ==
  ASSUME CampaignInv, step = "run", NEW lines, Recorded(at, lines, campaign),
         dirs' = [dirs EXCEPT ![at].lines = lines], UNCHANGED <<campaign, at>>,
         step' \in {"run", "summary"}
  PROVE  /\ dirs' \in [Places -> RunDirs] /\ \A d \in Places \ {at} : dirs'[d] = dirs[d]
         /\ OneExecution(at, dirs'[at])
         /\ StepInv'
<1>1. at \in Places /\ dirs \in [Places -> RunDirs] /\ campaign \in Nat
  BY AtHand DEF Working
<1>2. lines \in Seq(AnyLine)
  BY <1>1, LinesType DEF Recorded
<1>3. /\ dirs'[at].manifest_file = dirs[at].manifest_file
      /\ dirs'[at].manifest = dirs[at].manifest
      /\ dirs'[at].events_file = dirs[at].events_file
      /\ dirs'[at].lines = lines
  BY <1>1 DEF RunDirs
<1>4. dirs' \in [Places -> RunDirs] /\ \A d \in Places \ {at} : dirs'[d] = dirs[d]
  BY <1>1, <1>2 DEF RunDirs
<1>5. OneExecution(at, dirs'[at])
  BY <1>3, OwnLines DEF CampaignInv, StepInv
<1>6. StepInv'
  BY <1>3 DEF CampaignInv, StepInv
<1> QED
  BY <1>4, <1>5, <1>6

LEMMA SpillStep == CampaignInv /\ Spill => CampaignInv'
<1> SUFFICES ASSUME CampaignInv, Spill PROVE CampaignInv'
  OBVIOUS
<1>1. step = "run" /\ step \in Working /\ step' = "run"
      /\ UNCHANGED <<campaign, at, outcome, ended>>
  BY DEF Spill, Working
<1>2. \A c \in Nat, d \in Places, how \in Ways : <<c, d, how>> \in ended => c <= campaign
  BY <1>1, AtHand
<1>3. Recorded(at, dirs[at].lines, campaign)
  BY <1>1 DEF CampaignInv, StepInv
<1> DEFINE whole == Whole(dirs[at].lines)
<1>4. PICK line \in {LineOf(at, campaign, Len(whole) + 1), Torn} :
        Len(whole) < Planned /\ dirs' = [dirs EXCEPT ![at].lines = Append(whole, line)]
  BY DEF Spill, Line, LineOf
<1>5. Recorded(at, Append(whole, line), campaign)
  BY <1>3, <1>4, SpillRecorded
<1> QED
  BY <1>1, <1>2, <1>4, <1>5, Recording, InPlace

LEMMA AbortStep == CampaignInv /\ Abort => CampaignInv'
<1> SUFFICES ASSUME CampaignInv, Abort PROVE CampaignInv'
  OBVIOUS
<1>1. step = "run" /\ step \in Working /\ GiveUp("aborted")
  BY DEF Abort, Working
<1>2. /\ dirs \in [Places -> RunDirs] /\ OneExecution(at, dirs[at])
      /\ Recorded(at, dirs[at].lines, campaign)
  BY <1>1, AtHand DEF CampaignInv, StepInv
<1>3. /\ \A c, d : <<c, d, "completed">> \in ended' <=> <<c, d, "completed">> \in ended
      /\ \A c \in Nat, d \in Places, h \in Ways : <<c, d, h>> \in ended' => c <= campaign
      /\ step' = "summary" /\ StepInv'
      /\ UNCHANGED <<campaign, at, outcome>>
  BY <1>1, GivenUp
<1>4. CASE UNCHANGED dirs
  BY <1>1, <1>2, <1>3, <1>4, InPlace
<1>5. CASE \E k \in Len(Whole(dirs[at].lines))..Planned : dirs' = [dirs EXCEPT ![at].lines = Upto(k)]
  <2>1. PICK k \in Len(Whole(dirs[at].lines))..Planned : dirs' = [dirs EXCEPT ![at].lines = Upto(k)]
    BY <1>5
  <2>2. k \in 0..Planned
    BY <1>2, WholeRecorded, Positive
  <2>3. Upto(k) = [i \in 1..k |-> LineOf(at, campaign, i)]
    BY DEF Upto, Line, LineOf
  <2>4. Recorded(at, Upto(k), campaign)
    BY <2>2, <2>3, FlushRecorded
  <2>5. /\ dirs' \in [Places -> RunDirs] /\ \A d \in Places \ {at} : dirs'[d] = dirs[d]
        /\ OneExecution(at, dirs'[at])
    BY <1>1, <1>3, <2>1, <2>4, Recording
  <2> QED
    BY <1>1, <1>3, <2>5, InPlace
<1> QED
  BY <1>4, <1>5 DEF Abort

LEMMA SucceedStep == CampaignInv /\ Succeed => CampaignInv'
<1> SUFFICES ASSUME CampaignInv, Succeed PROVE CampaignInv'
  OBVIOUS
<1> DEFINE last == at[2] = Repetitions
<1>1. /\ step = "run" /\ step \in Working /\ Complete(dirs[at].lines)
      /\ at' = IF ~last THEN <<at[1], at[2] + 1>> ELSE IF at[1] < Points THEN <<at[1] + 1, 1>> ELSE at
      /\ step' = IF last /\ at[1] = Points THEN "summary" ELSE "prepare"
      /\ ended' = ended \cup {<<campaign, at, "completed">>}
      /\ UNCHANGED <<dirs, campaign, outcome>>
  BY DEF Succeed, Working
<1>2. /\ at \in Places /\ dirs \in [Places -> RunDirs] /\ campaign \in Nat
      /\ \A c \in Nat, d \in Places, how \in Ways : <<c, d, how>> \in ended => c <= campaign
  BY <1>1, AtHand
<1>3. /\ dirs[at].manifest_file = "valid" /\ dirs[at].events_file = "valid"
      /\ dirs[at].manifest.campaign = campaign
      /\ Recorded(at, dirs[at].lines, campaign)
  BY <1>1 DEF CampaignInv, StepInv
<1>4. Full(at, dirs[at].lines, campaign)
  BY <1>1, <1>3, WholeRecorded
<1>5. at' \in Places
  BY <1>1, <1>2, Positive DEF Places
<1>6. TypeInv'
  <2>1. \A c \in Nat, d \in Places, how \in Ways : <<c, d, how>> \in ended' => c <= campaign
    BY <1>1, <1>2
  <2> QED
    BY <1>1, <1>2, <1>5, <2>1 DEF TypeInv, Working
<1>7. DirInv'
  <2>1. SUFFICES ASSUME NEW d \in Places PROVE OneExecution(d, dirs[d])'
    BY DEF DirInv
  <2>2. OneExecution(d, dirs[d])
    BY DEF CampaignInv, DirInv
  <2>3. CASE d = at
    <3>1. campaign \in 0..campaign /\ campaign <= campaign
      BY <1>2
    <3> QED
      BY <1>1, <1>3, <2>2, <2>3, <3>1 DEF OneExecution
  <2>4. CASE d # at
    <3>1. \A c : <<c, d, "completed">> \in ended' <=> <<c, d, "completed">> \in ended
      BY <1>1, <2>4
    <3> QED
      BY <1>1, <2>2, <3>1 DEF OneExecution
  <2> QED
    BY <2>3, <2>4
<1>8. StepInv'
  BY <1>1 DEF StepInv
<1>9. \A d \in Places : Done(d)' <=> Done(d) \/ d = at
  BY <1>1 DEF Done
<1>10. DoneInv'
  <2>1. step' \in Working => \A d \in Places : Before(d, at') <=> Before(d, at) \/ d = at
    <3>1. SUFFICES ASSUME step' = "prepare", NEW d \in Places
                   PROVE  Before(d, at') <=> Before(d, at) \/ d = at
      BY <1>1 DEF Working
    <3>2. /\ d[1] \in 1..Points /\ d[2] \in 1..Repetitions
          /\ at[1] \in 1..Points /\ at[2] \in 1..Repetitions
          /\ d = at <=> d[1] = at[1] /\ d[2] = at[2]
      BY <1>2 DEF Places
    <3>3. CASE ~last
      <4>1. at'[1] = at[1] /\ at'[2] = at[2] + 1
        BY <1>1, <3>3
      <4> QED
        BY <3>2, <4>1, Positive DEF Before
    <3>4. CASE last
      <4>1. at[1] < Points
        BY <1>1, <3>1, <3>2, <3>4, Positive
      <4>2. at'[1] = at[1] + 1 /\ at'[2] = 1
        BY <1>1, <3>4, <4>1
      <4> QED
        BY <3>2, <3>4, <4>2, Positive DEF Before
    <3> QED
      BY <3>3, <3>4
  <2>2. /\ step' \in Working => \A d \in Places : Done(d)' => Before(d, at')
        /\ step' \in Working => \A d \in Places : Before(d, at') => Done(d)'
    BY <1>1, <1>9, <2>1 DEF CampaignInv, DoneInv
  <2>3. \A d, e \in Places : Done(d)' /\ Before(e, d) => Done(e)'
    BY <1>1, <1>9 DEF CampaignInv, DoneInv
  <2>4. \A d \in Places : Done(d)' =>
         /\ dirs'[d].manifest_file = "valid" /\ dirs'[d].events_file = "valid"
         /\ dirs'[d].manifest.campaign = campaign'
         /\ Full(d, dirs'[d].lines, campaign')
    BY <1>1, <1>3, <1>4, <1>9 DEF CampaignInv, DoneInv
  <2>5. outcome' = "ok" => Done(<<Points, Repetitions>>)'
    BY <1>1, <1>9, Positive DEF CampaignInv, DoneInv
  <2> QED
    BY <2>2, <2>3, <2>4, <2>5 DEF DoneInv, Before
<1> QED
  BY <1>6, <1>7, <1>8, <1>10 DEF CampaignInv

LEMMA StartStep == CampaignInv /\ Start => CampaignInv'
<1> SUFFICES ASSUME CampaignInv, Start PROVE CampaignInv'
  OBVIOUS
<1>1. /\ campaign' = campaign + 1 /\ step' = "probe" /\ at' = <<1, 1>> /\ outcome' = "running"
      /\ UNCHANGED <<dirs, ended>>
  BY DEF Start
<1>2. campaign \in Nat /\ campaign' \in Nat
  BY <1>1 DEF CampaignInv, TypeInv
<1>3. TypeInv'
  BY <1>1, <1>2, Positive DEF CampaignInv, TypeInv, Working
<1>4. DirInv'
  <2>1. SUFFICES ASSUME NEW d \in Places PROVE OneExecution(d, dirs[d])'
    BY DEF DirInv
  <2>2. OneExecution(d, dirs[d])
    BY DEF CampaignInv, DirInv
  <2>3. 0..campaign \subseteq 0..campaign' /\ \A c \in Nat : c <= campaign => c <= campaign'
    BY <1>1, <1>2
  <2> QED
    BY <1>1, <2>2, <2>3 DEF OneExecution, Manifests
<1>5. StepInv'
  BY <1>1 DEF StepInv
<1>6. \A d \in Places : ~Done(d)'
  <2>1. SUFFICES ASSUME NEW d \in Places PROVE <<campaign + 1, d, "completed">> \notin ended
    BY <1>1 DEF Done
  <2>2. \A c \in Nat : <<c, d, "completed">> \in ended => c <= campaign
    <3>1. "completed" \in Ways
      BY DEF Ways
    <3>2. \A c \in Nat, how \in Ways : <<c, d, how>> \in ended => c <= campaign
      BY DEF CampaignInv, TypeInv
    <3> QED
      BY <3>1, <3>2
  <2>3. campaign + 1 \in Nat /\ ~(campaign + 1 <= campaign)
    BY <1>2
  <2> QED
    BY <2>2, <2>3
<1>7. \A d \in Places : ~Before(d, at')
  BY <1>1 DEF Before, Places
<1>8. DoneInv'
  BY <1>1, <1>6, <1>7 DEF DoneInv, Before
<1> QED
  BY <1>3, <1>4, <1>5, <1>8 DEF CampaignInv

LEMMA CampaignStep == CampaignInv /\ [Next]_vars => CampaignInv'
<1> SUFFICES ASSUME CampaignInv, [Next]_vars PROVE CampaignInv'
  OBVIOUS
<1>1. CASE Probe
  BY <1>1, Bystander DEF Probe
<1>2. CASE NoWorkload
  BY <1>2, Bystander DEF NoWorkload
<1>3. CASE OpenSummary
  BY <1>3, Bystander DEF OpenSummary
<1>4. CASE WriteSummary
  BY <1>4, Bystander DEF WriteSummary, Done
<1>5. CASE Kill
  BY <1>5, Bystander DEF Kill
<1>6. CASE UNCHANGED vars
  BY <1>6 DEF vars, CampaignInv, TypeInv, DirInv, OneExecution, StepInv, DoneInv, Done, Before
<1> QED
  BY <1>1, <1>2, <1>3, <1>4, <1>5, <1>6, StartStep, PrepareStep, WriteManifestStep,
     CreateEventsStep, SpillStep, SucceedStep, AbortStep DEF Next

\* The invariant of the directories holds however often a campaign is started
\* and wherever it is killed (common.go: runOnce, sweep.go, compare.go).
THEOREM CampaignInvariant == Spec => []CampaignInv
BY CampaignInit, CampaignStep, PTL DEF Spec

-----------------------------------------------------------------------------
(* What the loader makes of a directory.                                   *)

LEMMA LoadedEvents ==
  ASSUME CampaignInv, NEW d \in Places, Accepted(d)
  PROVE  /\ dirs[d].manifest_file = "valid"
         /\ EventsIn(d) = EventsOf(dirs[d].lines)
         /\ DOMAIN EventsIn(d) # {}
<1>1. dirs[d].manifest_file \in Files
  BY DEF CampaignInv, TypeInv, RunDirs
<1>2. LoadRun(d, dirs[d]).error = "none"
  BY DEF Accepted
<1>3. dirs[d].manifest_file = "valid" /\ DOMAIN EventsOf(dirs[d].lines) # {}
  BY <1>1, <1>2 DEF LoadRun, Refuse, Files
<1>4. LoadRun(d, dirs[d]).value.events = EventsOf(dirs[d].lines)
  BY <1>2 DEF LoadRun, Refuse, Ok
<1> QED
  BY <1>3, <1>4 DEF EventsIn

LEMMA RecordedEvents ==
  ASSUME NEW d, NEW c, NEW lines, Recorded(d, lines, c)
  PROVE  \A i \in DOMAIN EventsOf(lines) :
           i \in DOMAIN lines /\ EventsOf(lines)[i] = LineOf(d, c, i).event
<1>1. DOMAIN lines = 1..Len(lines)
  BY LenProperties DEF Recorded
<1>2. \A i \in DOMAIN lines : lines[i].kind = "event" => lines[i] = LineOf(d, c, i)
  <2>1. Torn.kind # "event"
    BY DEF Torn
  <2> QED
    BY <1>1, <2>1 DEF Recorded
<1> QED
  BY <1>2 DEF EventsOf

LEMMA InvariantAccepts == CampaignInv => AcceptedIsOneExecution
<1> SUFFICES ASSUME CampaignInv, NEW d \in Places, Accepted(d)
             PROVE  LET from == {EventsIn(d)[i].campaign : i \in DOMAIN EventsIn(d)}
                        own == dirs[d].manifest.campaign
                    IN  /\ Cardinality(from) = 1
                        /\ \A c \in from : c <= own
                        /\ from # {own} => <<own, d, "completed">> \notin ended
  BY DEF AcceptedIsOneExecution
<1> DEFINE from == {EventsIn(d)[i].campaign : i \in DOMAIN EventsIn(d)}
           own == dirs[d].manifest.campaign
<1>1. dirs[d].manifest_file = "valid" /\ EventsIn(d) = EventsOf(dirs[d].lines) /\ DOMAIN EventsIn(d) # {}
  BY LoadedEvents
<1>2. PICK c \in 0..campaign :
        /\ Recorded(d, dirs[d].lines, c)
        /\ c <= own
        /\ <<own, d, "completed">> \in ended => c = own
  BY <1>1 DEF CampaignInv, DirInv, OneExecution
<1>3. \A i \in DOMAIN EventsIn(d) : EventsIn(d)[i].campaign = c
  BY <1>1, <1>2, RecordedEvents DEF LineOf
<1>4. from = {c}
  BY <1>1, <1>3
<1>5. Cardinality(from) = 1
  BY <1>4, FS_Singleton
<1> QED
  BY <1>2, <1>4, <1>5

\* What the loader accepts comes from one execution, of a campaign no later
\* than the manifest's, and of that very campaign if its repetition completed
\* here - for any number of starts and a kill between any two writes
\* (common.go:175-189; events.py:137-147).
THEOREM AcceptedRunsAreOneExecution == Spec => []AcceptedIsOneExecution
BY CampaignInvariant, InvariantAccepts, PTL

LEMMA FullLoads ==
  ASSUME CampaignInv, NEW d \in Places, Done(d), Repetitions <= FactsRepetitions
  PROVE  /\ Accepted(d)
         /\ EventsIn(d) = EventsOf(dirs[d].lines)
         /\ DOMAIN EventsIn(d) = 1..Planned
<1> DEFINE lines == dirs[d].lines
           m == dirs[d].manifest
<1>1. /\ dirs[d].manifest_file = "valid" /\ dirs[d].events_file = "valid"
      /\ Full(d, lines, campaign)
      /\ m.run_id = d /\ m.repetitions = FactsRepetitions
  BY DEF CampaignInv, DoneInv, DirInv, OneExecution
<1>2. DOMAIN lines = 1..Planned /\ \A i \in 1..Planned : lines[i] = LineOf(d, campaign, i)
  BY <1>1, LenProperties DEF Full, Recorded
<1>3. d[2] <= FactsRepetitions
  BY Positive DEF Places
<1> HIDE DEF lines, m
<1>8. \A i \in DOMAIN lines : /\ lines[i].kind = "event"
                             /\ lines[i].event.run_id = d
                             /\ lines[i].event.repetition = d[2]
  BY <1>2, LineFields
<1>4. \A i \in DOMAIN lines : Acceptable(lines[i], m)
  BY <1>1, <1>8, <1>3 DEF Acceptable
<1>5. DOMAIN EventsOf(lines) = 1..Planned
  BY <1>2, <1>8 DEF EventsOf
<1>6. 1..Planned # {}
  BY Positive
<1>7. LoadRun(d, dirs[d]) = Ok([path |-> d, manifest |-> m, events |-> EventsOf(lines)])
  BY <1>1, <1>4, <1>5, <1>6 DEF LoadRun, lines, m
<1> QED
  BY <1>5, <1>7 DEF Accepted, EventsIn, Ok, lines

LEMMA InvariantFinishes == CampaignInv => FinishedCampaignLoads
<1> SUFFICES ASSUME CampaignInv, outcome = "ok", Repetitions <= FactsRepetitions, NEW d \in Places
             PROVE  /\ Accepted(d)
                    /\ dirs[d].manifest.campaign = campaign
                    /\ {EventsIn(d)[i].number : i \in DOMAIN EventsIn(d)} = 1..Planned
                    /\ \A i \in DOMAIN EventsIn(d) : EventsIn(d)[i].campaign = campaign
  BY DEF FinishedCampaignLoads
<1>1. Done(d)
  <2>1. Done(<<Points, Repetitions>>) /\ <<Points, Repetitions>> \in Places
    BY Positive DEF CampaignInv, DoneInv
  <2>2. d = <<Points, Repetitions>> \/ Before(d, <<Points, Repetitions>>)
    BY Positive DEF Places, Before
  <2> QED
    BY <2>1, <2>2 DEF CampaignInv, DoneInv
<1>2. /\ Accepted(d) /\ EventsIn(d) = EventsOf(dirs[d].lines) /\ DOMAIN EventsIn(d) = 1..Planned
  BY <1>1, FullLoads
<1>3. dirs[d].manifest.campaign = campaign /\ Recorded(d, dirs[d].lines, campaign)
  BY <1>1 DEF CampaignInv, DoneInv, Full
<1>4. \A i \in DOMAIN EventsIn(d) : EventsIn(d)[i] = LineOf(d, campaign, i).event
  <2> DEFINE lines == dirs[d].lines
  <2> HIDE DEF lines
  <2>1. Recorded(d, lines, campaign)
    BY <1>3 DEF lines
  <2>2. \A i \in DOMAIN EventsOf(lines) : EventsOf(lines)[i] = LineOf(d, campaign, i).event
    BY <2>1, RecordedEvents
  <2> QED
    BY <1>2, <2>2 DEF lines
<1>5. \A i \in 1..Planned : EventsIn(d)[i].number = i /\ EventsIn(d)[i].campaign = campaign
  BY <1>2, <1>4, LineFields
<1> QED
  BY <1>2, <1>3, <1>5

\* A campaign that reports success has left, in every directory, a complete
\* run of its own that the analysis loads (sweep.go:191-240,
\* common.go:173-220).
THEOREM FinishedCampaignsLoad == Spec => []FinishedCampaignLoads
BY CampaignInvariant, InvariantFinishes, PTL

-----------------------------------------------------------------------------
(* The summary: what its points say of the repetitions that completed.     *)

\* The directories of the first m repetitions of point i.
PlacesOf(i, m) == [k \in 1..m |-> <<i, k>>]

\* What a summary names of them: a comparison all, a sweep the last one.
Named(i, m) ==
  IF command = "sweep" THEN IF m = 0 THEN <<>> ELSE <<<<i, m>>>> ELSE PlacesOf(i, m)

PointRecords == [index : Nat, repetitions : Nat, runs : Seq(Places), sent : Nat]

\* pt counts the first m repetitions of point i, and these are the completed ones.
Tells(pt, i, m) ==
  /\ pt \in PointRecords
  /\ pt.index = i
  /\ pt.runs = Named(i, m)
  /\ pt.sent = Planned * m
  /\ pt.repetitions \in {0, Repetitions}
  /\ \A d \in Places : d[1] = i => (Done(d) <=> d[2] <= m)

\* A list of points that is to become a summary: all but the last complete.
Told(pts) ==
  /\ pts \in Seq(PointRecords)
  /\ Len(pts) <= Points
  /\ \A i \in 1..Len(pts) :
       \E m \in 0..Repetitions : Tells(pts[i], i, m) /\ (i < Len(pts) => m = pts[i].repetitions)

\* While the campaign works the points before the one at hand are complete,
\* and the one at hand counts the repetitions before the one at hand; a
\* summary of this campaign exists only when the campaign is over.
PointsInv ==
  /\ step \in Working =>
       /\ points \in Seq(PointRecords) /\ Len(points) = at[1] - 1
       /\ \A i \in 1..Len(points) :
            Tells(points[i], i, Repetitions) /\ points[i].repetitions = Repetitions
       /\ Tells(current, at[1], at[2] - 1) /\ current.repetitions = Repetitions
  /\ step = "probe" => points = <<>>
  /\ step \in {"summary", "record"} => Told(points)
  /\ summary.state = "written" =>
       /\ summary.campaign \in Nat /\ summary.campaign <= campaign
       /\ summary.campaign = campaign => step = "idle" /\ Told(summary.points)

LEMMA PlacesOfType ==
  ASSUME NEW i \in 1..Points, NEW m \in 0..Repetitions
  PROVE  /\ PlacesOf(i, m) \in Seq(Places)
         /\ Len(PlacesOf(i, m)) = m
         /\ DOMAIN PlacesOf(i, m) = 1..m
         /\ \A k \in 1..m : PlacesOf(i, m)[k] = <<i, k>>
<1>1. m \in Nat /\ 1..m \subseteq 1..Repetitions
  BY Positive
<1>2. PlacesOf(i, m) \in [1..m -> Places]
  BY <1>1 DEF PlacesOf, Places
<1>3. PlacesOf(i, m) \in Seq(Places)
  BY <1>1, <1>2, SeqDef
<1>4. DOMAIN PlacesOf(i, m) = 1..m /\ \A k \in 1..m : PlacesOf(i, m)[k] = <<i, k>>
  BY DEF PlacesOf
<1>5. Len(PlacesOf(i, m)) = m
  BY <1>1, <1>3, <1>4, LenProperties
<1> QED
  BY <1>3, <1>4, <1>5

LEMMA NonePlaced ==
  ASSUME NEW i \in 1..Points
  PROVE  PlacesOf(i, 0) = <<>>
<1>1. 0 \in 0..Repetitions
  BY Positive
<1> QED
  BY <1>1, PlacesOfType, EmptySeq

LEMMA OneMorePlaced ==
  ASSUME NEW d \in Places
  PROVE  PlacesOf(d[1], d[2]) = Append(PlacesOf(d[1], d[2] - 1), d)
<1> DEFINE i == d[1]
           m == d[2] - 1
           less == PlacesOf(i, m)
           more == PlacesOf(i, d[2])
           longer == Append(less, d)
<1>1. /\ i \in 1..Points /\ m \in 0..Repetitions /\ d[2] \in 0..Repetitions /\ d = <<i, d[2]>>
      /\ m \in Nat /\ d[2] = m + 1
  BY Positive DEF Places
<1>2. /\ less \in Seq(Places) /\ Len(less) = m /\ \A k \in 1..m : less[k] = <<i, k>>
      /\ more \in Seq(Places) /\ Len(more) = m + 1 /\ \A k \in 1..(m + 1) : more[k] = <<i, k>>
  <2> HIDE DEF i, m
  <2>1. less \in Seq(Places) /\ Len(less) = m /\ \A k \in 1..m : less[k] = <<i, k>>
    BY <1>1, PlacesOfType
  <2>2. more \in Seq(Places) /\ Len(more) = d[2] /\ \A k \in 1..d[2] : more[k] = <<i, k>>
    BY <1>1, PlacesOfType
  <2> HIDE DEF less, more
  <2> QED
    BY <1>1, <2>1, <2>2
<1> HIDE DEF less, more, i, m
<1>3. /\ longer \in Seq(Places) /\ Len(longer) = m + 1
      /\ \A k \in 1..m : longer[k] = less[k]
      /\ longer[m + 1] = d
  BY <1>2, AppendProperties
<1>4. \A k \in 1..(m + 1) : longer[k] = <<i, k>>
  <2>1. \A k \in 1..(m + 1) : k \in 1..m \/ k = m + 1
    BY <1>1
  <2> QED
    BY <1>1, <1>2, <1>3, <2>1
<1> HIDE DEF longer
<1>5. more = longer
  BY <1>2, <1>3, <1>4, SeqEqual
<1> QED
  BY <1>1, <1>5 DEF more, longer, less, i, m

LEMMA NoneNamed ==
  ASSUME NEW i \in 1..Points
  PROVE  Named(i, 0) = <<>>
BY NonePlaced DEF Named

LEMMA OneMoreNamed ==
  ASSUME NEW d \in Places
  PROVE  Named(d[1], d[2]) = Naming(Named(d[1], d[2] - 1), d) /\ Named(d[1], d[2]) \in Seq(Places)
<1>1. d[1] \in 1..Points /\ d[2] \in 0..Repetitions /\ d[2] # 0 /\ d = <<d[1], d[2]>>
  BY Positive DEF Places
<1>2. PlacesOf(d[1], d[2]) \in Seq(Places)
  BY <1>1, PlacesOfType
<1>3. CASE command = "sweep"
  BY <1>1, <1>3 DEF Named, Naming
<1>4. CASE command # "sweep"
  BY <1>2, <1>4, OneMorePlaced DEF Named, Naming
<1> QED
  BY <1>3, <1>4

\* A point that was just begun.
LEMMA FreshFields ==
  ASSUME NEW i \in 1..Points, NEW n \in {0, Repetitions}
  PROVE  LET pt == [Fresh(i) EXCEPT !.repetitions = n]
         IN  /\ pt \in PointRecords
             /\ pt.index = i
             /\ pt.runs = Named(i, 0)
             /\ pt.sent = Planned * 0
             /\ pt.repetitions = n
<1> DEFINE pt == [index |-> i, repetitions |-> n, runs |-> <<>>, sent |-> 0]
<1>1. [Fresh(i) EXCEPT !.repetitions = n] = pt
  BY DEF Fresh
<1>2. i \in Nat /\ n \in Nat /\ Planned * 0 = 0 /\ <<>> \in Seq(Places)
  BY Positive, EmptySeq
<1>3. pt \in PointRecords
  BY <1>2 DEF PointRecords
<1> QED
  BY <1>1, <1>2, <1>3, NoneNamed

\* Another repetition of the point at hand.
LEMMA CountedTells ==
  ASSUME NEW d \in Places, NEW pt, Tells(pt, d[1], d[2] - 1)
  PROVE  /\ Counted(pt, d) \in PointRecords
         /\ Counted(pt, d).index = d[1]
         /\ Counted(pt, d).runs = Named(d[1], d[2])
         /\ Counted(pt, d).sent = Planned * d[2]
         /\ Counted(pt, d).repetitions = pt.repetitions
<1>1. d[1] \in 1..Points /\ d[2] \in 1..Repetitions /\ d[2] \in 0..Repetitions
  BY Positive DEF Places
<1>2. pt \in PointRecords /\ pt.sent = Planned * (d[2] - 1) /\ pt.runs = Named(d[1], d[2] - 1)
  BY DEF Tells
<1>3. Planned * (d[2] - 1) + Planned = Planned * d[2] /\ Planned * d[2] \in Nat
  BY <1>1, Positive
<1>4. Named(d[1], d[2]) \in Seq(Places)
  BY OneMoreNamed
<1>5. Naming(pt.runs, d) = Named(d[1], d[2])
  BY <1>2, OneMoreNamed
<1> DEFINE executed == Naming(pt.runs, d)
           counted == pt.sent + Planned
<1>6. Counted(pt, d) = [index |-> pt.index, repetitions |-> pt.repetitions,
                        runs |-> executed, sent |-> counted]
  <2> DEFINE once == [pt EXCEPT !.runs = Naming(pt.runs, d)]
  <2>1. Counted(pt, d) = [once EXCEPT !.sent = pt.sent + Planned]
    BY <1>2 DEF Counted, PointRecords
  <2>2. once = [index |-> pt.index, repetitions |-> pt.repetitions,
                runs |-> executed, sent |-> pt.sent]
    <3>1. ASSUME NEW C, NEW q \in [index : Nat, repetitions : Nat, runs : C, sent : Nat], NEW v
          PROVE  [q EXCEPT !.runs = v] = [index |-> q.index, repetitions |-> q.repetitions,
                                              runs |-> v, sent |-> q.sent]
      OBVIOUS
    <3>2. pt \in [index : Nat, repetitions : Nat, runs : Seq(Places), sent : Nat]
      BY <1>2 DEF PointRecords
    <3> HIDE DEF executed
    <3> QED
      BY <3>1, <3>2 DEF executed
  <2> HIDE DEF once, executed, counted
  <2>3. [once EXCEPT !.sent = counted] = [index |-> pt.index, repetitions |-> pt.repetitions,
                                          runs |-> executed, sent |-> counted]
    BY <2>2
  <2> QED
    BY <2>1, <2>3 DEF counted
<1>7. executed = Named(d[1], d[2]) /\ counted = Planned * d[2]
  BY <1>2, <1>3, <1>5
<1> HIDE DEF executed, counted
<1>8. Counted(pt, d) = [index |-> pt.index, repetitions |-> pt.repetitions,
                        runs |-> Named(d[1], d[2]), sent |-> Planned * d[2]]
  BY <1>6, <1>7
<1> QED
  BY <1>2, <1>3, <1>4, <1>8 DEF PointRecords, Tells

\* A new campaign has completed nothing.
LEMMA NoneDone ==
  ASSUME CampaignInv, campaign' = campaign + 1, UNCHANGED ended, NEW d \in Places
  PROVE  ~Done(d)'
<1>1. campaign \in Nat /\ "completed" \in Ways
  BY DEF CampaignInv, TypeInv, Ways
<1>2. \A c \in Nat, how \in Ways : <<c, d, how>> \in ended => c <= campaign
  BY DEF CampaignInv, TypeInv
<1>3. campaign + 1 \in Nat /\ ~(campaign + 1 <= campaign)
  BY <1>1
<1> QED
  BY <1>1, <1>2, <1>3 DEF Done

\* What a point says stays true while nothing of it completes.
LEMMA StillTells ==
  ASSUME NEW pt, NEW i, NEW m, Tells(pt, i, m), UNCHANGED command,
         \A d \in Places : d[1] = i => (Done(d)' <=> Done(d))
  PROVE  Tells(pt, i, m)'
BY DEF Tells, Named

LEMMA PointsInit == Init => PointsInv
BY DEF Init, PointsInv, Working

LEMMA PointsStart == CampaignInv /\ PointsInv /\ Start => PointsInv'
<1> SUFFICES ASSUME CampaignInv, PointsInv, Start PROVE PointsInv'
  OBVIOUS
<1>1. /\ campaign' = campaign + 1 /\ step' = "probe" /\ at' = <<1, 1>>
      /\ points' = <<>> /\ current' = Fresh(1) /\ UNCHANGED <<command, summary, ended>>
  BY DEF Start
<1>2. campaign \in Nat
  BY DEF CampaignInv, TypeInv
<1>3. \A d \in Places : ~Done(d)'
  BY <1>1, NoneDone
<1>4. 1 \in 1..Points /\ [Fresh(1) EXCEPT !.repetitions = Repetitions] = Fresh(1)
      /\ Fresh(1).repetitions = Repetitions
  BY Positive DEF Fresh
<1>5. Tells(Fresh(1), 1, 0)'
  <2>1. 0 \in 0..Repetitions
    BY Positive
  <2>2. Fresh(1) \in PointRecords /\ Fresh(1).index = 1 /\ Fresh(1).runs = Named(1, 0)
        /\ Fresh(1).sent = Planned * 0 /\ Fresh(1).repetitions \in {0, Repetitions}
    <3>1. Repetitions \in {0, Repetitions}
      OBVIOUS
    <3> DEFINE pt == [Fresh(1) EXCEPT !.repetitions = Repetitions]
    <3>2. /\ pt \in PointRecords /\ pt.index = 1 /\ pt.runs = Named(1, 0)
          /\ pt.sent = Planned * 0 /\ pt.repetitions = Repetitions
      BY <1>4, <3>1, FreshFields, Zenon
    <3>3. pt = Fresh(1)
      BY <1>4
    <3> HIDE DEF pt
    <3> QED
      BY <3>2, <3>3
  <2>3. \A d \in Places : Done(d)' <=> d[2] <= 0
    BY <1>3, Positive DEF Places
  <2> QED
    BY <1>1, <2>2, <2>3 DEF Tells, Named
<1>6. <<>> \in Seq(PointRecords) /\ Len(<<>>) = 0
  BY EmptySeq
<1>7. at'[1] - 1 = 0 /\ at'[2] - 1 = 0 /\ at'[1] = 1
  BY <1>1
<1>8. summary.state = "written" => summary.campaign # campaign' /\ summary.campaign \in Nat
                                     /\ summary.campaign <= campaign'
  BY <1>1, <1>2 DEF PointsInv
<1> QED
  BY <1>1, <1>4, <1>5, <1>6, <1>7, <1>8 DEF PointsInv

LEMMA StillTold ==
  ASSUME NEW pts, Told(pts), UNCHANGED <<command, ended, campaign>>
  PROVE  Told(pts)'
<1>1. \A d : Done(d)' <=> Done(d)
  BY DEF Done
<1>2. \A i, m : Tells(pts[i], i, m) => Tells(pts[i], i, m)'
  BY <1>1, StillTells
<1> QED
  BY <1>2 DEF Told

\* A step that goes on with the repetition at hand.
LEMMA PointsContinue ==
  ASSUME CampaignInv, PointsInv, step \in Working, step' \in Working, step' # "probe",
         UNCHANGED <<command, summary, campaign, at, points, current>>,
         \A d : Done(d)' <=> Done(d)
  PROVE  PointsInv'
<1>1. step # "idle"
  BY DEF Working
<1>2. \A i \in 1..Len(points) : Tells(points[i], i, Repetitions)'
  BY StillTells DEF PointsInv
<1>3. Tells(current, at[1], at[2] - 1)'
  BY StillTells DEF PointsInv
<1> QED
  BY <1>1, <1>2, <1>3 DEF PointsInv, Working

\* A step that closes the list of points with the one at hand.
LEMMA PointsClose ==
  ASSUME CampaignInv, PointsInv, step \in Working, step' = "summary",
         UNCHANGED <<command, summary, campaign, at>>,
         NEW pt, NEW m \in 0..Repetitions, Tells(pt, at[1], m)', points' = Append(points, pt),
         \A d \in Places : d[1] # at[1] => (Done(d)' <=> Done(d))
  PROVE  PointsInv'
<1>1. step # "idle"
  BY DEF Working
<1>2. /\ points \in Seq(PointRecords) /\ Len(points) = at[1] - 1
      /\ \A i \in 1..Len(points) : Tells(points[i], i, Repetitions) /\ points[i].repetitions = Repetitions
  BY DEF PointsInv
<1>3. pt \in PointRecords
  BY DEF Tells
<1>4. at[1] \in 1..Points /\ Repetitions \in 0..Repetitions
  BY Positive DEF CampaignInv, TypeInv, Places
<1>5. /\ points' \in Seq(PointRecords) /\ Len(points') = Len(points) + 1
      /\ \A i \in 1..Len(points) : points'[i] = points[i]
      /\ points'[Len(points) + 1] = pt
  BY <1>2, <1>3, AppendProperties
<1>6. Len(points') = at[1] /\ Len(points') <= Points
      /\ \A i \in 1..Len(points') : i = at[1] \/ (i \in 1..Len(points) /\ i # at[1])
  BY <1>2, <1>4, <1>5, Positive
<1>7. ASSUME NEW i \in 1..Len(points')
      PROVE  \E k \in 0..Repetitions :
               Tells(points[i], i, k)' /\ (i < Len(points') => k = points'[i].repetitions)
  <2>1. CASE i = at[1]
    <3>1. points'[i] = pt /\ ~(i < Len(points'))
      BY <1>2, <1>4, <1>5, <1>6, <2>1
    <3>2. Tells(points[i], i, m)'
      BY <2>1, <3>1
    <3> QED
      BY <3>1, <3>2
  <2>2. CASE i \in 1..Len(points) /\ i # at[1]
    <3>1. points'[i] = points[i]
      BY <1>5, <2>2
    <3>2. Tells(points[i], i, Repetitions)'
      BY <1>2, <2>2, <3>1, StillTells
    <3> QED
      BY <1>2, <1>4, <2>2, <3>1, <3>2
  <2> QED
    BY <1>6, <2>1, <2>2
<1>8. Told(points)'
  BY <1>5, <1>6, <1>7 DEF Told
<1> QED
  BY <1>1, <1>8 DEF PointsInv, Working

\* The point at hand, closed as it stands.
LEMMA PointsGiveUp ==
  ASSUME CampaignInv, PointsInv, step \in Working, NEW how \in {"refused", "aborted"}, GiveUp(how)
  PROVE  PointsInv'
<1>1. /\ points' = Append(points, current) /\ step' = "summary"
      /\ UNCHANGED <<command, summary, campaign, at>>
  BY DEF GiveUp, SummaryPoint
<1>2. \A d : Done(d)' <=> Done(d)
  BY <1>1, GivenUp DEF Done
<1>3. at[1] \in 1..Points /\ at[2] - 1 \in 0..Repetitions
  BY Positive DEF CampaignInv, TypeInv, Places
<1>4. Tells(current, at[1], at[2] - 1)
  BY DEF PointsInv
<1>5. \A x : Tells(x, at[1], at[2] - 1) => Tells(x, at[1], at[2] - 1)'
  BY <1>1, <1>2 DEF Tells, Named
<1>6. ASSUME NEW x, x = current PROVE PointsInv'
  <2>1. Tells(x, at[1], at[2] - 1)'
    BY <1>4, <1>5, <1>6
  <2>2. points' = Append(points, x)
    BY <1>1, <1>6
  <2>3. \A m \in 0..Repetitions : m = at[2] - 1 => Tells(x, at[1], m)'
    BY <1>1, <2>1
  <2> QED
    BY <1>1, <1>2, <1>3, <2>2, <2>3, PointsClose
<1> QED
  BY <1>6

LEMMA PointsNoWorkload == CampaignInv /\ PointsInv /\ NoWorkload => PointsInv'
<1> SUFFICES ASSUME CampaignInv, PointsInv, NoWorkload PROVE PointsInv'
  OBVIOUS
<1> DEFINE pt == [Fresh(at[1]) EXCEPT !.repetitions = 0]
<1>1. /\ step = "prepare" /\ at[2] = 1 /\ points' = Append(points, pt) /\ step' = "summary"
      /\ UNCHANGED <<command, summary, campaign, at, ended>>
  BY DEF NoWorkload
<1>2. at[1] \in 1..Points /\ 0 \in {0, Repetitions} /\ 0 \in 0..Repetitions /\ step \in Working
  BY <1>1, Positive DEF CampaignInv, TypeInv, Places, Working
<1>3. ASSUME NEW i \in 1..Points, i = at[1], NEW x, x = [Fresh(i) EXCEPT !.repetitions = 0] PROVE PointsInv'
  <2>1. /\ x \in PointRecords /\ x.index = i /\ x.runs = Named(i, 0)
        /\ x.sent = Planned * 0 /\ x.repetitions = 0
    BY <1>2, <1>3, FreshFields
  <2>2. \A d \in Places : d[1] = at[1] => (Done(d) <=> d[2] <= 0)
    BY <1>1, <1>2 DEF PointsInv, Tells
  <2>3. \A d : Done(d)' <=> Done(d)
    BY <1>1 DEF Done
  <2>4. Tells(x, at[1], 0)'
    BY <1>1, <1>3, <2>1, <2>2, <2>3 DEF Tells, Named
  <2>5. points' = Append(points, x)
    BY <1>1, <1>3
  <2> QED
    BY <1>1, <1>2, <2>3, <2>4, <2>5, PointsClose
<1> QED
  BY <1>2, <1>3

\* What is done after a repetition completes.
LEMMA OneMoreDone ==
  ASSUME CampaignInv, Succeed
  PROVE  \A d : Done(d)' <=> Done(d) \/ d = at
BY DEF Succeed, Done

LEMMA PointsSucceed ==
  ASSUME CampaignInv, PointsInv, Succeed, NEW i, NEW m, at = <<i, m>>
  PROVE  PointsInv'
<1> DEFINE last == m = Repetitions
<1>1. /\ step = "run" /\ step \in Working /\ UNCHANGED <<command, summary, campaign>>
      /\ points' = IF last THEN Append(points, Counted(current, at)) ELSE points
      /\ current' = IF last THEN Fresh(i + 1) ELSE Counted(current, at)
      /\ at' = IF ~last THEN <<i, m + 1>> ELSE IF i < Points THEN <<i + 1, 1>> ELSE at
      /\ step' = IF last /\ i = Points THEN "summary" ELSE "prepare"
  BY DEF Succeed, Working
<1>2. at \in Places /\ i \in 1..Points /\ m \in 1..Repetitions /\ at[1] = i /\ at[2] = m
  BY DEF CampaignInv, TypeInv, Places
<1>3. \A d : Done(d)' <=> Done(d) \/ d = at
  BY OneMoreDone
<1>4. /\ points \in Seq(PointRecords) /\ Len(points) = i - 1
      /\ \A k \in 1..Len(points) : Tells(points[k], k, Repetitions) /\ points[k].repetitions = Repetitions
      /\ Tells(current, i, m - 1) /\ current.repetitions = Repetitions
  BY <1>1, <1>2 DEF PointsInv
<1>5. summary.state = "written" =>
        summary.campaign \in Nat /\ summary.campaign <= campaign /\ summary.campaign # campaign
  BY <1>1 DEF PointsInv, Working
<1>6. ASSUME NEW x, x = Counted(current, at)
      PROVE  x \in PointRecords /\ x.repetitions = Repetitions /\ Tells(x, i, m)'
  <2>1. /\ x \in PointRecords /\ x.index = i /\ x.runs = Named(i, m)
        /\ x.sent = Planned * m /\ x.repetitions = Repetitions
    BY <1>2, <1>4, <1>6, CountedTells
  <2>2. \A d \in Places : d[1] = i => (Done(d)' <=> d[2] <= m)
    <3>1. SUFFICES ASSUME NEW d \in Places, d[1] = i PROVE Done(d)' <=> d[2] <= m
      OBVIOUS
    <3>2. Done(d) <=> d[2] <= m - 1
      BY <1>4, <3>1 DEF Tells
    <3>3. d[2] \in Nat /\ (d = at <=> d[2] = m)
      BY <1>2, <3>1 DEF Places
    <3> QED
      BY <1>2, <1>3, <3>2, <3>3
  <2> QED
    BY <1>1, <2>1, <2>2 DEF Tells, Named
<1>7. ASSUME NEW k \in 1..Len(points), NEW x, x = points[k]
      PROVE  Tells(x, k, Repetitions)'
  <2>1. k # i
    BY <1>2, <1>4
  <2>2. \A d \in Places : d[1] = k => (Done(d)' <=> Done(d))
    BY <1>2, <1>3, <2>1
  <2> QED
    BY <1>1, <1>4, <1>7, <2>2 DEF Tells, Named
<1>8. CASE ~last
  <2>1. /\ points' = points /\ current' = Counted(current, at) /\ at'[1] = i /\ at'[2] = m + 1
        /\ step' = "prepare"
    BY <1>1, <1>8
  <2>2. at'[2] - 1 = m
    BY <1>2, <2>1
  <2>3. Tells(current, at[1], at[2] - 1)' /\ current'.repetitions = Repetitions
    BY <1>6, <2>1, <2>2
  <2>4. \A k \in 1..Len(points) : Tells(points[k], k, Repetitions)' /\ points'[k].repetitions = Repetitions
    BY <1>4, <1>7, <2>1
  <2> QED
    BY <1>1, <1>4, <1>5, <2>1, <2>3, <2>4 DEF PointsInv
<1>9. CASE last /\ i < Points
  <2>1. /\ points' = Append(points, Counted(current, at)) /\ current' = Fresh(i + 1)
        /\ at'[1] = i + 1 /\ at'[2] = 1 /\ step' = "prepare"
    BY <1>1, <1>2, <1>9, Positive
  <2>2. Counted(current, at) \in PointRecords
    BY <1>6
  <2>3. /\ points' \in Seq(PointRecords) /\ Len(points') = i
        /\ \A k \in 1..(i - 1) : points'[k] = points[k]
        /\ points'[i] = Counted(current, at)
    <3> HIDE <1>3, <1>6, <1>7
    <3> QED
      BY <1>2, <1>4, <2>1, <2>2, AppendProperties
  <2>4. at'[1] - 1 = i /\ at'[2] - 1 = 0 /\ \A k \in 1..i : k = i \/ k \in 1..(i - 1)
    BY <1>2, <2>1
  <2>5. \A k \in 1..i : Tells(points[k], k, Repetitions)' /\ points'[k].repetitions = Repetitions
    BY <1>4, <1>6, <1>7, <1>9, <2>3, <2>4
  <2>6. \A d \in Places : d[1] = i + 1 => ~Done(d)'
    <3>1. SUFFICES ASSUME NEW d \in Places, d[1] = i + 1, Done(d) \/ d = at PROVE FALSE
      BY <1>3
    <3>2. ~(d[1] < i) /\ d[1] # i
      BY <1>2, <3>1
    <3> QED
      BY <1>1, <1>2, <3>1, <3>2 DEF CampaignInv, DoneInv, Before
  <2>7. Tells(current, at[1], at[2] - 1)' /\ current'.repetitions = Repetitions
    <3>1. i + 1 \in 1..Points /\ Repetitions \in {0, Repetitions}
      BY <1>2, <1>9, Positive
    <3>2. \A d \in Places : ~(d[2] <= 0)
      BY Positive DEF Places
    <3>3. Fresh(i + 1) = [Fresh(i + 1) EXCEPT !.repetitions = Repetitions]
      BY DEF Fresh
    <3>4. /\ current' \in PointRecords /\ current'.index = i + 1
          /\ current'.runs = Named(i + 1, 0)
          /\ current'.sent = Planned * 0 /\ current'.repetitions = Repetitions
      BY <2>1, <3>1, <3>3, FreshFields
    <3> QED
      BY <1>1, <2>1, <2>4, <2>6, <3>2, <3>4 DEF Tells, Named
  <2> QED
    BY <1>5, <1>1, <2>1, <2>3, <2>4, <2>5, <2>7 DEF PointsInv
<1>10. CASE last /\ i = Points
  <2>1. /\ points' = Append(points, Counted(current, at)) /\ at' = at /\ step' = "summary"
    BY <1>1, <1>2, <1>10, Positive
  <2>2. ASSUME NEW x, x = Counted(current, at) PROVE PointsInv'
    <3>1. Tells(x, at[1], Repetitions)' /\ points' = Append(points, x) /\ Repetitions \in 0..Repetitions
      <4>1. Tells(x, i, m)' /\ points' = Append(points, x) /\ at'[1] = i
        BY <1>2, <1>6, <2>1, <2>2
      <4> QED
        BY <1>10, <4>1, Positive
    <3>2. \A d \in Places : d[1] # at[1] => (Done(d)' <=> Done(d))
      BY <1>3
    <3> QED
      BY <1>1, <2>1, <3>1, <3>2, PointsClose
  <2> QED
    BY <2>2
<1> QED
  BY <1>2, <1>8, <1>9, <1>10, Positive

LEMMA PointsStep == CampaignInv /\ PointsInv /\ [Next]_vars => PointsInv'
<1> SUFFICES ASSUME CampaignInv, PointsInv, [Next]_vars PROVE PointsInv'
  OBVIOUS
<1>1. CASE Probe
  <2>1. step = "probe" /\ step \in Working /\ points = <<>>
        /\ UNCHANGED <<command, summary, campaign, at, points, current, ended>>
    BY <1>1 DEF Probe, PointsInv, Working
  <2>2. CASE step' = "prepare"
    BY <2>1, <2>2, PointsContinue DEF Done, Working
  <2>3. CASE step' = "summary"
    <3>1. points' \in Seq(PointRecords) /\ Len(points') = 0 /\ 0 <= Points
      BY <2>1, EmptySeq, Positive
    <3>2. Told(points)'
      BY <3>1 DEF Told
    <3> QED
      BY <2>1, <2>3, <3>2 DEF PointsInv, Working
  <2>4. CASE step' = "idle"
    BY <2>1, <2>4 DEF PointsInv, Working
  <2> QED
    BY <1>1, <2>2, <2>3, <2>4 DEF Probe
<1>2. CASE Prepare
  <2>1. step \in Working
    BY <1>2 DEF Prepare, Working
  <2>2. CASE GiveUp("refused")
    BY <2>1, <2>2, PointsGiveUp
  <2> QED
    BY <1>2, <2>1, <2>2, PointsContinue DEF Prepare, Done, Working
<1>3. CASE WriteManifest
  <2>1. step \in Working
    BY <1>3 DEF WriteManifest, Working
  <2>2. CASE GiveUp("refused")
    BY <2>1, <2>2, PointsGiveUp
  <2> QED
    BY <1>3, <2>1, <2>2, PointsContinue DEF WriteManifest, Done, Working
<1>4. CASE CreateEvents
  <2>1. step \in Working
    BY <1>4 DEF CreateEvents, Working
  <2>2. CASE GiveUp("refused")
    BY <2>1, <2>2, PointsGiveUp
  <2> QED
    BY <1>4, <2>1, <2>2, PointsContinue DEF CreateEvents, Done, Working
<1>5. CASE Spill
  BY <1>5, PointsContinue DEF Spill, Done, Working
<1>6. CASE Abort
  BY <1>6, PointsGiveUp DEF Abort, Working
<1>7. CASE Succeed
  <2>1. \E i, m : at = <<i, m>>
    BY DEF CampaignInv, TypeInv, Places
  <2> QED
    BY <1>7, <2>1, PointsSucceed
<1>8. CASE OpenSummary
  <2>1. summary.state = "written" => summary.campaign # campaign
    BY <1>8 DEF OpenSummary, PointsInv
  <2>2. \A d : Done(d)' <=> Done(d)
    BY <1>8 DEF OpenSummary, Done
  <2>3. Told(points)'
    <3>1. Told(points) /\ UNCHANGED <<command, ended, campaign, points>>
      BY <1>8 DEF OpenSummary, PointsInv
    <3>2. ASSUME NEW pts, pts = points PROVE Told(pts)'
      BY <3>1, <3>2, StillTold
    <3> QED
      BY <3>1, <3>2
  <2> QED
    BY <1>8, <2>1, <2>3 DEF OpenSummary, PointsInv, Working
<1>9. CASE WriteSummary
  <2>1. /\ step = "record" /\ step' = "idle" /\ UNCHANGED <<command, campaign, points, ended>>
        /\ Told(points) /\ campaign \in Nat
    BY <1>9 DEF WriteSummary, PointsInv, CampaignInv, TypeInv
  <2>2. CASE summary' = [state |-> "written", campaign |-> campaign, points |-> points]
    <3>1. summary'.state = "written" /\ summary'.campaign = campaign /\ summary'.points = points
      BY <2>2
    <3>2. Told(points)'
      <4>1. ASSUME NEW pts, pts = points PROVE Told(pts)'
        BY <2>1, <4>1, StillTold
      <4> QED
        BY <2>1, <4>1
    <3>3. Told(summary.points)'
      BY <2>1, <3>1, <3>2 DEF Told
    <3> QED
      BY <2>1, <3>1, <3>3 DEF PointsInv, Working
  <2>3. CASE UNCHANGED summary
    BY <2>1, <2>3 DEF PointsInv, Working
  <2> QED
    BY <1>9, <2>2, <2>3 DEF WriteSummary
<1>10. CASE Kill
  BY <1>10 DEF Kill, PointsInv, Working
<1>11. CASE UNCHANGED vars
  BY <1>11 DEF vars, PointsInv, Told, Tells, Named, Done
<1> QED
  BY <1>1, <1>2, <1>3, <1>4, <1>5, <1>6, <1>7, <1>8, <1>9, <1>10, <1>11,
     PointsStart, PointsNoWorkload DEF Next

\* So does the one of the points in the summary that is being built.
THEOREM SummaryInvariant == Spec => [](CampaignInv /\ PointsInv)
BY CampaignInit, CampaignStep, PointsInit, PointsStep, PTL DEF Spec

\* The pairs of an index in 1..m and one in 1..n.
LEMMA PairsCount ==
  ASSUME NEW S, IsFiniteSet(S), NEW n \in Nat
  PROVE  Cardinality(S \X (1..n)) = Cardinality(S) * n
<1>1. IsFiniteSet(1..n) /\ Cardinality(1..n) = n
  BY FS_Interval
<1> QED
  BY <1>1, FS_Product

LEMMA InvariantSummarizes == CampaignInv /\ PointsInv => SummaryMatchesDirectories
<1> SUFFICES ASSUME CampaignInv, PointsInv, summary.state = "written", summary.campaign = campaign,
                    NEW i \in DOMAIN summary.points
             PROVE  LET pt == summary.points[i]
                        done == {d \in Places : d[1] = i /\ <<campaign, d, "completed">> \in ended}
                        last == {d \in done : \A e \in done : e[2] <= d[2]}
                    IN  /\ pt.index = i
                        /\ {pt.runs[k] : k \in DOMAIN pt.runs} =
                             IF command = "sweep" THEN last ELSE done
                        /\ i < Len(summary.points) => Cardinality(done) = pt.repetitions
                        /\ pt.sent = Cardinality(UNION {{<<d, k>> : k \in DOMAIN dirs[d].lines} : d \in done})
  BY DEF SummaryMatchesDirectories
<1> DEFINE pt == summary.points[i]
           done == {d \in Places : d[1] = i /\ <<campaign, d, "completed">> \in ended}
           last == {d \in done : \A e \in done : e[2] <= d[2]}
           found == UNION {{<<d, k>> : k \in DOMAIN dirs[d].lines} : d \in done}
<1>1. /\ summary.points \in Seq(PointRecords) /\ Len(summary.points) <= Points
      /\ i \in 1..Len(summary.points) /\ i \in 1..Points
  <2>1. Told(summary.points)
    BY DEF PointsInv
  <2>2. DOMAIN summary.points = 1..Len(summary.points) /\ Len(summary.points) \in Nat
    BY <2>1, LenProperties DEF Told
  <2> QED
    BY <2>1, <2>2, Positive DEF Told
<1>2. PICK m \in 0..Repetitions : Tells(pt, i, m) /\ (i < Len(summary.points) => m = pt.repetitions)
  BY <1>1 DEF PointsInv, Told
<1>3. m \in Nat /\ 1..m \subseteq 1..Repetitions
  BY Positive
<1>4. done = {<<i, k>> : k \in 1..m}
  <2>1. ASSUME NEW d \in done PROVE d \in {<<i, k>> : k \in 1..m}
    BY <1>2, <1>3 DEF Tells, Done, Places
  <2>2. ASSUME NEW k \in 1..m PROVE <<i, k>> \in done
    <3>1. <<i, k>> \in Places /\ <<i, k>>[1] = i /\ <<i, k>>[2] = k /\ k <= m
      BY <1>1, <1>3 DEF Places
    <3> QED
      BY <1>2, <3>1 DEF Tells, Done
  <2> QED
    BY <2>1, <2>2
<1>5. {pt.runs[k] : k \in DOMAIN pt.runs} = IF command = "sweep" THEN last ELSE done
  <2> DEFINE placed == PlacesOf(i, m)
             runs == pt.runs
             told == {runs[k] : k \in DOMAIN runs}
  <2>1. runs = IF command = "sweep" THEN IF m = 0 THEN <<>> ELSE <<<<i, m>>>> ELSE placed
    BY <1>2 DEF Tells, Named
  <2>2. {placed[k] : k \in DOMAIN placed} = {<<i, k>> : k \in 1..m}
    BY DEF PlacesOf
  <2>3. m = 0 => last = {}
    BY <1>4
  <2>4. m # 0 => last = {<<i, m>>}
    <3> SUFFICES ASSUME m # 0 PROVE last = {<<i, m>>}
      OBVIOUS
    <3>1. m \in 1..m
      BY <1>3
    <3>2. <<i, m>> \in last
      BY <1>3, <1>4, <3>1
    <3>3. ASSUME NEW d \in last PROVE d = <<i, m>>
      <4>1. d \in done /\ d[2] >= m
        BY <1>3, <3>2, <3>3
      <4>2. PICK k \in 1..m : d = <<i, k>>
        BY <1>4, <4>1
      <4> QED
        BY <1>3, <4>1, <4>2
    <3> HIDE DEF last
    <3> QED
      BY <3>2, <3>3
  <2> HIDE DEF placed, done, last, runs
  <2>5. told = IF command = "sweep" THEN last ELSE done
    <3>1. CASE command # "sweep"
      BY <1>4, <2>1, <2>2, <3>1
    <3>2. CASE command = "sweep" /\ m = 0
      BY <2>1, <2>3, <3>2
    <3>3. CASE command = "sweep" /\ m # 0
      <4>1. runs = <<<<i, m>>>>
        BY <2>1, <3>3
      <4>2. told = {<<i, m>>}
        BY <4>1
      <4> HIDE DEF told
      <4> QED
        BY <2>4, <3>3, <4>2
    <3> QED
      BY <3>1, <3>2, <3>3
  <2> QED
    BY <2>5 DEF runs
<1>6. IsFiniteSet(done) /\ Cardinality(done) = m
  <2>1. IsFiniteSet({i}) /\ Cardinality({i}) = 1
    BY FS_Singleton
  <2>2. Cardinality({i} \X (1..m)) = 1 * m
    BY <1>3, <2>1, PairsCount
  <2>3. done = {i} \X (1..m)
    BY <1>4
  <2>4. IsFiniteSet({i} \X (1..m))
    <3>1. IsFiniteSet(1..m)
      BY <1>3, FS_Interval
    <3> QED
      BY <2>1, <3>1, FS_Product
  <2>5. 1 * m = m
    BY <1>3
  <2> HIDE DEF done
  <2> QED
    BY <2>2, <2>3, <2>4, <2>5
<1>7. found = done \X (1..Planned)
  <2>1. \A d \in done : DOMAIN dirs[d].lines = 1..Planned
    <3>1. SUFFICES ASSUME NEW d \in done PROVE DOMAIN dirs[d].lines = 1..Planned
      OBVIOUS
    <3>2. Full(d, dirs[d].lines, campaign)
      BY DEF CampaignInv, DoneInv, Done
    <3> QED
      BY <3>2, LenProperties DEF Full, Recorded
  <2> HIDE DEF done
  <2>2. ASSUME NEW z PROVE z \in found <=> \E d \in done : \E k \in 1..Planned : z = <<d, k>>
    <3>1. z \in found <=> \E d \in done : z \in {<<d, k>> : k \in DOMAIN dirs[d].lines}
      BY Zenon
    <3> HIDE DEF found
    <3>2. ASSUME NEW d \in done
          PROVE z \in {<<d, k>> : k \in DOMAIN dirs[d].lines} <=> \E k \in 1..Planned : z = <<d, k>>
      BY <2>1
    <3> QED
      BY <3>1, <3>2
  <2> HIDE DEF found
  <2>3. ASSUME NEW z PROVE z \in found <=> z \in done \X (1..Planned)
    BY <2>2
  <2> QED
    BY <2>3
<1>8. Cardinality(found) = m * Planned
  <2> HIDE DEF done, found
  <2> QED
    BY <1>6, <1>7, PairsCount, Positive
<1>9. pt.sent = Cardinality(found) /\ pt.index = i
  BY <1>2, <1>3, <1>8, Positive DEF Tells
<1> HIDE DEF done, last, found
<1> QED
  BY <1>2, <1>5, <1>6, <1>9 DEF done, last, found

\* The summary of the latest campaign says what was run: its points are the
\* first ones of the plan, all but the last complete; a comparison names every
\* run that completed, a sweep the last of each point, and the totals are the
\* events in their directories, however the campaign ended, for any numbers of
\* points, repetitions and requests and a kill between any two writes
\* (sweep.go:96-98, 222-232; compare.go:242-257).
THEOREM SummariesMatchDirectories == Spec => []SummaryMatchesDirectories
BY SummaryInvariant, InvariantSummarizes, PTL

=============================================================================
