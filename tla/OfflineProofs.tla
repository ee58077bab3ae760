---------------------------- MODULE OfflineProofs ----------------------------
(***************************************************************************)
(* What the offline editor shows and what exports leave on the disk, for      *)
(* every number of requests, commands, revisions and foreign changes, and     *)
(* every size of the pool; that the picture prepared for them fits its frame   *)
(* and has legal colours, for every size of an image, every crop and every     *)
(* pixel; and that only sound WAV files are accepted, whatever they hold.      *)
(***************************************************************************)
EXTENDS OfflineEditor, TransmissionProofs


-----------------------------------------------------------------------------
(* The inductive invariant.                                                 *)

Kinds == {"prepare", "gone"} \cup RequestKinds \cup CommandKinds

JobRecords ==
  [kind : Kinds, place : Places, revision : Nat, path : Paths, input : Paths, replace : BOOLEAN,
   header : Nat, read : Nat, attempt : 0 .. MaxAttempts, result : Results]

FileRecords == [kind : {"none", "image", "wav", "special"}, number : Nat, whole : BOOLEAN]

TempRecords == [opened : SUBSET Nat, written : SUBSET Nat]

ShapeInv ==
  /\ editor \in [state : States, input : Paths \cup {NoPath},
                 pending : {"none", "png", "wav"}, target : Paths]
  /\ gate \in Nat /\ shown \in Nat /\ foreign \in Nat /\ scope \in Scopes
  /\ snapshot \in [revision : Nat, input : Paths, header : Nat, pixels : Nat]
  /\ jobs \in Seq(JobRecords) /\ ended \in Seq(Nat)
  /\ files \in [Paths -> FileRecords] /\ temps \in [TempNames -> TempRecords]

(* A job has a result when it is over, and one that has prepared an image read   *)
(* the header and the pixels from one file.                                    *)
JobOK(job) ==
  /\ job.place # "over" => job.kind # "gone" /\ job.result = "none"
  /\ job.kind = "prepare" =>
       /\ job.place \in {"queued", "header", "decode", "over"}
       /\ job.result # "exists"
       /\ job.result = "done" => job.header = job.read
  /\ holdsTemp(job) => job.attempt > 0

JobsInv == \A j \in DOMAIN jobs : JobOK(jobs[j])

(* A result waits for the event loop once.                                    *)
EndedInv ==
  /\ \A k \in DOMAIN ended :
       /\ ended[k] \in DOMAIN jobs
       /\ jobs[ended[k]].place = "over" /\ jobs[ended[k]].result # "none"
       /\ jobs[ended[k]].kind \in {"prepare"} \cup RequestKinds
  /\ \A k, l \in DOMAIN ended : ended[k] = ended[l] => k = l

(* What a temporary file is while job j works on it.                           *)
held(j, place) == [opened |-> {j}, written |-> IF place = "write" THEN {} ELSE {j}]

(* A job that has a temporary file has it alone.                               *)
TempInv ==
  /\ \A j \in DOMAIN jobs :
       holdsTemp(jobs[j]) => temps[nameOf(jobs[j])] = held(j, jobs[j].place)
  /\ \A name \in TempNames : \A j \in temps[name].opened \ {0} :
       j \in DOMAIN jobs /\ holdsTemp(jobs[j]) /\ name = nameOf(jobs[j])

WholeInv == \A path \in Paths : files[path].whole

(* A preparation of the newest revision is of the input that is selected, and    *)
(* while an export of it is known the image it was made from is still shown.     *)
RevisionInv ==
  /\ \A j \in DOMAIN jobs :
       /\ jobs[j].kind = "prepare" =>
            /\ jobs[j].revision \in 1 .. gate
            /\ jobs[j].revision = gate => jobs[j].input = editor.input
       /\ jobs[j].kind \in {"png", "wav"} =>
            jobs[j].revision <= gate /\ (jobs[j].revision = gate => snapshot # None)
  /\ PreviewIsCurrent

EditorInv == ShapeInv /\ JobsInv /\ EndedInv /\ TempInv /\ WholeInv /\ RevisionInv

-----------------------------------------------------------------------------
(* The names of temporary files.                                             *)

(* The name that an export takes was nobody's.                                *)
LEMMA AttemptIsFree ==
  ASSUME NEW job, freeAttempt(job) # 0
  PROVE  /\ freeAttempt(job) \in 1 .. MaxAttempts
         /\ temps[<<job.path, ownerOf(job), freeAttempt(job)>>] = NoTemp
<1> DEFINE free == {a \in 1 .. MaxAttempts : temps[<<job.path, ownerOf(job), a>>] = NoTemp}
<1>1. free # {} /\ freeAttempt(job) = CHOOSE a \in free : \A b \in free : a <= b
  BY DEF freeAttempt
<1>2. free \subseteq 1 .. MaxAttempts /\ \A a \in free : temps[<<job.path, ownerOf(job), a>>] = NoTemp
  OBVIOUS
<1> HIDE DEF free
<1>3. free \subseteq Nat
  BY <1>2
<1>4. PICK a \in free : \A b \in free : ~(<<b, a>> \in OpToRel(<, Nat))
  BY <1>1, <1>3, NatLessThanWellFounded, WFMin, Zenon
<1>5. \A b \in free : a <= b
  <2>1. \A b \in free : ~(b < a)
    BY <1>3, <1>4 DEF OpToRel
  <2> QED
    BY <1>3, <2>1
<1>6. freeAttempt(job) \in free
  BY <1>1, <1>5
<1> QED
  BY <1>2, <1>6

(* What job j does to the name it holds or takes leaves everybody else's alone.   *)
LEMMA TempMoves ==
  ASSUME EditorInv, NEW j \in DOMAIN jobs, NEW job, jobs' = [jobs EXCEPT ![j] = job],
         NEW name \in TempNames, NEW t, temps' = [temps EXCEPT ![name] = t],
         holdsTemp(jobs[j]) => name = nameOf(jobs[j]),
         ~holdsTemp(jobs[j]) => temps[name] = NoTemp,
         holdsTemp(job) => name = nameOf(job) /\ t = held(j, job.place),
         ~holdsTemp(job) => t.opened \subseteq {0}
  PROVE  TempInv'
<1>1. TempInv /\ temps \in [TempNames -> TempRecords] /\ jobs \in Seq(JobRecords)
  BY DEF EditorInv, ShapeInv
<1>2. DOMAIN jobs' = DOMAIN jobs /\ jobs'[j] = job /\ \A i \in DOMAIN jobs \ {j} : jobs'[i] = jobs[i]
  BY <1>1
<1>3. temps'[name] = t /\ \A other \in TempNames \ {name} : temps'[other] = temps[other]
  BY <1>1
<1>4. \A i \in DOMAIN jobs \ {j} : holdsTemp(jobs[i]) =>
        nameOf(jobs[i]) # name /\ temps[nameOf(jobs[i])] = held(i, jobs[i].place)
  <2> SUFFICES ASSUME NEW i \in DOMAIN jobs \ {j}, holdsTemp(jobs[i])
               PROVE  nameOf(jobs[i]) # name /\ temps[nameOf(jobs[i])] = held(i, jobs[i].place)
    OBVIOUS
  <2>1. temps[nameOf(jobs[i])] = held(i, jobs[i].place) /\ held(i, jobs[i].place).opened = {i}
    BY <1>1 DEF TempInv, held
  <2>2. CASE holdsTemp(jobs[j])
    <3>1. temps[name] = held(j, jobs[j].place) /\ held(j, jobs[j].place).opened = {j}
      BY <1>1, <2>2 DEF TempInv, held
    <3> QED
      BY <2>1, <3>1
  <2>3. CASE ~holdsTemp(jobs[j])
    <3>1. temps[name].opened = {}
      BY <2>3 DEF NoTemp
    <3> QED
      BY <2>1, <3>1
  <2> QED
    BY <2>2, <2>3
<1>5. \A i \in DOMAIN jobs : jobs[i] \in JobRecords
  BY <1>1
<1>6. ASSUME NEW i \in DOMAIN jobs', holdsTemp(jobs'[i])
      PROVE  temps'[nameOf(jobs'[i])] = held(i, jobs'[i].place)
  <2>1. CASE i = j
    BY <1>2, <1>3, <1>6, <2>1
  <2>2. CASE i # j
    <3>1. /\ jobs'[i] = jobs[i] /\ i \in DOMAIN jobs \ {j} /\ holdsTemp(jobs[i])
          /\ jobs[i] \in JobRecords /\ JobOK(jobs[i])
      BY <1>2, <1>5, <1>6, <2>2 DEF EditorInv, JobsInv
    <3>2. nameOf(jobs[i]) \in TempNames
      BY <3>1 DEF nameOf, TempNames, JobOK, JobRecords, Owners, ownerOf
    <3> QED
      BY <1>3, <1>4, <3>1, <3>2
  <2> QED
    BY <2>1, <2>2
<1>7. ASSUME NEW other \in TempNames, NEW i \in temps'[other].opened \ {0}
      PROVE  i \in DOMAIN jobs' /\ holdsTemp(jobs'[i]) /\ other = nameOf(jobs'[i])
  <2>1. CASE other = name
    <3>1. i \in t.opened \ {0}
      BY <1>3, <1>7, <2>1
    <3>2. holdsTemp(job) /\ i = j
      BY <3>1 DEF held
    <3> QED
      BY <1>2, <2>1, <3>2
  <2>2. CASE other # name
    <3>1. i \in temps[other].opened \ {0}
      BY <1>3, <1>7, <2>2
    <3>2. i \in DOMAIN jobs /\ holdsTemp(jobs[i]) /\ other = nameOf(jobs[i])
      BY <1>1, <3>1 DEF TempInv
    <3>3. i # j
      BY <2>2, <3>2
    <3> QED
      BY <1>2, <3>2, <3>3
  <2> QED
    BY <2>1, <2>2
<1> QED
  BY <1>6, <1>7 DEF TempInv

(* Nor does a job that holds none before or after.                            *)
LEMMA TempKept ==
  ASSUME EditorInv, NEW j \in DOMAIN jobs, NEW job, jobs' = [jobs EXCEPT ![j] = job],
         temps' = temps, ~holdsTemp(jobs[j]), ~holdsTemp(job)
  PROVE  TempInv'
<1>1. TempInv /\ jobs \in Seq(JobRecords)
  BY DEF EditorInv, ShapeInv
<1>2. DOMAIN jobs' = DOMAIN jobs /\ jobs'[j] = job /\ \A i \in DOMAIN jobs \ {j} : jobs'[i] = jobs[i]
  BY <1>1
<1> QED
  BY <1>1, <1>2 DEF TempInv

-----------------------------------------------------------------------------
(* A step of a job.                                                         *)

(* What a step of job j makes of it: it is the same job, elsewhere; or it is     *)
(* over and waits for the event loop; or the command has exited.               *)
Follows(j, job) ==
  /\ job \in JobRecords /\ JobOK(job)
  /\ jobs' = [jobs EXCEPT ![j] = job]
  /\ \/ job.kind = "gone" /\ job.place = "over" /\ ended' = ended
     \/ /\ job.kind = jobs[j].kind /\ job.revision = jobs[j].revision /\ job.input = jobs[j].input
        /\ \/ job.place # "over" /\ ended' = ended
           \/ /\ job.place = "over" /\ job.result # "none" /\ ended' = Append(ended, j)
              /\ job.kind \in {"prepare"} \cup RequestKinds

(* What is known of a job that has not ended.                                  *)
LEMMA JobFacts ==
  ASSUME EditorInv, NEW j \in DOMAIN jobs
  PROVE  /\ jobs \in Seq(JobRecords) /\ jobs[j] \in JobRecords /\ JobOK(jobs[j])
         /\ j \in Nat \ {0}
  BY DEF EditorInv, ShapeInv, JobsInv

(* Going on to another place.                                               *)
LEMMA GotoFollows ==
  ASSUME EditorInv, NEW j \in DOMAIN jobs, jobs[j].place # "over",
         NEW place \in Places \ {"over"}, Goto(j, place),
         jobs[j].kind = "prepare" => place \in {"queued", "header", "decode"},
         place \in {"write", "publish", "unlink"} => jobs[j].attempt > 0
  PROVE  \E job : Follows(j, job) /\ job.place = place /\ nameOf(job) = nameOf(jobs[j])
<1> DEFINE job == [jobs[j] EXCEPT !.place = place]
<1>1. jobs[j] \in JobRecords /\ JobOK(jobs[j]) /\ jobs \in Seq(JobRecords)
  BY JobFacts
<1>2. /\ job \in JobRecords /\ job.place = place
      /\ job.kind = jobs[j].kind /\ job.revision = jobs[j].revision /\ job.input = jobs[j].input
      /\ job.result = jobs[j].result /\ job.attempt = jobs[j].attempt /\ job.path = jobs[j].path
      /\ job.header = jobs[j].header /\ job.read = jobs[j].read
  BY <1>1 DEF JobRecords
<1>3. jobs' = [jobs EXCEPT ![j] = job] /\ ended' = ended
  BY DEF Goto
<1> HIDE DEF job
<1>4. JobOK(job)
  BY <1>1, <1>2 DEF JobOK, holdsTemp
<1>5. nameOf(job) = nameOf(jobs[j])
  BY <1>2 DEF nameOf, ownerOf
<1>6. Follows(j, job)
  BY <1>2, <1>3, <1>4 DEF Follows
<1> QED
  BY <1>2, <1>5, <1>6

(* Coming to an end.                                                        *)
LEMMA OverFollows ==
  ASSUME EditorInv, NEW j \in DOMAIN jobs, jobs[j].place # "over",
         NEW result \in Results \ {"none"}, Over(j, result),
         jobs[j].kind = "prepare" => result = "error"
  PROVE  \E job : Follows(j, job) /\ job.place = "over"
<1>1. jobs[j] \in JobRecords /\ JobOK(jobs[j]) /\ jobs \in Seq(JobRecords)
  BY JobFacts
<1>2. CASE ownerOf(jobs[j]) = "editor"
  <2> DEFINE job == [jobs[j] EXCEPT !.place = "over", !.result = result]
  <2>1. /\ job \in JobRecords /\ job.place = "over"
        /\ job.kind = jobs[j].kind /\ job.revision = jobs[j].revision /\ job.input = jobs[j].input
        /\ job.result = result
    BY <1>1 DEF JobRecords, Places
  <2>2. jobs' = [jobs EXCEPT ![j] = job] /\ ended' = Append(ended, j)
    <3>1. jobs' = [jobs EXCEPT ![j].place = "over", ![j].result = result]
            /\ ended' = Append(ended, j)
      BY <1>2 DEF Over
    <3> QED
      BY <1>1, <3>1 DEF JobRecords
  <2> HIDE DEF job
  <2>3. JobOK(job)
    BY <1>1, <2>1 DEF JobOK, holdsTemp, Results
  <2>4. job.kind \in {"prepare"} \cup RequestKinds
    <3>1. jobs[j].kind \in Kinds /\ jobs[j].kind \notin CommandKinds /\ jobs[j].kind # "gone"
      BY <1>1, <1>2 DEF ownerOf, JobOK, JobRecords
    <3> QED
      BY <2>1, <3>1 DEF Kinds
  <2>5. Follows(j, job)
    BY <2>1, <2>2, <2>3, <2>4 DEF Follows
  <2> QED
    BY <2>1, <2>5
<1>3. CASE ownerOf(jobs[j]) # "editor"
  <2>1. jobs' = [jobs EXCEPT ![j] = Gone] /\ ended' = ended
    BY <1>3 DEF Over
  <2>2. Gone \in JobRecords /\ Gone.kind = "gone" /\ Gone.place = "over"
    <3>1. MaxAttempts \in Nat
      BY BoundsAssumption
    <3> QED
      BY <3>1 DEF Gone, Job, JobRecords, Kinds, Places, Paths, Results
  <2>3. JobOK(Gone)
    BY <2>2 DEF JobOK, holdsTemp
  <2>4. Follows(j, Gone)
    BY <2>1, <2>2, <2>3 DEF Follows
  <2> QED
    BY <2>2, <2>4
<1> QED
  BY <1>2, <1>3

(* A step of one job keeps what is known of all of them.                        *)
LEMMA FollowsKeeps ==
  ASSUME EditorInv, NEW j \in DOMAIN jobs, jobs[j].place # "over", NEW job, Follows(j, job),
         UNCHANGED ui
  PROVE  /\ jobs' \in Seq(JobRecords) /\ ended' \in Seq(Nat)
         /\ JobsInv' /\ EndedInv' /\ RevisionInv'
<1>1. /\ jobs \in Seq(JobRecords) /\ ended \in Seq(Nat) /\ j \in Nat
      /\ JobsInv /\ EndedInv /\ RevisionInv
  BY DEF EditorInv, ShapeInv
<1>2. /\ job \in JobRecords /\ JobOK(job) /\ jobs' = [jobs EXCEPT ![j] = job]
  BY DEF Follows
<1>3. /\ DOMAIN jobs' = DOMAIN jobs /\ jobs'[j] = job
      /\ \A i \in DOMAIN jobs \ {j} : jobs'[i] = jobs[i]
      /\ jobs' \in Seq(JobRecords)
  BY <1>1, <1>2
<1>4. ended' \in Seq(Nat)
  <2>1. ended' = ended \/ ended' = Append(ended, j)
    BY DEF Follows
  <2>2. Append(ended, j) \in Seq(Nat)
    BY <1>1
  <2> QED
    BY <1>1, <2>1, <2>2
<1>5. JobsInv'
  BY <1>1, <1>2, <1>3 DEF JobsInv
<1>6. \A k \in DOMAIN ended : ended[k] \in DOMAIN jobs \ {j}
  BY <1>1 DEF EndedInv
<1>7. EndedInv'
  <2>1. CASE ended' = ended
    BY <1>1, <1>3, <1>6, <2>1 DEF EndedInv
  <2>2. CASE /\ job.place = "over" /\ job.result # "none" /\ ended' = Append(ended, j)
             /\ job.kind \in {"prepare"} \cup RequestKinds
    <3>1. \A k \in DOMAIN ended' : \/ k \in DOMAIN ended /\ ended'[k] = ended[k]
                                   \/ k = Len(ended) + 1 /\ ended'[k] = j
      BY <1>1, <2>2
    <3>2. ASSUME NEW k \in DOMAIN ended'
          PROVE  /\ ended'[k] \in DOMAIN jobs'
                 /\ jobs'[ended'[k]].place = "over" /\ jobs'[ended'[k]].result # "none"
                 /\ jobs'[ended'[k]].kind \in {"prepare"} \cup RequestKinds
      BY <1>1, <1>3, <1>6, <2>2, <3>1 DEF EndedInv
    <3>3. ASSUME NEW k \in DOMAIN ended', NEW l \in DOMAIN ended', ended'[k] = ended'[l]
          PROVE  k = l
      BY <1>1, <1>6, <3>1, <3>3 DEF EndedInv
    <3> QED
      BY <3>2, <3>3 DEF EndedInv
  <2> QED
    BY <2>1, <2>2 DEF Follows
<1>8. RevisionInv'
  <2>1. PreviewIsCurrent'
    BY <1>1 DEF RevisionInv, PreviewIsCurrent, ui
  <2>2. \/ job.kind = "gone"
        \/ job.kind = jobs[j].kind /\ job.revision = jobs[j].revision /\ job.input = jobs[j].input
    BY DEF Follows
  <2>3. UNCHANGED <<editor, gate, snapshot>>
    BY DEF ui
  <2>4. \A i \in DOMAIN jobs' :
          \/ jobs'[i].kind = "gone"
          \/ /\ i \in DOMAIN jobs /\ jobs'[i].kind = jobs[i].kind
             /\ jobs'[i].revision = jobs[i].revision /\ jobs'[i].input = jobs[i].input
    BY <1>3, <2>2
  <2> QED
    BY <1>1, <2>1, <2>3, <2>4 DEF RevisionInv
<1> QED
  BY <1>3, <1>4, <1>5, <1>7, <1>8

(* What is true of the disk after a step of a job.                             *)
DiskKept ==
  /\ files' \in [Paths -> FileRecords] /\ temps' \in [TempNames -> TempRecords]
  /\ TempInv' /\ WholeInv'

(* Whether a step keeps what is known of the jobs and of the disk.              *)
StepKept(j) == (\E job : Follows(j, job)) /\ DiskKept

(* A job that has no temporary file leaves the disk as it is.                   *)
LEMMA ReadsOnly ==
  ASSUME EditorInv, NEW j \in DOMAIN jobs, NEW job, Follows(j, job), UNCHANGED disk,
         ~holdsTemp(jobs[j]), ~holdsTemp(job)
  PROVE  StepKept(j)
<1>1. /\ files \in [Paths -> FileRecords] /\ temps \in [TempNames -> TempRecords] /\ WholeInv
  BY DEF EditorInv, ShapeInv
<1>2. files' = files /\ temps' = temps
  BY DEF disk
<1>3. TempInv'
  BY <1>2, TempKept DEF Follows
<1> QED
  BY <1>1, <1>2, <1>3 DEF StepKept, DiskKept, WholeInv

(* Going on or ending without one.                                           *)
LEMMA GotoReads ==
  ASSUME EditorInv, NEW j \in DOMAIN jobs, jobs[j].place # "over", ~holdsTemp(jobs[j]),
         NEW place \in Places \ {"over", "write", "publish", "unlink"}, Goto(j, place),
         jobs[j].kind = "prepare" => place \in {"queued", "header", "decode"}, UNCHANGED disk
  PROVE  StepKept(j)
<1>1. PICK job : Follows(j, job) /\ job.place = place
  BY GotoFollows
<1> QED
  BY <1>1, ReadsOnly DEF holdsTemp

(* The same at the end.                                                      *)
LEMMA OverReads ==
  ASSUME EditorInv, NEW j \in DOMAIN jobs, jobs[j].place # "over", ~holdsTemp(jobs[j]),
         NEW result \in Results \ {"none"}, Over(j, result),
         jobs[j].kind = "prepare" => result = "error", UNCHANGED disk
  PROVE  StepKept(j)
<1>1. PICK job : Follows(j, job) /\ job.place = "over"
  BY OverFollows
<1> QED
  BY <1>1, ReadsOnly DEF holdsTemp

(* The steps before the output, and those of an inspection.                     *)
LEMMA ReadingSteps ==
  ASSUME EditorInv, NEW j \in DOMAIN jobs,
         Start(j) \/ Compare(j) \/ Header(j) \/ Decode(j) \/ Validate(j) \/ Stat(j) \/ Open(j)
  PROVE  StepKept(j) /\ UNCHANGED ui /\ jobs[j].place # "over"
<1>1. jobs[j] \in JobRecords /\ JobOK(jobs[j]) /\ jobs \in Seq(JobRecords)
  BY JobFacts
<1>2. \A path \in Paths : files[path] \in FileRecords
  BY DEF EditorInv, ShapeInv
<1>3. UNCHANGED ui /\ UNCHANGED disk
  BY DEF Start, Compare, Header, Decode, Validate, Stat, Open, stepFrame
<1>4. jobs[j].place \in {"queued", "compare", "header", "decode", "validate", "stat", "open"}
  BY DEF Start, Compare, Header, Decode, Validate, Stat, Open, at
<1>5. jobs[j].place # "over" /\ ~holdsTemp(jobs[j]) /\ jobs[j].kind # "gone" /\ jobs[j].result = "none"
  BY <1>1, <1>4 DEF holdsTemp, JobOK
<1> SUFFICES StepKept(j)
  BY <1>3, <1>5
<1>6. ASSUME NEW result \in {"error", "exists", "done"}, Over(j, result),
             jobs[j].kind = "prepare" => result = "error"
      PROVE  StepKept(j)
  BY <1>3, <1>5, <1>6, OverReads DEF Results
<1>7. ASSUME NEW place \in {"compare", "header", "decode", "validate", "begin", "stat", "open"},
             Goto(j, place), jobs[j].kind = "prepare" => place \in {"header", "decode"}
      PROVE  StepKept(j)
  BY <1>3, <1>5, <1>7, GotoReads DEF Places
<1>8. CASE Start(j)
  <2>1. /\ firstPlace(jobs[j].kind) \in {"compare", "header", "validate", "begin", "stat"}
        /\ jobs[j].kind = "prepare" => firstPlace(jobs[j].kind) = "header"
    BY <1>1, <1>5 DEF JobRecords, Kinds, RequestKinds, CommandKinds, firstPlace
  <2>2. Goto(j, firstPlace(jobs[j].kind))
    BY <1>8 DEF Start, Goto
  <2> QED
    BY <1>7, <2>1, <2>2
<1>9. CASE Compare(j)
  <2>1. jobs[j].kind # "prepare"
    BY <1>1, <1>9 DEF Compare, at, JobOK
  <2>2. Over(j, "error") \/ Goto(j, "header")
    BY <1>9 DEF Compare
  <2> QED
    BY <1>6, <1>7, <2>1, <2>2
<1>10. CASE Header(j)
  <2> DEFINE number == files[jobs[j].input].number
             job == [jobs[j] EXCEPT !.place = "decode", !.header = number]
  <2>1. \/ Over(j, "error")
        \/ jobs' = [jobs EXCEPT ![j].place = "decode", ![j].header = number] /\ ended' = ended
    BY <1>10 DEF Header
  <2>2. CASE Over(j, "error")
    BY <1>6, <2>2
  <2>3. CASE jobs' = [jobs EXCEPT ![j].place = "decode", ![j].header = number] /\ ended' = ended
    <3>1. number \in Nat
      BY <1>1, <1>2 DEF JobRecords, FileRecords
    <3> HIDE DEF number
    <3>2. jobs' = [jobs EXCEPT ![j] = job]
      BY <1>1, <2>3 DEF JobRecords
    <3>3. /\ job \in JobRecords /\ job.place = "decode" /\ job.kind = jobs[j].kind
          /\ job.revision = jobs[j].revision /\ job.input = jobs[j].input
          /\ job.result = jobs[j].result
      BY <1>1, <3>1 DEF JobRecords, Places
    <3> HIDE DEF job
    <3>4. Follows(j, job)
      BY <1>5, <2>3, <3>2, <3>3 DEF Follows, JobOK, holdsTemp
    <3> QED
      BY <1>3, <1>5, <3>3, <3>4, ReadsOnly DEF holdsTemp
  <2> QED
    BY <2>1, <2>2, <2>3
<1>11. CASE Decode(j)
  <2> DEFINE number == files[jobs[j].input].number
             job == [jobs[j] EXCEPT !.place = "over", !.result = "done", !.read = number]
  <2>1. \/ Over(j, "error")
        \/ Goto(j, "begin") /\ jobs[j].kind # "prepare"
        \/ /\ jobs' = [jobs EXCEPT ![j].place = "over", ![j].result = "done", ![j].read = number]
           /\ ended' = Append(ended, j) /\ jobs[j].kind = "prepare" /\ jobs[j].header = number
    BY <1>11 DEF Decode, isIdentical
  <2>2. CASE Over(j, "error")
    BY <1>6, <2>2
  <2>3. CASE Goto(j, "begin") /\ jobs[j].kind # "prepare"
    BY <1>7, <2>3
  <2>4. CASE /\ jobs' = [jobs EXCEPT ![j].place = "over", ![j].result = "done", ![j].read = number]
             /\ ended' = Append(ended, j) /\ jobs[j].kind = "prepare" /\ jobs[j].header = number
    <3>1. number \in Nat
      BY <1>1, <1>2 DEF JobRecords, FileRecords
    <3>0. jobs[j].header = number
      BY <2>4
    <3> HIDE DEF number
    <3>2. jobs' = [jobs EXCEPT ![j] = job]
      BY <1>1, <2>4 DEF JobRecords
    <3>3. /\ job \in JobRecords /\ job.place = "over" /\ job.kind = jobs[j].kind
          /\ job.revision = jobs[j].revision /\ job.input = jobs[j].input
          /\ job.result = "done" /\ job.header = job.read
      BY <1>1, <3>0, <3>1 DEF JobRecords, Places, Results
    <3> HIDE DEF job
    <3>4. Follows(j, job)
      BY <2>4, <3>2, <3>3 DEF Follows, JobOK, holdsTemp
    <3> QED
      BY <1>3, <1>5, <3>3, <3>4, ReadsOnly DEF holdsTemp
  <2> QED
    BY <2>1, <2>2, <2>3, <2>4
<1>12. CASE Validate(j)
  <2>1. jobs[j].kind # "prepare"
    BY <1>1, <1>12 DEF Validate, at, JobOK
  <2>2. Over(j, "error") \/ Over(j, "exists") \/ Goto(j, "begin")
    <3> DEFINE file == files[jobs[j].path]
    <3>1. CASE file = NoFile
      BY <1>12, <3>1 DEF Validate
    <3>2. CASE file # NoFile /\ isSame(jobs[j].input, jobs[j].path)
      BY <1>12, <3>2 DEF Validate
    <3>3. CASE file # NoFile /\ ~isSame(jobs[j].input, jobs[j].path) /\ ~jobs[j].replace
      BY <1>12, <3>3 DEF Validate
    <3>4. CASE file # NoFile /\ ~isSame(jobs[j].input, jobs[j].path) /\ jobs[j].replace
      BY <1>12, <3>4 DEF Validate
    <3> QED
      BY <3>1, <3>2, <3>3, <3>4
  <2> QED
    BY <1>6, <1>7, <2>1, <2>2
<1>13. CASE Stat(j)
  <2> DEFINE number == files[jobs[j].path].number
             job == [jobs[j] EXCEPT !.place = "open", !.header = number]
  <2>0. jobs[j].kind # "prepare"
    BY <1>1, <1>13 DEF Stat, at, JobOK
  <2>1. \/ Over(j, "error")
        \/ jobs' = [jobs EXCEPT ![j].place = "open", ![j].header = number] /\ ended' = ended
    BY <1>13 DEF Stat
  <2>2. CASE Over(j, "error")
    BY <1>6, <2>2
  <2>3. CASE jobs' = [jobs EXCEPT ![j].place = "open", ![j].header = number] /\ ended' = ended
    <3>1. number \in Nat
      BY <1>1, <1>2 DEF JobRecords, FileRecords
    <3> HIDE DEF number
    <3>2. jobs' = [jobs EXCEPT ![j] = job]
      BY <1>1, <2>3 DEF JobRecords
    <3>3. /\ job \in JobRecords /\ job.place = "open" /\ job.kind = jobs[j].kind
          /\ job.revision = jobs[j].revision /\ job.input = jobs[j].input
          /\ job.result = jobs[j].result
      BY <1>1, <3>1 DEF JobRecords, Places
    <3> HIDE DEF job
    <3>4. Follows(j, job)
      BY <1>5, <2>0, <2>3, <3>2, <3>3 DEF Follows, JobOK, holdsTemp
    <3> QED
      BY <1>3, <1>5, <3>3, <3>4, ReadsOnly DEF holdsTemp
  <2> QED
    BY <2>1, <2>2, <2>3
<1>14. CASE Open(j)
  <2>1. jobs[j].kind # "prepare"
    BY <1>1, <1>14 DEF Open, at, JobOK
  <2>2. Over(j, "error") \/ Over(j, "done")
    BY <1>14 DEF Open
  <2> QED
    BY <1>6, <2>1, <2>2
<1> QED
  BY <1>8, <1>9, <1>10, <1>11, <1>12, <1>13, <1>14

(* A step that changes what a job has under its name keeps the rest.             *)
LEMMA NameKept ==
  ASSUME EditorInv, NEW j \in DOMAIN jobs, NEW job, Follows(j, job),
         NEW name \in TempNames, NEW t \in TempRecords, temps' = [temps EXCEPT ![name] = t],
         files' \in [Paths -> FileRecords], WholeInv',
         holdsTemp(jobs[j]) => name = nameOf(jobs[j]),
         ~holdsTemp(jobs[j]) => temps[name] = NoTemp,
         holdsTemp(job) => name = nameOf(job) /\ t = held(j, job.place),
         ~holdsTemp(job) => t.opened \subseteq {0}
  PROVE  StepKept(j)
<1>1. temps' \in [TempNames -> TempRecords]
  BY DEF EditorInv, ShapeInv
<1>2. jobs' = [jobs EXCEPT ![j] = job]
  BY DEF Follows
<1>3. TempInv'
  BY <1>2, TempMoves
<1> QED
  BY <1>1, <1>3 DEF StepKept, DiskKept

(* What a job that has a temporary file knows of it.                            *)
LEMMA HolderFacts ==
  ASSUME EditorInv, NEW j \in DOMAIN jobs, holdsTemp(jobs[j])
  PROVE  /\ nameOf(jobs[j]) \in TempNames /\ jobs[j].attempt > 0
         /\ temps[nameOf(jobs[j])] = held(j, jobs[j].place)
         /\ jobs[j].kind \notin {"prepare", "gone"} /\ jobs[j].result = "none"
         /\ jobs[j].place # "over" /\ jobs[j].path \in Paths
<1>1. jobs[j] \in JobRecords /\ JobOK(jobs[j])
  BY JobFacts
<1>2. jobs[j].attempt > 0 /\ jobs[j].kind \notin {"prepare", "gone"} /\ jobs[j].result = "none"
  BY <1>1 DEF JobOK, holdsTemp
<1>3. nameOf(jobs[j]) \in TempNames
  BY <1>1, <1>2 DEF nameOf, TempNames, JobRecords, Owners, ownerOf
<1> QED
  BY <1>1, <1>2, <1>3 DEF EditorInv, TempInv, holdsTemp, JobRecords

(* The records that are put under a name.                                     *)
LEMMA TempsAreRecords ==
  ASSUME NEW j \in Nat, NEW place
  PROVE  held(j, place) \in TempRecords /\ NoTemp \in TempRecords /\ Left \in TempRecords
         /\ NoTemp.opened \subseteq {0} /\ Left.opened \subseteq {0}
BY DEF held, NoTemp, Left, TempRecords

(* Opening a temporary file, and writing all of it.                            *)
LEMMA WritingSteps ==
  ASSUME EditorInv, NEW j \in DOMAIN jobs, Begin(j) \/ Write(j)
  PROVE  StepKept(j) /\ UNCHANGED ui /\ jobs[j].place # "over"
<1>1. /\ jobs[j] \in JobRecords /\ JobOK(jobs[j]) /\ jobs \in Seq(JobRecords)
      /\ j \in Nat \ {0}
  BY JobFacts
<1>2. /\ files \in [Paths -> FileRecords] /\ temps \in [TempNames -> TempRecords] /\ WholeInv
      /\ TempInv
  BY DEF EditorInv, ShapeInv
<1>3. UNCHANGED ui /\ jobs[j].place # "over"
  BY DEF Begin, Write, stepFrame, at
<1> SUFFICES StepKept(j)
  BY <1>3
<1>4. CASE Begin(j)
  <2> DEFINE attempt == freeAttempt(jobs[j])
             name == <<jobs[j].path, ownerOf(jobs[j]), attempt>>
             job == [jobs[j] EXCEPT !.place = "write", !.attempt = attempt]
  <2>1. /\ jobs[j].place = "begin" /\ ~holdsTemp(jobs[j]) /\ jobs[j].kind \notin {"prepare", "gone"}
        /\ jobs[j].result = "none"
    BY <1>1, <1>4 DEF Begin, at, holdsTemp, JobOK
  <2>2. \/ Over(j, "error") /\ UNCHANGED disk
        \/ /\ attempt # 0 /\ jobs' = [jobs EXCEPT ![j].place = "write", ![j].attempt = attempt]
           /\ temps' = [temps EXCEPT ![name].opened = @ \cup {j}]
           /\ UNCHANGED <<ended, files>>
    BY <1>4 DEF Begin
  <2>3. CASE Over(j, "error") /\ UNCHANGED disk
    BY <1>3, <2>1, <2>3, OverReads DEF Results
  <2>4. CASE /\ attempt # 0 /\ jobs' = [jobs EXCEPT ![j].place = "write", ![j].attempt = attempt]
             /\ temps' = [temps EXCEPT ![name].opened = @ \cup {j}]
             /\ UNCHANGED <<ended, files>>
    <3>1. attempt \in 1 .. MaxAttempts /\ temps[name] = NoTemp
      BY <2>4, AttemptIsFree
    <3> HIDE DEF attempt
    <3>2. name \in TempNames
      BY <1>1, <3>1 DEF TempNames, JobRecords, Owners, ownerOf
    <3>3. temps' = [temps EXCEPT ![name] = held(j, "write")]
      <4>1. [temps[name] EXCEPT !.opened = @ \cup {j}] = held(j, "write")
        BY <3>1 DEF NoTemp, held
      <4> QED
        BY <2>4, <4>1
    <3>4. jobs' = [jobs EXCEPT ![j] = job]
      BY <1>1, <2>4 DEF JobRecords
    <3>5. /\ job \in JobRecords /\ job.place = "write" /\ job.kind = jobs[j].kind
          /\ job.revision = jobs[j].revision /\ job.input = jobs[j].input
          /\ job.result = jobs[j].result /\ job.path = jobs[j].path /\ job.attempt = attempt
      <4>1. attempt \in 0 .. MaxAttempts
        BY <3>1
      <4> QED
        BY <1>1, <4>1 DEF JobRecords, Places
    <3> HIDE DEF job
    <3>6. nameOf(job) = name
      BY <3>5 DEF nameOf, ownerOf
    <3> HIDE DEF name
    <3>7. Follows(j, job)
      <4>1. job.attempt > 0
        BY <3>1, <3>5
      <4> QED
        BY <2>1, <2>4, <3>4, <3>5, <4>1 DEF Follows, JobOK, holdsTemp
    <3>8. WholeInv' /\ files' \in [Paths -> FileRecords]
      BY <1>2, <2>4 DEF WholeInv
    <3>9. holdsTemp(job) /\ held(j, "write") \in TempRecords
      BY <1>1, <3>5, TempsAreRecords DEF holdsTemp
    <3> QED
      BY <2>1, <3>1, <3>2, <3>3, <3>5, <3>6, <3>7, <3>8, <3>9, NameKept
  <2> QED
    BY <2>2, <2>3, <2>4
<1>5. CASE Write(j)
  <2>1. /\ jobs[j].place = "write" /\ holdsTemp(jobs[j]) /\ Goto(j, "publish") /\ files' = files
        /\ temps' = [temps EXCEPT ![nameOf(jobs[j])].written = @ \cup {j}]
    BY <1>5 DEF Write, at, holdsTemp
  <2>2. /\ nameOf(jobs[j]) \in TempNames /\ jobs[j].attempt > 0
        /\ temps[nameOf(jobs[j])] = held(j, "write") /\ jobs[j].kind # "prepare"
    BY <2>1, HolderFacts
  <2>3. PICK job : Follows(j, job) /\ job.place = "publish" /\ nameOf(job) = nameOf(jobs[j])
    BY <1>3, <2>1, <2>2, GotoFollows DEF Places
  <2>4. temps' = [temps EXCEPT ![nameOf(jobs[j])] = held(j, "publish")]
    <3> DEFINE name == nameOf(jobs[j])
    <3>1. [temps[name] EXCEPT !.written = @ \cup {j}] = held(j, "publish")
      BY <2>2 DEF held
    <3> QED
      BY <2>1, <3>1
  <2>5. WholeInv' /\ files' \in [Paths -> FileRecords]
    BY <1>2, <2>1 DEF WholeInv
  <2>6. holdsTemp(job) /\ held(j, "publish") \in TempRecords
    BY <1>1, <2>3, TempsAreRecords DEF holdsTemp
  <2> QED
    BY <2>1, <2>2, <2>3, <2>4, <2>5, <2>6, NameKept
<1> QED
  BY <1>4, <1>5

(* A file that is published was written by its job alone.                       *)
LEMMA PublishedIsWhole ==
  ASSUME EditorInv, NEW j \in DOMAIN jobs, jobs[j].place = "publish"
  PROVE  fileOf(j) \in FileRecords /\ fileOf(j).whole
<1>1. holdsTemp(jobs[j]) /\ j \in Nat
  BY JobFacts DEF holdsTemp
<1>2. temps[nameOf(jobs[j])] = [opened |-> {j}, written |-> {j}]
  BY <1>1, HolderFacts DEF held
<1>3. MaxForeign \in Nat
  BY BoundsAssumption
<1>4. 2 + MaxForeign + j \in Nat
  BY <1>1, <1>3
<1> QED
  BY <1>2, <1>4 DEF fileOf, FileRecords

(* Giving the file its name, taking the temporary name away, and giving up.      *)
LEMMA EndingSteps ==
  ASSUME EditorInv, NEW j \in DOMAIN jobs, Publish(j) \/ Unlink(j) \/ Fail(j)
  PROVE  StepKept(j) /\ UNCHANGED ui /\ jobs[j].place # "over"
<1>1. /\ jobs[j] \in JobRecords /\ JobOK(jobs[j]) /\ jobs \in Seq(JobRecords)
      /\ j \in Nat \ {0}
  BY JobFacts
<1>2. /\ files \in [Paths -> FileRecords] /\ temps \in [TempNames -> TempRecords] /\ WholeInv
  BY DEF EditorInv, ShapeInv
<1>3. UNCHANGED ui /\ jobs[j].place # "over"
  BY DEF Publish, Unlink, Fail, stepFrame, at, inFlight
<1> SUFFICES StepKept(j)
  BY <1>3
<1> DEFINE name == nameOf(jobs[j])
<1>4. NoTemp \in TempRecords /\ Left \in TempRecords
      /\ NoTemp.opened \subseteq {0} /\ Left.opened \subseteq {0}
  BY <1>1, TempsAreRecords
<1>5. ASSUME holdsTemp(jobs[j]), NEW t \in {NoTemp, Left}, temps' = [temps EXCEPT ![name] = t],
             WholeInv', files' \in [Paths -> FileRecords],
             Over(j, "done") \/ Over(j, "error") \/ Goto(j, "stat")
      PROVE  StepKept(j)
  <2>1. name \in TempNames /\ jobs[j].kind # "prepare"
    BY <1>5, HolderFacts
  <2>2. PICK job : Follows(j, job) /\ job.place \in {"over", "stat"}
    <3>1. CASE Over(j, "done") \/ Over(j, "error")
      BY <1>3, <2>1, <3>1, OverFollows DEF Results
    <3>2. CASE Goto(j, "stat")
      BY <1>3, <2>1, <3>2, GotoFollows DEF Places
    <3> QED
      BY <1>5, <3>1, <3>2
  <2>3. ~holdsTemp(job)
    BY <2>2 DEF holdsTemp
  <2> QED
    BY <1>4, <1>5, <2>1, <2>2, <2>3, NameKept
<1>6. ASSUME afterPublish(j) PROVE Over(j, "done") \/ Over(j, "error") \/ Goto(j, "stat")
  BY <1>6 DEF afterPublish
<1>7. ASSUME jobs[j].place = "publish", files' = [files EXCEPT ![jobs[j].path] = fileOf(j)]
      PROVE  WholeInv' /\ files' \in [Paths -> FileRecords]
  <2>1. fileOf(j) \in FileRecords /\ fileOf(j).whole /\ jobs[j].path \in Paths
    BY <1>1, <1>7, PublishedIsWhole DEF JobRecords
  <2> QED
    BY <1>2, <1>7, <2>1 DEF WholeInv
<1>8. ASSUME files' = files PROVE WholeInv' /\ files' \in [Paths -> FileRecords]
  BY <1>2, <1>8 DEF WholeInv
<1>9. CASE Publish(j)
  <2>1. jobs[j].place = "publish" /\ holdsTemp(jobs[j])
    BY <1>9 DEF Publish, at, holdsTemp
  <2>2. CASE jobs[j].replace
    <3>1. /\ files' = [files EXCEPT ![jobs[j].path] = fileOf(j)]
          /\ temps' = [temps EXCEPT ![name] = NoTemp] /\ afterPublish(j)
      BY <1>9, <2>2 DEF Publish
    <3> QED
      BY <1>5, <1>6, <1>7, <2>1, <3>1
  <2>3. CASE ~jobs[j].replace /\ mayLink(jobs[j].path)
    <3>1. /\ files' = [files EXCEPT ![jobs[j].path] = fileOf(j)]
          /\ temps' = temps /\ Goto(j, "unlink")
      BY <1>9, <2>3 DEF Publish
    <3>2. /\ name \in TempNames /\ temps[name] = held(j, "publish") /\ jobs[j].kind # "prepare"
          /\ jobs[j].attempt > 0
      BY <2>1, HolderFacts
    <3>3. PICK job : Follows(j, job) /\ job.place = "unlink" /\ nameOf(job) = name
      BY <1>3, <3>1, <3>2, GotoFollows DEF Places
    <3>4. held(j, "unlink") = held(j, "publish") /\ held(j, "unlink") \in TempRecords
      BY <1>1, TempsAreRecords DEF held
    <3>5. temps' = [temps EXCEPT ![name] = held(j, "unlink")]
      BY <1>2, <3>1, <3>2, <3>4
    <3>6. WholeInv' /\ files' \in [Paths -> FileRecords]
      BY <1>7, <2>1, <3>1
    <3>7. holdsTemp(job)
      BY <3>3 DEF holdsTemp
    <3> QED
      BY <2>1, <3>2, <3>3, <3>4, <3>5, <3>6, <3>7, NameKept
  <2>4. CASE ~jobs[j].replace /\ ~mayLink(jobs[j].path)
    <3>1. files' = files /\ temps' = [temps EXCEPT ![name] = NoTemp] /\ Over(j, "error")
      BY <1>9, <2>4 DEF Publish
    <3> QED
      BY <1>5, <1>8, <2>1, <3>1
  <2> QED
    BY <2>2, <2>3, <2>4
<1>10. CASE Unlink(j)
  <2>1. jobs[j].place = "unlink" /\ holdsTemp(jobs[j])
    BY <1>10 DEF Unlink, at, holdsTemp
  <2>2. CASE temps' = [temps EXCEPT ![name] = NoTemp] /\ afterPublish(j) /\ files' = files
    BY <1>5, <1>6, <1>8, <2>1, <2>2
  <2>3. CASE /\ files' = [files EXCEPT ![jobs[j].path] = NoFile]
             /\ temps' = [temps EXCEPT ![name] = Left] /\ Over(j, "error")
    <3>1. NoFile \in FileRecords /\ NoFile.whole /\ jobs[j].path \in Paths
      BY <1>1 DEF NoFile, FileRecords, JobRecords
    <3>2. WholeInv' /\ files' \in [Paths -> FileRecords]
      BY <1>2, <2>3, <3>1 DEF WholeInv
    <3> QED
      BY <1>5, <2>1, <2>3, <3>2
  <2> QED
    BY <1>10, <2>2, <2>3 DEF Unlink
<1>11. CASE Fail(j)
  <2>1. /\ Over(j, "error") /\ files' = files
        /\ temps' = IF holdsTemp(jobs[j]) THEN [temps EXCEPT ![name] = NoTemp] ELSE temps
    BY <1>11 DEF Fail
  <2>2. CASE holdsTemp(jobs[j])
    BY <1>5, <1>8, <2>1, <2>2
  <2>3. CASE ~holdsTemp(jobs[j])
    BY <1>3, <2>1, <2>3, OverReads DEF Results, disk
  <2> QED
    BY <2>2, <2>3
<1> QED
  BY <1>9, <1>10, <1>11

(* Whatever a job does next.                                                 *)
LEMMA WorkInv ==
  ASSUME EditorInv, NEW j \in DOMAIN jobs, Start(j) \/ Step(j) \/ Fail(j)
  PROVE  EditorInv'
<1>1. StepKept(j) /\ UNCHANGED ui /\ jobs[j].place # "over"
  BY ReadingSteps, WritingSteps, EndingSteps DEF Step
<1>2. PICK job : Follows(j, job)
  BY <1>1 DEF StepKept
<1>3. /\ jobs' \in Seq(JobRecords) /\ ended' \in Seq(Nat)
      /\ JobsInv' /\ EndedInv' /\ RevisionInv'
  BY <1>1, <1>2, FollowsKeeps
<1>4. UNCHANGED <<foreign, scope>>
  BY DEF Start, Step, Fail, Compare, Header, Decode, Validate, Begin, Write, Publish, Unlink, Stat,
         Open, stepFrame
<1>5. ShapeInv'
  BY <1>1, <1>3, <1>4 DEF EditorInv, ShapeInv, StepKept, DiskKept, ui
<1> QED
  BY <1>1, <1>3, <1>5 DEF EditorInv, StepKept, DiskKept

-----------------------------------------------------------------------------
(* The editor, the commands and everybody else.                              *)

(* A new job is not over and has no temporary file.                            *)
LEMMA AppendKeeps ==
  ASSUME EditorInv, NEW job \in JobRecords, JobOK(job), ~holdsTemp(job),
         jobs' = Append(jobs, job), UNCHANGED <<ended, disk>>
  PROVE  /\ jobs' \in Seq(JobRecords) /\ JobsInv' /\ EndedInv' /\ TempInv' /\ WholeInv'
         /\ \A i \in DOMAIN jobs' : \/ i \in DOMAIN jobs /\ jobs'[i] = jobs[i]
                                    \/ jobs'[i] = job
<1>1. /\ jobs \in Seq(JobRecords) /\ JobsInv /\ EndedInv /\ TempInv /\ WholeInv
  BY DEF EditorInv, ShapeInv
<1>2. /\ jobs' \in Seq(JobRecords)
      /\ \A i \in DOMAIN jobs : i \in DOMAIN jobs' /\ jobs'[i] = jobs[i]
      /\ \A i \in DOMAIN jobs' : \/ i \in DOMAIN jobs /\ jobs'[i] = jobs[i]
                                 \/ jobs'[i] = job
  BY <1>1
<1>3. JobsInv' /\ EndedInv' /\ WholeInv'
  BY <1>1, <1>2 DEF JobsInv, EndedInv, WholeInv, disk
<1>4. TempInv'
  <2>1. temps' = temps
    BY DEF disk
  <2>2. \A i \in DOMAIN jobs' : holdsTemp(jobs'[i]) => i \in DOMAIN jobs /\ jobs'[i] = jobs[i]
    BY <1>2
  <2> QED
    BY <1>1, <1>2, <2>1, <2>2 DEF TempInv
<1> QED
  BY <1>2, <1>3, <1>4

(* A submitted request.                                                      *)
LEMMA SubmitKeeps ==
  ASSUME EditorInv, NEW kind \in {"prepare"} \cup RequestKinds, NEW revision \in Nat,
         NEW path \in Paths, NEW input \in Paths, NEW replace \in BOOLEAN,
         Submit(kind, revision, path, input, replace), UNCHANGED <<ended, disk>>
  PROVE  /\ jobs' \in Seq(JobRecords) /\ JobsInv' /\ EndedInv' /\ TempInv' /\ WholeInv'
         /\ \A i \in DOMAIN jobs' :
              \/ i \in DOMAIN jobs /\ jobs'[i] = jobs[i]
              \/ jobs'[i].kind = kind /\ jobs'[i].revision = revision /\ jobs'[i].input = input
<1> DEFINE job == Job(kind, "queued", revision, path, input, replace)
<1>1. MaxAttempts \in Nat
  BY BoundsAssumption
<1>2. /\ job \in JobRecords /\ job.kind = kind /\ job.revision = revision /\ job.input = input
      /\ job.place = "queued" /\ job.result = "none"
  BY <1>1 DEF Job, JobRecords, Kinds, Places, Results
<1>3. jobs' = Append(jobs, job)
  BY DEF Submit
<1> HIDE DEF job
<1>4. JobOK(job) /\ ~holdsTemp(job)
  BY <1>2 DEF JobOK, holdsTemp, RequestKinds
<1> QED
  BY <1>2, <1>3, <1>4, AppendKeeps

(* Selecting an image and changing the settings: what was asked for before is    *)
(* of an older revision from now on.                                          *)
LEMMA NewRevisionInv == ASSUME EditorInv, SelectInput("picture") \/ UpdateRequest PROVE EditorInv'
<1>1. /\ ShapeInv /\ gate \in Nat /\ RevisionInv
      /\ JobsInv /\ EndedInv /\ TempInv /\ WholeInv
  BY DEF EditorInv, ShapeInv
<1>2. /\ gate' = gate + 1 /\ snapshot' = None
      /\ UNCHANGED <<shown, ended, disk, foreign, scope>>
  BY DEF SelectInput, UpdateRequest, uiFrame
<1>3. None \in [revision : Nat, input : Paths, header : Nat, pixels : Nat]
  BY DEF None, Paths
<1>4. gate' \in Nat /\ gate < gate' /\ gate' # gate
  BY <1>1, <1>2
<1>5. ASSUME UNCHANGED jobs, editor' \in [state : States, input : Paths \cup {NoPath},
                                          pending : {"none", "png", "wav"}, target : Paths],
             editor'.state # "ready"
      PROVE  EditorInv'
  <2>1. JobsInv' /\ EndedInv' /\ TempInv' /\ WholeInv'
    BY <1>1, <1>2, <1>5 DEF JobsInv, EndedInv, TempInv, WholeInv, disk
  <2>2. ShapeInv'
    BY <1>1, <1>2, <1>3, <1>4, <1>5 DEF ShapeInv, disk
  <2>3. PreviewIsCurrent'
    BY <1>2, <1>5 DEF PreviewIsCurrent
  <2>4. \A j \in DOMAIN jobs : jobs[j].revision \in Nat
    BY JobFacts DEF JobRecords
  <2>5. RevisionInv'
    BY <1>1, <1>4, <1>5, <2>3, <2>4 DEF RevisionInv
  <2> QED
    BY <2>1, <2>2, <2>5 DEF EditorInv
<1>6. CASE SelectInput("picture")
  BY <1>1, <1>5, <1>6 DEF SelectInput, ShapeInv, States, Paths
<1>7. CASE UpdateRequest
  <2>1. CASE editor' = [editor EXCEPT !.state = "error"] /\ UNCHANGED jobs
    BY <1>1, <1>5, <2>1 DEF ShapeInv, States
  <2>2. CASE /\ editor.input # NoPath /\ editor' = [editor EXCEPT !.state = "loading"]
             /\ Submit("prepare", gate', editor.input, editor.input, FALSE)
    <3>1. editor.input \in Paths
      BY <1>1, <2>2 DEF ShapeInv
    <3>2. /\ editor' \in [state : States, input : Paths \cup {NoPath},
                          pending : {"none", "png", "wav"}, target : Paths]
          /\ editor'.input = editor.input /\ editor'.state # "ready"
      BY <1>1, <2>2 DEF ShapeInv, States
    <3> DEFINE revision == gate'
               input == editor.input
    <3>3. revision \in Nat /\ input \in Paths /\ Submit("prepare", revision, input, input, FALSE)
      BY <1>4, <2>2, <3>1
    <3> HIDE DEF revision, input
    <3>4. /\ jobs' \in Seq(JobRecords) /\ JobsInv' /\ EndedInv' /\ TempInv' /\ WholeInv'
          /\ \A i \in DOMAIN jobs' :
               \/ i \in DOMAIN jobs /\ jobs'[i] = jobs[i]
               \/ /\ jobs'[i].kind = "prepare" /\ jobs'[i].revision = revision
                  /\ jobs'[i].input = input
      BY <1>2, <3>3, SubmitKeeps
    <3>5. ShapeInv'
      BY <1>1, <1>2, <1>3, <1>4, <3>2, <3>4 DEF ShapeInv, disk
    <3>6. PreviewIsCurrent'
      BY <1>2, <3>2 DEF PreviewIsCurrent
    <3>7. RevisionInv'
      <4>1. \A j \in DOMAIN jobs : jobs[j].revision \in Nat
        BY JobFacts DEF JobRecords
      <4>2. /\ revision = gate' /\ input = editor'.input /\ gate' \in 1 .. gate'
        BY <1>1, <1>2, <3>2 DEF revision, input
      <4> QED
        BY <1>1, <1>4, <3>4, <3>6, <4>1, <4>2 DEF RevisionInv
    <3> QED
      BY <3>4, <3>5, <3>7 DEF EditorInv
  <2> QED
    BY <1>7, <2>1, <2>2 DEF UpdateRequest
<1> QED
  BY <1>6, <1>7

(* Asking for an export or an inspection, and answering the question.            *)
LEMMA RequestInv ==
  ASSUME EditorInv,
         \/ \E kind \in {"png", "wav"}, path \in Paths : ExportTo(kind, path)
         \/ ConfirmOverwrite \/ DeclineOverwrite \/ InspectWav("out")
  PROVE  EditorInv'
<1>1. /\ ShapeInv /\ gate \in Nat /\ RevisionInv /\ PreviewIsCurrent
      /\ JobsInv /\ EndedInv /\ TempInv /\ WholeInv
  BY DEF EditorInv, ShapeInv, RevisionInv
<1>2. UNCHANGED <<gate, snapshot, shown, ended, disk, foreign, scope>>
  BY DEF ExportTo, ConfirmOverwrite, Export, DeclineOverwrite, InspectWav, uiFrame
<1>3. ASSUME editor' \in [state : States, input : Paths \cup {NoPath},
                          pending : {"none", "png", "wav"}, target : Paths],
             editor'.input = editor.input, editor'.state # "ready" \/ editor'.state = editor.state
      PROVE  PreviewIsCurrent'
  BY <1>1, <1>2, <1>3 DEF PreviewIsCurrent
<1>4. ASSUME UNCHANGED jobs, PreviewIsCurrent',
             editor' \in [state : States, input : Paths \cup {NoPath},
                          pending : {"none", "png", "wav"}, target : Paths],
             editor'.input = editor.input
      PROVE  EditorInv'
  BY <1>1, <1>2, <1>4 DEF EditorInv, ShapeInv, JobsInv, EndedInv, TempInv, WholeInv, RevisionInv, disk
<1>5. ASSUME NEW kind \in RequestKinds, NEW revision \in Nat, NEW path \in Paths, NEW input \in Paths,
             NEW replace \in BOOLEAN, Submit(kind, revision, path, input, replace),
             kind \in {"png", "wav"} => revision = gate /\ snapshot # None,
             PreviewIsCurrent',
             editor' \in [state : States, input : Paths \cup {NoPath},
                          pending : {"none", "png", "wav"}, target : Paths],
             editor'.input = editor.input
      PROVE  EditorInv'
  <2>1. /\ jobs' \in Seq(JobRecords) /\ JobsInv' /\ EndedInv' /\ TempInv' /\ WholeInv'
        /\ \A i \in DOMAIN jobs' :
             \/ i \in DOMAIN jobs /\ jobs'[i] = jobs[i]
             \/ jobs'[i].kind = kind /\ jobs'[i].revision = revision /\ jobs'[i].input = input
    BY <1>2, <1>5, SubmitKeeps
  <2>2. ShapeInv'
    BY <1>1, <1>2, <1>5, <2>1 DEF ShapeInv, disk
  <2>3. RevisionInv'
    <3>1. kind # "prepare" /\ gate <= gate
      BY <1>1 DEF RequestKinds
    <3>2. ASSUME NEW i \in DOMAIN jobs'
          PROVE  /\ jobs'[i].kind = "prepare" =>
                      /\ jobs'[i].revision \in 1 .. gate
                      /\ jobs'[i].revision = gate => jobs'[i].input = editor.input
                 /\ jobs'[i].kind \in {"png", "wav"} =>
                      jobs'[i].revision <= gate /\ (jobs'[i].revision = gate => snapshot # None)
      <4>1. CASE i \in DOMAIN jobs /\ jobs'[i] = jobs[i]
        BY <1>1, <4>1 DEF RevisionInv
      <4>2. CASE jobs'[i].kind = kind /\ jobs'[i].revision = revision
        BY <1>5, <3>1, <4>2
      <4> QED
        BY <2>1, <4>1, <4>2
    <3> QED
      BY <1>2, <1>5, <3>2 DEF RevisionInv
  <2> QED
    BY <2>1, <2>2, <2>3 DEF EditorInv
<1>6. ASSUME NEW kind \in {"png", "wav"}, NEW path \in Paths, NEW replace \in BOOLEAN,
             Export(kind, path, replace)
      PROVE  EditorInv'
  <2>1. CASE snapshot = None
    <3>1. editor' = [editor EXCEPT !.state = "error", !.pending = "none", !.target = "out"]
            /\ UNCHANGED jobs
      BY <1>6, <2>1 DEF Export
    <3>2. /\ editor' \in [state : States, input : Paths \cup {NoPath},
                          pending : {"none", "png", "wav"}, target : Paths]
          /\ editor'.input = editor.input /\ editor'.state # "ready"
      BY <1>1, <3>1 DEF ShapeInv, States, Paths
    <3> QED
      BY <1>3, <1>4, <3>1, <3>2
  <2>2. CASE snapshot # None
    <3>1. /\ editor' = [editor EXCEPT !.state = "exporting", !.pending = "none", !.target = "out"]
          /\ Submit(kind, snapshot.revision, path, snapshot.input, replace)
      BY <1>6, <2>2 DEF Export
    <3>2. /\ editor' \in [state : States, input : Paths \cup {NoPath},
                          pending : {"none", "png", "wav"}, target : Paths]
          /\ editor'.input = editor.input /\ editor'.state # "ready"
      BY <1>1, <3>1 DEF ShapeInv, States, Paths
    <3>3. snapshot.revision = gate /\ snapshot.input \in Paths
      BY <1>1, <2>2 DEF PreviewIsCurrent, ShapeInv
    <3>4. PreviewIsCurrent'
      BY <1>3, <3>2
    <3>5. kind \in RequestKinds
      BY DEF RequestKinds
    <3> QED
      BY <1>1, <1>5, <2>2, <3>1, <3>2, <3>3, <3>4, <3>5
  <2> QED
    BY <2>1, <2>2
<1>7. CASE \E kind \in {"png", "wav"}, path \in Paths : ExportTo(kind, path)
  BY <1>6, <1>7 DEF ExportTo
<1>8. CASE ConfirmOverwrite
  <2>1. editor.pending \in {"png", "wav"} /\ editor.target \in Paths
    BY <1>1, <1>8 DEF ConfirmOverwrite, ShapeInv
  <2> QED
    BY <1>6, <1>8, <2>1 DEF ConfirmOverwrite
<1>9. CASE DeclineOverwrite
  <2>1. editor' = [editor EXCEPT !.pending = "none", !.target = "out"] /\ UNCHANGED jobs
    BY <1>9 DEF DeclineOverwrite
  <2>2. /\ editor' \in [state : States, input : Paths \cup {NoPath},
                        pending : {"none", "png", "wav"}, target : Paths]
        /\ editor'.input = editor.input /\ editor'.state = editor.state
    BY <1>1, <2>1 DEF ShapeInv, Paths
  <2> QED
    BY <1>3, <1>4, <2>1, <2>2
<1>10. CASE InspectWav("out")
  <2>1. /\ editor' = [editor EXCEPT !.state = "loading"]
        /\ Submit("inspect", 0, "out", "out", FALSE)
    BY <1>10 DEF InspectWav
  <2>2. /\ editor' \in [state : States, input : Paths \cup {NoPath},
                        pending : {"none", "png", "wav"}, target : Paths]
        /\ editor'.input = editor.input /\ editor'.state # "ready"
    BY <1>1, <2>1 DEF ShapeInv, States
  <2>3. "inspect" \in RequestKinds /\ "out" \in Paths /\ 0 \in Nat /\ "inspect" \notin {"png", "wav"}
    BY DEF RequestKinds, Paths
  <2>4. PreviewIsCurrent'
    BY <1>3, <2>2
  <2> QED
    BY <1>5, <2>1, <2>2, <2>3, <2>4
<1> QED
  BY <1>7, <1>8, <1>9, <1>10

(* A result that is accepted is gone, and is shown only if it is current.         *)
LEMMA AcceptInv == ASSUME EditorInv, Accept PROVE EditorInv'
<1> DEFINE first == Head(ended)
           job == jobs[first]
           Editors == [state : States, input : Paths \cup {NoPath},
                       pending : {"none", "png", "wav"}, target : Paths]
<1>1. /\ ShapeInv /\ gate \in Nat /\ RevisionInv /\ PreviewIsCurrent /\ JobsInv /\ EndedInv
      /\ TempInv /\ WholeInv /\ jobs \in Seq(JobRecords) /\ ended \in Seq(Nat) /\ editor \in Editors
  BY DEF EditorInv, ShapeInv, RevisionInv
<1>2. /\ ended # <<>> /\ ended' = Tail(ended) /\ jobs' = [jobs EXCEPT ![first] = Gone]
      /\ UNCHANGED <<gate, disk, foreign, scope>>
  BY DEF Accept
<1>3. /\ first \in DOMAIN jobs /\ job.place = "over" /\ job.result \in {"error", "exists", "done"}
      /\ job.kind \in {"prepare"} \cup RequestKinds /\ job \in JobRecords /\ JobOK(job)
  <2>1. 1 \in DOMAIN ended /\ first = ended[1]
    BY <1>1, <1>2
  <2>2. first \in DOMAIN jobs /\ job.place = "over" /\ job.result # "none"
          /\ job.kind \in {"prepare"} \cup RequestKinds
    BY <1>1, <2>1 DEF EndedInv
  <2>3. job \in JobRecords /\ JobOK(job)
    BY <2>2, JobFacts
  <2> QED
    BY <2>2, <2>3 DEF JobRecords, Results
<1> HIDE DEF first
<1>4. /\ DOMAIN jobs' = DOMAIN jobs /\ jobs'[first] = Gone
      /\ \A i \in DOMAIN jobs \ {first} : jobs'[i] = jobs[i]
  BY <1>1, <1>2, <1>3
<1>5. Gone \in JobRecords /\ JobOK(Gone) /\ ~holdsTemp(Gone) /\ Gone.kind = "gone"
  <2>1. MaxAttempts \in Nat
    BY BoundsAssumption
  <2>2. Gone \in JobRecords /\ Gone.kind = "gone" /\ Gone.place = "over"
    BY <2>1 DEF Gone, Job, JobRecords, Kinds, Places, Paths, Results
  <2> QED
    BY <2>2 DEF JobOK, holdsTemp
<1>6. jobs' \in Seq(JobRecords) /\ JobsInv'
  <2>1. jobs' \in Seq(JobRecords)
    BY <1>1, <1>2, <1>3, <1>5
  <2>2. \A i \in DOMAIN jobs' : jobs'[i] = Gone \/ (i \in DOMAIN jobs /\ jobs'[i] = jobs[i])
    BY <1>4
  <2> QED
    BY <1>1, <1>5, <2>1, <2>2 DEF JobsInv
<1>7. ended' \in Seq(Nat) /\ EndedInv'
  <2>1. /\ ended' \in Seq(Nat)
        /\ \A k \in DOMAIN ended' : k + 1 \in DOMAIN ended /\ k \in Nat \ {0} /\ ended'[k] = ended[k + 1]
        /\ first = ended[1] /\ 1 \in DOMAIN ended
    BY <1>1, <1>2 DEF first
  <2>2. \A k \in DOMAIN ended' : ended'[k] \in DOMAIN jobs \ {first}
    <3> TAKE k \in DOMAIN ended'
    <3>1. k + 1 \in DOMAIN ended /\ ended'[k] = ended[k + 1] /\ k + 1 # 1
      BY <2>1
    <3> QED
      BY <1>1, <2>1, <3>1 DEF EndedInv
  <2>3. ASSUME NEW k \in DOMAIN ended'
        PROVE  /\ ended'[k] \in DOMAIN jobs'
               /\ jobs'[ended'[k]].place = "over" /\ jobs'[ended'[k]].result # "none"
               /\ jobs'[ended'[k]].kind \in {"prepare"} \cup RequestKinds
    BY <1>1, <1>4, <2>1, <2>2 DEF EndedInv
  <2>4. ASSUME NEW k \in DOMAIN ended', NEW l \in DOMAIN ended', ended'[k] = ended'[l]
        PROVE  k = l
    <3>1. k + 1 = l + 1
      BY <1>1, <2>1, <2>4 DEF EndedInv
    <3> QED
      BY <2>1, <3>1
  <2> QED
    BY <2>1, <2>3, <2>4 DEF EndedInv
<1>8. TempInv' /\ WholeInv'
  <2>1. ~holdsTemp(job)
    BY <1>3 DEF holdsTemp
  <2> QED
    BY <1>1, <1>2, <1>3, <1>5, <2>1, TempKept DEF disk, WholeInv
<1> HIDE DEF job
<1>9. /\ editor' \in Editors /\ editor'.input = editor.input
      /\ snapshot' \in [revision : Nat, input : Paths, header : Nat, pixels : Nat] /\ shown' \in Nat
      /\ snapshot # None => snapshot' # None
      /\ PreviewIsCurrent'
  <2>0. /\ snapshot \in [revision : Nat, input : Paths, header : Nat, pixels : Nat] /\ shown \in Nat
    BY <1>1 DEF ShapeInv
  <2>1. ASSUME NEW next \in {"error", "completed"}, editor' = [editor EXCEPT !.state = next],
               UNCHANGED <<snapshot, shown>>
        PROVE  /\ editor' \in Editors /\ editor'.input = editor.input /\ PreviewIsCurrent'
    BY <1>1, <1>2, <2>1 DEF PreviewIsCurrent, States
  <2>2. ASSUME UNCHANGED <<editor, snapshot, shown>>
        PROVE  /\ editor' \in Editors /\ editor'.input = editor.input /\ PreviewIsCurrent'
    BY <1>1, <1>2, <2>2 DEF PreviewIsCurrent
  <2>3. CASE job.kind = "prepare"
    <3>1. AcceptSnapshot(job)
      BY <2>3 DEF Accept, RequestKinds, job, first
    <3>2. CASE job.revision # gate
      BY <2>0, <2>2, <3>1, <3>2 DEF AcceptSnapshot, isCurrent
    <3>3. CASE job.revision = gate /\ job.result = "error"
      BY <2>0, <2>1, <3>1, <3>3 DEF AcceptSnapshot, isCurrent
    <3>4. CASE job.revision = gate /\ job.result # "error"
      <4>1. /\ snapshot' = [revision |-> job.revision, input |-> job.input,
                            header |-> job.header, pixels |-> job.read]
            /\ shown' = job.revision /\ editor' = [editor EXCEPT !.state = "ready"]
        BY <3>1, <3>4 DEF AcceptSnapshot, isCurrent
      <4>2. /\ job.revision \in 1 .. gate /\ job.input = editor.input
            /\ job.header = job.read
        BY <1>1, <1>3, <2>3, <3>4 DEF RevisionInv, JobOK, job
      <4>3. snapshot' # None
        BY <1>1, <4>1, <4>2 DEF None
      <4>4. editor' \in Editors /\ editor'.input = editor.input
        BY <1>1, <4>1 DEF States
      <4>5. snapshot' \in [revision : Nat, input : Paths, header : Nat, pixels : Nat] /\ shown' \in Nat
        BY <1>3, <4>1 DEF JobRecords
      <4>6. PreviewIsCurrent'
        BY <1>2, <3>4, <4>1, <4>2, <4>3, <4>4 DEF PreviewIsCurrent
      <4> QED
        BY <4>3, <4>4, <4>5, <4>6
    <3> QED
      BY <3>2, <3>3, <3>4
  <2>4. CASE job.kind \in {"png", "wav"}
    <3>1. AcceptExport(job)
      BY <2>4 DEF Accept, RequestKinds, job, first
    <3>2. UNCHANGED <<snapshot, shown>>
      BY <3>1 DEF AcceptExport
    <3>3. CASE job.revision # gate
      BY <2>0, <2>2, <3>1, <3>2, <3>3 DEF AcceptExport, isCurrent
    <3>4. CASE job.revision = gate /\ job.result = "exists"
      <4>1. editor' = [editor EXCEPT !.state = "ready", !.pending = job.kind, !.target = job.path]
        BY <3>1, <3>4 DEF AcceptExport, isCurrent
      <4>2. editor' \in Editors /\ editor'.input = editor.input
        BY <1>1, <1>3, <2>4, <4>1 DEF States, JobRecords
      <4>3. snapshot # None
        BY <1>1, <1>3, <2>4, <3>4 DEF RevisionInv, job
      <4>4. PreviewIsCurrent'
        BY <1>1, <1>2, <3>2, <4>2, <4>3 DEF PreviewIsCurrent
      <4> QED
        BY <2>0, <3>2, <4>2, <4>4
    <3>5. CASE job.revision = gate /\ job.result = "error"
      BY <2>0, <2>1, <3>1, <3>2, <3>5 DEF AcceptExport, isCurrent
    <3>6. CASE job.revision = gate /\ job.result = "done"
      BY <2>0, <2>1, <3>1, <3>2, <3>6 DEF AcceptExport, isCurrent
    <3> QED
      BY <1>3, <3>3, <3>4, <3>5, <3>6
  <2>5. CASE job.kind = "inspect"
    <3>1. AcceptInspection(job)
      BY <2>5 DEF Accept, RequestKinds, job, first
    <3> QED
      BY <2>0, <2>1, <3>1 DEF AcceptInspection
  <2> QED
    BY <1>3, <2>3, <2>4, <2>5 DEF RequestKinds
<1>10. ShapeInv'
  BY <1>1, <1>2, <1>6, <1>7, <1>9 DEF ShapeInv, disk
<1>11. RevisionInv'
  <2>1. \A i \in DOMAIN jobs' : \/ jobs'[i].kind = "gone"
                                \/ i \in DOMAIN jobs /\ jobs'[i] = jobs[i]
    BY <1>4, <1>5
  <2> QED
    BY <1>1, <1>2, <1>9, <2>1, SMTT(30) DEF RevisionInv
<1> QED
  BY <1>6, <1>7, <1>8, <1>10, <1>11 DEF EditorInv

(* A command starts with nothing on the disk.                                 *)
LEMMA CommandInv ==
  ASSUME EditorInv, NEW kind \in scope.commands, NEW replace \in BOOLEAN,
         Command(kind, "out", replace)
  PROVE  EditorInv'
<1>0. ShapeInv /\ RevisionInv /\ MaxAttempts \in Nat
  BY BoundsAssumption DEF EditorInv
<1>1. kind \in CommandKinds
  BY <1>0, BoundsAssumption DEF ShapeInv
<1> DEFINE job == Job(kind, firstPlace(kind), 0, "out", "picture", replace)
<1>2. firstPlace(kind) \in {"compare", "begin", "stat"}
  BY <1>1 DEF CommandKinds, firstPlace
<1>3. jobs' = Append(jobs, job) /\ UNCHANGED <<ui, ended, disk, foreign, scope>>
  BY DEF Command
<1>4. /\ job \in JobRecords /\ job.kind = kind /\ job.place = firstPlace(kind)
      /\ job.result = "none"
  BY <1>0, <1>1, <1>2 DEF Job, JobRecords, Kinds, Places, Paths, Results
<1> HIDE DEF job
<1>5. JobOK(job) /\ ~holdsTemp(job)
  BY <1>1, <1>2, <1>4 DEF JobOK, holdsTemp, CommandKinds
<1>6. /\ jobs' \in Seq(JobRecords) /\ JobsInv' /\ EndedInv' /\ TempInv' /\ WholeInv'
      /\ \A i \in DOMAIN jobs' : \/ i \in DOMAIN jobs /\ jobs'[i] = jobs[i]
                                 \/ jobs'[i] = job
  BY <1>3, <1>4, <1>5, AppendKeeps
<1>7. ShapeInv'
  BY <1>0, <1>3, <1>6 DEF ShapeInv, ui, disk
<1>8. RevisionInv'
  <2>1. PreviewIsCurrent'
    BY <1>0, <1>3 DEF RevisionInv, PreviewIsCurrent, ui
  <2>2. job.kind \notin {"prepare", "png", "wav"}
    BY <1>1, <1>4 DEF CommandKinds
  <2>3. UNCHANGED <<editor, gate, snapshot>>
    BY <1>3 DEF ui
  <2> QED
    BY <1>0, <1>6, <2>1, <2>2, <2>3 DEF RevisionInv
<1> QED
  BY <1>6, <1>7, <1>8 DEF EditorInv

(* Others put whole files there.                                              *)
LEMMA ForeignInv == ASSUME EditorInv, NEW path \in Paths, Foreign(path) PROVE EditorInv'
<1>1. EditorInv /\ ShapeInv /\ foreign \in Nat
  BY DEF EditorInv, ShapeInv
<1>2. /\ foreign' = foreign + 1 /\ UNCHANGED <<ui, jobs, ended, temps, scope>>
      /\ \E file \in {NoFile} \cup {UserFile(kind, 3 + foreign) : kind \in {"image", "special"}} :
           files' = [files EXCEPT ![path] = file]
  BY DEF Foreign
<1>3. PICK file \in FileRecords : file.whole /\ files' = [files EXCEPT ![path] = file]
  <2>1. NoFile \in FileRecords /\ NoFile.whole
    BY DEF NoFile, FileRecords
  <2>2. ASSUME NEW kind \in {"image", "special"}
        PROVE  UserFile(kind, 3 + foreign) \in FileRecords /\ UserFile(kind, 3 + foreign).whole
    <3>1. 3 + foreign \in Nat
      BY <1>1
    <3> QED
      BY <3>1 DEF UserFile, FileRecords
  <2> QED
    BY <1>2, <2>1, <2>2
<1>4. files' \in [Paths -> FileRecords] /\ WholeInv'
  BY <1>1, <1>3 DEF ShapeInv, EditorInv, WholeInv
<1>5. ShapeInv'
  BY <1>1, <1>2, <1>4 DEF ShapeInv, ui
<1>6. JobsInv' /\ EndedInv' /\ TempInv' /\ RevisionInv'
  BY <1>1, <1>2 DEF EditorInv, JobsInv, EndedInv, TempInv, RevisionInv, PreviewIsCurrent, ui
<1> QED
  BY <1>4, <1>5, <1>6 DEF EditorInv

-----------------------------------------------------------------------------
(* Every reachable state.                                                   *)

(* The invariant holds when the editor is opened.                              *)
LEMMA EditorInit == Init => EditorInv
<1> SUFFICES ASSUME Init PROVE EditorInv
  OBVIOUS
<1>1. /\ jobs = <<>> /\ DOMAIN jobs = {} /\ ended = <<>> /\ DOMAIN ended = {}
      /\ <<>> \in Seq(JobRecords) /\ <<>> \in Seq(Nat)
  BY DEF Init
<1>2. \A kind \in {"image"}, number \in Nat :
        UserFile(kind, number) \in FileRecords /\ UserFile(kind, number).whole
  BY DEF UserFile, FileRecords
<1>3. NoFile \in FileRecords /\ NoFile.whole
  BY DEF NoFile, FileRecords
<1>4. files \in [Paths -> FileRecords] /\ WholeInv
  <2>1. PICK out \in {NoFile, UserFile("image", 2)} :
          files = [p \in Paths |-> IF p = "picture" THEN UserFile("image", 1) ELSE out]
    BY DEF Init
  <2> QED
    BY <1>2, <1>3, <2>1 DEF WholeInv
<1>5. temps \in [TempNames -> TempRecords] /\ \A name \in TempNames : temps[name].opened = {}
  BY DEF Init, NoTemp, TempRecords
<1>6. ShapeInv
  BY <1>1, <1>4, <1>5 DEF Init, ShapeInv, None, States, Paths
<1>7. JobsInv /\ EndedInv /\ TempInv
  BY <1>1, <1>5 DEF JobsInv, EndedInv, TempInv
<1>8. RevisionInv
  BY <1>1 DEF Init, RevisionInv, PreviewIsCurrent
<1> QED
  BY <1>4, <1>6, <1>7, <1>8 DEF EditorInv

(* And whatever anybody does next.                                            *)
LEMMA EditorStep == EditorInv /\ [Next]_vars => EditorInv'
<1> SUFFICES ASSUME EditorInv, [Next]_vars PROVE EditorInv'
  OBVIOUS
<1>1. CASE SelectInput("picture") \/ UpdateRequest
  BY <1>1, NewRevisionInv
<1>2. CASE \/ \E kind \in scope.requests \cap {"png", "wav"}, path \in Paths : ExportTo(kind, path)
           \/ ConfirmOverwrite \/ DeclineOverwrite
           \/ "inspect" \in scope.requests /\ InspectWav("out")
  BY <1>2, RequestInv
<1>3. CASE Accept
  BY <1>3, AcceptInv
<1>4. CASE \E kind \in scope.commands, replace \in BOOLEAN : Command(kind, "out", replace)
  BY <1>4, CommandInv
<1>5. CASE Work \/ \E j \in DOMAIN jobs : Fail(j)
  BY <1>5, WorkInv DEF Work
<1>6. CASE \E path \in Paths : Foreign(path)
  BY <1>6, ForeignInv
<1>7. CASE UNCHANGED vars
  BY <1>7 DEF vars, ui, disk, EditorInv, ShapeInv, JobsInv, EndedInv, TempInv, WholeInv,
              RevisionInv, PreviewIsCurrent
<1> QED
  BY <1>1, <1>2, <1>3, <1>4, <1>5, <1>6, <1>7 DEF Next

(* So it always holds.                                                      *)
LEMMA EditorCorrect == Spec => []EditorInv
  BY EditorInit, EditorStep, PTL DEF Spec

(* What the editor shows and exports is what was asked for last, however the     *)
(* workers of TxEditorModel overtake each other: a result of an older revision    *)
(* never becomes the snapshot (apps/gui/tx_editor_model.cpp).                     *)
THEOREM PreviewIsCurrentHolds == Spec => []PreviewIsCurrent
<1>1. EditorInv => PreviewIsCurrent
  BY DEF EditorInv, RevisionInv
<1> QED
  BY <1>1, EditorCorrect, PTL

(* However exports and commands run into each other or fail, a published file is  *)
(* one export's, complete, and no temporary file is forgotten                    *)
(* (src/image/image.cpp, src/core/wav_writer.cpp).                               *)
THEOREM FilesAreWholeHolds == Spec => []FilesAreWhole
<1>1. EditorInv => FilesAreWhole
  <2> SUFFICES ASSUME EditorInv PROVE FilesAreWhole
    OBVIOUS
  <2>1. \A j \in DOMAIN jobs : j # 0
    BY JobFacts
  <2> QED
    BY <2>1 DEF EditorInv, TempInv, WholeInv, FilesAreWhole
<1> QED
  BY <1>1, EditorCorrect, PTL

(* A step that takes a file away or puts another in its place.                   *)
Overwrites ==
  \A path \in Paths :
    files[path] # NoFile /\ files'[path] # files[path] /\ foreign' = foreign
      => \E j \in inFlight :
           /\ jobs[j].path = path /\ jobs'[j].place # jobs[j].place
           /\ \/ jobs[j].place = "publish" /\ jobs[j].replace
              \/ jobs[j].place = "unlink" /\ files'[path] = NoFile

(* Only publish() and the cleanup after it touch a file that is there.            *)
LEMMA OverwriteStep == EditorInv /\ [Next]_vars => [Overwrites]_vars
<1> SUFFICES ASSUME EditorInv, Next, NEW path \in Paths,
                    files[path] # NoFile, files'[path] # files[path], foreign' = foreign
             PROVE  \E j \in inFlight :
                      /\ jobs[j].path = path /\ jobs'[j].place # jobs[j].place
                      /\ \/ jobs[j].place = "publish" /\ jobs[j].replace
                         \/ jobs[j].place = "unlink" /\ files'[path] = NoFile
  BY DEF Overwrites
<1>1. files \in [Paths -> FileRecords] /\ foreign \in Nat
  BY DEF EditorInv, ShapeInv
<1>2. files' # files
  OBVIOUS
<1>3. PICK j \in DOMAIN jobs : Publish(j) \/ Unlink(j)
  <2>1. ~\E other \in Paths : Foreign(other)
    BY <1>1 DEF Foreign
  <2>2. ASSUME NEW j \in DOMAIN jobs, Start(j) \/ Fail(j) \/ Step(j)
        PROVE  Publish(j) \/ Unlink(j)
    BY <1>2, <2>2 DEF Start, Fail, Step, Compare, Header, Decode, Validate, Begin, Write, Stat, Open,
                      disk
  <2>3. Work \/ \E j \in DOMAIN jobs : Fail(j)
    BY <1>2, <2>1 DEF Next, SelectInput, UpdateRequest, ExportTo, ConfirmOverwrite, Export,
                      DeclineOverwrite, InspectWav, Accept, Command, uiFrame, disk
  <2> QED
    BY <2>2, <2>3 DEF Work
<1>4. /\ jobs[j] \in JobRecords /\ jobs \in Seq(JobRecords) /\ JobOK(jobs[j])
  BY JobFacts
<1>5. /\ jobs[j].place \in {"publish", "unlink"} /\ holdsTemp(jobs[j]) /\ j \in inFlight
      /\ jobs[j].place # "over"
  BY <1>3 DEF Publish, Unlink, at, holdsTemp, inFlight
<1>6. ASSUME Over(j, "done") \/ Over(j, "error") PROVE jobs'[j].place = "over"
  <2>1. jobs[j].kind # "prepare"
    BY <1>5, HolderFacts
  <2>2. PICK job : Follows(j, job) /\ job.place = "over"
    BY <1>5, <1>6, <2>1, OverFollows DEF Results
  <2> QED
    BY <1>4, <2>2 DEF Follows
<1>7. ASSUME NEW place \in Places, Goto(j, place) PROVE jobs'[j].place = place
  BY <1>4, <1>7 DEF Goto, JobRecords
<1>8. ASSUME afterPublish(j) PROVE jobs'[j].place \in {"stat", "over"}
  BY <1>6, <1>7, <1>8 DEF afterPublish, Places
<1>9. CASE Publish(j)
  <2>1. jobs[j].place = "publish"
    BY <1>9 DEF Publish, at
  <2>2. CASE jobs[j].replace
    <3>1. files' = [files EXCEPT ![jobs[j].path] = fileOf(j)] /\ afterPublish(j)
      BY <1>9, <2>2 DEF Publish
    <3>2. jobs[j].path = path
      BY <1>1, <3>1
    <3> QED
      BY <1>5, <1>8, <2>1, <2>2, <3>1, <3>2
  <2>3. CASE ~jobs[j].replace
    <3>1. mayLink(jobs[j].path) /\ files' = [files EXCEPT ![jobs[j].path] = fileOf(j)]
      BY <1>2, <1>9, <2>3 DEF Publish
    <3>2. jobs[j].path = path
      BY <1>1, <3>1
    <3> QED
      BY <3>1, <3>2 DEF mayLink
  <2> QED
    BY <2>2, <2>3
<1>10. CASE Unlink(j)
  <2>1. jobs[j].place = "unlink"
    BY <1>10 DEF Unlink, at
  <2>2. files' = [files EXCEPT ![jobs[j].path] = NoFile] /\ Over(j, "error")
    BY <1>2, <1>10 DEF Unlink
  <2>3. jobs[j].path = path /\ files'[path] = NoFile
    BY <1>1, <2>2
  <2> QED
    BY <1>5, <1>6, <2>1, <2>2, <2>3
<1> QED
  BY <1>3, <1>9, <1>10

(* A file that is there is only lost to an export whose overwrite was confirmed,   *)
(* or to the cleanup of the export that put it there: validateOutput() is long     *)
(* past when publish() runs, and link() still refuses (src/image/image.cpp).        *)
THEOREM OnlyConfirmedOverwritesHolds == Spec => OnlyConfirmedOverwrites
<1>1. OnlyConfirmedOverwrites <=> [][Overwrites]_vars
  BY DEF OnlyConfirmedOverwrites, Overwrites
<1> QED
  BY <1>1, OverwriteStep, EditorCorrect, PTL DEF Spec

-----------------------------------------------------------------------------
(* The picture and its frame: arithmetic.                                    *)

Extents == [width : Positive, height : Positive]

(* Rounded up, a ratio is less than one too large.                             *)
LEMMA RoundedUp ==
  ASSUME NEW a \in Positive, NEW b \in Positive
  PROVE  /\ ceilDiv(a, b) \in Positive
         /\ a <= ceilDiv(a, b) * b
         /\ ceilDiv(a, b) * b < a + b
<1>1. a + b - 1 \in Nat /\ a >= 1 /\ b >= 1
  BY DEF Positive
<1> DEFINE c == ceilDiv(a, b)
<1>2. /\ c \in Nat /\ c * b <= a + b - 1 /\ a + b - 1 < c * b + b
  BY <1>1, Quotient DEF ceilDiv
<1> HIDE DEF c
<1>3. a <= c * b /\ c * b < a + b /\ c # 0
  BY <1>1, <1>2 DEF Positive
<1> QED
  BY <1>2, <1>3 DEF Positive, c

(* Rounded to the nearest, a ratio is at most half off.                        *)
LEMMA Nearest ==
  ASSUME NEW v \in Positive, NEW m \in Positive, NEW d \in Positive
  PROVE  /\ roundRatio(v, m, d) \in Nat
         /\ roundRatio(v, m, d) * d < v * m + d
         /\ v * m < roundRatio(v, m, d) * d + d
<1>1. d \div 2 \in Nat /\ d \div 2 < d
  BY DEF Positive
<1>2. v * m \in Nat /\ v * m + d \div 2 \in Nat
  BY <1>1 DEF Positive
<1> DEFINE r == roundRatio(v, m, d)
<1>3. r \in Nat /\ r * d <= v * m + d \div 2 /\ v * m + d \div 2 < r * d + d
  BY <1>2, Quotient DEF roundRatio
<1> HIDE DEF r
<1>4. r * d < v * m + d /\ v * m < r * d + d
  BY <1>1, <1>2, <1>3 DEF Positive
<1> QED
  BY <1>3, <1>4 DEF r

(* The side that a fit reckons: v is what it was, d becomes m, n is its room.     *)
containedSide(v, m, d) == largerOf(1, roundRatio(v, m, d))
coveringSide(v, m, d) == ceilRatio(v, m, d)

(* The other side of a picture that the frame contains.                       *)
LEMMA ContainedSide ==
  ASSUME NEW v \in Positive, NEW m \in Positive, NEW d \in Positive, NEW n \in Positive,
         v * m <= n * d
  PROVE  /\ containedSide(v, m, d) \in 1 .. n
         /\ distance(m * v, containedSide(v, m, d) * d) <= d
         /\ distance(containedSide(v, m, d) * d, m * v) <= d
         /\ m <= d => containedSide(v, m, d) <= v
<1> DEFINE r == roundRatio(v, m, d)
           s == containedSide(v, m, d)
<1>1. r \in Nat /\ r * d < v * m + d /\ v * m < r * d + d
  BY Nearest
<1> HIDE DEF r
<1>2. s = IF 1 > r THEN 1 ELSE r
  BY DEF containedSide, largerOf, r
<1> HIDE DEF s
<1>3. v * m \in Positive /\ n * d \in Nat
  BY DEF Positive
<1>4. s \in Positive /\ s <= n
  <2>1. r * d < n * d + d
    BY <1>1, <1>3 DEF Positive
  <2>2. r <= n
    BY <1>1, <2>1, Cancel DEF Positive
  <2> QED
    BY <1>1, <1>2, <2>2 DEF Positive
<1>5. distance(m * v, s * d) <= d /\ distance(s * d, m * v) <= d
  <2>1. CASE r = 0
    BY <1>1, <1>2, <1>3, <2>1 DEF distance, Positive
  <2>2. CASE r # 0
    BY <1>1, <1>2, <1>3, <2>2 DEF distance, Positive
  <2> QED
    BY <2>1, <2>2
<1>6. ASSUME m <= d PROVE s <= v
  <2>1. m * v <= d * v
    BY <1>6, Grow DEF Positive
  <2>2. r * d < v * d + d
    BY <1>1, <2>1 DEF Positive
  <2>3. r <= v
    BY <1>1, <2>2, Cancel DEF Positive
  <2> QED
    BY <1>1, <1>2, <2>3 DEF Positive
<1> QED
  BY <1>4, <1>5, <1>6 DEF s, Positive

(* The other side of a picture that covers the frame.                         *)
LEMMA CoveringSide ==
  ASSUME NEW v \in Positive, NEW m \in Positive, NEW d \in Positive, NEW n \in Positive,
         n * d <= v * m
  PROVE  /\ coveringSide(v, m, d) \in Positive /\ n <= coveringSide(v, m, d)
         /\ distance(m * v, coveringSide(v, m, d) * d) <= d
         /\ distance(coveringSide(v, m, d) * d, m * v) <= d
         /\ m <= d => coveringSide(v, m, d) <= v
<1> DEFINE s == coveringSide(v, m, d)
<1>1. v * m \in Positive
  BY DEF Positive
<1>2. s \in Positive /\ v * m <= s * d /\ s * d < v * m + d
  BY <1>1, RoundedUp DEF coveringSide, ceilRatio
<1> HIDE DEF s
<1>3. n <= s
  BY <1>1, <1>2, Cancel DEF Positive
<1>4. distance(m * v, s * d) <= d /\ distance(s * d, m * v) <= d
  BY <1>1, <1>2 DEF distance, Positive
<1>5. ASSUME m <= d PROVE s <= v
  <2>1. m * v <= d * v
    BY <1>5, Grow DEF Positive
  <2>2. s * d < v * d + d
    BY <1>2, <2>1 DEF Positive
  <2> QED
    BY <1>2, <2>2, Cancel DEF Positive
<1> QED
  BY <1>2, <1>3, <1>4, <1>5 DEF s


Recipes ==
  [target : Extents, fit : {"contain", "cover"},
   crop : {NoCrop} \cup {crop \in Crops : crop.width # 0 /\ crop.height # 0}]

isWide(source, target) == source.width * target.height >= source.height * target.width

(* What a picture of a size becomes.                                           *)
fitted(source, recipe) == geometry(source, recipe).size

(* What geometry() returns, for either fit.                                   *)
LEMMA FittedIs ==
  ASSUME NEW source \in Extents, NEW recipe \in Recipes
  PROVE  LET target == recipe.target
             side(v, m, d) == IF recipe.fit = "contain" THEN containedSide(v, m, d)
                              ELSE coveringSide(v, m, d)
         IN fitted(source, recipe) =
              IF isWide(source, target)
              THEN IF recipe.fit = "contain"
                   THEN Size(target.width, side(source.height, target.width, source.width))
                   ELSE Size(side(source.width, target.height, source.height), target.height)
              ELSE IF recipe.fit = "contain"
                   THEN Size(side(source.width, target.height, source.height), target.height)
                   ELSE Size(target.width, side(source.height, target.width, source.width))
BY DEF fitted, geometry, isWide, containedSide, coveringSide

(* Enough of a picture to be fitted without being enlarged.                     *)
suffices(source, recipe) ==
  IF recipe.fit = "contain"
  THEN source.width >= recipe.target.width \/ source.height >= recipe.target.height
  ELSE isWithin(recipe.target, source)

(* The geometry fits the frame and keeps the shape, for every size.           *)
LEMMA GeometryFits ==
  ASSUME NEW source \in Extents, NEW recipe \in Recipes
  PROVE  LET target == recipe.target
             size == fitted(source, recipe)
         IN /\ size \in Extents
            /\ size.width = target.width \/ size.height = target.height
            /\ recipe.fit = "contain" => isWithin(size, target)
            /\ recipe.fit = "cover" => isWithin(target, size)
            /\ distance(size.width * source.height, size.height * source.width)
                 <= largerOf(source.width, source.height)
            /\ suffices(source, recipe) => isWithin(size, source)
<1> DEFINE w == source.width
           h == source.height
           tw == recipe.target.width
           th == recipe.target.height
           size == fitted(source, recipe)
<1>1. /\ w \in Positive /\ h \in Positive /\ tw \in Positive /\ th \in Positive
      /\ recipe.fit \in {"contain", "cover"}
  BY DEF Extents, Recipes
<1>2. CASE isWide(source, recipe.target) /\ recipe.fit = "contain"
  <2> DEFINE s == containedSide(h, tw, w)
  <2>1. size.width = tw /\ size.height = s /\ size = Size(tw, s)
    BY <1>2, FittedIs DEF Size
  <2>2. h * tw <= th * w
    BY <1>1, <1>2 DEF isWide, Positive
  <2>3. /\ s \in 1 .. th /\ distance(tw * h, s * w) <= w
        /\ tw <= w => s <= h
    BY <1>1, <2>2, ContainedSide
  <2>4. ASSUME suffices(source, recipe) PROVE tw <= w
    <3>1. CASE th <= h
      <4>1. th * w <= h * w
        BY <1>1, <3>1, Grow DEF Positive
      <4>2. tw * h < w * h + h
        BY <1>1, <2>2, <4>1 DEF Positive
      <4> QED
        BY <1>1, <4>2, Cancel DEF Positive
    <3> QED
      BY <1>1, <1>2, <2>4, <3>1 DEF suffices, Positive
  <2> HIDE DEF s, size
  <2>5. s \in Positive /\ w <= largerOf(w, h)
    BY <1>1, <2>3 DEF Positive, largerOf
  <2> QED
    BY <1>1, <1>2, <2>1, <2>3, <2>4, <2>5 DEF isWithin, Size, Extents, Positive, distance, largerOf, size
<1>3. CASE ~isWide(source, recipe.target) /\ recipe.fit = "contain"
  <2> DEFINE s == containedSide(w, th, h)
  <2>1. size.width = s /\ size.height = th /\ size = Size(s, th)
    BY <1>3, FittedIs DEF Size
  <2>2. w * th <= tw * h
    BY <1>1, <1>3 DEF isWide, Positive
  <2>3. /\ s \in 1 .. tw /\ distance(s * h, th * w) <= h
        /\ th <= h => s <= w
    BY <1>1, <2>2, ContainedSide
  <2>4. ASSUME suffices(source, recipe) PROVE th <= h
    <3>1. CASE tw <= w
      <4>1. tw * h <= w * h
        BY <1>1, <3>1, Grow DEF Positive
      <4>2. th * w < h * w + w
        BY <1>1, <2>2, <4>1 DEF Positive
      <4> QED
        BY <1>1, <4>2, Cancel DEF Positive
    <3> QED
      BY <1>1, <1>3, <2>4, <3>1 DEF suffices, Positive
  <2> HIDE DEF s, size
  <2>5. s \in Positive /\ h <= largerOf(w, h)
    BY <1>1, <2>3 DEF Positive, largerOf
  <2> QED
    BY <1>1, <1>3, <2>1, <2>3, <2>4, <2>5 DEF isWithin, Size, Extents, Positive, distance, largerOf, size
<1>4. CASE isWide(source, recipe.target) /\ recipe.fit = "cover"
  <2> DEFINE s == coveringSide(w, th, h)
  <2>1. size.width = s /\ size.height = th /\ size = Size(s, th)
    BY <1>4, FittedIs DEF Size
  <2>2. tw * h <= w * th
    BY <1>1, <1>4 DEF isWide, Positive
  <2>3. /\ s \in Positive /\ tw <= s /\ distance(s * h, th * w) <= h
        /\ th <= h => s <= w
    BY <1>1, <2>2, CoveringSide
  <2>4. suffices(source, recipe) => th <= h
    BY <1>4 DEF suffices, isWithin
  <2> HIDE DEF s, size
  <2>5. h <= largerOf(w, h)
    BY <1>1 DEF Positive, largerOf
  <2> QED
    BY <1>1, <1>4, <2>1, <2>3, <2>4, <2>5 DEF isWithin, Size, Extents, Positive, distance, largerOf, size
<1>5. CASE ~isWide(source, recipe.target) /\ recipe.fit = "cover"
  <2> DEFINE s == coveringSide(h, tw, w)
  <2>1. size.width = tw /\ size.height = s /\ size = Size(tw, s)
    BY <1>5, FittedIs DEF Size
  <2>2. th * w <= h * tw
    BY <1>1, <1>5 DEF isWide, Positive
  <2>3. /\ s \in Positive /\ th <= s /\ distance(tw * h, s * w) <= w
        /\ tw <= w => s <= h
    BY <1>1, <2>2, CoveringSide
  <2>4. suffices(source, recipe) => tw <= w
    BY <1>5 DEF suffices, isWithin
  <2> HIDE DEF s, size
  <2>5. w <= largerOf(w, h)
    BY <1>1 DEF Positive, largerOf
  <2> QED
    BY <1>1, <1>5, <2>1, <2>3, <2>4, <2>5 DEF isWithin, Size, Extents, Positive, distance, largerOf, size
<1> QED
  BY <1>1, <1>2, <1>3, <1>4, <1>5

(* A JPEG is decoded no smaller than what is fitted asks for.                   *)
LEMMA DecodedSuffices ==
  ASSUME NEW source \in Extents, NEW recipe \in Recipes, NEW format,
         NEW factor, factor = jpegShrink(format, source, recipe)
  PROVE  /\ factor \in {1, 2, 4, 8}
         /\ factor # 1 =>
              /\ recipe.crop = NoCrop
              /\ suffices(Size(ceilDiv(source.width, factor), ceilDiv(source.height, factor)),
                          recipe)
<1> DEFINE desired == geometry(source, recipe).size
           enough == {f \in {1, 2, 4, 8} : /\ ceilDiv(source.width, f) >= desired.width
                                         /\ ceilDiv(source.height, f) >= desired.height}
           largest == CHOOSE f \in enough : \A g \in enough : g <= f
<1>1. CASE format # "jpeg" \/ recipe.crop # NoCrop
  BY <1>1 DEF jpegShrink
<1>2. CASE format = "jpeg" /\ recipe.crop = NoCrop
  <2>1. factor = IF enough = {} THEN 1 ELSE largest
    BY <1>2 DEF jpegShrink, largestFactor
  <2>2. ASSUME enough # {} PROVE largest \in enough
    <3>1. \E f \in enough : \A g \in enough : g <= f
      <4>1. CASE 8 \in enough
        BY <4>1
      <4>2. CASE 8 \notin enough /\ 4 \in enough
        BY <4>2
      <4>3. CASE 8 \notin enough /\ 4 \notin enough /\ 2 \in enough
        BY <4>3
      <4>4. CASE 8 \notin enough /\ 4 \notin enough /\ 2 \notin enough
        BY <2>2, <4>4
      <4> QED
        BY <4>1, <4>2, <4>3, <4>4
    <3> HIDE DEF enough
    <3> QED
      BY <3>1
  <2>3. factor \in {1, 2, 4, 8}
    BY <2>1, <2>2
  <2>4. ASSUME factor # 1
        PROVE  suffices(Size(ceilDiv(source.width, factor), ceilDiv(source.height, factor)), recipe)
    <3>1. /\ ceilDiv(source.width, factor) >= desired.width
          /\ ceilDiv(source.height, factor) >= desired.height
      BY <2>1, <2>2, <2>4
    <3>2. /\ desired \in Extents
          /\ desired.width = recipe.target.width \/ desired.height = recipe.target.height
          /\ recipe.fit = "cover" => isWithin(recipe.target, desired)
      BY GeometryFits DEF fitted
    <3>3. /\ recipe.target \in Extents /\ recipe.fit \in {"contain", "cover"}
          /\ source.width \in Positive /\ source.height \in Positive /\ factor \in Positive
      BY <2>3 DEF Recipes, Extents, Positive
    <3>4. ceilDiv(source.width, factor) \in Nat /\ ceilDiv(source.height, factor) \in Nat
      BY <3>3, RoundedUp DEF Positive
    <3> HIDE DEF desired
    <3> QED
      BY <3>1, <3>2, <3>3, <3>4 DEF suffices, isWithin, Size, Extents, Positive
  <2> QED
    BY <1>2, <2>3, <2>4
<1> QED
  BY <1>1, <1>2
-----------------------------------------------------------------------------
(* What is known of an image at each place of its preparation.                  *)
Opened == [place : {"open"}, recipe : Recipes]
Sized == [place : {"size"}, recipe : Recipes, format : {"jpeg", "png"}]
Scanned ==
  [place : {"chunks"}, recipe : Recipes, format : {"png"}, offset : Nat, size : Nat]
Paged ==
  [place : {"pages", "orientation"}, recipe : Recipes, format : {"jpeg", "png"}, source : Extents]
Turned ==
  [place : {"crop", "load"}, recipe : Recipes, format : {"jpeg", "png"}, swaps : BOOLEAN,
   source : Extents]
Decoded ==
  [place : {"colour", "fit"}, recipe : Recipes, source : Extents, factor : {1, 2, 4, 8},
   seen : Extents, cut : Extents]
Fitted ==
  [place : {"materialise", "prepared"}, recipe : Recipes, source : Extents, factor : {1, 2, 4, 8},
   seen : Extents, cut : Extents, resized : Extents, result : Extents, left : Int, top : Int]

(* The crop lies in a picture of this size.                                    *)
isInside(crop, size) ==
  crop = NoCrop \/ (crop.x + crop.width <= size.width /\ crop.y + crop.height <= size.height)

(* What was decoded at a factor holds the crop, and enough to be reduced.       *)
DecodedOK ==
  /\ isInside(image.recipe.crop, image.seen)
  /\ image.factor # 1 => image.cut = image.seen /\ suffices(image.seen, image.recipe)

FittedOK ==
  /\ image.resized = fitted(image.cut, image.recipe)
  /\ IF image.recipe.fit = "contain"
     THEN /\ image.left = (image.recipe.target.width - image.resized.width) \div 2
          /\ image.top = (image.recipe.target.height - image.resized.height) \div 2
     ELSE /\ image.left = (image.resized.width - image.recipe.target.width) \div 2
          /\ image.top = (image.resized.height - image.recipe.target.height) \div 2

ImageInv ==
  /\ image \in {NoImage, [place |-> "refused"]} \cup Opened \cup Sized \cup Scanned \cup Paged
                 \cup Turned \cup Decoded \cup Fitted
  /\ image.place = "load" => isInside(image.recipe.crop, image.source)
  /\ image.place \in {"colour", "fit", "materialise", "prepared"} => DecodedOK
  /\ image.place \in {"materialise", "prepared"} => FittedOK

(* A picture begins with the file to be opened.                               *)
LEMMA BeginImageKeeps ==
  ASSUME ImageInv, NEW width \in Nat, NEW height \in Nat, NEW fit \in {"contain", "cover"},
         NEW crop \in Crops \cup {NoCrop}, BeginImage(width, height, fit, crop)
  PROVE  ImageInv'
<1>1. CASE image' = [place |-> "refused"]
  BY <1>1 DEF ImageInv
<1>2. CASE image' # [place |-> "refused"]
  <2> DEFINE recipe == [target |-> Size(width, height), fit |-> fit, crop |-> crop]
  <2>1. /\ image' = [place |-> "open", recipe |-> recipe]
        /\ width # 0 /\ height # 0 /\ (crop # NoCrop => crop.width # 0 /\ crop.height # 0)
    BY <1>2 DEF BeginImage, RefuseImage
  <2>2. recipe \in Recipes
    BY <2>1 DEF Recipes, Extents, Positive, Size
  <2> HIDE DEF recipe
  <2>3. image' \in Opened /\ image'.place = "open"
    BY <2>1, <2>2 DEF Opened
  <2> QED
    BY <2>3 DEF ImageInv
<1> QED
  BY <1>1, <1>2

(* Opening the file keeps the invariant.                                      *)
LEMMA OpenKeeps == ASSUME ImageInv, OpenImage PROVE ImageInv'
<1>1. image \in Opened
  BY DEF ImageInv, OpenImage, isAt, NoImage, Sized, Scanned, Paged, Turned, Decoded, Fitted
<1>2. CASE image' = [place |-> "refused"]
  BY <1>2 DEF ImageInv
<1>3. CASE image' = [place |-> "size", recipe |-> image.recipe, format |-> "jpeg"]
  <2>1. image' \in Sized /\ image'.place = "size"
    BY <1>1, <1>3 DEF Opened, Sized
  <2> QED
    BY <2>1 DEF ImageInv
<1>4. ASSUME NEW size \in PngSizes,
             image' = [place |-> "chunks", recipe |-> image.recipe, format |-> "png",
                       offset |-> 8, size |-> size]
      PROVE  ImageInv'
  <2>1. image' \in Scanned /\ image'.place = "chunks"
    BY <1>1, <1>4, ImageAssumption DEF Opened, Scanned
  <2> QED
    BY <2>1 DEF ImageInv
<1> QED
  BY <1>2, <1>3, <1>4 DEF OpenImage, RefuseImage

(* Scanning for the header keeps the invariant.                               *)
LEMMA ScanKeeps == ASSUME ImageInv, ScanChunk PROVE ImageInv'
<1>1. image \in Scanned
  BY DEF ImageInv, ScanChunk, isAt, NoImage, Sized, Opened, Paged, Turned, Decoded, Fitted
<1>2. CASE image' = [place |-> "refused"]
  BY <1>2 DEF ImageInv
<1>3. ASSUME NEW length \in PngLengths, image' = [image EXCEPT !.offset = @ + length + 12]
      PROVE  ImageInv'
  <2>1. image' \in Scanned /\ image'.place = "chunks"
    BY <1>1, <1>3, ImageAssumption DEF Scanned
  <2> QED
    BY <2>1 DEF ImageInv
<1>4. CASE image' = [place |-> "size", recipe |-> image.recipe, format |-> "png"]
  <2>1. image' \in Sized /\ image'.place = "size"
    BY <1>1, <1>4 DEF Scanned, Sized
  <2> QED
    BY <2>1 DEF ImageInv
<1> QED
  BY <1>2, <1>3, <1>4 DEF ScanChunk, RefuseImage

(* The header tells the size and how much smaller to decode: the invariant is *)
(* kept.                                                                      *)
LEMMA ImageHeaderKeeps ==
  ASSUME ImageInv, ReadSize \/ ReadPages \/ ReadOrientation PROVE ImageInv'
<1>1. CASE image' = [place |-> "refused"]
  BY <1>1 DEF ImageInv
<1>2. CASE ReadSize /\ image' # [place |-> "refused"]
  <2>1. image \in Sized
    BY <1>2 DEF ImageInv, ReadSize, isAt, NoImage, Scanned, Opened, Paged, Turned, Decoded, Fitted
  <2>2. PICK pair \in SourceSizes :
          /\ Size(pair[1], pair[2]).width # 0 /\ Size(pair[1], pair[2]).height # 0
          /\ image' = [place |-> "pages", recipe |-> image.recipe, format |-> image.format,
                       source |-> Size(pair[1], pair[2])]
    BY <1>2 DEF ReadSize, RefuseImage
  <2>3. Size(pair[1], pair[2]) \in Extents
    BY <2>2, ImageAssumption DEF Size, Extents, Positive
  <2>4. image' \in Paged /\ image'.place = "pages"
    BY <2>1, <2>2, <2>3 DEF Sized, Paged
  <2> QED
    BY <2>4 DEF ImageInv
<1>3. CASE ReadPages /\ image' # [place |-> "refused"]
  <2>1. image \in Paged
    BY <1>3 DEF ImageInv, ReadPages, isAt, NoImage, Scanned, Opened, Sized, Turned, Decoded, Fitted
  <2>2. image' = [image EXCEPT !.place = "orientation"]
    BY <1>3 DEF ReadPages, RefuseImage
  <2>3. image' \in Paged /\ image'.place = "orientation"
    BY <2>1, <2>2 DEF Paged
  <2> QED
    BY <2>3 DEF ImageInv
<1>4. CASE ReadOrientation /\ image' # [place |-> "refused"]
  <2>1. image \in Paged
    BY <1>4 DEF ImageInv, ReadOrientation, isAt, NoImage, Scanned, Opened, Sized, Turned, Decoded,
       Fitted
  <2>2. PICK orientation :
          image' = [place |-> "crop", recipe |-> image.recipe, format |-> image.format,
                    swaps |-> swapsAxes(orientation),
                    source |-> IF swapsAxes(orientation) THEN turned(image.source)
                               ELSE image.source]
    BY <1>4 DEF ReadOrientation, RefuseImage
  <2>3. image.source \in Extents /\ turned(image.source) \in Extents
    BY <2>1 DEF Paged, turned, Size, Extents
  <2>4. swapsAxes(orientation) \in BOOLEAN
    BY DEF swapsAxes
  <2>5. image' \in Turned /\ image'.place = "crop"
    BY <2>1, <2>2, <2>3, <2>4 DEF Paged, Turned
  <2> QED
    BY <2>5 DEF ImageInv
<1> QED
  BY <1>1, <1>2, <1>3, <1>4

(* A crop is within the image, or it is refused.                              *)
LEMMA CropKeeps == ASSUME ImageInv, ValidateCrop PROVE ImageInv'
<1>1. image \in Turned
  BY DEF ImageInv, ValidateCrop, isAt, NoImage, Sized, Opened, Paged, Scanned, Decoded, Fitted
<1>2. CASE image' = [place |-> "refused"]
  BY <1>2 DEF ImageInv
<1>3. CASE image' # [place |-> "refused"]
  <2> DEFINE crop == image.recipe.crop
  <2>1. /\ image' = [image EXCEPT !.place = "load"]
        /\ crop # NoCrop =>
             /\ ~(crop.x > image.source.width) /\ ~(crop.y > image.source.height)
             /\ ~(crop.width > image.source.width - crop.x)
             /\ ~(crop.height > image.source.height - crop.y)
    BY <1>3 DEF ValidateCrop, RefuseImage
  <2>2. /\ image.source \in Extents /\ crop \in {NoCrop} \cup Crops
    BY <1>1 DEF Turned, Recipes
  <2>3. isInside(crop, image.source)
    BY <2>1, <2>2, ImageAssumption DEF isInside, Extents, Positive
  <2>4. image' \in Turned /\ image'.place = "load"
    BY <1>1, <2>1 DEF Turned
  <2>5. image'.recipe.crop = crop /\ image'.source = image.source
    BY <1>1, <2>1 DEF Turned
  <2> QED
    BY <2>3, <2>4, <2>5 DEF ImageInv
<1> QED
  BY <1>2, <1>3

(* A picture decoded whole has its size.                                       *)
LEMMA WholeSize == ASSUME NEW a \in Positive PROVE ceilDiv(a, 1) = a
BY DEF ceilDiv, Positive

(* What is decoded is as large as the size that was read and the factor say.  *)
LEMMA LoadKeeps == ASSUME ImageInv, LoadImage PROVE ImageInv'
<1>1. image \in Turned /\ isInside(image.recipe.crop, image.source)
  BY DEF ImageInv, LoadImage, isAt, NoImage, Sized, Opened, Paged, Scanned, Decoded, Fitted
<1>2. CASE image' = [place |-> "refused"]
  BY <1>2 DEF ImageInv
<1>3. CASE image' # [place |-> "refused"]
  <2> DEFINE source == image.source
             recipe == image.recipe
             crop == recipe.crop
             factor == jpegShrink(image.format, source, recipe)
             stored == IF image.swaps THEN turned(source) ELSE source
             decoded == Size(ceilDiv(stored.width, factor), ceilDiv(stored.height, factor))
             seen == IF image.swaps THEN turned(decoded) ELSE decoded
             cut == IF crop = NoCrop THEN seen ELSE Size(crop.width, crop.height)
  <2>1. image' = [place |-> "colour", recipe |-> recipe, source |-> source, factor |-> factor,
                  seen |-> seen, cut |-> cut]
    BY <1>3 DEF LoadImage, RefuseImage
  <2>2. /\ source \in Extents /\ recipe \in Recipes /\ image.swaps \in BOOLEAN
        /\ source.width \in Positive /\ source.height \in Positive
    BY <1>1 DEF Turned, Extents
  <2>3. seen = Size(ceilDiv(source.width, factor), ceilDiv(source.height, factor))
    <3> HIDE DEF factor
    <3>1. CASE image.swaps
      BY <3>1 DEF turned, Size
    <3>2. CASE ~image.swaps
      BY <3>2
    <3> QED
      BY <3>1, <3>2
  <2>4. /\ factor \in {1, 2, 4, 8}
        /\ factor # 1 => crop = NoCrop /\ suffices(seen, recipe)
    BY <2>2, <2>3, DecodedSuffices
  <2> HIDE DEF factor
  <2>5. factor \in Positive
    BY <2>4 DEF Positive
  <2>6. seen \in Extents
    BY <2>2, <2>3, <2>5, RoundedUp DEF Extents, Size
  <2>7. crop \in {NoCrop} \cup {c \in Crops : c.width # 0 /\ c.height # 0}
    BY <2>2 DEF Recipes
  <2>8. cut \in Extents
    BY <2>6, <2>7, ImageAssumption DEF Extents, Size, Positive
  <2>9. isInside(crop, seen)
    <3>1. CASE factor = 1
      <4>1. seen = Size(source.width, source.height)
        BY <2>2, <2>3, <3>1, WholeSize
      <4> QED
        BY <1>1, <4>1 DEF isInside, Size
    <3>2. CASE factor # 1
      BY <2>4, <3>2 DEF isInside
    <3> QED
      BY <3>1, <3>2
  <2> HIDE DEF seen, source, recipe
  <2>10. factor # 1 => cut = seen
    BY <2>4
  <2> HIDE DEF cut, crop
  <2>11. image' \in Decoded /\ image'.place = "colour"
    BY <2>1, <2>2, <2>4, <2>6, <2>8 DEF Decoded
  <2>12. DecodedOK'
    BY <2>1, <2>4, <2>9, <2>10 DEF DecodedOK, crop
  <2> QED
    BY <2>11, <2>12 DEF ImageInv
<1> QED
  BY <1>2, <1>3

(* Colours do not change sizes.                                               *)
LEMMA ColourKeeps == ASSUME ImageInv, NormaliseColour PROVE ImageInv'
<1>1. image \in Decoded /\ DecodedOK
  BY DEF ImageInv, NormaliseColour, isAt, NoImage, Sized, Opened, Paged, Scanned, Turned, Fitted
<1>2. CASE image' = [place |-> "refused"]
  BY <1>2 DEF ImageInv
<1>3. CASE image' = [image EXCEPT !.place = "fit"]
  <2>1. /\ image' \in Decoded /\ image'.place = "fit" /\ image'.recipe = image.recipe
        /\ image'.seen = image.seen /\ image'.cut = image.cut /\ image'.factor = image.factor
    BY <1>1, <1>3 DEF Decoded
  <2>2. DecodedOK'
    BY <1>1, <2>1 DEF DecodedOK
  <2> QED
    BY <2>1, <2>2 DEF ImageInv
<1> QED
  BY <1>2, <1>3 DEF NormaliseColour, RefuseImage

(* The picture is cut, resized and placed as geometry() says.                 *)
LEMMA FitKeeps == ASSUME ImageInv, ApplyFit PROVE ImageInv'
<1>1. image \in Decoded /\ DecodedOK
  BY DEF ImageInv, ApplyFit, isAt, NoImage, Sized, Opened, Paged, Scanned, Turned, Fitted
<1> DEFINE target == image.recipe.target
           size == fitted(image.cut, image.recipe)
           margin(outer, inner) == (outer - inner) \div 2
           isContain == image.recipe.fit = "contain"
           left == IF isContain THEN margin(target.width, size.width)
                   ELSE margin(size.width, target.width)
           top == IF isContain THEN margin(target.height, size.height)
                  ELSE margin(size.height, target.height)
<1>2. geometry(image.cut, image.recipe)
        = [size |-> size, left |-> margin(size.width, target.width),
           top |-> margin(size.height, target.height)]
  BY DEF geometry, fitted
<1>3. image' = [place |-> "materialise", recipe |-> image.recipe, source |-> image.source,
                factor |-> image.factor, seen |-> image.seen, cut |-> image.cut,
                resized |-> size, result |-> target, left |-> left, top |-> top]
  <2> HIDE DEF size
  <2> QED
    BY <1>2 DEF ApplyFit
<1>4. size \in Extents /\ target \in Extents
  BY <1>1, GeometryFits DEF Decoded, Recipes
<1> HIDE DEF size
<1>5. left \in Int /\ top \in Int
  BY <1>4 DEF Extents, Positive
<1>6. image' \in Fitted /\ image'.place = "materialise"
  <2> HIDE DEF left, top, target
  <2> QED
    BY <1>1, <1>3, <1>4, <1>5 DEF Decoded, Fitted
<1>7. DecodedOK'
  BY <1>1, <1>3 DEF DecodedOK
<1>8. FittedOK'
  <2>1. /\ image'.resized = size /\ image'.left = left /\ image'.top = top
        /\ image'.recipe = image.recipe /\ image'.cut = image.cut
    BY <1>3
  <2> QED
    BY <2>1 DEF FittedOK, size
<1> QED
  BY <1>6, <1>7, <1>8 DEF ImageInv

(* Materialising changes no size.                                             *)
LEMMA MaterialiseKeeps == ASSUME ImageInv, Materialise PROVE ImageInv'
<1>1. image \in Fitted /\ DecodedOK /\ FittedOK
  BY DEF ImageInv, Materialise, isAt, NoImage, Sized, Opened, Paged, Scanned, Turned, Decoded
<1>2. CASE image' = [place |-> "refused"]
  BY <1>2 DEF ImageInv
<1>3. CASE image' = [image EXCEPT !.place = "prepared"]
  <2>1. /\ image' \in Fitted /\ image'.place = "prepared" /\ image'.recipe = image.recipe
        /\ image'.seen = image.seen /\ image'.cut = image.cut /\ image'.factor = image.factor
        /\ image'.resized = image.resized /\ image'.left = image.left /\ image'.top = image.top
    BY <1>1, <1>3 DEF Fitted
  <2>2. DecodedOK' /\ FittedOK'
    BY <1>1, <2>1 DEF DecodedOK, FittedOK
  <2> QED
    BY <2>1, <2>2 DEF ImageInv
<1> QED
  BY <1>2, <1>3 DEF Materialise, RefuseImage

(* What is prepared fits, whatever was read of the file.                        *)
LEMMA PreparedFits == ImageInv => PreparedFrameFits
<1> SUFFICES ASSUME ImageInv, image.place = "prepared" PROVE PreparedFrameFits
  BY DEF PreparedFrameFits
<1> DEFINE target == image.recipe.target
           crop == image.recipe.crop
           resized == image.resized
           cut == image.cut
<1>1. image \in Fitted /\ DecodedOK /\ FittedOK
  BY DEF ImageInv, NoImage, Sized, Opened, Paged, Scanned, Turned, Decoded
<1>2. /\ image.recipe \in Recipes /\ cut \in Extents /\ image.seen \in Extents
      /\ target \in Extents /\ image.recipe.fit \in {"contain", "cover"}
  BY <1>1 DEF Fitted, Recipes
<1>3. /\ resized \in Extents
      /\ resized.width = target.width \/ resized.height = target.height
      /\ image.recipe.fit = "contain" => isWithin(resized, target)
      /\ image.recipe.fit = "cover" => isWithin(target, resized)
      /\ distance(resized.width * cut.height, resized.height * cut.width)
           <= largerOf(cut.width, cut.height)
      /\ suffices(cut, image.recipe) => isWithin(resized, cut)
  BY <1>1, <1>2, GeometryFits DEF FittedOK
<1>4. crop # NoCrop => /\ crop.x + crop.width <= image.seen.width
                       /\ crop.y + crop.height <= image.seen.height
  BY <1>1 DEF DecodedOK, isInside
<1>5. image.factor > 1 => isWithin(resized, image.seen)
  BY <1>1, <1>3 DEF DecodedOK
<1>6. ASSUME image.recipe.fit = "contain"
      PROVE  isWithin(Size(image.left + resized.width, image.top + resized.height), target)
  BY <1>1, <1>2, <1>3, <1>6 DEF FittedOK, isWithin, Size, Extents, Positive
<1>7. ASSUME image.recipe.fit = "cover"
      PROVE  isWithin(Size(image.left + target.width, image.top + target.height), resized)
  BY <1>1, <1>2, <1>3, <1>7 DEF FittedOK, isWithin, Size, Extents, Positive
<1> QED
  BY <1>3, <1>4, <1>5, <1>6, <1>7 DEF PreparedFrameFits

-----------------------------------------------------------------------------
(* The colours of a picture.                                                   *)

(* One pixel.                                                                   *)
LEMMA WeightsAre ==
  /\ [i \in 1 .. 3 |-> lumaWeights[i] % 1000] = <<628, 642, 984>>
  /\ [i \in 1 .. 3 |-> lumaWeights[i] \div 1000] = <<256772, 504096, 97899>>
  /\ [i \in 1 .. 3 |-> redDifferenceWeights[i] % 1000] = <<734, 476, 790>>
  /\ [i \in 1 .. 3 |-> redDifferenceWeights[i] \div 1000] = <<439186, -367766, -71422>>
  /\ [i \in 1 .. 3 |-> blueDifferenceWeights[i] % 1000] = <<830, 436, 734>>
  /\ [i \in 1 .. 3 |-> blueDifferenceWeights[i] \div 1000] = <<-148214, -290974, 439186>>
BY DEF lumaWeights, redDifferenceWeights, blueDifferenceWeights

(* A pixel is of its three colours.                                           *)
LEMMA ThirdsAre ==
  ASSUME NEW source \in Pixels
  PROVE  /\ red(source) \in 0 .. 255 /\ green(source) \in 0 .. 255 /\ blue(source) \in 0 .. 255
         /\ source = <<red(source), green(source), blue(source)>>
BY DEF Pixels, red, green, blue

(* Luma is in the studio range.                                               *)
LEMMA LumaIs ==
  ASSUME NEW source \in Pixels PROVE convertLuma(source) \in 16 .. 235
<1> DEFINE r == red(source)
           g == green(source)
           b == blue(source)
<1>1. r \in 0 .. 255 /\ g \in 0 .. 255 /\ b \in 0 .. 255
  BY ThirdsAre
<1> DEFINE fine == 628 * r + 642 * g + 984 * b
           coarse == 256772 * r + 504096 * g + 97899 * b
           value == (16 * 1000000 + coarse + fine \div 1000) \div 1000000
<1>2. convertLuma(source) = IF value < 0 THEN 0 ELSE IF value > 255 THEN 255 ELSE value
  BY WeightsAre DEF convertLuma, convertComponent, weighted
<1> HIDE DEF r, g, b
<1>3. fine \div 1000 \in 0 .. 574
  BY <1>1
<1>4. value \in 16 .. 235
  BY <1>1, <1>3
<1> HIDE DEF value
<1> QED
  BY <1>2, <1>4

(* Differences of a pixel: of any, of grey, of the three colours.                  *)
LEMMA RedDifferenceIs ==
  ASSUME NEW source \in Pixels
  PROVE  /\ convertRedDifference(source) \in 16 .. 240
         /\ isGrey(source) => convertRedDifference(source) = 128
         /\ source = <<255, 0, 0>> => convertRedDifference(source) = 239
         /\ source = <<0, 255, 0>> => convertRedDifference(source) = 34
         /\ source = <<0, 0, 255>> => convertRedDifference(source) = 109
<1> DEFINE r == red(source)
           g == green(source)
           b == blue(source)
<1>1. r \in 0 .. 255 /\ g \in 0 .. 255 /\ b \in 0 .. 255
  BY ThirdsAre
<1> DEFINE fine == 734 * r + 476 * g + 790 * b
           coarse == 439186 * r + (-367766) * g + (-71422) * b
           value == (128 * 1000000 + coarse + fine \div 1000) \div 1000000
<1>2. convertRedDifference(source) = IF value < 0 THEN 0 ELSE IF value > 255 THEN 255 ELSE value
  BY WeightsAre DEF convertRedDifference, convertComponent, weighted
<1>3. /\ source = <<255, 0, 0>> => r = 255 /\ g = 0 /\ b = 0
      /\ source = <<0, 255, 0>> => r = 0 /\ g = 255 /\ b = 0
      /\ source = <<0, 0, 255>> => r = 0 /\ g = 0 /\ b = 255
      /\ isGrey(source) <=> r = g /\ g = b
  BY DEF red, green, blue, isGrey
<1> HIDE DEF r, g, b
<1>4. fine \div 1000 \in 0 .. 510
  BY <1>1
<1>5. value \in 16 .. 240
  BY <1>1, <1>4
<1>6. r = g /\ g = b => value = 128
  <2> SUFFICES ASSUME r = g, g = b PROVE value = 128
    OBVIOUS
  <2>1. fine = 2000 * r
    BY <1>1
  <2>2. fine \div 1000 = 2 * r
    BY <1>1, <2>1
  <2> QED
    BY <1>1, <2>2
<1>7. /\ r = 255 /\ g = 0 /\ b = 0 => value = 239
      /\ r = 0 /\ g = 255 /\ b = 0 => value = 34
      /\ r = 0 /\ g = 0 /\ b = 255 => value = 109
  OBVIOUS
<1> HIDE DEF value
<1> QED
  BY <1>2, <1>3, <1>5, <1>6, <1>7

(* Likewise for blue.                                                         *)
LEMMA BlueDifferenceIs ==
  ASSUME NEW source \in Pixels
  PROVE  /\ convertBlueDifference(source) \in 16 .. 240
         /\ isGrey(source) => convertBlueDifference(source) = 128
         /\ source = <<255, 0, 0>> => convertBlueDifference(source) = 90
         /\ source = <<0, 255, 0>> => convertBlueDifference(source) = 53
         /\ source = <<0, 0, 255>> => convertBlueDifference(source) = 239
<1> DEFINE r == red(source)
           g == green(source)
           b == blue(source)
<1>1. r \in 0 .. 255 /\ g \in 0 .. 255 /\ b \in 0 .. 255
  BY ThirdsAre
<1> DEFINE fine == 830 * r + 436 * g + 734 * b
           coarse == (-148214) * r + (-290974) * g + 439186 * b
           value == (128 * 1000000 + coarse + fine \div 1000) \div 1000000
<1>2. convertBlueDifference(source) = IF value < 0 THEN 0 ELSE IF value > 255 THEN 255 ELSE value
  BY WeightsAre DEF convertBlueDifference, convertComponent, weighted
<1>3. /\ source = <<255, 0, 0>> => r = 255 /\ g = 0 /\ b = 0
      /\ source = <<0, 255, 0>> => r = 0 /\ g = 255 /\ b = 0
      /\ source = <<0, 0, 255>> => r = 0 /\ g = 0 /\ b = 255
      /\ isGrey(source) <=> r = g /\ g = b
  BY DEF red, green, blue, isGrey
<1> HIDE DEF r, g, b
<1>4. fine \div 1000 \in 0 .. 510
  BY <1>1
<1>5. value \in 16 .. 240
  BY <1>1, <1>4
<1>6. r = g /\ g = b => value = 128
  <2> SUFFICES ASSUME r = g, g = b PROVE value = 128
    OBVIOUS
  <2>1. fine = 2000 * r
    BY <1>1
  <2>2. fine \div 1000 = 2 * r
    BY <1>1, <2>1
  <2> QED
    BY <1>1, <2>2
<1>7. /\ r = 255 /\ g = 0 /\ b = 0 => value = 90
      /\ r = 0 /\ g = 255 /\ b = 0 => value = 53
      /\ r = 0 /\ g = 0 /\ b = 255 => value = 239
  OBVIOUS
<1> HIDE DEF value
<1> QED
  BY <1>2, <1>3, <1>5, <1>6, <1>7

(* Rows and columns of a plane.                                                  *)
LEMMA RowsAndColumns ==
  ASSUME NEW width \in Nat, NEW height \in Nat, NEW x \in Nat, NEW y \in Nat,
         x < width, y < height
  PROVE  /\ y * width + x \in 0 .. width * height - 1
         /\ ((y * width + x) % width) = x
         /\ (y * width + x) \div width = y
<1>1. \A a, b, c \in Nat : a + 1 <= b => a * c + c <= b * c
  OBVIOUS
<1>2. y + 1 <= height
  OBVIOUS
<1>3. y * width + width <= height * width /\ height * width = width * height
  BY <1>1, <1>2
<1>4. y * width \in Nat /\ width * height \in Nat
  OBVIOUS
<1>5. y * width + x \in 0 .. width * height - 1
  <2> DEFINE a == y * width
             b == width * height
  <2>1. a + width <= b /\ a \in Nat /\ b \in Nat
    BY <1>3, <1>4
  <2> HIDE DEF a, b
  <2>2. a + x \in 0 .. b - 1
    BY <2>1
  <2> QED
    BY <2>2 DEF a, b
<1>6. ((y * width + x) % width) = x /\ (y * width + x) \div width = y
  <2> DEFINE a == y * width + x
             q == a \div width
  <2>1. width \in Positive /\ a \in Nat
    BY <1>5 DEF Positive
  <2>2. q \in Nat /\ q * width <= a /\ a < q * width + width /\ a = width * q + (a % width)
    BY <2>1, Quotient, Remainder
  <2> HIDE DEF q
  <2>3. q * width \in Nat /\ y * width \in Nat
    BY <2>2
  <2>4. q * width < y * width + width /\ y * width < q * width + width
    BY <1>4, <2>2, <2>3
  <2>5. q <= y /\ y <= q
    BY <2>1, <2>2, <2>4, Cancel
  <2>6. q = y
    BY <2>2, <2>5
  <2>7. width * q = y * width
    BY <2>6
  <2>8. (a % width) = x
    <3> DEFINE m == a % width
               p == y * width
    <3>1. m \in 0 .. width - 1 /\ a = p + m /\ a = p + x /\ p \in Nat
      BY <2>1, <2>2, <2>3, <2>7, Remainder
    <3> HIDE DEF m, p, a
    <3>2. m = x
      BY <3>1
    <3> QED
      BY <3>2 DEF m
  <2> QED
    BY <2>6, <2>8 DEF q
<1> QED
  BY <1>5, <1>6

-----------------------------------------------------------------------------
(* A block: the pixels that one value of a difference plane stands for.            *)

(* Within the frame there are pixels.                                         *)
LEMMA PixelIs ==
  ASSUME NEW frame, isFrame(frame), NEW x \in Nat, NEW y \in Nat,
         x < frame.width, y < frame.height
  PROVE  pixel(frame, x, y) \in Pixels
<1>1. y * frame.width + x \in 0 .. frame.width * frame.height - 1
  BY RowsAndColumns DEF isFrame
<1>2. frame.pixels \in [0 .. frame.width * frame.height - 1 -> Pixels]
  BY DEF isFrame
<1> QED
  BY <1>1, <1>2, Zenon DEF pixel

Differences == {"redDifference", "blueDifference"}
own(plane) == IF plane = "redDifference" THEN <<255, 0, 0>> ELSE <<0, 0, 255>>
Pure == {<<255, 0, 0>>, <<0, 255, 0>>, <<0, 0, 255>>}

(* Both differences at once: in range, none for grey, and apart for the three *)
(* colours.                                                                   *)
LEMMA DifferenceIs ==
  ASSUME NEW source \in Pixels, NEW plane \in Differences
  PROVE  /\ convertDifference(source, plane) \in 16 .. 240
         /\ isGrey(source) => convertDifference(source, plane) = 128
         /\ source \in Pure => IF source = own(plane) THEN convertDifference(source, plane) = 239
                               ELSE convertDifference(source, plane) <= 109
<1>1. /\ <<255, 0, 0>> # <<0, 255, 0>> /\ <<255, 0, 0>> # <<0, 0, 255>>
      /\ <<0, 255, 0>> # <<0, 0, 255>>
  OBVIOUS
<1>2. CASE plane = "redDifference"
  BY <1>1, <1>2, RedDifferenceIs DEF convertDifference, own, Pure
<1>3. CASE plane = "blueDifference"
  BY <1>1, <1>3, BlueDifferenceIs DEF convertDifference, own, Pure
<1> QED
  BY <1>2, <1>3 DEF Differences

(* The three colours are not grey.                                            *)
LEMMA PureIsNotGrey == \A source \in Pure : ~isGrey(source)
BY DEF Pure, isGrey, red, green, blue

(* What the sums of two and of four values average to.                        *)
LEMMA Averages ==
  /\ \A sum \in Int : sum >= 64 /\ sum <= 960 => sum \div 4 \in 16 .. 240
  /\ \A sum \in Int : sum >= 516 => sum \div 4 > 128
  /\ \A sum \in Int : sum <= 512 => sum \div 4 <= 128
  /\ \A sum \in Int : sum >= 32 /\ sum <= 480 => sum \div 2 \in 16 .. 240
  /\ \A sum \in Int : sum >= 258 => sum \div 2 > 128
  /\ \A sum \in Int : sum <= 256 => sum \div 2 <= 128
OBVIOUS

(* The average of the two or four values of a block: in the studio range, none for    *)
(* grey, and towards the one colour that is there.                                 *)
isAverageOf(block, plane, average) ==
  LET strays == {p \in block : ~isGrey(p)} IN
    /\ average \in 16 .. 240
    /\ strays = {} => average = 128
    /\ \A colour \in Pure : strays = {colour} => (average > 128 <=> colour = own(plane))

(* What a pixel contributes when one colour is the only stray.                      *)
LEMMA ContributionIs ==
  ASSUME NEW p \in Pixels, NEW plane \in Differences, NEW colour \in Pure,
         isGrey(p) \/ p = colour
  PROVE  IF colour = own(plane)
         THEN convertDifference(p, plane) = IF p = colour THEN 239 ELSE 128
         ELSE convertDifference(p, plane) \in 16 .. 128
<1>1. convertDifference(p, plane) \in 16 .. 240
  BY DifferenceIs
<1>2. CASE p = colour
  <2>1. IF p = own(plane) THEN convertDifference(p, plane) = 239
        ELSE convertDifference(p, plane) <= 109
    BY <1>2, DifferenceIs
  <2> QED
    BY <1>1, <1>2, <2>1
<1>3. CASE p # colour
  <2>1. convertDifference(p, plane) = 128
    BY <1>3, DifferenceIs
  <2> QED
    BY <1>3, <2>1
<1> QED
  BY <1>2, <1>3

(* A block of four, with 4:2:0.                                               *)
LEMMA AverageOfFour ==
  ASSUME NEW a \in Pixels, NEW b \in Pixels, NEW c \in Pixels, NEW d \in Pixels,
         NEW plane \in Differences, NEW v, NEW w, NEW x, NEW y,
         v = convertDifference(a, plane), w = convertDifference(b, plane),
         x = convertDifference(c, plane), y = convertDifference(d, plane)
  PROVE  isAverageOf({a, b, c, d}, plane, (v + w + (x + y)) \div 4)
<1> DEFINE strays == {p \in {a, b, c, d} : ~isGrey(p)}
           sum == v + w + (x + y)
<1>1. v \in 16 .. 240 /\ w \in 16 .. 240 /\ x \in 16 .. 240 /\ y \in 16 .. 240
  BY DifferenceIs
<1>2. sum \in Int /\ sum >= 64 /\ sum <= 960
  BY <1>1, SMTT(30)
<1>3. strays = {} => sum \div 4 = 128
  <2> SUFFICES ASSUME strays = {} PROVE sum \div 4 = 128
    OBVIOUS
  <2>1. isGrey(a) /\ isGrey(b) /\ isGrey(c) /\ isGrey(d)
    OBVIOUS
  <2>2. v = 128 /\ w = 128 /\ x = 128 /\ y = 128
    BY <2>1, DifferenceIs
  <2> QED
    BY <2>2
<1>4. ASSUME NEW colour \in Pure, strays = {colour}
      PROVE  sum \div 4 > 128 <=> colour = own(plane)
  <2>1. /\ isGrey(a) \/ a = colour
        /\ isGrey(b) \/ b = colour
        /\ isGrey(c) \/ c = colour
        /\ isGrey(d) \/ d = colour
        /\ a = colour \/ b = colour \/ c = colour \/ d = colour
    BY <1>4
  <2>2. CASE colour = own(plane)
    <3>1. /\ v = IF a = colour THEN 239 ELSE 128
          /\ w = IF b = colour THEN 239 ELSE 128
          /\ x = IF c = colour THEN 239 ELSE 128
          /\ y = IF d = colour THEN 239 ELSE 128
      BY <2>1, <2>2, ContributionIs
    <3>2. sum >= 516
      BY <2>1, <3>1
    <3> QED
      BY <1>2, <2>2, <3>2, Averages
  <2>3. CASE colour # own(plane)
    <3>1. v \in 16 .. 128 /\ w \in 16 .. 128 /\ x \in 16 .. 128 /\ y \in 16 .. 128
      BY <2>1, <2>3, ContributionIs
    <3>2. sum <= 512
      BY <3>1
    <3>3. sum \div 4 <= 128 /\ sum \div 4 \in Int
      BY <1>2, <3>2, Averages
    <3> QED
      BY <2>3, <3>3
  <2> QED
    BY <2>2, <2>3
<1>5. sum \div 4 \in 16 .. 240
  BY <1>2, Averages
<1> QED
  BY <1>3, <1>4, <1>5, Zenon DEF isAverageOf

(* A block of two, with 4:4:0.                                                *)
LEMMA AverageOfTwo ==
  ASSUME NEW a \in Pixels, NEW b \in Pixels,
         NEW plane \in Differences, NEW v, NEW w,
         v = convertDifference(a, plane), w = convertDifference(b, plane)
  PROVE  isAverageOf({a, b}, plane, (v + w) \div 2)
<1> DEFINE strays == {p \in {a, b} : ~isGrey(p)}
           sum == v + w
<1>1. v \in 16 .. 240 /\ w \in 16 .. 240
  BY DifferenceIs
<1>2. sum \in Int /\ sum >= 32 /\ sum <= 480
  BY <1>1
<1>3. strays = {} => sum \div 2 = 128
  <2> SUFFICES ASSUME strays = {} PROVE sum \div 2 = 128
    OBVIOUS
  <2>1. isGrey(a) /\ isGrey(b)
    OBVIOUS
  <2>2. v = 128 /\ w = 128
    BY <2>1, DifferenceIs
  <2> QED
    BY <2>2
<1>4. ASSUME NEW colour \in Pure, strays = {colour}
      PROVE  sum \div 2 > 128 <=> colour = own(plane)
  <2>1. /\ isGrey(a) \/ a = colour
        /\ isGrey(b) \/ b = colour
        /\ a = colour \/ b = colour
    BY <1>4
  <2>2. CASE colour = own(plane)
    <3>1. /\ v = IF a = colour THEN 239 ELSE 128
          /\ w = IF b = colour THEN 239 ELSE 128
      BY <2>1, <2>2, ContributionIs
    <3>2. sum >= 258
      BY <2>1, <3>1
    <3> QED
      BY <1>2, <2>2, <3>2, Averages
  <2>3. CASE colour # own(plane)
    <3>1. v \in 16 .. 128 /\ w \in 16 .. 128
      BY <2>1, <2>3, ContributionIs
    <3>2. sum <= 256
      BY <3>1
    <3>3. sum \div 2 <= 128 /\ sum \div 2 \in Int
      BY <1>2, <3>2, Averages
    <3> QED
      BY <2>3, <3>3
  <2> QED
    BY <2>2, <2>3
<1>5. sum \div 2 \in 16 .. 240
  BY <1>2, Averages
<1> QED
  BY <1>3, <1>4, <1>5, Zenon DEF isAverageOf

(* averageBlock() is the average of its block.                                *)
LEMMA BlockAverageIs ==
  ASSUME NEW frame, isFrame(frame), NEW layout \in {"4:2:0", "4:4:0"},
         hasEvenSize(layout, frame.width, frame.height), NEW plane \in Differences,
         NEW x \in 0 .. planeWidth(frame, layout, plane) - 1,
         NEW y \in 0 .. frame.height \div 2 - 1
  PROVE  isAverageOf(blockOf(frame, layout, x, y), plane,
                     averageBlock(frame, layout, columnsPerSample(layout) * x, 2 * y, plane))
<1> DEFINE width == frame.width
           height == frame.height
           value(i, j) == convertDifference(pixel(frame, i, j), plane)
<1>1. /\ width \in Nat /\ height \in Nat /\ x \in Nat /\ y \in Nat
      /\ x < width \div columnsPerSample(layout) /\ y < height \div 2
      /\ height % 2 = 0
  <2>1. width \in Nat /\ height \in Nat
    BY DEF isFrame
  <2>2. columnsPerSample(layout) \in {1, 2}
    BY DEF columnsPerSample
  <2>3. planeWidth(frame, layout, plane) = width \div columnsPerSample(layout)
    BY DEF planeWidth, Differences
  <2>4. width \div columnsPerSample(layout) \in Nat
    BY <2>1, <2>2
  <2> QED
    BY <2>1, <2>3, <2>4 DEF hasEvenSize
<1>2. 2 * y + 0 \in Nat /\ 2 * y + 1 \in Nat /\ 2 * y + 0 < height /\ 2 * y + 1 < height
  BY <1>1
<1>3. CASE layout = "4:2:0"
  <2>1. columnsPerSample(layout) = 2
    BY <1>3 DEF columnsPerSample
  <2>2. (width % 2) = 0
    BY <2>1 DEF hasEvenSize
  <2>3. 2 * x + 0 \in Nat /\ 2 * x + 1 \in Nat /\ 2 * x + 0 < width /\ 2 * x + 1 < width
    BY <1>1, <2>1, <2>2
  <2> DEFINE a == pixel(frame, 2 * x + 0, 2 * y + 0)
             b == pixel(frame, 2 * x + 0, 2 * y + 1)
             c == pixel(frame, 2 * x + 1, 2 * y + 0)
             d == pixel(frame, 2 * x + 1, 2 * y + 1)
  <2>4. a \in Pixels /\ b \in Pixels /\ c \in Pixels /\ d \in Pixels
    BY <1>2, <2>3, PixelIs
  <2>5. blockOf(frame, layout, x, y) = {a, b, c, d}
    <3>1. 0 .. columnsPerSample(layout) - 1 = {0, 1}
      BY <2>1
    <3>2. blockOf(frame, layout, x, y) = {pixel(frame, 2 * x + dx, 2 * y + dy) : dx \in {0, 1}, dy \in {0, 1}}
      BY <2>1, <3>1 DEF blockOf
    <3> QED
      BY <3>2
  <2>6. averageBlock(frame, layout, 2 * x, 2 * y, plane)
          = (convertDifference(a, plane) + convertDifference(b, plane)
               + (convertDifference(c, plane) + convertDifference(d, plane))) \div 4
    BY <2>1 DEF averageBlock
  <2> HIDE DEF a, b, c, d
  <2>7. isAverageOf({a, b, c, d}, plane,
                    (convertDifference(a, plane) + convertDifference(b, plane)
                       + (convertDifference(c, plane) + convertDifference(d, plane))) \div 4)
    BY <2>4, AverageOfFour
  <2> QED
    BY <2>1, <2>5, <2>6, <2>7
<1>4. CASE layout = "4:4:0"
  <2>1. columnsPerSample(layout) = 1
    BY <1>4 DEF columnsPerSample
  <2>2. 1 * x + 0 \in Nat /\ 1 * x + 0 < width
    BY <1>1, <2>1
  <2> DEFINE a == pixel(frame, 1 * x + 0, 2 * y + 0)
             b == pixel(frame, 1 * x + 0, 2 * y + 1)
  <2>4. a \in Pixels /\ b \in Pixels
    BY <1>2, <2>2, PixelIs
  <2>5. blockOf(frame, layout, x, y) = {a, b}
    <3>1. 0 .. columnsPerSample(layout) - 1 = {0}
      BY <2>1
    <3>2. blockOf(frame, layout, x, y) = {pixel(frame, 1 * x + dx, 2 * y + dy) : dx \in {0}, dy \in {0, 1}}
      BY <2>1, <3>1 DEF blockOf
    <3> QED
      BY <3>2
  <2>6. averageBlock(frame, layout, 1 * x, 2 * y, plane)
          = (convertDifference(a, plane) + convertDifference(b, plane)) \div 2
    BY <2>1 DEF averageBlock
  <2> HIDE DEF a, b
  <2>7. isAverageOf({a, b}, plane,
                    (convertDifference(a, plane) + convertDifference(b, plane)) \div 2)
    BY <2>4, AverageOfTwo
  <2> QED
    BY <2>1, <2>5, <2>6, <2>7
<1> QED
  BY <1>3, <1>4

(* And so is the value of the plane that stands for the block.                *)
LEMMA PlaneIs ==
  ASSUME NEW frame, isFrame(frame), NEW layout \in {"4:2:0", "4:4:0"},
         hasEvenSize(layout, frame.width, frame.height), NEW plane \in Differences,
         NEW x \in 0 .. planeWidth(frame, layout, plane) - 1,
         NEW y \in 0 .. frame.height \div 2 - 1
  PROVE  isAverageOf(blockOf(frame, layout, x, y), plane,
                     planeValue(convert(frame, layout), frame, layout, plane, x, y))
<1> DEFINE width == planeWidth(frame, layout, plane)
           height == frame.height \div 2
           index == y * width + x
<1>1. /\ width \in Nat /\ height \in Nat /\ x \in Nat /\ y \in Nat /\ x < width /\ y < height
      /\ width = frame.width \div columnsPerSample(layout)
  <2>1. frame.width \in Nat /\ frame.height \in Nat
    BY DEF isFrame
  <2>2. columnsPerSample(layout) \in {1, 2}
    BY DEF columnsPerSample
  <2>3. width = frame.width \div columnsPerSample(layout)
    BY DEF planeWidth, Differences
  <2>4. width \in Nat
    BY <2>1, <2>2, <2>3
  <2>5. height \in Nat
    BY <2>1
  <2> QED
    BY <2>3, <2>4, <2>5
<1>2. index \in 0 .. width * height - 1 /\ (index % width) = x /\ index \div width = y
  <2>1. width \in Nat /\ height \in Nat /\ x \in Nat /\ y \in Nat /\ x < width /\ y < height
    BY <1>1, Zenon
  <2> HIDE DEF width, height
  <2>2. /\ y * width + x \in 0 .. width * height - 1
        /\ ((y * width + x) % width) = x
        /\ (y * width + x) \div width = y
    BY <2>1, RowsAndColumns
  <2> QED
    BY <2>2, Zenon
<1>3. convert(frame, layout)[plane] = differences(frame, layout, plane)
  BY DEF convert, Differences
<1>4. planeValue(convert(frame, layout), frame, layout, plane, x, y)
        = differences(frame, layout, plane)[index]
  BY <1>3 DEF planeValue
<1>5. differences(frame, layout, plane)
        = [k \in 0 .. width * height - 1 |->
             averageBlock(frame, layout, columnsPerSample(layout) * (k % width),
                          2 * (k \div width), plane)]
  BY <1>1 DEF differences
<1> HIDE DEF width, height, index
<1>6. differences(frame, layout, plane)[index]
        = averageBlock(frame, layout, columnsPerSample(layout) * x, 2 * y, plane)
  BY <1>2, <1>5
<1> QED
  BY <1>4, <1>6, BlockAverageIs

-----------------------------------------------------------------------------
PictureInv ==
  picture # NoPicture =>
    /\ picture.layout \in {"4:2:0", "4:4:0"} /\ picture.frame \in SampleFrames
    /\ hasEvenSize(picture.layout, picture.frame.width, picture.frame.height)
    /\ picture.planes = convert(picture.frame, picture.layout)

(* The invariant says what ColoursAreLegal does.                              *)
LEMMA PicturesAreLegal == ASSUME PictureInv PROVE ColoursAreLegal
<1> SUFFICES ASSUME picture # NoPicture PROVE ColoursAreLegal
  BY DEF ColoursAreLegal
<1> DEFINE frame == picture.frame
           layout == picture.layout
           planes == picture.planes
           width == planeWidth(frame, layout, "redDifference")
           height == frame.height \div 2
           strays(block) == {p \in block : ~isGrey(p)}
<1>1. /\ layout \in {"4:2:0", "4:4:0"} /\ isFrame(frame)
      /\ hasEvenSize(layout, frame.width, frame.height)
      /\ planes = convert(frame, layout)
  BY EncodingAssumption DEF PictureInv
<1>2. /\ DOMAIN planes.luma = 0 .. frame.width * frame.height - 1
      /\ \A i \in DOMAIN planes.luma : planes.luma[i] \in 16 .. 235
  <2>1. frame.pixels \in [0 .. frame.width * frame.height - 1 -> Pixels]
    BY <1>1 DEF isFrame
  <2>2. planes.luma = [index \in DOMAIN frame.pixels |-> convertLuma(frame.pixels[index])]
    BY <1>1 DEF convert
  <2>3. DOMAIN frame.pixels = 0 .. frame.width * frame.height - 1
        /\ \A i \in DOMAIN frame.pixels : frame.pixels[i] \in Pixels
    BY <2>1, Zenon
  <2> DEFINE pixels == frame.pixels
             luma == planes.luma
  <2>4. luma = [index \in DOMAIN pixels |-> convertLuma(pixels[index])]
    BY <2>2
  <2>5. /\ DOMAIN pixels = 0 .. frame.width * frame.height - 1
        /\ \A i \in DOMAIN pixels : pixels[i] \in Pixels
    BY <2>3, SMTT(30)
  <2> HIDE DEF pixels, luma
  <2>6. DOMAIN luma = DOMAIN pixels /\ \A i \in DOMAIN luma : luma[i] \in 16 .. 235
    BY <2>4, <2>5, LumaIs
  <2>7. DOMAIN luma = 0 .. frame.width * frame.height - 1
    BY <2>5, <2>6, Zenon
  <2> QED
    BY <2>6, <2>7, Zenon DEF luma
<1>3. ASSUME NEW x \in 0 .. width - 1, NEW y \in 0 .. height - 1
      PROVE  LET block == blockOf(frame, layout, x, y)
                 cr == planeValue(planes, frame, layout, "redDifference", x, y)
                 cb == planeValue(planes, frame, layout, "blueDifference", x, y)
             IN /\ cr \in 16 .. 240 /\ cb \in 16 .. 240
                /\ strays(block) = {} => cr = 128 /\ cb = 128
                /\ strays(block) \in {{<<255, 0, 0>>}, {<<0, 255, 0>>}, {<<0, 0, 255>>}} =>
                     /\ cr > 128 <=> strays(block) = {<<255, 0, 0>>}
                     /\ cb > 128 <=> strays(block) = {<<0, 0, 255>>}
  <2> DEFINE block == blockOf(frame, layout, x, y)
             cr == planeValue(planes, frame, layout, "redDifference", x, y)
             cb == planeValue(planes, frame, layout, "blueDifference", x, y)
  <2>1. width = planeWidth(frame, layout, "blueDifference")
    BY DEF planeWidth
  <2> HIDE DEF frame, layout, planes
  <2>2. isAverageOf(block, "redDifference", cr)
    BY <1>1, PlaneIs DEF Differences
  <2>3. isAverageOf(block, "blueDifference", cb)
    BY <1>1, <2>1, PlaneIs DEF Differences
  <2> HIDE DEF block, cr, cb
  <2>4. /\ cr \in 16 .. 240 /\ cb \in 16 .. 240
        /\ strays(block) = {} => cr = 128 /\ cb = 128
        /\ \A colour \in Pure :
             strays(block) = {colour} => /\ cr > 128 <=> colour = <<255, 0, 0>>
                                         /\ cb > 128 <=> colour = <<0, 0, 255>>
    BY <2>2, <2>3 DEF isAverageOf, own
  <2>5. strays(block) \in {{<<255, 0, 0>>}, {<<0, 255, 0>>}, {<<0, 0, 255>>}} =>
          /\ cr > 128 <=> strays(block) = {<<255, 0, 0>>}
          /\ cb > 128 <=> strays(block) = {<<0, 0, 255>>}
    <3> SUFFICES ASSUME NEW colour \in Pure, strays(block) = {colour}
                 PROVE  /\ cr > 128 <=> strays(block) = {<<255, 0, 0>>}
                        /\ cb > 128 <=> strays(block) = {<<0, 0, 255>>}
      BY DEF Pure
    <3>1. \A other : {colour} = {other} <=> colour = other
      OBVIOUS
    <3> HIDE DEF strays
    <3> QED
      BY <2>4, <3>1
  <2> QED
    BY <2>4, <2>5 DEF block, cr, cb
<1> HIDE DEF frame, planes
<1> QED
  BY <1>2, <1>3, ZenonT(30) DEF ColoursAreLegal, frame, planes

(* Each step of the encoder keeps the invariant of the picture.               *)
LEMMA PictureKeeps ==
  ASSUME PictureInv, OfEncoder, tx.place = "convert" => modes[tx.mode].layout # "rgb",
         tx.place = "convert" => tx.mode \in DOMAIN modes
  PROVE  PictureInv'
<1>1. CASE UNCHANGED picture
  BY <1>1 DEF PictureInv
<1>2. CASE picture' = NoPicture
  BY <1>2 DEF PictureInv
<1>3. CASE ConvertFrame
  <2>1. modes[tx.mode].layout \in {"4:2:0", "4:4:0"}
    BY <1>3 DEF ConvertFrame, modes, Mode
  <2>2. PICK frame \in SampleFrames :
          /\ hasEvenSize(modes[tx.mode].layout, frame.width, frame.height)
          /\ picture' = [layout |-> modes[tx.mode].layout, frame |-> frame,
                         planes |-> convert(frame, modes[tx.mode].layout)]
    BY <1>3 DEF ConvertFrame
  <2> QED
    BY <2>1, <2>2 DEF PictureInv
<1> QED
  BY <1>1, <1>2, <1>3
     DEF OfEncoder, BeginEncoding, Encode, EncodeHeader, EncodeSegment, AppendFskSuffix

-----------------------------------------------------------------------------
(* WAV files: extremes, counts and samples.                                     *)

(* A set of integers that is not empty and has a bound has an extreme element.  *)
LEMMA LeastIs ==
  ASSUME NEW S \in SUBSET Int, S # {}, NEW b \in Int, \A s \in S : b <= s
  PROVE  Min(S) \in S /\ \A s \in S : Min(S) <= s
<1> DEFINE absent == {n \in Nat : b + n \notin S}
<1> SUFFICES ASSUME \A x \in S : \E y \in S : y < x
             PROVE  FALSE
  <2>1. (\E x \in S : \A y \in S : x <= y) => Min(S) \in S /\ \A s \in S : Min(S) <= s
    BY Zenon DEF Min
  <2>2. \A x, y \in S : x <= y \/ y < x
    OBVIOUS
  <2> QED
    BY <2>1, <2>2
<1>1. ASSUME NEW n \in Nat, \A m \in 0 .. n - 1 : m \in absent
      PROVE  n \in absent
  <2> SUFFICES ASSUME b + n \in S PROVE FALSE
    OBVIOUS
  <2>1. PICK y \in S : y < b + n
    OBVIOUS
  <2>2. y - b \in 0 .. n - 1 /\ b + (y - b) = y
    BY <2>1
  <2> QED
    BY <2>1, <2>2, <1>1
<1>2. \A n \in Nat : n \in absent
  <2> HIDE DEF absent
  <2> QED
    BY <1>1, InductiveSet
<1>3. PICK s \in S : TRUE
  OBVIOUS
<1>4. s - b \in Nat /\ b + (s - b) = s
  BY <1>3
<1> QED
  BY <1>2, <1>3, <1>4

(* Likewise for the largest.                                                  *)
LEMMA GreatestIs ==
  ASSUME NEW S \in SUBSET Int, S # {}, NEW b \in Int, \A s \in S : s <= b
  PROVE  Max(S) \in S /\ \A s \in S : s <= Max(S)
<1> DEFINE absent == {n \in Nat : b - n \notin S}
<1> SUFFICES ASSUME \A x \in S : \E y \in S : x < y
             PROVE  FALSE
  <2>1. (\E x \in S : \A y \in S : x >= y) => Max(S) \in S /\ \A s \in S : Max(S) >= s
    BY Zenon DEF Max
  <2>2. \A x, y \in S : (x >= y \/ x < y) /\ (x >= y <=> y <= x)
    OBVIOUS
  <2> QED
    BY <2>1, <2>2
<1>1. ASSUME NEW n \in Nat, \A m \in 0 .. n - 1 : m \in absent
      PROVE  n \in absent
  <2> SUFFICES ASSUME b - n \in S PROVE FALSE
    OBVIOUS
  <2>1. PICK y \in S : b - n < y
    OBVIOUS
  <2>2. b - y \in 0 .. n - 1 /\ b - (b - y) = y
    BY <2>1
  <2> QED
    BY <2>1, <2>2, <1>1
<1>2. \A n \in Nat : n \in absent
  <2> HIDE DEF absent
  <2> QED
    BY <1>1, InductiveSet
<1>3. PICK s \in S : TRUE
  OBVIOUS
<1>4. b - s \in Nat /\ b - (b - s) = s
  BY <1>3
<1> QED
  BY <1>2, <1>3, <1>4

(* Occurrences in a sequence can be counted.                                  *)
LEMMA Counted ==
  ASSUME NEW samples \in Seq(Int), NEW values
  PROVE  LET found == {k \in DOMAIN samples : samples[k] \in values} IN
           IsFiniteSet(found) /\ Cardinality(found) \in Nat
<1> DEFINE found == {k \in DOMAIN samples : samples[k] \in values}
<1>1. DOMAIN samples = 1 .. Len(samples) /\ Len(samples) \in Int /\ 1 \in Int
  OBVIOUS
<1>2. IsFiniteSet(1 .. Len(samples))
  BY <1>1, FS_Interval
<1>3. found \in SUBSET (1 .. Len(samples))
  BY <1>1
<1> HIDE DEF found
<1>4. IsFiniteSet(found)
  BY <1>2, <1>3, FS_Subset
<1>5. Cardinality(found) \in Nat
  BY <1>4, FS_CardinalityType
<1> QED
  BY <1>4, <1>5 DEF found

(* What is counted in two sequences is counted in the one they make.            *)
LEMMA OccurrencesAdd ==
  ASSUME NEW first \in Seq(Int), NEW second \in Seq(Int), NEW value
  PROVE  occurrences(first \o second, value)
           = occurrences(first, value) + occurrences(second, value)
<1> DEFINE both == first \o second
           n == Len(first)
           m == Len(second)
           A == {k \in DOMAIN first : first[k] = value}
           B == {k \in DOMAIN second : second[k] = value}
           C == {k \in n + 1 .. n + m : second[k - n] = value}
           shift == [k \in B |-> k + n]
<1>1. /\ n \in Nat /\ m \in Nat /\ DOMAIN first = 1 .. n /\ DOMAIN second = 1 .. m
      /\ DOMAIN both = 1 .. n + m
      /\ \A k \in 1 .. n + m : both[k] = IF k <= n THEN first[k] ELSE second[k - n]
  OBVIOUS
<1> HIDE DEF n, m, both
<1>2. {k \in DOMAIN both : both[k] = value} = A \cup C
  BY <1>1
<1>3. A \cap C = {}
  BY <1>1
<1>4. shift \in Bijection(B, C)
  <2>1. shift \in [B -> C]
    BY <1>1
  <2>2. \A a, b \in B : shift[a] = shift[b] => a = b
    BY <1>1
  <2>3. \A c \in C : \E b \in B : shift[b] = c
    <3> TAKE c \in C
    <3>1. c - n \in B /\ shift[c - n] = c
      BY <1>1
    <3> QED
      BY <3>1
  <2> HIDE DEF shift, B, C
  <2> QED
    BY <2>1, <2>2, <2>3, Fun_IsBij
<1>5. IsFiniteSet(A) /\ IsFiniteSet(B) /\ Cardinality(A) \in Nat /\ Cardinality(B) \in Nat
  <2>1. /\ A = {k \in DOMAIN first : first[k] \in {value}}
        /\ B = {k \in DOMAIN second : second[k] \in {value}}
    OBVIOUS
  <2> HIDE DEF A, B
  <2> QED
    BY <2>1, Counted
<1>6. /\ occurrences(both, value) = Cardinality(A \cup C)
      /\ occurrences(first, value) = Cardinality(A)
      /\ occurrences(second, value) = Cardinality(B)
  BY <1>2 DEF occurrences
<1> HIDE DEF A, B, C, shift
<1>7. IsFiniteSet(C) /\ Cardinality(C) = Cardinality(B)
  BY <1>4, <1>5, FS_Bijection, Fun_ExistsBij
<1>8. Cardinality(A \cup C) = Cardinality(A) + Cardinality(C) - Cardinality(A \cap C)
  BY <1>5, <1>7, FS_Union
<1>9. Cardinality(A \cap C) = 0
  BY <1>3, FS_EmptySet
<1> QED
  BY <1>5, <1>6, <1>7, <1>8, <1>9 DEF both

(* A level that does not reach full scale is rounded to a sample within it.      *)
LEMMA RoundedIs ==
  ASSUME NEW numerator \in Nat, NEW denominator \in Positive, numerator < denominator,
         NEW scale \in Nat
  PROVE  LET share == (2 * (numerator * scale) + denominator) \div (2 * denominator) IN
           share \in Nat /\ share <= scale
<1> DEFINE product == numerator * scale
           most == denominator * scale
           share == (2 * product + denominator) \div (2 * denominator)
<1>1. product \in Nat /\ most \in Nat /\ product <= most
  BY Grow DEF Positive
<1>2. most = scale * denominator
  BY DEF Positive
<1> HIDE DEF product, most
<1>3. 2 * product + denominator \in Nat /\ 2 * denominator \in Positive
  BY <1>1 DEF Positive
<1> HIDE DEF share
<1>4. /\ share \in Nat
      /\ share * (2 * denominator) <= 2 * product + denominator
  BY <1>3, Quotient DEF share
<1>5. scale * (2 * denominator) = 2 * most
  BY <1>2 DEF Positive
<1>6. share * (2 * denominator) < scale * (2 * denominator) + 2 * denominator
  BY <1>1, <1>3, <1>4, <1>5 DEF Positive
<1>7. share <= scale
  BY <1>3, <1>4, <1>6, Cancel
<1> QED
  BY <1>4, <1>7 DEF share, product

(* An interval, for the prover a definition to be kept closed.                *)
LEMMA RangeIs ==
  ASSUME NEW a \in Int, NEW b \in Int
  PROVE  \A k : k \in a .. b <=> k \in Int /\ a <= k /\ k <= b
OBVIOUS

(* Likewise the samples of 16 bits.                                           *)
LEMMA PcmSampleIs == \A k : k \in PcmSamples <=> k \in Int /\ -32768 <= k /\ k <= 32767
<1> DEFINE low == -32768
           high == 32767
<1>1. low \in Int /\ high \in Int
  OBVIOUS
<1>2. PcmSamples = low .. high
  BY DEF PcmSamples
<1> HIDE DEF low, high
<1>3. \A k : k \in PcmSamples <=> k \in Int /\ low <= k /\ k <= high
  BY <1>1, <1>2, RangeIs
<1> QED
  BY <1>3 DEF low, high

(* Rounding to the nearest, away from zero.                                   *)
LEMMA RoundedOf ==
  ASSUME NEW n \in Int, NEW d \in Positive
  PROVE  rounded(n, d) = IF n >= 0 THEN (2 * n + d) \div (2 * d)
                         ELSE -((2 * (-n) + d) \div (2 * d))
BY DEF rounded

(* Whatever its level, a sample is one of 16 bits.                            *)
LEMMA SampleIs ==
  ASSUME NEW n \in Int, NEW d \in Positive
  PROVE  floatToPcm16(<<n, d>>) \in PcmSamples
<1>1. CASE n <= -d
  <2>1. floatToPcm16(<<n, d>>) = -32768
    BY <1>1 DEF floatToPcm16, Positive
  <2> QED
    BY <2>1, PcmSampleIs
<1>2. CASE ~(n <= -d) /\ n >= d
  <2>1. floatToPcm16(<<n, d>>) = 32767
    BY <1>2 DEF floatToPcm16, Positive
  <2> QED
    BY <2>1, PcmSampleIs
<1>3. ASSUME ~(n <= -d), ~(n >= d), n >= 0
      PROVE  floatToPcm16(<<n, d>>) \in PcmSamples
  <2> DEFINE scale == 32767
             share == (2 * (n * scale) + d) \div (2 * d)
  <2>1. floatToPcm16(<<n, d>>) = rounded(n * scale, d)
    BY <1>3 DEF floatToPcm16
  <2>2. n * scale \in Int /\ n * scale >= 0 /\ n \in Nat /\ n < d /\ scale \in Nat
    BY <1>3 DEF Positive
  <2>3. \A k \in Nat : k <= scale => k \in PcmSamples
    BY PcmSampleIs
  <2> HIDE DEF scale
  <2>4. rounded(n * scale, d) = share
    BY <2>2, RoundedOf
  <2>5. share \in Nat /\ share <= scale
    BY <2>2, RoundedIs, Zenon
  <2> HIDE DEF share
  <2> QED
    BY <2>1, <2>3, <2>4, <2>5
<1>4. ASSUME ~(n <= -d), ~(n >= d), n < 0
      PROVE  floatToPcm16(<<n, d>>) \in PcmSamples
  <2> DEFINE depth == -n
             scale == 32768
             share == (2 * (depth * scale) + d) \div (2 * d)
  <2>1. floatToPcm16(<<n, d>>) = rounded(n * scale, d)
    BY <1>4 DEF floatToPcm16
  <2>2. /\ n * scale \in Int /\ ~(n * scale >= 0) /\ -(n * scale) = depth * scale
        /\ depth \in Nat /\ depth < d /\ scale \in Nat
    BY <1>4 DEF Positive
  <2>3. \A k \in Nat : k <= scale => -k \in PcmSamples
    BY PcmSampleIs
  <2> HIDE DEF depth, scale
  <2>4. rounded(n * scale, d) = -share
    BY <2>2, RoundedOf
  <2>5. share \in Nat /\ share <= scale
    BY <2>2, RoundedIs, Zenon
  <2> HIDE DEF share
  <2> QED
    BY <2>1, <2>3, <2>4, <2>5
<1> QED
  BY <1>1, <1>2, <1>3, <1>4 DEF Positive

(* Likewise for a level that is a pair.                                       *)
LEMMA SamplesAre ==
  ASSUME NEW level \in Int \X (Nat \ {0})
  PROVE  floatToPcm16(level) \in PcmSamples
<1>1. level[1] \in Int /\ level[2] \in Positive /\ level = <<level[1], level[2]>>
  BY DEF Positive
<1> QED
  BY <1>1, SampleIs

(* A file that was written here, and what is remembered of it.                 *)
isOwnFile(file, metadata) ==
  /\ metadata.sampleRate \in supportedRates /\ metadata.frameCount \in Positive
  /\ metadata = [sampleRate |-> metadata.sampleRate, frameCount |-> metadata.frameCount]
  /\ file.samples \in Seq(PcmSamples) /\ Len(file.samples) = metadata.frameCount
  /\ file.size = headerBytes + 2 * metadata.frameCount
  /\ file.size <= InspectLimits.maximumInputBytes
  /\ file.header = wavHeader(metadata.sampleRate, 2 * metadata.frameCount)

isFile(file, metadata) ==
  /\ file.size \in Nat
  /\ metadata # NoMetadata => isOwnFile(file, metadata)

isWriting ==
  /\ wav.place = "write" /\ DOMAIN wav = {"place", "renderer", "samples", "header"}
  /\ isRenderer(wav.renderer) /\ wav.renderer.rate \in supportedRates
  /\ frameCount(wav.renderer) > 0
  /\ wav.samples \in Seq(PcmSamples) /\ Len(wav.samples) = wav.renderer.frame
  /\ wav.header = wavHeader(wav.renderer.rate, 2 * frameCount(wav.renderer))
  /\ headerBytes + 2 * frameCount(wav.renderer) <= InspectLimits.maximumInputBytes

ChunkHeaders ==
  [tag : {"fmt ", "data", "LIST"}, offset : Nat, size : Nat, isPadded : BOOLEAN]

endOf(chunks) == IF chunks = <<>> THEN riffHeaderBytes ELSE nextOffset(chunks[Len(chunks)])

(* Each chunk begins, at an even offset, where the one before it ends.          *)
isChain(chunks) ==
  /\ chunks \in Seq(ChunkHeaders)
  /\ \A i \in DOMAIN chunks :
       /\ chunks[i].offset % 2 = 0
       /\ chunks[i].offset = IF i = 1 THEN riffHeaderBytes ELSE nextOffset(chunks[i - 1])

(* What is kept of the format and the data is of the one chunk that has it.     *)
isFound(chunks, format, body) ==
  /\ \/ format = <<>> /\ withTag(chunks, "fmt ") = {}
     \/ format \in WavFormats /\ \E i \in DOMAIN chunks : withTag(chunks, "fmt ") = {i}
  /\ \/ body = <<>> /\ withTag(chunks, "data") = {}
     \/ \E i \in DOMAIN chunks : body = chunks[i] /\ withTag(chunks, "data") = {i}

ownFormat == Chunk("fmt ", riffHeaderBytes, fmtBytes, TRUE)
ownData(frames) == Chunk("data", 36, 2 * frames, TRUE)

(* How far the inspection of an own file can be.                               *)
isOwnSoFar(chunks, format, body, metadata) ==
  \/ chunks = <<>> /\ format = <<>> /\ body = <<>>
  \/ chunks = <<ownFormat>> /\ format = pcmFormat(metadata.sampleRate) /\ body = <<>>
  \/ /\ chunks = <<ownFormat, ownData(metadata.frameCount)>>
     /\ format = pcmFormat(metadata.sampleRate) /\ body = ownData(metadata.frameCount)

isChunking ==
  /\ wav.place = "chunks"
  /\ DOMAIN wav = {"place", "file", "metadata", "offset", "format", "data", "chunks"}
  /\ isFile(wav.file, wav.metadata)
  /\ isChain(wav.chunks) /\ wav.offset = endOf(wav.chunks) /\ wav.offset <= wav.file.size
  /\ isFound(wav.chunks, wav.format, wav.data)
  /\ isOwn => isOwnSoFar(wav.chunks, wav.format, wav.data, wav.metadata)

(* The extremes of a set of samples, and what they begin with.                   *)
isLeast(least, values) ==
  IF values = {} THEN least = 32767
  ELSE least \in values /\ \A value \in values : least <= value
isGreatest(greatest, values) ==
  IF values = {} THEN greatest = -32768
  ELSE greatest \in values /\ \A value \in values : value <= greatest
isPeak(peak, values) ==
  IF values = {} THEN peak = 0
  ELSE /\ \E value \in values : peak = magnitude(value)
       /\ \A value \in values : magnitude(value) <= peak

(* The statistics of the samples that were read.                               *)
isCounted(read, inspection) ==
  /\ inspection.clippedPositive = occurrences(read, 32767)
  /\ inspection.clippedNegative = occurrences(read, -32768)
  /\ isLeast(inspection.minimum, samplesOf(read))
  /\ isGreatest(inspection.maximum, samplesOf(read))
  /\ isPeak(inspection.peak, samplesOf(read))

isAnalysed ==
  /\ wav.place \in {"analyse", "accepted"}
  /\ DOMAIN wav = {"place", "file", "metadata", "format", "data", "chunks", "remaining", "read",
                   "minimum", "maximum", "peak", "clippedPositive", "clippedNegative"}
  /\ isFile(wav.file, wav.metadata)
  /\ isTiled(wav.chunks, wav.file.size)
  /\ Cardinality(withTag(wav.chunks, "fmt ")) = 1
  /\ Cardinality(withTag(wav.chunks, "data")) = 1
  /\ wav.format.blockAlignment = 2
  /\ wav.data.size \in Nat /\ wav.data.size > 0 /\ wav.data.size % 2 = 0
  /\ wav.read \in Seq(PcmSamples) /\ wav.remaining \in Nat
  /\ wav.remaining + 2 * Len(wav.read) = wav.data.size
  /\ wav.place = "accepted" => wav.remaining = 0
  /\ isCounted(wav.read, wav)
  /\ isOwn => /\ wav.format.sampleRate = wav.metadata.sampleRate
              /\ wav.data.size = 2 * wav.metadata.frameCount
              /\ wav.read = SubSeq(wav.file.samples, 1, Len(wav.read))

WavInv ==
  \/ wav = NoWav \/ wav = RefusedWav(NoMetadata)
  \/ isWriting
  \/ wav.place = "riff" /\ isFile(wav.file, wav.metadata)
  \/ isChunking
  \/ isAnalysed

(* A file is begun for tones that can be rendered; the inspector will read it.   *)
LEMMA BeginWavKeeps ==
  ASSUME NEW events \in Melodies, NEW sampleRate \in SampleRates, BeginWav(events, sampleRate)
  PROVE  WavInv'
<1> DEFINE renderer == ToneRenderer(events, sampleRate)
           new == [place |-> "write", renderer |-> renderer, samples |-> <<>>,
                   header |-> wavHeader(sampleRate, 2 * frameCount(renderer))]
<1>1. CASE wav' = RefusedWav(NoMetadata)
  BY <1>1 DEF WavInv
<1>2. ASSUME isSupportedSampleRate(sampleRate), canRender(events, sampleRate), wav' = new
      PROVE  isWriting'
  <2>1. sampleRate \in supportedRates /\ sampleRate \in Positive
    BY <1>2, SupportedRates DEF isSupportedSampleRate
  <2>2. events \in Seq(ToneEvents) /\ events # <<>>
    BY MelodiesAre
  <2>3. isRenderer(renderer) /\ renderer.frame = 0
    BY <2>1, <2>2, RendererStarts
  <2>4. renderer.rate = sampleRate /\ renderer.ends = [i \in DOMAIN events |-> endFrame(events, sampleRate, i)]
    BY DEF ToneRenderer
  <2>5. frameCount(renderer) > 0
    <3>1. Len(events) \in DOMAIN events /\ DOMAIN events = 1 .. Len(events)
      BY <2>2
    <3>2. Len(renderer.ends) = Len(events)
      BY <2>4, <3>1
    <3>3. frameCount(renderer) = endFrame(events, sampleRate, Len(events))
      BY <2>4, <3>1, <3>2 DEF frameCount
    <3> QED
      BY <1>2, <3>3 DEF canRender
  <2>6. headerBytes + 2 * frameCount(renderer) <= InspectLimits.maximumInputBytes
    BY <1>2, OwnFilesFit
  <2> HIDE DEF renderer
  <2>7. /\ wav'.place = "write" /\ DOMAIN wav' = {"place", "renderer", "samples", "header"}
        /\ wav'.renderer = renderer /\ wav'.samples = <<>>
        /\ wav'.header = wavHeader(sampleRate, 2 * frameCount(renderer))
    BY <1>2
  <2> QED
    BY <2>1, <2>3, <2>4, <2>5, <2>6, <2>7 DEF isWriting
<1> QED
  BY <1>1, <1>2 DEF BeginWav, WavInv

(* A block of samples goes on where the one before it stopped.                *)
LEMMA WriteBlockKeeps == ASSUME isWriting, WriteBlock PROVE isWriting'
<1>1. PICK levels \in [1 .. Len(rendered(wav.renderer, BlockFrames)) -> Levels] :
        wav' = [wav EXCEPT
          !.samples = @ \o [k \in DOMAIN levels |-> floatToPcm16(levels[k])],
          !.renderer = afterRender(wav.renderer, BlockFrames)]
  BY DEF WriteBlock
<1> DEFINE r == wav.renderer
           samples == rendered(r, BlockFrames)
           after == afterRender(r, BlockFrames)
           block == [k \in DOMAIN levels |-> floatToPcm16(levels[k])]
<1>2. BlockFrames \in Positive /\ Levels \subseteq Int \X (Nat \ {0})
  BY WavAssumption DEF Positive
<1>3. /\ samples \in Seq(1 .. Len(r.events))
      /\ isRenderer(after) /\ after.frame = r.frame + Len(samples)
      /\ after.rate = r.rate /\ after.ends = r.ends
  BY <1>2, Renders DEF isWriting
<1>4. /\ wav'.place = "write" /\ DOMAIN wav' = {"place", "renderer", "samples", "header"}
      /\ wav'.renderer = after /\ wav'.samples = wav.samples \o block /\ wav'.header = wav.header
  BY <1>1 DEF isWriting
<1>5. frameCount(after) = frameCount(r)
  BY <1>3 DEF frameCount
<1> HIDE DEF after, samples
<1>6. block \in Seq(PcmSamples) /\ Len(block) = Len(samples)
  <2>1. DOMAIN levels = 1 .. Len(samples) /\ Len(samples) \in Nat
    BY <1>3 DEF samples
  <2>2. \A k \in DOMAIN levels : floatToPcm16(levels[k]) \in PcmSamples
    BY <1>2, SamplesAre DEF samples
  <2> QED
    BY <2>1, <2>2
<1> HIDE DEF block
<1>7. wav.samples \o block \in Seq(PcmSamples) /\ Len(wav.samples \o block) = after.frame
  <2>1. wav.samples \in Seq(PcmSamples) /\ Len(wav.samples) = r.frame
    BY DEF isWriting
  <2>2. /\ wav.samples \o block \in Seq(PcmSamples)
        /\ Len(wav.samples \o block) = Len(wav.samples) + Len(block)
    BY <1>6, <2>1, ConcatProperties
  <2> QED
    BY <1>3, <1>6, <2>1, <2>2
<1> QED
  BY <1>3, <1>4, <1>5, <1>7, SMTT(30) DEF isWriting

(* A file that is finished is as long as its header says.                     *)
LEMMA FinishWavKeeps == ASSUME isWriting, FinishWav PROVE WavInv'
<1> DEFINE file == ownFile
           metadata == [sampleRate |-> wav.renderer.rate, frameCount |-> frameCount(wav.renderer)]
<1>1. wav'.place = "riff" /\ wav'.file = file /\ wav'.metadata = metadata
  BY DEF FinishWav
<1>2. frameCount(wav.renderer) \in Positive /\ wav.renderer.frame = frameCount(wav.renderer)
  <2>1. frameCount(wav.renderer) \in Nat /\ wav.renderer.frame \in Nat
    BY RendererEnds DEF isWriting
  <2> QED
    BY <2>1 DEF isWriting, isRenderer, FinishWav, finished, Positive
<1>3. /\ file.size = headerBytes + 2 * frameCount(wav.renderer)
      /\ file.header = wav.header /\ file.samples = wav.samples
      /\ metadata.sampleRate = wav.renderer.rate
      /\ metadata.frameCount = frameCount(wav.renderer)
  BY <1>2 DEF ownFile, isWriting
<1>4. isOwnFile(file, metadata)
  BY <1>2, <1>3 DEF isOwnFile, isWriting
<1>5. file.size \in Nat
  BY <1>2, <1>3 DEF headerBytes, Positive
<1> HIDE DEF file, metadata
<1> QED
  BY <1>1, <1>4, <1>5 DEF WavInv, isFile

(* Metadata is remembered of own files only.                                  *)
LEMMA MetadataIs == \A file, metadata : isFile(file, metadata) /\ metadata # NoMetadata =>
  /\ isOwnFile(file, metadata)
  /\ metadata.frameCount \in Positive /\ metadata.sampleRate \in supportedRates
BY DEF isFile, isOwnFile

(* The inspection begins after the RIFF header; an own one is not refused.    *)
LEMMA ReadRiffKeeps ==
  ASSUME wav.place = "riff", isFile(wav.file, wav.metadata), ReadRiff
  PROVE  WavInv'
<1> DEFINE size == wav.file.size
           new == [place |-> "chunks", file |-> wav.file, metadata |-> wav.metadata,
                   offset |-> riffHeaderBytes, format |-> <<>>, data |-> <<>>, chunks |-> <<>>]
<1>1. ASSUME isOwn
      PROVE  ~(\/ size > InspectLimits.maximumInputBytes \/ size < riffHeaderBytes
               \/ wav.file.header.declared + 8 # size)
  <2>1. isOwnFile(wav.file, wav.metadata) /\ wav.metadata.frameCount \in Positive
    BY <1>1, MetadataIs DEF isOwn
  <2>2. /\ size = 44 + 2 * wav.metadata.frameCount /\ size <= InspectLimits.maximumInputBytes
        /\ wav.file.header.declared = 36 + 2 * wav.metadata.frameCount
    BY <2>1 DEF isOwnFile, wavHeader, headerBytes
  <2>3. InspectLimits.maximumInputBytes \in Nat
    BY WavAssumption
  <2> QED
    BY <2>1, <2>2, <2>3 DEF riffHeaderBytes, Positive
<1>2. CASE ~isOwn /\ Refuse
  BY <1>2 DEF Refuse, isOwn, WavInv
<1>3. ASSUME NEW declared \in IF isOwn THEN {wav.file.header.declared} ELSE {size - 8},
             \/ size > InspectLimits.maximumInputBytes \/ size < riffHeaderBytes
             \/ declared + 8 # size,
             Refuse
      PROVE  WavInv'
  BY <1>1, <1>3 DEF Refuse, isOwn, WavInv
<1>4. ASSUME size >= riffHeaderBytes, wav' = new
      PROVE  isChunking'
  <2>1. /\ wav'.place = "chunks"
        /\ DOMAIN wav' = {"place", "file", "metadata", "offset", "format", "data", "chunks"}
        /\ wav'.file = wav.file /\ wav'.metadata = wav.metadata /\ wav'.offset = riffHeaderBytes
        /\ wav'.format = <<>> /\ wav'.data = <<>> /\ wav'.chunks = <<>>
    BY <1>4
  <2>2. isChain(<<>>) /\ endOf(<<>>) = riffHeaderBytes
    BY DEF isChain, endOf
  <2>3. isFound(<<>>, <<>>, <<>>)
    BY DEF isFound, withTag
  <2>4. riffHeaderBytes <= size
    BY <1>4 DEF isFile, riffHeaderBytes
  <2> QED
    BY <2>1, <2>2, <2>3, <2>4 DEF isChunking, isOwnSoFar
<1>5. size \in Nat /\ riffHeaderBytes \in Nat
  BY DEF isFile, riffHeaderBytes
<1> HIDE DEF size, new
<1>6. size < riffHeaderBytes \/ size >= riffHeaderBytes
  BY <1>5
<1> QED
  BY <1>2, <1>3, <1>4, <1>6 DEF ReadRiff, WavInv, size, new

(* Nothing found is told apart from anything found.                           *)
LEMMA NoRecordIsEmpty ==
  /\ \A chunk \in ChunkHeaders : chunk # <<>>
  /\ \A format \in WavFormats : format # <<>>
<1>1. ASSUME NEW chunk \in ChunkHeaders PROVE chunk # <<>>
  <2>1. "tag" \in DOMAIN chunk
    BY DEF ChunkHeaders
  <2> QED
    BY <2>1
<1>2. ASSUME NEW format \in WavFormats PROVE format # <<>>
  <2>1. "channels" \in DOMAIN format
    BY DEF WavFormats
  <2> QED
    BY <2>1
<1> QED
  BY <1>1, <1>2

(* The next chunk begins where this one ends, after the byte that pads it.    *)
LEMMA NextIs ==
  ASSUME NEW chunk \in ChunkHeaders, chunk.offset % 2 = 0
  PROVE  LET end == chunk.offset + chunkHeaderBytes + chunk.size IN
         /\ nextOffset(chunk) \in Nat /\ nextOffset(chunk) % 2 = 0
         /\ end \in Nat /\ nextOffset(chunk) = end + (end % 2)
         /\ chunk.size % 2 = 0 => nextOffset(chunk) = end
<1>1. chunk.offset \in Nat /\ chunk.size \in Nat
  BY DEF ChunkHeaders
<1> QED
  BY <1>1 DEF nextOffset, nextUnpadded, chunkHeaderBytes

(* Where a chain ends is even.                                                *)
LEMMA EndIs ==
  ASSUME NEW chunks, isChain(chunks)
  PROVE  endOf(chunks) \in Nat /\ endOf(chunks) % 2 = 0
<1>1. chunks \in Seq(ChunkHeaders)
  BY DEF isChain
<1>2. CASE chunks = <<>>
  BY <1>2 DEF endOf, riffHeaderBytes
<1>3. CASE chunks # <<>>
  <2>1. Len(chunks) \in DOMAIN chunks
    BY <1>1, <1>3
  <2>2. chunks[Len(chunks)] \in ChunkHeaders /\ chunks[Len(chunks)].offset % 2 = 0
    BY <1>1, <2>1 DEF isChain
  <2>3. endOf(chunks) = nextOffset(chunks[Len(chunks)])
    BY <1>3 DEF endOf
  <2> QED
    BY <2>2, <2>3, NextIs
<1> QED
  BY <1>2, <1>3

(* A chain goes on with a chunk that begins where it ends.                      *)
LEMMA ChainGoesOn ==
  ASSUME NEW chunks, isChain(chunks), NEW chunk \in ChunkHeaders, chunk.offset = endOf(chunks)
  PROVE  /\ isChain(Append(chunks, chunk))
         /\ endOf(Append(chunks, chunk)) = nextOffset(chunk)
<1> DEFINE longer == Append(chunks, chunk)
           n == Len(chunks)
           follows(i) == /\ longer[i].offset % 2 = 0
                         /\ longer[i].offset = IF i = 1 THEN riffHeaderBytes
                                               ELSE nextOffset(longer[i - 1])
<1>1. chunks \in Seq(ChunkHeaders) /\ n \in Nat /\ DOMAIN chunks = 1 .. n
  BY DEF isChain
<1>2. /\ longer \in Seq(ChunkHeaders) /\ Len(longer) = n + 1 /\ DOMAIN longer = 1 .. n + 1
      /\ longer[n + 1] = chunk /\ \A i \in 1 .. n : longer[i] = chunks[i]
  BY <1>1
<1>3. longer # <<>>
  BY <1>1, <1>2
<1> HIDE DEF longer, n
<1>4. endOf(longer) = nextOffset(chunk)
  BY <1>2, <1>3 DEF endOf
<1>5. \A i \in 1 .. n : follows(i)
  <2> TAKE i \in 1 .. n
  <2>1. i # 1 => i - 1 \in 1 .. n
    BY <1>1
  <2>2. longer[i] = chunks[i] /\ (i # 1 => longer[i - 1] = chunks[i - 1])
    BY <1>2, <2>1
  <2> QED
    BY <1>1, <2>2 DEF isChain
<1>6. follows(n + 1)
  <2>1. longer[n + 1].offset = endOf(chunks) /\ endOf(chunks) % 2 = 0
    BY <1>2, EndIs
  <2>2. CASE chunks = <<>>
    <3>1. n = 0
      BY <2>2 DEF n
    <3> QED
      BY <2>1, <2>2, <3>1 DEF endOf
  <2>3. CASE chunks # <<>>
    <3>1. n \in 1 .. n /\ n + 1 - 1 = n /\ n + 1 # 1
      BY <1>1, <2>3 DEF n
    <3>2. longer[n] = chunks[n]
      BY <1>2, <3>1
    <3>3. endOf(chunks) = nextOffset(chunks[n])
      BY <2>3 DEF endOf, n
    <3> QED
      BY <2>1, <3>1, <3>2, <3>3
  <2> QED
    BY <2>2, <2>3
<1>7. \A i \in DOMAIN longer : i \in 1 .. n \/ i = n + 1
  BY <1>1, <1>2
<1>8. \A i \in DOMAIN longer : follows(i)
  <2> HIDE DEF follows
  <2> QED
    BY <1>5, <1>6, <1>7
<1>9. isChain(longer)
  BY <1>2, <1>8, Zenon DEF isChain
<1> QED
  BY <1>4, <1>9 DEF longer

(* A chunk put after the others leaves them where they are.                   *)
LEMMA Appended ==
  ASSUME NEW chunks \in Seq(ChunkHeaders), NEW chunk \in ChunkHeaders
  PROVE  LET longer == Append(chunks, chunk)
             n == Len(chunks)
         IN /\ n \in Nat /\ DOMAIN chunks = 1 .. n /\ DOMAIN longer = 1 .. n + 1
            /\ longer[n + 1] = chunk /\ \A i \in 1 .. n : longer[i] = chunks[i]
            /\ \A i \in DOMAIN chunks : chunks[i] \in ChunkHeaders
            /\ n + 1 \in DOMAIN longer /\ \A i \in DOMAIN chunks : i \in DOMAIN longer
<1> DEFINE longer == Append(chunks, chunk)
           n == Len(chunks)
<1>1. n \in Nat /\ DOMAIN chunks = 1 .. n /\ DOMAIN longer = 1 .. n + 1
  OBVIOUS
<1>2. longer[n + 1] = chunk /\ \A i \in 1 .. n : longer[i] = chunks[i]
  OBVIOUS
<1>3. \A i \in DOMAIN chunks : chunks[i] \in ChunkHeaders
  OBVIOUS
<1> HIDE DEF longer, n
<1>4. n + 1 \in DOMAIN longer /\ \A i \in DOMAIN chunks : i \in DOMAIN longer
  BY <1>1
<1> QED
  BY <1>1, <1>2, <1>3, <1>4 DEF longer, n

(* Which chunks have a tag, with one chunk more.                              *)
LEMMA TagsGoOn ==
  ASSUME NEW chunks \in Seq(ChunkHeaders), NEW chunk \in ChunkHeaders, NEW tag
  PROVE  /\ chunk.tag # tag => withTag(Append(chunks, chunk), tag) = withTag(chunks, tag)
         /\ chunk.tag = tag /\ withTag(chunks, tag) = {} =>
              withTag(Append(chunks, chunk), tag) = {Len(chunks) + 1}
<1> DEFINE longer == Append(chunks, chunk)
           n == Len(chunks)
<1>1. /\ n \in Nat /\ DOMAIN chunks = 1 .. n /\ DOMAIN longer = 1 .. n + 1
      /\ longer[n + 1] = chunk /\ \A i \in 1 .. n : longer[i] = chunks[i]
  OBVIOUS
<1> HIDE DEF longer, n
<1>2. withTag(chunks, tag) = {i \in 1 .. n : chunks[i].tag = tag}
  BY <1>1 DEF withTag
<1>3. withTag(longer, tag) = {i \in 1 .. n + 1 : longer[i].tag = tag}
  BY <1>1 DEF withTag
<1>4. chunk.tag # tag => withTag(longer, tag) = withTag(chunks, tag)
  BY <1>1, <1>2, <1>3
<1>5. chunk.tag = tag /\ withTag(chunks, tag) = {} => withTag(longer, tag) = {n + 1}
  BY <1>1, <1>2, <1>3
<1> QED
  BY <1>4, <1>5 DEF longer, n

(* What is kept of the format and the data, with one chunk more.              *)
LEMMA FoundGoesOn ==
  ASSUME NEW chunks \in Seq(ChunkHeaders), NEW format, NEW body, isFound(chunks, format, body),
         NEW chunk \in ChunkHeaders, NEW found,
         chunk.tag = "fmt " => format = <<>> /\ found \in WavFormats,
         chunk.tag = "data" => body = <<>>
  PROVE  isFound(Append(chunks, chunk), IF chunk.tag = "fmt " THEN found ELSE format,
                 IF chunk.tag = "data" THEN chunk ELSE body)
<1> DEFINE longer == Append(chunks, chunk)
           n == Len(chunks)
<1>1. /\ n \in Nat /\ DOMAIN chunks = 1 .. n /\ DOMAIN longer = 1 .. n + 1
      /\ longer[n + 1] = chunk /\ \A i \in 1 .. n : longer[i] = chunks[i]
      /\ \A i \in DOMAIN chunks : chunks[i] \in ChunkHeaders
  BY Appended
<1>2. n + 1 \in DOMAIN longer /\ \A i \in DOMAIN chunks : i \in DOMAIN longer
  BY Appended
<1>3. chunk.tag = "fmt " => withTag(chunks, "fmt ") = {}
  BY <1>1, NoRecordIsEmpty DEF isFound
<1>4. chunk.tag = "data" => withTag(chunks, "data") = {}
  BY <1>1, NoRecordIsEmpty DEF isFound
<1>5. /\ chunk.tag # "fmt " => withTag(longer, "fmt ") = withTag(chunks, "fmt ")
      /\ chunk.tag = "fmt " => withTag(longer, "fmt ") = {n + 1}
      /\ chunk.tag # "data" => withTag(longer, "data") = withTag(chunks, "data")
      /\ chunk.tag = "data" => withTag(longer, "data") = {n + 1}
  BY <1>3, <1>4, TagsGoOn, ZenonT(30)
<1> HIDE DEF longer, n
<1>6. LET now == IF chunk.tag = "fmt " THEN found ELSE format IN
        \/ now = <<>> /\ withTag(longer, "fmt ") = {}
        \/ now \in WavFormats /\ \E i \in DOMAIN longer : withTag(longer, "fmt ") = {i}
  BY <1>2, <1>5 DEF isFound
<1>7. LET now == IF chunk.tag = "data" THEN chunk ELSE body IN
        \/ now = <<>> /\ withTag(longer, "data") = {}
        \/ \E i \in DOMAIN longer : now = longer[i] /\ withTag(longer, "data") = {i}
  BY <1>1, <1>2, <1>5 DEF isFound
<1> QED
  BY <1>6, <1>7 DEF isFound, longer

(* Sequences of one and of two.                                               *)
LEMMA OneOrTwo ==
  ASSUME NEW x, NEW y
  PROVE  /\ Len(<<x>>) = 1 /\ <<x>>[1] = x /\ <<x>> # <<>>
         /\ Append(<<>>, x) = <<x>> /\ Append(<<x>>, y) = <<x, y>>
         /\ Len(<<x, y>>) = 2 /\ <<x, y>>[2] = y /\ <<x, y>> # <<>>
<1>1. Len(<<x>>) = 1 /\ <<x>>[1] = x
  OBVIOUS
<1>2. Len(<<x, y>>) = 2 /\ <<x, y>>[2] = y
  OBVIOUS
<1>3. <<x>> # <<>> /\ <<x, y>> # <<>>
  OBVIOUS
<1>4. Append(<<>>, x) = <<x>>
  OBVIOUS
<1>5. Append(<<x>>, y) = <<x, y>>
  <2> DEFINE S == {x, y}
  <2>1. <<x>> \in Seq(S) /\ <<x, y>> \in Seq(S) /\ y \in S
    OBVIOUS
  <2>2. Len(Append(<<x>>, y)) = 2 /\ Append(<<x>>, y) \in Seq(S)
    OBVIOUS
  <2>3. \A i \in 1 .. 2 : Append(<<x>>, y)[i] = <<x, y>>[i]
    OBVIOUS
  <2> QED
    BY <2>1, <2>2, <2>3, SeqEqual
<1> QED
  BY <1>1, <1>2, <1>3, <1>4, <1>5, Zenon

(* An own file is never refused at a chunk.                                    *)
LEMMA OwnChunkIs ==
  ASSUME isChunking, isOwn, wav.offset < wav.file.size
  PROVE  /\ Len(wav.chunks) < InspectLimits.maximumChunkCount
         /\ wav.file.size - wav.offset >= chunkHeaderBytes
         /\ wav.file.header.format = pcmFormat(wav.metadata.sampleRate)
         /\ \A chunk \in chunksAt(wav.offset) :
              /\ nextOffset(chunk) <= wav.file.size /\ chunk.size % 2 = 0 /\ ~isTaken(chunk)
              /\ isOwnSoFar(Append(wav.chunks, chunk),
                            IF chunk.tag = "fmt " THEN pcmFormat(wav.metadata.sampleRate)
                            ELSE wav.format,
                            IF chunk.tag = "data" THEN chunk ELSE wav.data, wav.metadata)
<1> DEFINE frames == wav.metadata.frameCount
           format == pcmFormat(wav.metadata.sampleRate)
<1>1. isOwnFile(wav.file, wav.metadata) /\ frames \in Nat /\ frames > 0
  BY MetadataIs DEF isChunking, isOwn, Positive
<1>2. /\ wav.file.size = 44 + 2 * frames
      /\ wav.file.header.format = format /\ wav.file.header.dataBytes = 2 * frames
  BY <1>1 DEF isOwnFile, wavHeader, headerBytes
<1>3. InspectLimits.maximumChunkCount \in Nat /\ InspectLimits.maximumChunkCount >= 2
  BY WavAssumption
<1>4. wav.offset = endOf(wav.chunks)
  BY DEF isChunking
<1>5. /\ ownFormat.tag = "fmt " /\ ownFormat.size = 16 /\ nextOffset(ownFormat) = 36
      /\ ownFormat.size % 2 = 0
  BY DEF ownFormat, Chunk, nextOffset, nextUnpadded, chunkHeaderBytes, riffHeaderBytes, fmtBytes
<1>6. /\ ownData(frames).tag = "data" /\ nextOffset(ownData(frames)) = 44 + 2 * frames
      /\ ownData(frames).size % 2 = 0
  BY <1>1 DEF ownData, Chunk, nextOffset, nextUnpadded, chunkHeaderBytes
<1>7. CASE wav.chunks = <<>> /\ wav.format = <<>> /\ wav.data = <<>>
  <2>1. wav.offset = 12 /\ Len(wav.chunks) = 0
    BY <1>4, <1>7 DEF endOf, riffHeaderBytes
  <2>2. chunksAt(wav.offset) = {ownFormat}
    BY <2>1 DEF chunksAt, ownFormat, riffHeaderBytes
  <2>3. Append(wav.chunks, ownFormat) = <<ownFormat>>
    BY <1>7
  <2>4. ~isTaken(ownFormat)
    BY <1>5, <1>7 DEF isTaken, fmtBytes
  <2>5. isOwnSoFar(<<ownFormat>>, format, wav.data, wav.metadata)
    BY <1>7 DEF isOwnSoFar
  <2>6. nextOffset(ownFormat) <= wav.file.size /\ wav.file.size - wav.offset >= chunkHeaderBytes
    <3>1. 36 <= 44 + 2 * frames /\ (44 + 2 * frames) - 12 >= 8
      BY <1>1
    <3> QED
      BY <1>2, <1>5, <2>1, <3>1 DEF chunkHeaderBytes
  <2>7. 0 < InspectLimits.maximumChunkCount
    BY <1>3
  <2> HIDE DEF format
  <2> QED
    BY <1>2, <1>5, <2>1, <2>2, <2>3, <2>4, <2>5, <2>6, <2>7 DEF format
<1>8. CASE wav.chunks = <<ownFormat>> /\ wav.format = format /\ wav.data = <<>>
  <2>1. wav.offset = 36 /\ Len(wav.chunks) = 1
    <3>1. endOf(<<ownFormat>>) = nextOffset(ownFormat)
      BY OneOrTwo DEF endOf
    <3> QED
      BY <1>4, <1>5, <1>8, <3>1, OneOrTwo
  <2>2. chunksAt(wav.offset) = {ownData(frames)}
    BY <1>2, <2>1 DEF chunksAt, ownData, riffHeaderBytes
  <2>3. Append(wav.chunks, ownData(frames)) = <<ownFormat, ownData(frames)>>
    BY <1>8, OneOrTwo
  <2>4. ~isTaken(ownData(frames))
    BY <1>6, <1>8 DEF isTaken
  <2>5. isOwnSoFar(<<ownFormat, ownData(frames)>>, wav.format, ownData(frames), wav.metadata)
    BY <1>8 DEF isOwnSoFar
  <2>6. /\ nextOffset(ownData(frames)) <= wav.file.size
        /\ wav.file.size - wav.offset >= chunkHeaderBytes
    <3>1. 44 + 2 * frames <= 44 + 2 * frames /\ (44 + 2 * frames) - 36 >= 8
      BY <1>1
    <3> QED
      BY <1>2, <1>6, <2>1, <3>1 DEF chunkHeaderBytes
  <2>7. 1 < InspectLimits.maximumChunkCount
    BY <1>3
  <2> HIDE DEF format
  <2> QED
    BY <1>2, <1>6, <2>1, <2>2, <2>3, <2>4, <2>5, <2>6, <2>7 DEF format
<1>9. CASE wav.chunks = <<ownFormat, ownData(frames)>>
  <2>1. Len(wav.chunks) = 2 /\ wav.chunks[2] = ownData(frames) /\ wav.chunks # <<>>
    BY <1>9, OneOrTwo
  <2>2. wav.offset = 44 + 2 * frames
    BY <1>4, <1>6, <2>1 DEF endOf
  <2>3. ~(44 + 2 * frames < 44 + 2 * frames)
    BY <1>1
  <2> QED
    BY <1>2, <2>2, <2>3
<1>10. isOwnSoFar(wav.chunks, wav.format, wav.data, wav.metadata)
  BY DEF isChunking
<1> QED
  BY <1>7, <1>8, <1>9, <1>10 DEF isOwnSoFar

(* A header that is read of a foreign file begins where it was looked for.    *)
LEMMA ForeignHeaders ==
  ASSUME NEW start \in Nat, ~isOwn, NEW chunk \in chunksAt(start)
  PROVE  chunk \in ChunkHeaders /\ chunk.offset = start
<1>1. chunk \in [tag : {"fmt ", "data", "LIST"}, offset : {start}, size : ForeignChunks,
                isPadded : BOOLEAN]
  BY DEF chunksAt
<1>2. ForeignChunks \subseteq Nat
  BY WavAssumption
<1> QED
  BY <1>1, <1>2 DEF ChunkHeaders

(* And so does one of an own file.                                            *)
LEMMA OwnHeaders ==
  ASSUME NEW start \in Nat, isOwn, wav.file.header.dataBytes \in Nat, NEW chunk \in chunksAt(start)
  PROVE  chunk \in ChunkHeaders /\ chunk.offset = start
<1>1. \/ chunk = Chunk("fmt ", start, fmtBytes, TRUE)
      \/ chunk = Chunk("data", start, wav.file.header.dataBytes, TRUE)
  BY DEF chunksAt
<1>2. \A tag \in {"fmt ", "data"}, size \in Nat :
        Chunk(tag, start, size, TRUE) \in ChunkHeaders /\ Chunk(tag, start, size, TRUE).offset = start
  BY DEF Chunk, ChunkHeaders
<1> QED
  BY <1>1, <1>2 DEF fmtBytes

(* The other side of a limit.                                                 *)
LEMMA NotAbove == \A a, b \in Nat : ~(a > b) => a <= b
OBVIOUS

(* A chunk keeps the invariant, be it refused or taken.                       *)
LEMMA ReadChunkKeeps == ASSUME isChunking, ReadChunk PROVE WavInv'
<1> DEFINE chunks == wav.chunks
           isShort == \/ Len(chunks) >= InspectLimits.maximumChunkCount
                      \/ wav.file.size - wav.offset < chunkHeaderBytes
           isRefused(chunk) == \/ nextOffset(chunk) > wav.file.size
                               \/ chunk.size % 2 = 1 /\ ~chunk.isPadded
                               \/ isTaken(chunk)
           longer(chunk, format) ==
             [wav EXCEPT !.offset = nextOffset(chunk), !.chunks = Append(@, chunk),
                         !.format = IF chunk.tag = "fmt " THEN format ELSE @,
                         !.data = IF chunk.tag = "data" THEN chunk ELSE @]
<1>1. /\ wav.offset < wav.file.size /\ wav.file.size \in Nat
      /\ isChain(chunks) /\ chunks \in Seq(ChunkHeaders) /\ Len(chunks) \in Nat
      /\ wav.offset = endOf(chunks) /\ wav.offset \in Nat
  <2>1. wav.offset < wav.file.size /\ wav.file.size \in Nat
    BY DEF ReadChunk, isChunking, isFile
  <2>2. isChain(chunks) /\ wav.offset = endOf(chunks)
    BY DEF isChunking
  <2> HIDE DEF chunks
  <2>3. endOf(chunks) \in Nat
    BY <2>2, EndIs
  <2>4. chunks \in Seq(ChunkHeaders) /\ Len(chunks) \in Nat
    BY <2>2 DEF isChain
  <2> QED
    BY <2>1, <2>2, <2>3, <2>4
<1>2. /\ chunksAt(wav.offset) \subseteq ChunkHeaders
      /\ \A chunk \in chunksAt(wav.offset) : chunk.offset = wav.offset
  <2>1. isOwn => wav.file.header.dataBytes \in Nat
    <3>1. isOwn => isOwnFile(wav.file, wav.metadata) /\ wav.metadata.frameCount \in Nat
      BY MetadataIs DEF isChunking, isOwn, Positive
    <3> QED
      BY <3>1 DEF isOwnFile, wavHeader
  <2> QED
    BY <1>1, <2>1, OwnHeaders, ForeignHeaders
<1>3. \A offset : formatsAt(offset) \subseteq WavFormats
  <2>1. CASE isOwn
    <3>1. isOwnFile(wav.file, wav.metadata) /\ wav.metadata.sampleRate \in supportedRates
      BY <2>1, MetadataIs DEF isChunking, isOwn
    <3>2. wav.metadata.sampleRate \in Nat
      BY <3>1, SupportedRates DEF Positive
    <3>3. wav.file.header.format = pcmFormat(wav.metadata.sampleRate)
      BY <3>1 DEF isOwnFile, wavHeader
    <3>4. pcmFormat(wav.metadata.sampleRate) \in WavFormats
      BY <3>2 DEF pcmFormat, WavFormats
    <3> QED
      BY <2>1, <3>3, <3>4 DEF formatsAt
  <2>2. CASE ~isOwn
    BY <2>2, WavAssumption DEF formatsAt
  <2> QED
    BY <2>1, <2>2
<1>4. ASSUME Refuse, isOwn => FALSE PROVE WavInv'
  BY <1>4 DEF Refuse, isOwn, WavInv
<1>5. ASSUME isShort, Refuse PROVE WavInv'
  <2>1. isOwn => ~isShort
    <3>1. InspectLimits.maximumChunkCount \in Nat
      BY WavAssumption
    <3>2. isOwn => /\ Len(chunks) < InspectLimits.maximumChunkCount
                   /\ wav.file.size - wav.offset >= chunkHeaderBytes
      BY <1>1, OwnChunkIs
    <3>3. wav.file.size - wav.offset \in Int /\ chunkHeaderBytes \in Int
      BY <1>1 DEF chunkHeaderBytes
    <3> HIDE DEF chunks
    <3> QED
      BY <1>1, <3>1, <3>2, <3>3
  <2> QED
    BY <1>4, <1>5, <2>1
<1>6. ASSUME NEW chunk \in chunksAt(wav.offset), isRefused(chunk), Refuse PROVE WavInv'
  <2>1. isOwn => ~isRefused(chunk)
    <3>1. chunk \in ChunkHeaders /\ chunk.offset % 2 = 0
      BY <1>1, <1>2, EndIs
    <3>2. nextOffset(chunk) \in Nat
      BY <3>1, NextIs
    <3>3. isOwn => nextOffset(chunk) <= wav.file.size /\ chunk.size % 2 = 0 /\ ~isTaken(chunk)
      BY <1>1, OwnChunkIs
    <3>4. ~(nextOffset(chunk) > wav.file.size) <=> nextOffset(chunk) <= wav.file.size
      BY <1>1, <3>2
    <3>5. chunk.size % 2 = 0 => chunk.size % 2 # 1
      OBVIOUS
    <3> QED
      BY <3>3, <3>4, <3>5, Zenon
  <2> QED
    BY <1>4, <1>6, <2>1
<1>7. ASSUME NEW chunk \in chunksAt(wav.offset), ~isRefused(chunk),
             NEW format \in IF chunk.tag = "fmt " THEN formatsAt(chunk.offset) ELSE {<<>>},
             wav' = longer(chunk, format)
      PROVE  isChunking'
  <2>1. chunk \in ChunkHeaders /\ chunk.offset = endOf(chunks) /\ chunk.offset % 2 = 0
    BY <1>1, <1>2, EndIs
  <2>2. /\ wav'.place = "chunks" /\ wav'.file = wav.file /\ wav'.metadata = wav.metadata
        /\ DOMAIN wav' = {"place", "file", "metadata", "offset", "format", "data", "chunks"}
        /\ wav'.offset = nextOffset(chunk) /\ wav'.chunks = Append(chunks, chunk)
        /\ wav'.format = IF chunk.tag = "fmt " THEN format ELSE wav.format
        /\ wav'.data = IF chunk.tag = "data" THEN chunk ELSE wav.data
    BY <1>7 DEF isChunking
  <2>3. isChain(Append(chunks, chunk)) /\ endOf(Append(chunks, chunk)) = nextOffset(chunk)
    BY <1>1, <2>1, ChainGoesOn
  <2>4. nextOffset(chunk) <= wav.file.size
    <3>1. nextOffset(chunk) \in Nat
      BY <2>1, NextIs
    <3>2. ~(nextOffset(chunk) > wav.file.size)
      BY <1>7, Zenon
    <3>3. wav.file.size \in Nat
      BY <1>1
    <3> QED
      BY <3>1, <3>2, <3>3, NotAbove, Zenon
  <2>5. isFound(wav'.chunks, wav'.format, wav'.data)
    <3>1. isFound(chunks, wav.format, wav.data)
      BY DEF isChunking
    <3>2. /\ chunk.tag = "fmt " => wav.format = <<>> /\ format \in WavFormats
          /\ chunk.tag = "data" => wav.data = <<>>
      BY <1>3, <1>7 DEF isTaken
    <3> QED
      BY <1>1, <2>1, <2>2, <3>1, <3>2, FoundGoesOn, ZenonT(30)
  <2>6. isOwn => isOwnSoFar(wav'.chunks, wav'.format, wav'.data, wav.metadata)
    <3> SUFFICES ASSUME isOwn PROVE isOwnSoFar(wav'.chunks, wav'.format, wav'.data, wav.metadata)
      OBVIOUS
    <3>1. wav.file.header.format = pcmFormat(wav.metadata.sampleRate)
      BY <1>1, OwnChunkIs
    <3>2. chunk.tag = "fmt " => format = pcmFormat(wav.metadata.sampleRate)
      BY <1>7, <3>1 DEF formatsAt
    <3>3. isOwnSoFar(Append(wav.chunks, chunk),
                     IF chunk.tag = "fmt " THEN pcmFormat(wav.metadata.sampleRate) ELSE wav.format,
                     IF chunk.tag = "data" THEN chunk ELSE wav.data, wav.metadata)
      BY <1>1, <1>7, OwnChunkIs
    <3> QED
      BY <2>2, <3>2, <3>3
  <2>7. isFile(wav.file, wav.metadata)
    BY DEF isChunking
  <2> HIDE DEF chunks
  <2> QED
    BY <2>2, <2>3, <2>4, <2>5, <2>6, <2>7 DEF isChunking, isOwn
<1> HIDE DEF isRefused, isShort, longer
<1> QED
  BY <1>5, <1>6, <1>7 DEF ReadChunk, WavInv, isRefused, isShort, longer

(* A chain covers the file as far as it goes.                                 *)
LEMMA ChainIsTiled ==
  ASSUME NEW chunks, isChain(chunks), chunks # <<>>
  PROVE  isTiled(chunks, endOf(chunks))
<1> DEFINE n == Len(chunks)
           follows(i) == LET end == chunks[i].offset + chunkHeaderBytes + chunks[i].size
                             next == IF i = n THEN endOf(chunks) ELSE chunks[i + 1].offset
                         IN next = end + (end % 2)
<1>1. chunks \in Seq(ChunkHeaders) /\ n \in Nat \ {0} /\ DOMAIN chunks = 1 .. n
  BY DEF isChain
<1>2. endOf(chunks) = nextOffset(chunks[n])
  BY DEF endOf
<1>3. chunks[1].offset = riffHeaderBytes
  BY <1>1 DEF isChain
<1>4. ASSUME NEW i \in DOMAIN chunks PROVE follows(i)
  <2>1. chunks[i] \in ChunkHeaders /\ chunks[i].offset % 2 = 0
    BY <1>1 DEF isChain
  <2>2. LET end == chunks[i].offset + chunkHeaderBytes + chunks[i].size IN
          nextOffset(chunks[i]) = end + (end % 2)
    BY <2>1, NextIs
  <2>3. i # n => /\ i + 1 \in DOMAIN chunks /\ i + 1 # 1 /\ (i + 1) - 1 = i
    BY <1>1
  <2>4. i # n => chunks[i + 1].offset = nextOffset(chunks[i])
    <3>1. i # n => chunks[i + 1].offset = nextOffset(chunks[(i + 1) - 1])
      BY <2>3, Zenon DEF isChain
    <3> QED
      BY <2>3, <3>1
  <2> HIDE DEF n
  <2> QED
    BY <1>2, <2>2, <2>4
<1> QED
  BY <1>3, <1>4 DEF isTiled

(* The statistics begin with those of no samples.                             *)
LEMMA NothingIsCounted ==
  ASSUME NEW inspection, inspection.minimum = 32767, inspection.maximum = -32768,
         inspection.peak = 0, inspection.clippedPositive = 0, inspection.clippedNegative = 0
  PROVE  isCounted(<<>>, inspection)
<1>1. \A value : {k \in DOMAIN <<>> : <<>>[k] = value} = {}
  OBVIOUS
<1>2. \A value : occurrences(<<>>, value) = 0
  BY <1>1, FS_EmptySet DEF occurrences
<1>3. samplesOf(<<>>) = {}
  BY DEF samplesOf
<1>4. /\ isLeast(inspection.minimum, samplesOf(<<>>))
      /\ isGreatest(inspection.maximum, samplesOf(<<>>))
      /\ isPeak(inspection.peak, samplesOf(<<>>))
  BY <1>3 DEF isLeast, isGreatest, isPeak
<1> QED
  BY <1>2, <1>4 DEF isCounted

(* At the end of the chunks there is one of each, or the file is refused; an  *)
(* own file is not.                                                           *)
LEMMA ChunksEndKeeps == ASSUME isChunking, ChunksEnd PROVE WavInv'
<1> DEFINE frames == wav.metadata.frameCount
           isWhole == wav.format # <<>> /\ wav.data # <<>> /\ validateFormat(wav.format, wav.data)
           new == [place |-> "analyse", file |-> wav.file, metadata |-> wav.metadata,
                   format |-> wav.format, data |-> wav.data, chunks |-> wav.chunks,
                   remaining |-> wav.data.size, read |-> <<>>,
                   minimum |-> 32767, maximum |-> -32768, peak |-> 0,
                   clippedPositive |-> 0, clippedNegative |-> 0]
<1>1. wav.offset = wav.file.size
  <2>1. wav.offset \in Nat /\ wav.file.size \in Nat
    BY EndIs DEF isChunking, isFile
  <2> QED
    BY <2>1 DEF ChunksEnd, isChunking
<1>2. ASSUME isOwn
      PROVE  /\ isWhole /\ wav.format.sampleRate = wav.metadata.sampleRate
             /\ wav.data.size = 2 * frames
  <2>1. /\ isOwnFile(wav.file, wav.metadata) /\ frames \in Nat /\ frames > 0
        /\ wav.metadata.sampleRate \in supportedRates
    BY <1>2, MetadataIs DEF isChunking, isOwn, Positive
  <2>2. endOf(wav.chunks) = 44 + 2 * frames
    BY <1>1, <2>1 DEF isOwnFile, headerBytes, isChunking
  <2>3. endOf(<<>>) = 12 /\ endOf(<<ownFormat>>) = 36
    <3>1. endOf(<<ownFormat>>) = nextOffset(ownFormat)
      BY OneOrTwo DEF endOf
    <3>2. nextOffset(ownFormat) = 36
      BY DEF ownFormat, Chunk, nextOffset, nextUnpadded, chunkHeaderBytes, riffHeaderBytes, fmtBytes
    <3>3. endOf(<<>>) = 12
      BY DEF endOf, riffHeaderBytes
    <3> QED
      BY <3>1, <3>2, <3>3
  <2>4. 12 # 44 + 2 * frames /\ 36 # 44 + 2 * frames
    BY <2>1
  <2>5. wav.format = pcmFormat(wav.metadata.sampleRate) /\ wav.data = ownData(frames)
    BY <1>2, <2>2, <2>3, <2>4 DEF isChunking, isOwnSoFar
  <2>6. wav.metadata.sampleRate \in Nat
    BY <2>1, SupportedRates DEF Positive
  <2>7. /\ pcmFormat(wav.metadata.sampleRate) \in WavFormats
        /\ pcmFormat(wav.metadata.sampleRate).sampleRate = wav.metadata.sampleRate
    BY <2>6 DEF pcmFormat, WavFormats
  <2>8. ownData(frames) \in ChunkHeaders /\ ownData(frames).size = 2 * frames
    BY <2>1 DEF ownData, Chunk, ChunkHeaders
  <2>9. 2 * frames > 0 /\ (2 * frames) % 2 = 0
    BY <2>1
  <2>10. validateFormat(pcmFormat(wav.metadata.sampleRate), ownData(frames))
    BY <2>1, <2>8, <2>9 DEF validateFormat, pcmFormat, isSupportedSampleRate
  <2> HIDE DEF frames
  <2> QED
    BY <2>5, <2>7, <2>8, <2>10, NoRecordIsEmpty
<1>3. ASSUME ~isWhole, Refuse PROVE WavInv'
  <2>1. ~isOwn
    BY <1>2, <1>3
  <2> QED
    BY <1>3, <2>1 DEF Refuse, isOwn, WavInv
<1>4. ASSUME isWhole, wav' = new PROVE isAnalysed'
  <2>1. /\ wav'.place = "analyse" /\ wav'.file = wav.file /\ wav'.metadata = wav.metadata
        /\ DOMAIN wav' = {"place", "file", "metadata", "format", "data", "chunks", "remaining",
                          "read", "minimum", "maximum", "peak", "clippedPositive",
                          "clippedNegative"}
        /\ wav'.format = wav.format /\ wav'.data = wav.data /\ wav'.chunks = wav.chunks
        /\ wav'.remaining = wav.data.size /\ wav'.read = <<>>
    BY <1>4
  <2>2. /\ wav'.minimum = 32767 /\ wav'.maximum = -32768 /\ wav'.peak = 0
        /\ wav'.clippedPositive = 0 /\ wav'.clippedNegative = 0
    BY <1>4
  <2>3. isCounted(<<>>, wav')
    BY <2>2, NothingIsCounted
  <2>4. /\ \E i \in DOMAIN wav.chunks : withTag(wav.chunks, "fmt ") = {i}
        /\ \E i \in DOMAIN wav.chunks : wav.data = wav.chunks[i] /\ withTag(wav.chunks, "data") = {i}
    <3>1. isFound(wav.chunks, wav.format, wav.data) /\ wav.format # <<>> /\ wav.data # <<>>
      BY <1>4 DEF isChunking
    <3> QED
      BY <3>1, Zenon DEF isFound
  <2>5. /\ Cardinality(withTag(wav.chunks, "fmt ")) = 1
        /\ Cardinality(withTag(wav.chunks, "data")) = 1
    BY <2>4, FS_Singleton
  <2>6. wav.chunks \in Seq(ChunkHeaders) /\ wav.chunks # <<>>
    <3>1. wav.chunks \in Seq(ChunkHeaders)
      BY DEF isChunking, isChain
    <3>2. wav.chunks = <<>> => DOMAIN wav.chunks = {}
      OBVIOUS
    <3> QED
      BY <2>4, <3>1, <3>2
  <2>7. wav.data \in ChunkHeaders
    <3>1. PICK i \in DOMAIN wav.chunks : wav.data = wav.chunks[i]
      BY <2>4
    <3> HIDE DEF new
    <3>2. wav.chunks[i] \in ChunkHeaders
      BY <2>6
    <3> QED
      BY <3>1, <3>2
  <2>8. wav.data.size \in Nat
    BY <2>7 DEF ChunkHeaders
  <2>9. wav.format.blockAlignment = 2 /\ wav.data.size > 0 /\ wav.data.size % 2 = 0
    BY <1>4 DEF validateFormat
  <2>10. isTiled(wav.chunks, wav.file.size)
    BY <1>1, <2>6, ChainIsTiled DEF isChunking
  <2>11. isFile(wav.file, wav.metadata)
    BY DEF isChunking
  <2>12. <<>> \in Seq(PcmSamples) /\ Len(<<>>) = 0 /\ wav.data.size + 2 * 0 = wav.data.size
    BY <2>8
  <2>13. isOwn => /\ wav.format.sampleRate = wav.metadata.sampleRate
                  /\ wav.data.size = 2 * wav.metadata.frameCount
                  /\ <<>> = SubSeq(wav.file.samples, 1, 0)
    <3>1. <<>> = SubSeq(wav.file.samples, 1, 0)
      BY SubSeqEmpty
    <3> QED
      BY <1>2, <3>1
  <2> QED
    BY <2>1, <2>3, <2>5, <2>8, <2>9, <2>10, <2>11, <2>12, <2>13 DEF isAnalysed, isOwn
<1> HIDE DEF isWhole, new
<1> QED
  BY <1>3, <1>4 DEF ChunksEnd, WavInv, isWhole, new

(* The magnitude of a sample.                                                 *)
LEMMA MagnitudeIs ==
  ASSUME NEW value \in PcmSamples
  PROVE  /\ value \in Int /\ -32768 <= value /\ value <= 32767
         /\ magnitude(value) \in Int /\ 0 <= magnitude(value) /\ magnitude(value) <= 32768
         /\ value <= magnitude(value) /\ -value <= magnitude(value)
         /\ magnitude(value) = value \/ magnitude(value) = -value
<1>1. value \in Int /\ -32768 <= value /\ value <= 32767
  BY PcmSampleIs
<1> QED
  BY <1>1 DEF magnitude

(* A sequence of a subset is one of the set.                                  *)
LEMMA SeqOfMore ==
  ASSUME NEW S, NEW T, S \subseteq T, NEW seq \in Seq(S)
  PROVE  seq \in Seq(T)
<1>1. seq \in [1 .. Len(seq) -> S] /\ Len(seq) \in Nat
  BY LenProperties
<1>2. seq \in [1 .. Len(seq) -> T]
  BY <1>1
<1> QED
  BY <1>1, <1>2

(* The values of two sequences are those of the one they make.                *)
LEMMA ValuesTogether ==
  ASSUME NEW first \in Seq(PcmSamples), NEW second \in Seq(PcmSamples)
  PROVE  LET all == first \o second IN
         /\ {all[k] : k \in DOMAIN all}
              = {first[k] : k \in DOMAIN first} \cup {second[k] : k \in DOMAIN second}
         /\ {all[k] : k \in DOMAIN all} \subseteq PcmSamples
<1> DEFINE all == first \o second
           n == Len(first)
           m == Len(second)
<1>1. /\ n \in Nat /\ m \in Nat /\ DOMAIN first = 1 .. n /\ DOMAIN second = 1 .. m
      /\ DOMAIN all = 1 .. n + m
      /\ \A k \in 1 .. n + m : all[k] = IF k <= n THEN first[k] ELSE second[k - n]
  OBVIOUS
<1>2. \A k \in DOMAIN first : first[k] \in PcmSamples
  OBVIOUS
<1>3. \A k \in DOMAIN second : second[k] \in PcmSamples
  OBVIOUS
<1> HIDE DEF all, n, m
<1>4. ASSUME NEW k \in DOMAIN all
      PROVE  (\E j \in DOMAIN first : all[k] = first[j]) \/ \E j \in DOMAIN second : all[k] = second[j]
  <2>1. CASE k <= n
    <3>1. k \in DOMAIN first /\ all[k] = first[k]
      BY <1>1, <2>1
    <3> QED
      BY <3>1
  <2>2. CASE ~(k <= n)
    <3>1. k - n \in DOMAIN second /\ all[k] = second[k - n]
      BY <1>1, <2>2
    <3> QED
      BY <3>1
  <2> QED
    BY <2>1, <2>2
<1>5. ASSUME NEW k \in DOMAIN first PROVE \E j \in DOMAIN all : all[j] = first[k]
  <2>1. k \in DOMAIN all /\ all[k] = first[k]
    BY <1>1
  <2> QED
    BY <2>1
<1>6. ASSUME NEW k \in DOMAIN second PROVE \E j \in DOMAIN all : all[j] = second[k]
  <2>1. k + n \in DOMAIN all /\ all[k + n] = second[k]
    BY <1>1
  <2> QED
    BY <2>1
<1>7. {all[k] : k \in DOMAIN all}
        = {first[k] : k \in DOMAIN first} \cup {second[k] : k \in DOMAIN second}
  BY <1>4, <1>5, <1>6
<1> QED
  BY <1>2, <1>3, <1>7 DEF all

(* The extremes of samples are samples.                                        *)
LEMMA ExtremesOfSamples ==
  ASSUME NEW all \in SUBSET PcmSamples, all # {}
  PROVE  /\ Min(all) \in all /\ \A value \in all : Min(all) <= value
         /\ Max(all) \in all /\ \A value \in all : value <= Max(all)
<1> DEFINE low == -32768
           high == 32767
<1>1. all \in SUBSET Int /\ low \in Int /\ high \in Int
  BY PcmSampleIs
<1>2. \A value \in all : low <= value /\ value <= high
  BY PcmSampleIs
<1> HIDE DEF low, high
<1>3. Min(all) \in all /\ \A value \in all : Min(all) <= value
  BY <1>1, <1>2, LeastIs
<1>4. Max(all) \in all /\ \A value \in all : value <= Max(all)
  BY <1>1, <1>2, GreatestIs
<1> QED
  BY <1>3, <1>4

(* The least of some samples and of the least so far is the least so far.         *)
LEMMA LeastGoesOn ==
  ASSUME NEW before \in SUBSET PcmSamples, NEW values \in SUBSET PcmSamples, values # {},
         NEW old, isLeast(old, before)
  PROVE  isLeast(Min(values \cup {old}), before \cup values)
<1>1. old \in PcmSamples
  <2>1. 32767 \in PcmSamples
    BY PcmSampleIs
  <2> QED
    BY <2>1 DEF isLeast
<1>2. PICK all \in SUBSET PcmSamples : all = values \cup {old}
  BY <1>1
<1>3. PICK new : new = Min(all)
  OBVIOUS
<1>4. new \in all /\ \A value \in all : new <= value
  <2>1. all # {}
    BY <1>2
  <2> QED
    BY <1>3, <2>1, ExtremesOfSamples
<1>5. isLeast(new, before \cup values)
  <2>1. PICK v \in values : TRUE
    OBVIOUS
  <2>2. new \in PcmSamples /\ (new = old \/ new \in values) /\ new <= old /\ new <= v
    BY <1>2, <1>4
  <2>3. \A value \in values : new <= value
    BY <1>2, <1>4
  <2>4. ASSUME before = {} PROVE new \in values
    <3>1. old = 32767
      BY <2>4 DEF isLeast
    <3>2. v \in Int /\ v <= 32767
      BY PcmSampleIs
    <3>3. new = old => new = v
      BY <2>2, <3>1, <3>2
    <3> QED
      BY <2>2, <3>3
  <2>5. ASSUME before # {} PROVE old \in before /\ \A value \in before : new <= value
    <3>1. old \in before /\ \A value \in before : old <= value
      BY <2>5 DEF isLeast
    <3>2. \A value \in before : value \in Int
      BY PcmSampleIs
    <3>3. new \in Int /\ old \in Int
      BY <1>1, <2>2, PcmSampleIs
    <3> QED
      BY <2>2, <3>1, <3>2, <3>3
  <2> QED
    BY <2>2, <2>3, <2>4, <2>5 DEF isLeast
<1> QED
  BY <1>2, <1>3, <1>5, Zenon

(* And so is the greatest.                                                   *)
LEMMA GreatestGoesOn ==
  ASSUME NEW before \in SUBSET PcmSamples, NEW values \in SUBSET PcmSamples, values # {},
         NEW old, isGreatest(old, before)
  PROVE  isGreatest(Max(values \cup {old}), before \cup values)
<1>1. old \in PcmSamples
  <2>1. -32768 \in PcmSamples
    BY PcmSampleIs
  <2> QED
    BY <2>1 DEF isGreatest
<1>2. PICK all \in SUBSET PcmSamples : all = values \cup {old}
  BY <1>1
<1>3. PICK new : new = Max(all)
  OBVIOUS
<1>4. new \in all /\ \A value \in all : value <= new
  <2>1. all # {}
    BY <1>2
  <2> QED
    BY <1>3, <2>1, ExtremesOfSamples
<1>5. isGreatest(new, before \cup values)
  <2>1. PICK v \in values : TRUE
    OBVIOUS
  <2>2. new \in PcmSamples /\ (new = old \/ new \in values) /\ old <= new /\ v <= new
    BY <1>2, <1>4
  <2>3. \A value \in values : value <= new
    BY <1>2, <1>4
  <2>4. ASSUME before = {} PROVE new \in values
    <3>1. old = -32768
      BY <2>4 DEF isGreatest
    <3>2. v \in Int /\ -32768 <= v
      BY PcmSampleIs
    <3>3. new = old => new = v
      BY <2>2, <3>1, <3>2
    <3> QED
      BY <2>2, <3>3
  <2>5. ASSUME before # {} PROVE old \in before /\ \A value \in before : value <= new
    <3>1. old \in before /\ \A value \in before : value <= old
      BY <2>5 DEF isGreatest
    <3>2. \A value \in before : value \in Int
      BY PcmSampleIs
    <3>3. new \in Int /\ old \in Int
      BY <1>1, <2>2, PcmSampleIs
    <3> QED
      BY <2>2, <3>1, <3>2, <3>3
  <2> QED
    BY <2>2, <2>3, <2>4, <2>5 DEF isGreatest
<1> QED
  BY <1>2, <1>3, <1>5, Zenon

(* And the greatest magnitude, which is of one of the samples.                  *)
LEMMA PeakGoesOn ==
  ASSUME NEW before \in SUBSET PcmSamples, NEW values \in SUBSET PcmSamples, values # {},
         NEW old, isPeak(old, before)
  PROVE  isPeak(Max({magnitude(value) : value \in values} \cup {old}), before \cup values)
<1> DEFINE sizes == {magnitude(value) : value \in values} \cup {old}
           high == 32768
<1>1. /\ old \in Nat /\ old <= high /\ high \in Int
      /\ \A value \in before \cup values :
           magnitude(value) \in Nat /\ magnitude(value) <= high
  <2>1. \A value \in before \cup values :
          magnitude(value) \in Nat /\ magnitude(value) <= high
    BY MagnitudeIs
  <2> QED
    BY <2>1 DEF isPeak
<1>2. PICK all \in SUBSET Nat : all = sizes
  <2>1. sizes \in SUBSET Nat
    BY <1>1
  <2> HIDE DEF sizes
  <2> QED
    BY <2>1
<1>3. PICK new : new = Max(all)
  OBVIOUS
<1>4. /\ all # {} /\ old \in all /\ \A value \in values : magnitude(value) \in all
      /\ \A size \in all : size = old \/ \E value \in values : size = magnitude(value)
  BY <1>2
<1>5. \A size \in all : size <= high
  BY <1>1, <1>4
<1> HIDE DEF high
<1>6. new \in all /\ \A size \in all : size <= new
  <2>1. all \in SUBSET Int
    OBVIOUS
  <2> QED
    BY <1>1, <1>3, <1>4, <1>5, <2>1, GreatestIs
<1> HIDE DEF sizes
<1>7. isPeak(new, before \cup values)
  <2>1. PICK v \in values : TRUE
    OBVIOUS
  <2>2. \A value \in values : magnitude(value) <= new
    BY <1>4, <1>6
  <2>3. ASSUME before = {} PROVE \E value \in values : new = magnitude(value)
    <3>1. old = 0
      BY <2>3 DEF isPeak
    <3>2. magnitude(v) \in Nat /\ magnitude(v) <= new /\ new \in Nat
      BY <1>1, <1>6, <2>1, <2>2
    <3>3. new = old => new = magnitude(v)
      BY <3>1, <3>2
    <3> QED
      BY <1>4, <1>6, <3>3
  <2>4. ASSUME before # {}
        PROVE  /\ \E value \in before \cup values : new = magnitude(value)
               /\ \A value \in before : magnitude(value) <= new
    <3>1. /\ \E value \in before : old = magnitude(value)
          /\ \A value \in before : magnitude(value) <= old
      BY <2>4 DEF isPeak
    <3>2. old <= new /\ new \in Int /\ old \in Int
      BY <1>1, <1>4, <1>6
    <3>3. \A value \in before : magnitude(value) <= new
      BY <1>1, <3>1, <3>2
    <3> QED
      BY <1>4, <1>6, <3>1, <3>3
  <2> QED
    BY <2>1, <2>2, <2>3, <2>4 DEF isPeak
<1> QED
  BY <1>2, <1>3, <1>7, Zenon DEF sizes

(* The statistics of one more block.                                           *)
isCountedOn(new, old, samples) ==
  LET values == samplesOf(samples) IN
  /\ new.minimum = Min(values \cup {old.minimum}) /\ new.maximum = Max(values \cup {old.maximum})
  /\ new.peak = Max({magnitude(value) : value \in values} \cup {old.peak})
  /\ new.clippedPositive = old.clippedPositive + occurrences(samples, 32767)
  /\ new.clippedNegative = old.clippedNegative + occurrences(samples, -32768)

(* Read one more block, and the statistics are of all that was read.          *)
LEMMA CountGoesOn ==
  ASSUME NEW read \in Seq(PcmSamples), NEW samples \in Seq(PcmSamples), samples # <<>>,
         NEW old, isCounted(read, old), NEW new, isCountedOn(new, old, samples)
  PROVE  isCounted(read \o samples, new)
<1> DEFINE values == samplesOf(samples)
<1>1. PcmSamples \subseteq Int
  BY PcmSampleIs
<1>2. read \in Seq(Int) /\ samples \in Seq(Int)
  BY <1>1, SeqOfMore, Zenon
<1>3. \A value : occurrences(read \o samples, value) = occurrences(read, value) + occurrences(samples, value)
  BY <1>2, OccurrencesAdd
<1>4. /\ old.clippedPositive = occurrences(read, 32767)
      /\ old.clippedNegative = occurrences(read, -32768)
      /\ isLeast(old.minimum, samplesOf(read)) /\ isGreatest(old.maximum, samplesOf(read))
      /\ isPeak(old.peak, samplesOf(read))
  BY DEF isCounted
<1>5. samplesOf(read \o samples) = samplesOf(read) \cup samplesOf(samples)
  BY ValuesTogether, Zenon DEF samplesOf
<1>6. samplesOf(read) \in SUBSET PcmSamples /\ samplesOf(samples) \in SUBSET PcmSamples
  BY DEF samplesOf
<1>7. samplesOf(samples) # {}
  <2>1. 1 \in DOMAIN samples
    OBVIOUS
  <2> QED
    BY <2>1 DEF samplesOf
<1>8. /\ isLeast(Min(values \cup {old.minimum}), samplesOf(read \o samples))
      /\ isGreatest(Max(values \cup {old.maximum}), samplesOf(read \o samples))
      /\ isPeak(Max({magnitude(value) : value \in values} \cup {old.peak}),
                samplesOf(read \o samples))
  BY <1>4, <1>5, <1>6, <1>7, LeastGoesOn, GreatestGoesOn, PeakGoesOn
<1>9. /\ new.minimum = Min(values \cup {old.minimum}) /\ new.maximum = Max(values \cup {old.maximum})
      /\ new.peak = Max({magnitude(value) : value \in values} \cup {old.peak})
  BY DEF isCountedOn
<1>10. /\ new.clippedPositive = old.clippedPositive + occurrences(samples, 32767)
       /\ new.clippedNegative = old.clippedNegative + occurrences(samples, -32768)
  BY DEF isCountedOn
<1>11. /\ isLeast(new.minimum, samplesOf(read \o samples))
       /\ isGreatest(new.maximum, samplesOf(read \o samples))
       /\ isPeak(new.peak, samplesOf(read \o samples))
  <2> HIDE DEF values
  <2> QED
    BY <1>8, <1>9
<1>12. /\ new.clippedPositive = occurrences(read \o samples, 32767)
       /\ new.clippedNegative = occurrences(read \o samples, -32768)
  BY <1>3, <1>4, <1>10
<1> QED
  BY <1>11, <1>12 DEF isCounted

(* A part of a sequence.                                                      *)
LEMMA PartIs ==
  ASSUME NEW seq \in Seq(PcmSamples), NEW n \in Nat, NEW count \in Nat, n + count <= Len(seq)
  PROVE  /\ SubSeq(seq, n + 1, n + count) \in Seq(PcmSamples)
         /\ Len(SubSeq(seq, n + 1, n + count)) = count
         /\ \A k \in 1 .. count : SubSeq(seq, n + 1, n + count)[k] = seq[n + k]
<1>1. /\ n + 1 \in 1 .. Len(seq) + 1 /\ n + count \in n + 1 - 1 .. Len(seq)
      /\ (n + count) - (n + 1) + 1 = count /\ \A k \in 1 .. count : (n + 1) + k - 1 = n + k
  OBVIOUS
<1>2. SubSeq(seq, n + 1, n + count) = [k \in 1 .. count |-> seq[n + k]]
  <2>1. \A k \in 1 .. count : (n + 1) + k - 1 = n + k
    OBVIOUS
  <2> QED
    BY <1>1, <2>1 
<1>3. \A k \in 1 .. count : n + k \in 1 .. Len(seq) /\ seq[n + k] \in PcmSamples
  OBVIOUS
<1>4. PICK part : part = [k \in 1 .. count |-> seq[n + k]]
  OBVIOUS
<1>5. part \in [1 .. count -> PcmSamples] /\ \A k \in 1 .. count : part[k] = seq[n + k]
  BY <1>3, <1>4
<1>6. part \in Seq(PcmSamples) /\ Len(part) = count
  BY <1>5
<1> QED
  BY <1>2, <1>4, <1>5, <1>6, Zenon

(* A block after what was read of a sequence makes more of that sequence.     *)
LEMMA BlockOf ==
  ASSUME NEW seq \in Seq(PcmSamples), NEW n \in Nat, NEW count \in Nat, n + count <= Len(seq)
  PROVE  /\ SubSeq(seq, n + 1, n + count) \in Seq(PcmSamples)
         /\ Len(SubSeq(seq, n + 1, n + count)) = count
         /\ SubSeq(seq, 1, n) \o SubSeq(seq, n + 1, n + count) = SubSeq(seq, 1, n + count)
<1> DEFINE left == SubSeq(seq, 1, n)
           right == SubSeq(seq, n + 1, n + count)
           whole == SubSeq(seq, 1, n + count)
<1>1. /\ left \in Seq(PcmSamples) /\ Len(left) = n /\ \A k \in 1 .. n : left[k] = seq[k]
      /\ whole \in Seq(PcmSamples) /\ Len(whole) = n + count
      /\ \A k \in 1 .. n + count : whole[k] = seq[k]
  <2>1. \A m \in Nat : m <= Len(seq) =>
          /\ SubSeq(seq, 1, m) \in Seq(PcmSamples) /\ Len(SubSeq(seq, 1, m)) = m
          /\ \A k \in 1 .. m : SubSeq(seq, 1, m)[k] = seq[k]
    <3> SUFFICES ASSUME NEW m \in Nat, m <= Len(seq)
                 PROVE  /\ SubSeq(seq, 1, m) \in Seq(PcmSamples) /\ Len(SubSeq(seq, 1, m)) = m
                        /\ \A k \in 1 .. m : SubSeq(seq, 1, m)[k] = seq[k]
      OBVIOUS
    <3>1. 0 \in Nat /\ 0 + 1 = 1 /\ 0 + m = m /\ 0 + m <= Len(seq) /\ \A k \in 1 .. m : 0 + k = k
      OBVIOUS
    <3> QED
      BY <3>1, PartIs, SMTT(30)
  <2> QED
    BY <2>1
<1>2. /\ right \in Seq(PcmSamples) /\ Len(right) = count
      /\ \A k \in 1 .. count : right[k] = seq[n + k]
  BY PartIs
<1> HIDE DEF left, right, whole
<1>3. PICK both : both = left \o right
  OBVIOUS
<1>4. /\ both \in Seq(PcmSamples) /\ Len(both) = n + count
      /\ \A k \in 1 .. n + count :
           both[k] = IF k <= n THEN left[k] ELSE right[k - n]
  <2>1. left \in Seq(PcmSamples) /\ right \in Seq(PcmSamples)
    BY <1>1, <1>2
  <2>2. /\ both \in Seq(PcmSamples) /\ Len(both) = Len(left) + Len(right)
        /\ \A k \in 1 .. Len(left) + Len(right) :
             both[k] = IF k <= Len(left) THEN left[k] ELSE right[k - Len(left)]
    BY <1>3, <2>1, ConcatProperties, Zenon
  <2> QED
    BY <1>1, <1>2, <2>2
<1>5. ASSUME NEW k \in 1 .. n + count PROVE both[k] = whole[k]
  <2>1. CASE k <= n
    BY <1>1, <1>4, <2>1
  <2>2. CASE ~(k <= n)
    <3>1. k - n \in 1 .. count /\ n + (k - n) = k
      BY <2>2
    <3> QED
      BY <1>1, <1>2, <1>4, <2>2, <3>1, ZenonT(30)
  <2> QED
    BY <2>1, <2>2
<1>6. both = whole
  BY <1>1, <1>4, <1>5, SeqEqual
<1> QED
  BY <1>2, <1>3, <1>6 DEF left, right, whole

(* Two sequences make one as long as both.                                    *)
LEMMA Joined ==
  ASSUME NEW S, NEW first \in Seq(S), NEW second \in Seq(S)
  PROVE  first \o second \in Seq(S) /\ Len(first \o second) = Len(first) + Len(second)
BY ConcatProperties, Zenon

(* A block is of samples, and those of an own file are the ones that were written. *)
LEMMA BlockIs ==
  ASSUME isAnalysed, NEW count \in Positive, 2 * count <= wav.remaining,
         NEW samples \in samplesAt(Len(wav.read), count)
  PROVE  /\ samples \in Seq(PcmSamples) /\ Len(samples) = count
         /\ wav.read \o samples \in Seq(PcmSamples)
         /\ Len(wav.read \o samples) = Len(wav.read) + count
         /\ isOwn => wav.read \o samples = SubSeq(wav.file.samples, 1, Len(wav.read) + count)
<1> DEFINE n == Len(wav.read)
           source == wav.file.samples
<1>1. /\ wav.read \in Seq(PcmSamples) /\ n \in Nat /\ count \in Nat /\ count > 0
      /\ wav.remaining \in Nat /\ wav.remaining + 2 * n = wav.data.size
  <2>1. /\ wav.read \in Seq(PcmSamples) /\ wav.remaining \in Nat
        /\ wav.remaining + 2 * Len(wav.read) = wav.data.size
    BY Zenon DEF isAnalysed
  <2> QED
    BY <2>1 DEF Positive
<1>2. CASE isOwn
  <2>1. /\ source \in Seq(PcmSamples) /\ wav.data.size = 2 * Len(source) /\ Len(source) \in Nat
        /\ wav.read = SubSeq(source, 1, n)
    <3>1. /\ isOwnFile(wav.file, wav.metadata) /\ wav.data.size = 2 * wav.metadata.frameCount
          /\ wav.read = SubSeq(wav.file.samples, 1, Len(wav.read))
      BY <1>2, Zenon DEF isAnalysed, isFile, isOwn
    <3>2. wav.file.samples \in Seq(PcmSamples) /\ Len(wav.file.samples) = wav.metadata.frameCount
      BY <3>1, Zenon DEF isOwnFile
    <3> QED
      BY <3>1, <3>2
  <2>2. n + count <= Len(source)
    BY <1>1, <2>1, SMTT(30)
  <2>3. samples = SubSeq(source, n + 1, n + count)
    BY <1>2 DEF samplesAt
  <2>4. PICK seq \in Seq(PcmSamples) : seq = source
    BY <2>1
  <2> HIDE DEF n, source
  <2>5. /\ SubSeq(seq, n + 1, n + count) \in Seq(PcmSamples)
        /\ Len(SubSeq(seq, n + 1, n + count)) = count
        /\ SubSeq(seq, 1, n) \o SubSeq(seq, n + 1, n + count) = SubSeq(seq, 1, n + count)
    BY <1>1, <2>2, <2>4, BlockOf, Zenon
  <2>6. Len(samples) = count /\ samples \in Seq(PcmSamples)
    BY <2>3, <2>4, <2>5
  <2>7. wav.read \o samples = SubSeq(source, 1, n + count)
    BY <2>1, <2>3, <2>4, <2>5
  <2>8. wav.read \o samples \in Seq(PcmSamples) /\ Len(wav.read \o samples) = Len(wav.read) + count
    BY <1>1, <2>6, Joined, Zenon
  <2> QED
    BY <2>6, <2>7, <2>8 DEF n, source
<1>3. CASE ~isOwn
  <2>1. samples \in [1 .. count -> PcmSamples]
    BY <1>3, WavAssumption DEF samplesAt
  <2>2. samples \in Seq(PcmSamples) /\ Len(samples) = count
    BY <1>1, <2>1
  <2>3. wav.read \o samples \in Seq(PcmSamples) /\ Len(wav.read \o samples) = Len(wav.read) + count
    BY <1>1, <2>2, Joined, Zenon
  <2> QED
    BY <1>3, <2>2, <2>3, Zenon
<1> QED
  BY <1>2, <1>3, Zenon

(* A block that was analysed keeps the invariant.                             *)
LEMMA AnalyseBlockKeeps == ASSUME isAnalysed, AnalyseBlock PROVE isAnalysed'
<1> DEFINE bytes == IF wav.remaining < BlockBytes THEN wav.remaining ELSE BlockBytes
           count == bytes \div 2
<1>1. /\ wav.place = "analyse" /\ wav.remaining \in Nat /\ wav.remaining > 0
      /\ wav.read \in Seq(PcmSamples) /\ Len(wav.read) \in Nat
      /\ wav.remaining + 2 * Len(wav.read) = wav.data.size /\ wav.data.size \in Nat
      /\ wav.data.size % 2 = 0
  <2>1. /\ wav.read \in Seq(PcmSamples) /\ wav.remaining \in Nat
        /\ wav.remaining + 2 * Len(wav.read) = wav.data.size /\ wav.data.size \in Nat
        /\ wav.data.size % 2 = 0
    BY Zenon DEF isAnalysed
  <2>2. wav.place = "analyse" /\ wav.remaining > 0
    BY DEF AnalyseBlock
  <2> QED
    BY <2>1, <2>2
<1>2. wav.remaining % 2 = 0
  <2>1. \A r, n \in Nat : (r + 2 * n) % 2 = 0 => r % 2 = 0
    OBVIOUS
  <2> QED
    BY <1>1, <2>1
<1>3. count \in Positive /\ bytes = 2 * count /\ bytes <= wav.remaining
  <2>1. bytes \in Nat /\ bytes > 0 /\ bytes % 2 = 0 /\ bytes <= wav.remaining
    BY <1>1, <1>2, WavAssumption
  <2> HIDE DEF bytes
  <2> QED
    BY <2>1 DEF Positive
<1>4. PICK samples \in samplesAt(Len(wav.read), count) : wav' = analysed(samples, bytes)
  BY DEF AnalyseBlock
<1>5. DOMAIN wav = {"place", "file", "metadata", "format", "data", "chunks", "remaining", "read",
                    "minimum", "maximum", "peak", "clippedPositive", "clippedNegative"}
  BY Zenon DEF isAnalysed
<1> DEFINE values == samplesOf(samples)
<1>6. wav' = [wav EXCEPT
         !.remaining = @ - bytes, !.read = @ \o samples,
         !.minimum = Min(values \cup {@}), !.maximum = Max(values \cup {@}),
         !.peak = Max({magnitude(value) : value \in values} \cup {@}),
         !.clippedPositive = @ + occurrences(samples, 32767),
         !.clippedNegative = @ + occurrences(samples, -32768)]
  BY <1>4 DEF analysed
<1> HIDE DEF values, bytes, count
<1>7. /\ DOMAIN wav' = DOMAIN wav
      /\ wav'.place = wav.place /\ wav'.file = wav.file /\ wav'.metadata = wav.metadata
      /\ wav'.format = wav.format /\ wav'.data = wav.data /\ wav'.chunks = wav.chunks
      /\ wav'.remaining = wav.remaining - bytes /\ wav'.read = wav.read \o samples
  BY <1>5, <1>6
<1>8. /\ wav'.minimum = Min(values \cup {wav.minimum})
      /\ wav'.maximum = Max(values \cup {wav.maximum})
      /\ wav'.peak = Max({magnitude(value) : value \in values} \cup {wav.peak})
      /\ wav'.clippedPositive = wav.clippedPositive + occurrences(samples, 32767)
      /\ wav'.clippedNegative = wav.clippedNegative + occurrences(samples, -32768)
  BY <1>5, <1>6
<1>9. isCountedOn(wav', wav, samples)
  BY <1>8 DEF isCountedOn, values
<1>10. /\ samples \in Seq(PcmSamples) /\ Len(samples) = count
       /\ wav.read \o samples \in Seq(PcmSamples)
       /\ Len(wav.read \o samples) = Len(wav.read) + count
       /\ isOwn => wav.read \o samples = SubSeq(wav.file.samples, 1, Len(wav.read) + count)
  BY <1>3, BlockIs
<1>11. isCounted(wav.read \o samples, wav')
  <2>1. samples # <<>>
    BY <1>3, <1>10 DEF Positive
  <2>2. isCounted(wav.read, wav)
    BY DEF isAnalysed
  <2> QED
    BY <1>1, <1>9, <1>10, <2>1, <2>2, CountGoesOn, Zenon
<1>12. /\ wav'.remaining \in Nat
       /\ wav'.remaining + 2 * Len(wav.read \o samples) = wav.data.size
  <2>1. bytes \in Nat /\ count \in Nat
    BY <1>3 DEF Positive
  <2>2. /\ wav.remaining \in Nat /\ Len(wav.read) \in Nat /\ wav.data.size \in Nat
        /\ wav.remaining + 2 * Len(wav.read) = wav.data.size
        /\ bytes = 2 * count /\ bytes <= wav.remaining
    BY <1>1, <1>3, <2>1
  <2>3. /\ wav.remaining - bytes \in Nat
        /\ (wav.remaining - bytes) + 2 * (Len(wav.read) + count) = wav.data.size
    BY <2>1, <2>2
  <2> QED
    BY <1>7, <1>10, <2>3, Zenon
<1>13. /\ isFile(wav.file, wav.metadata)
       /\ isTiled(wav.chunks, wav.file.size)
       /\ Cardinality(withTag(wav.chunks, "fmt ")) = 1
       /\ Cardinality(withTag(wav.chunks, "data")) = 1
       /\ wav.format.blockAlignment = 2
       /\ wav.data.size \in Nat /\ wav.data.size > 0 /\ wav.data.size % 2 = 0
  BY DEF isAnalysed
<1>14. isOwn => /\ wav.format.sampleRate = wav.metadata.sampleRate
                /\ wav.data.size = 2 * wav.metadata.frameCount
  BY DEF isAnalysed
<1> QED
  BY <1>1, <1>5, <1>7, <1>10, <1>11, <1>12, <1>13, <1>14 DEF isAnalysed, isOwn

(* Of a foreign file nothing is remembered.                                   *)
LEMMA OpenForeignKeeps == ASSUME OpenForeign PROVE WavInv'
<1>1. PICK size \in ForeignSizes :
        wav' = [place |-> "riff", file |-> [size |-> size], metadata |-> NoMetadata]
  BY DEF OpenForeign
<1>2. size \in Nat
  BY WavAssumption
<1>3. wav'.place = "riff" /\ wav'.file.size = size /\ wav'.metadata = NoMetadata
  BY <1>1
<1> QED
  BY <1>2, <1>3 DEF WavInv, isFile

(* What is accepted was read to its end.                                      *)
LEMMA AcceptedKeeps == ASSUME isAnalysed, Accepted PROVE isAnalysed'
<1>1. DOMAIN wav = {"place", "file", "metadata", "format", "data", "chunks", "remaining", "read",
                    "minimum", "maximum", "peak", "clippedPositive", "clippedNegative"}
  BY DEF isAnalysed
<1>2. /\ DOMAIN wav' = DOMAIN wav /\ wav'.place = "accepted"
      /\ wav'.file = wav.file /\ wav'.metadata = wav.metadata
      /\ wav'.format = wav.format /\ wav'.data = wav.data /\ wav'.chunks = wav.chunks
      /\ wav'.remaining = wav.remaining /\ wav'.read = wav.read
  BY <1>1 DEF Accepted
<1>3. /\ wav'.minimum = wav.minimum /\ wav'.maximum = wav.maximum /\ wav'.peak = wav.peak
      /\ wav'.clippedPositive = wav.clippedPositive
      /\ wav'.clippedNegative = wav.clippedNegative
  BY <1>1 DEF Accepted
<1>4. wav.remaining = 0
  BY DEF Accepted
<1>5. isCounted(wav.read, wav) /\ isFile(wav.file, wav.metadata)
  BY DEF isAnalysed
<1>6. isCounted(wav'.read, wav')
  BY <1>2, <1>3, <1>5 DEF isCounted
<1>7. wav.place \in {"analyse", "accepted"}
  BY DEF isAnalysed
<1> QED
  BY <1>1, <1>2, <1>4, <1>5, <1>6 DEF isAnalysed, isOwn

(* Each step of the writer and the inspector keeps the invariant.             *)
LEMMA WavKeeps == ASSUME WavInv, OfWav PROVE WavInv'
<1>1. \/ \E events \in Melodies, sampleRate \in SampleRates : BeginWav(events, sampleRate)
      \/ WriteBlock \/ FinishWav \/ OpenForeign
      \/ ReadRiff \/ ReadChunk \/ ChunksEnd \/ AnalyseBlock \/ Accepted
  BY Zenon DEF OfWav, WriteWav, Inspect
<1>2. CASE \E events \in Melodies, sampleRate \in SampleRates : BeginWav(events, sampleRate)
  BY <1>2, BeginWavKeeps
<1>3. CASE OpenForeign
  BY <1>3, OpenForeignKeeps
<1>4. NoWav.place = "none" /\ RefusedWav(NoMetadata).place = "refused"
  BY DEF NoWav, RefusedWav
<1>5. CASE WriteBlock \/ FinishWav
  <2>1. wav.place = "write"
    BY <1>5 DEF WriteBlock, FinishWav
  <2>2. isWriting
    BY <1>4, <2>1 DEF WavInv, isChunking, isAnalysed
  <2>3. isWriting' => WavInv'
    BY Zenon DEF WavInv
  <2> QED
    BY <1>5, <2>2, <2>3, WriteBlockKeeps, FinishWavKeeps, Zenon
<1>6. CASE ReadRiff
  <2>1. wav.place = "riff"
    BY <1>6 DEF ReadRiff
  <2>2. isFile(wav.file, wav.metadata)
    BY <1>4, <2>1 DEF WavInv, isChunking, isAnalysed, isWriting
  <2> QED
    BY <1>6, <2>1, <2>2, ReadRiffKeeps, Zenon
<1>7. CASE ReadChunk \/ ChunksEnd
  <2>1. wav.place = "chunks"
    <3>1. ReadChunk => wav.place = "chunks"
      BY DEF ReadChunk
    <3>2. ChunksEnd => wav.place = "chunks"
      BY DEF ChunksEnd
    <3> QED
      BY <1>7, <3>1, <3>2, Zenon
  <2>2. isChunking
    BY <1>4, <2>1 DEF WavInv, isAnalysed, isWriting
  <2> QED
    BY <1>7, <2>2, ReadChunkKeeps, ChunksEndKeeps, Zenon
<1>8. CASE AnalyseBlock \/ Accepted
  <2>1. wav.place = "analyse"
    BY <1>8 DEF AnalyseBlock, Accepted
  <2>2. isAnalysed
    BY <1>4, <2>1 DEF WavInv, isChunking, isWriting
  <2>3. isAnalysed' => WavInv'
    BY Zenon DEF WavInv
  <2> QED
    BY <1>8, <2>2, <2>3, AnalyseBlockKeeps, AcceptedKeeps, Zenon
<1> QED
  BY <1>1, <1>2, <1>3, <1>5, <1>6, <1>7, <1>8, Zenon

(* The peak is the magnitude of one of the extremes.                            *)
LEMMA PeakIsExtreme ==
  ASSUME NEW values \in SUBSET PcmSamples, values # {}, NEW least, NEW greatest, NEW peak,
         isLeast(least, values), isGreatest(greatest, values), isPeak(peak, values)
  PROVE  peak = Max({greatest, -least})
<1>1. /\ least \in values /\ \A value \in values : least <= value
      /\ greatest \in values /\ \A value \in values : value <= greatest
  BY DEF isLeast, isGreatest
<1>2. /\ \E value \in values : peak = magnitude(value)
      /\ \A value \in values : magnitude(value) <= peak
  BY DEF isPeak
<1>3. PICK value \in values : peak = magnitude(value)
  BY <1>2
<1>4. /\ peak \in Int /\ least \in Int /\ greatest \in Int /\ value \in Int
      /\ greatest <= peak /\ -least <= peak /\ (peak = value \/ peak = -value)
  BY <1>1, <1>2, <1>3, MagnitudeIs
<1>5. /\ {greatest, -least} \in SUBSET Int /\ {greatest, -least} # {}
      /\ \A s \in {greatest, -least} : s <= peak
  BY <1>4
<1>6. PICK both : both = {greatest, -least}
  OBVIOUS
<1>7. Max(both) \in both /\ \A s \in both : s <= Max(both)
  BY <1>4, <1>5, <1>6, GreatestIs
<1>8. /\ Max(both) \in Int /\ greatest <= Max(both) /\ -least <= Max(both)
      /\ Max(both) <= peak
  BY <1>4, <1>5, <1>6, <1>7
<1>9. value <= greatest /\ least <= value
  BY <1>1
<1>10. peak = Max(both)
  BY <1>4, <1>8, <1>9
<1> QED
  BY <1>6, <1>10

(* The samples of either extreme are counted once.                              *)
LEMMA ClippedIs ==
  ASSUME NEW read \in Seq(PcmSamples), NEW low \in Int, NEW high \in Int, low # high
  PROVE  occurrences(read, high) + occurrences(read, low)
           = Cardinality({k \in DOMAIN read : read[k] \in {low, high}})
<1> DEFINE lows == {k \in DOMAIN read : read[k] = low}
           highs == {k \in DOMAIN read : read[k] = high}
           all == {k \in DOMAIN read : read[k] \in {low, high}}
<1>1. read \in Seq(Int)
  <2>1. PcmSamples \subseteq Int
    BY PcmSampleIs
  <2> QED
    BY <2>1, SeqOfMore, Zenon
<1>2. IsFiniteSet(DOMAIN read)
  <2>1. DOMAIN read = 1 .. Len(read) /\ Len(read) \in Int /\ 1 \in Int
    OBVIOUS
  <2> QED
    BY <2>1, FS_Interval
<1>3. all = lows \cup highs /\ lows \cap highs = {}
  OBVIOUS
<1>4. lows \subseteq DOMAIN read /\ highs \subseteq DOMAIN read
  OBVIOUS
<1>5. occurrences(read, high) = Cardinality(highs) /\ occurrences(read, low) = Cardinality(lows)
  BY DEF occurrences
<1> HIDE DEF lows, highs, all
<1>6. IsFiniteSet(lows) /\ IsFiniteSet(highs)
  BY <1>2, <1>4, FS_Subset
<1>7. Cardinality(lows) \in Nat /\ Cardinality(highs) \in Nat
  BY <1>6, FS_CardinalityType
<1>8. Cardinality(lows \cup highs)
        = Cardinality(lows) + Cardinality(highs) - Cardinality(lows \cap highs)
  BY <1>6, FS_Union
<1>9. Cardinality(lows \cap highs) = 0
  BY <1>3, FS_EmptySet
<1>10. occurrences(read, high) + occurrences(read, low) = Cardinality(all)
  BY <1>3, <1>5, <1>7, <1>8, <1>9
<1> QED
  BY <1>10 DEF all

(* The invariant says what AcceptedFilesAreSound does.                        *)
LEMMA AcceptedIsSound == ASSUME WavInv PROVE AcceptedFilesAreSound
<1> DEFINE values == samplesOf(wav.read)
<1>1. NoWav.place = "none" /\ RefusedWav(NoMetadata).place = "refused"
  BY DEF NoWav, RefusedWav
<1>2. ASSUME wav.place = "refused" PROVE wav.metadata = NoMetadata
  <2>1. wav = RefusedWav(NoMetadata)
    BY <1>1, <1>2 DEF WavInv, isWriting, isChunking, isAnalysed
  <2> QED
    BY <2>1 DEF RefusedWav
<1>3. ASSUME wav.place = "accepted"
      PROVE /\ isTiled(wav.chunks, wav.file.size)
            /\ Cardinality(withTag(wav.chunks, "fmt ")) = 1
            /\ Cardinality(withTag(wav.chunks, "data")) = 1
            /\ Len(wav.read) = inspectedFrames(wav) /\ 2 * Len(wav.read) = wav.data.size
            /\ {wav.minimum, wav.maximum} \subseteq values
            /\ \A value \in values : value \in wav.minimum .. wav.maximum
            /\ wav.peak = Max({wav.maximum, -wav.minimum})
            /\ wav.clippedPositive + wav.clippedNegative = Cardinality(clippedOf(wav.read))
            /\ isOwn => /\ wav.read = wav.file.samples
                        /\ wav.metadata = [sampleRate |-> wav.format.sampleRate,
                                           frameCount |-> inspectedFrames(wav)]
  <2>1. isAnalysed
    BY <1>1, <1>3 DEF WavInv, isWriting, isChunking
  <2>2. /\ isTiled(wav.chunks, wav.file.size)
        /\ Cardinality(withTag(wav.chunks, "fmt ")) = 1
        /\ Cardinality(withTag(wav.chunks, "data")) = 1
    BY <2>1, Zenon DEF isAnalysed
  <2>3. /\ wav.format.blockAlignment = 2 /\ wav.data.size \in Nat /\ wav.data.size > 0
        /\ wav.read \in Seq(PcmSamples) /\ wav.remaining = 0
        /\ wav.remaining + 2 * Len(wav.read) = wav.data.size
        /\ isCounted(wav.read, wav)
    BY <1>3, <2>1, Zenon DEF isAnalysed
  <2>4. /\ Len(wav.read) \in Nat /\ 2 * Len(wav.read) = wav.data.size /\ wav.read # <<>>
        /\ Len(wav.read) = inspectedFrames(wav)
    BY <2>3 DEF inspectedFrames
  <2>5. /\ values \in SUBSET PcmSamples /\ values # {}
    <3>1. 1 \in DOMAIN wav.read
      BY <2>3, <2>4
    <3>2. \A k \in DOMAIN wav.read : wav.read[k] \in PcmSamples
      BY <2>3
    <3> QED
      BY <3>1, <3>2, Zenon DEF samplesOf
  <2>6. /\ isLeast(wav.minimum, values) /\ isGreatest(wav.maximum, values)
        /\ isPeak(wav.peak, values)
    BY <2>3 DEF isCounted
  <2>7. wav.peak = Max({wav.maximum, -wav.minimum})
    BY <2>5, <2>6, PeakIsExtreme
  <2>8. /\ {wav.minimum, wav.maximum} \subseteq values
        /\ \A value \in values : value \in wav.minimum .. wav.maximum
    <3>1. /\ wav.minimum \in values /\ wav.maximum \in values
          /\ \A value \in values : wav.minimum <= value /\ value <= wav.maximum
      BY <2>5, <2>6 DEF isLeast, isGreatest
    <3>2. \A value \in values : value \in Int
      BY <2>5, PcmSampleIs
    <3> HIDE DEF values
    <3> QED
      BY <3>1, <3>2
  <2>9. wav.clippedPositive + wav.clippedNegative = Cardinality(clippedOf(wav.read))
    <3>1. PICK low \in Int, high \in Int : low = -32768 /\ high = 32767 /\ low # high
      OBVIOUS
    <3>2. wav.clippedPositive = occurrences(wav.read, high) /\ wav.clippedNegative = occurrences(wav.read, low)
      BY <2>3, <3>1 DEF isCounted
    <3>3. wav.clippedPositive + wav.clippedNegative
            = Cardinality({k \in DOMAIN wav.read : wav.read[k] \in {low, high}})
      BY <2>3, <3>1, <3>2, ClippedIs
    <3>4. clippedOf(wav.read) = {k \in DOMAIN wav.read : wav.read[k] \in {low, high}}
      BY <3>1 DEF clippedOf
    <3> QED
      BY <3>3, <3>4
  <2>10. ASSUME isOwn
         PROVE  /\ wav.read = wav.file.samples
                /\ wav.metadata = [sampleRate |-> wav.format.sampleRate,
                                   frameCount |-> inspectedFrames(wav)]
    <3>1. /\ wav.format.sampleRate = wav.metadata.sampleRate
          /\ wav.data.size = 2 * wav.metadata.frameCount
          /\ wav.read = SubSeq(wav.file.samples, 1, Len(wav.read))
          /\ isOwnFile(wav.file, wav.metadata)
      BY <2>1, <2>10, Zenon DEF isAnalysed, isFile, isOwn
    <3>2. /\ wav.metadata.frameCount \in Positive
          /\ wav.metadata = [sampleRate |-> wav.metadata.sampleRate,
                             frameCount |-> wav.metadata.frameCount]
          /\ wav.file.samples \in Seq(PcmSamples)
          /\ Len(wav.file.samples) = wav.metadata.frameCount
      BY <3>1, Zenon DEF isOwnFile
    <3>3. wav.metadata.frameCount = Len(wav.read)
      BY <2>4, <3>1, <3>2 DEF Positive
    <3>4. wav.read = SubSeq(wav.file.samples, 1, Len(wav.file.samples))
      BY <3>1, <3>2, <3>3
    <3>5. wav.read = wav.file.samples
      BY <3>2, <3>4, SubSeqFull
    <3> QED
      BY <2>4, <3>1, <3>2, <3>3, <3>5
  <2> HIDE DEF values
  <2> QED
    BY <2>2, <2>4, <2>7, <2>8, <2>9, <2>10, Zenon
<1> QED
  BY <1>2, <1>3, Zenon DEF AcceptedFilesAreSound

-----------------------------------------------------------------------------
(* The job.  The frame that a picture is prepared for is that of a registered     *)
(* mode.                                                                     *)
PreparationInv == ImageInv /\ (stage = "image" => mode \in DOMAIN modes)

(* Every mode has the size of a frame.                                        *)
LEMMA ModesHaveFrames == \A id \in DOMAIN modes : modes[id].width \in Nat /\ modes[id].height \in Nat
BY DEF modes, Mode

(* Each step of the preparation keeps the invariant.                          *)
LEMMA PreparationKeeps == ASSUME PreparationInv, OfImage PROVE PreparationInv'
<1>1. ASSUME NEW fit \in {"contain", "cover"}, NEW crop \in Crops \cup {NoCrop},
             BeginImage(modes[mode].width, modes[mode].height, fit, crop)
      PROVE  ImageInv'
  <2> DEFINE width == modes[mode].width
             height == modes[mode].height
  <2>1. width \in Nat /\ height \in Nat
    BY ModesHaveFrames DEF PreparationInv, OfImage
  <2> HIDE DEF width, height
  <2>2. BeginImage(width, height, fit, crop)
    BY <1>1 DEF width, height
  <2> QED
    BY <2>1, <2>2, BeginImageKeeps DEF PreparationInv
<1>2. ASSUME PrepareImage PROVE ImageInv'
  BY <1>2, OpenKeeps, ScanKeeps, ImageHeaderKeeps, CropKeeps, LoadKeeps, ColourKeeps, FitKeeps,
     MaterialiseKeeps DEF PreparationInv, PrepareImage
<1> QED
  BY <1>1, <1>2 DEF PreparationInv, OfImage

(* Each step of a job keeps the invariant of the image.                       *)
LEMMA PreparationNext == ASSUME PreparationInv, [OfflineJobNext]_jobVars PROVE PreparationInv'
<1>1. CASE OfImage
  BY <1>1, PreparationKeeps
<1>2. ASSUME UNCHANGED image, stage' = "image" => mode' \in DOMAIN modes PROVE PreparationInv'
  <2>1. ImageInv'
    BY <1>2 DEF PreparationInv, ImageInv, DecodedOK, FittedOK
  <2> QED
    BY <1>2, <2>1 DEF PreparationInv
<1>3. CASE OfEncoder \/ OfSource \/ OfWav \/ UNCHANGED jobVars
  BY <1>2, <1>3 DEF OfEncoder, OfSource, OfWav, jobVars, PreparationInv
<1>4. CASE ChooseMode
  BY <1>2, <1>4 DEF ChooseMode, data
<1>5. CASE ChooseFile \/ GoOn
  <2>1. PICK next : next # "image" /\ Enter(next)
    BY <1>5 DEF ChooseFile, GoOn
  <2>2. image' = NoImage /\ stage' # "image"
    BY <2>1 DEF Enter
  <2> QED
    BY <2>2 DEF PreparationInv, ImageInv, NoImage
<1> QED
  BY <1>1, <1>3, <1>4, <1>5 DEF OfflineJobNext

(* Whatever the size and the orientation of an image, the crop and the fit, the   *)
(* picture fits its frame, keeps its shape to within a pixel and is not enlarged   *)
(* from a JPEG that was decoded smaller: geometry(), jpegShrink() and the crop     *)
(* of src/image/image.cpp agree.                                               *)
THEOREM PreparedFrameFitsHolds == OfflineJobSpec => []PreparedFrameFits
<1>1. OfflineJobInit => PreparationInv
  BY DEF OfflineJobInit, ImageInit, PreparationInv, ImageInv, NoImage
<1>2. PreparationInv /\ [OfflineJobNext]_jobVars => PreparationInv'
  BY PreparationNext
<1>3. PreparationInv => PreparedFrameFits
  BY PreparedFits DEF PreparationInv
<1> QED
  BY <1>1, <1>2, <1>3, PTL DEF OfflineJobSpec

(* A picture is converted only for a registered mode that is not of RGB.           *)
LEMMA ConvertedModes ==
  ASSUME EncInv
  PROVE  tx.place = "convert" => tx.mode \in DOMAIN modes /\ modes[tx.mode].layout # "rgb"
BY ModesAre DEF EncInv, isUnderway, NoTransmission

(* Each step of a job keeps the invariant of the picture.                     *)
LEMMA PictureNext ==
  ASSUME PictureInv, TransmissionInv, [OfflineJobNext]_jobVars PROVE PictureInv'
<1>1. CASE OfEncoder
  BY <1>1, PictureKeeps, ConvertedModes DEF TransmissionInv
<1>2. CASE UNCHANGED picture
  BY <1>2 DEF PictureInv
<1>3. CASE picture' = NoPicture
  BY <1>3 DEF PictureInv
<1> QED
  BY <1>1, <1>2, <1>3, StepsOfParts

(* For every frame of pixels: luma and differences are in the studio range, grey    *)
(* has no colour, and a difference is where its block is and towards the colour that *)
(* is there.  The integer arithmetic and the averages of convertToYCbCr() hold to it. *)
THEOREM ColoursAreLegalHolds == OfflineJobSpec => []ColoursAreLegal
<1>1. OfflineJobInit => PictureInv
  BY DEF OfflineJobInit, EncoderInit, PictureInv
<1>2. PictureInv /\ TransmissionInv /\ [OfflineJobNext]_jobVars => PictureInv'
  BY PictureNext
<1>3. PictureInv => ColoursAreLegal
  BY PicturesAreLegal
<1> QED
  BY <1>1, <1>2, <1>3, TransmissionCorrect, PTL DEF OfflineJobSpec

(* Each step of a job keeps the invariant of the file.                        *)
LEMMA WavNext == ASSUME WavInv, [OfflineJobNext]_jobVars PROVE WavInv'
<1>1. CASE OfWav
  BY <1>1, WavKeeps
<1>2. CASE UNCHANGED wav
  BY <1>2, ZenonT(30) DEF WavInv, isWriting, isChunking, isAnalysed, isOwn
<1>3. CASE wav' = NoWav
  BY <1>3 DEF WavInv
<1> QED
  BY <1>1, <1>2, <1>3, StepsOfParts

(* Whatever a file holds: the inspector accepts it only if its chunks cover it      *)
(* without gaps, there is one format and one body, and every sample was counted; and *)
(* a file that WavWriter wrote is accepted, and found to be what was written.       *)
THEOREM AcceptedFilesAreSoundHolds == OfflineJobSpec => []AcceptedFilesAreSound
<1>1. OfflineJobInit => WavInv
  BY DEF OfflineJobInit, WavInit, WavInv
<1>2. WavInv /\ [OfflineJobNext]_jobVars => WavInv'
  BY WavNext
<1>3. WavInv => AcceptedFilesAreSound
  BY AcceptedIsSound
<1> QED
  BY <1>1, <1>2, <1>3, PTL DEF OfflineJobSpec
=============================================================================
