---------------------------- MODULE OfflineEditor ----------------------------
(***************************************************************************)
(* The offline editor and the commands of the command line over the files   *)
(* they share: TxEditorModel with its generation gate, its preview and its   *)
(* pool of worker threads (apps/gui/tx_editor_model.cpp), the work itself    *)
(* (src/app/offline_tx_editor.cpp, src/image/image.cpp, src/core/wav_writer  *)
(* and wav_inspector.cpp), step by step where another process can come in    *)
(* between, and the same work in the process of a command.                   *)
(*                                                                         *)
(* What a file contains is who wrote it; its number stands for device and    *)
(* inode.  Results reach the editor through the event loop, in the order in  *)
(* which the workers ended.                                                  *)
(***************************************************************************)
EXTENDS Integers, Sequences, SequencesExt, FiniteSets

CONSTANTS
  MaxRevision,   \* bound on GenerationGate::current
  MaxJobs,       \* bound on requests and commands together
  MaxForeign,    \* bound on what others do to the files
  PoolSize,      \* threads of the pool
  MaxAttempts,   \* names tried for a temporary file
  Scopes         \* which of all that a behaviour has

RequestKinds == {"png", "wav", "inspect"}
CommandKinds == {"prepare-image", "encode-image", "encode-test-pattern", "inspect-wav"}

ASSUME BoundsAssumption ==
  /\ MaxRevision \in Nat /\ MaxJobs \in Nat /\ MaxForeign \in Nat
  /\ PoolSize \in Nat \ {0} /\ MaxAttempts \in Nat
  /\ Scopes \subseteq [revisions : 0 .. MaxRevision, jobs : 0 .. MaxJobs,
                       foreign : 0 .. MaxForeign, requests : SUBSET RequestKinds,
                       commands : SUBSET CommandKinds]

VARIABLES
  editor,     \* currentState, inputPath and the overwrite question asked
  gate,       \* GenerationGate::current
  snapshot,   \* the prepared state the editor shows, or None
  shown,      \* the revision whose image the preview provider has
  jobs,       \* every request, in the order it was made
  ended,   \* jobs whose watcher is about to signal
  files,      \* path -> file or NoFile
  temps,      \* name of a temporary file -> who opened it and wrote all of it
  foreign,    \* number of things others did
  scope       \* the bounds of this behaviour

ui == <<editor, gate, snapshot, shown>>
disk == <<files, temps>>
vars == <<ui, jobs, ended, disk, foreign, scope>>

Paths == {"picture", "out"}
None == [revision |-> 0, input |-> "picture", header |-> 0, pixels |-> 0]
NoPath == "none"
NoFile == [kind |-> "none", number |-> 0, whole |-> TRUE]
UserFile(kind, number) == [kind |-> kind, number |-> number, whole |-> TRUE]
NoTemp == [opened |-> {}, written |-> {}]
Left == [opened |-> {0}, written |-> {0}]

(* The name holds destination, process and attempt; a command is a process.   *)
Owners == {"editor", "command"}
TempNames == Paths \X Owners \X (1 .. MaxAttempts)

Places == {"queued", "compare", "header", "decode", "validate", "begin", "write",
           "publish", "unlink", "stat", "open", "over"}
Results == {"none", "error", "exists", "done"}
States == {"initial", "loading", "ready", "exporting", "completed", "error"}
isBusy == editor.state \in {"loading", "exporting"}
inFlight == {j \in DOMAIN jobs : jobs[j].place # "over"}

TypeOK ==
  /\ editor \in [state : States, input : Paths \cup {NoPath},
                 pending : {"none", "png", "wav"}, target : Paths]
  /\ gate \in 0 .. MaxRevision /\ shown \in 0 .. MaxRevision
  /\ snapshot.revision \in 0 .. MaxRevision
  /\ \A j \in DOMAIN jobs :
       /\ jobs[j].kind \in {"prepare", "gone"} \cup RequestKinds \cup CommandKinds
       /\ jobs[j].place \in Places /\ jobs[j].result \in Results
       /\ jobs[j].attempt \in 0 .. MaxAttempts
       /\ jobs[j].place \in {"write", "publish", "unlink"} => jobs[j].attempt > 0
  /\ ended \in Seq(DOMAIN jobs)
  /\ foreign \in 0 .. MaxForeign /\ scope \in Scopes
  /\ DOMAIN files = Paths /\ DOMAIN temps = TempNames

Init ==
  /\ editor = [state |-> "initial", input |-> NoPath, pending |-> "none", target |-> "out"]
  /\ gate = 0 /\ snapshot = None /\ shown = 0
  /\ jobs = <<>> /\ ended = <<>>
  /\ \E out \in {NoFile, UserFile("image", 2)} :
       files = [p \in Paths |-> IF p = "picture" THEN UserFile("image", 1) ELSE out]
  /\ temps = [name \in TempNames |-> NoTemp]
  /\ foreign = 0
  /\ scope \in Scopes

-----------------------------------------------------------------------------
(* The editor, on the thread of its events.                                  *)

Job(kind, place, revision, path, input, replace) ==
  [kind |-> kind, place |-> place, revision |-> revision, path |-> path, input |-> input,
   replace |-> replace, header |-> 0, read |-> 0, attempt |-> 0, result |-> "none"]

Gone == Job("gone", "over", 0, "out", "out", FALSE)

Submit(kind, revision, path, input, replace) ==
  /\ Len(jobs) < scope.jobs
  /\ jobs' = Append(jobs, Job(kind, "queued", revision, path, input, replace))

uiFrame == UNCHANGED <<ended, disk, foreign, scope>>

(* selectInput(): the new image replaces whatever was prepared.              *)
SelectInput(path) ==
  /\ gate < scope.revisions
  /\ gate' = gate + 1
  /\ snapshot' = None
  /\ editor' = [editor EXCEPT !.state = "initial", !.input = path]
  /\ UNCHANGED <<shown, jobs>>
  /\ uiFrame

(* updateRequest(): the settings are refused, or a worker prepares them.      *)
UpdateRequest ==
  /\ gate < scope.revisions
  /\ gate' = gate + 1
  /\ snapshot' = None
  /\ \/ /\ editor' = [editor EXCEPT !.state = "error"]
        /\ UNCHANGED jobs
     \/ /\ editor.input # NoPath
        /\ editor' = [editor EXCEPT !.state = "loading"]
        /\ Submit("prepare", gate', editor.input, editor.input, FALSE)
  /\ UNCHANGED shown
  /\ uiFrame

isAny(revision) == TRUE
isCurrent(revision) == revision = gate

Export(kind, path, replace) ==
  /\ UNCHANGED <<gate, snapshot, shown>>
  /\ IF snapshot = None
     THEN /\ editor' = [editor EXCEPT !.state = "error", !.pending = "none", !.target = "out"]
          /\ UNCHANGED jobs
     ELSE /\ editor' = [editor EXCEPT !.state = "exporting", !.pending = "none", !.target = "out"]
          /\ Submit(kind, snapshot.revision, path, snapshot.input, replace)
  /\ uiFrame

(* exportPng() and exportWav() from their dialogs, which cannot be open while *)
(* an export runs; a confirmed overwrite exports what is prepared by then.     *)
ExportTo(kind, path) ==
  editor.state # "exporting" /\ editor.pending = "none" /\ Export(kind, path, FALSE)

ConfirmOverwrite ==
  /\ editor.state # "exporting" /\ editor.pending # "none"
  /\ Export(editor.pending, editor.target, TRUE)

DeclineOverwrite ==
  /\ editor.pending # "none"
  /\ editor' = [editor EXCEPT !.pending = "none", !.target = "out"]
  /\ UNCHANGED <<gate, snapshot, shown, jobs>>
  /\ uiFrame

InspectWav(path) ==
  /\ editor.state # "exporting" /\ editor.pending = "none"
  /\ editor' = [editor EXCEPT !.state = "loading"]
  /\ Submit("inspect", 0, path, path, FALSE)
  /\ UNCHANGED <<gate, snapshot, shown>>
  /\ uiFrame

-----------------------------------------------------------------------------
(* Results.  Only an inspection is accepted whatever happened since.          *)

AcceptSnapshot(job) ==
  IF ~isCurrent(job.revision) THEN UNCHANGED <<editor, snapshot, shown>>
  ELSE IF job.result = "error"
  THEN editor' = [editor EXCEPT !.state = "error"] /\ UNCHANGED <<snapshot, shown>>
  ELSE /\ snapshot' = [revision |-> job.revision, input |-> job.input,
                       header |-> job.header, pixels |-> job.read]
       /\ shown' = job.revision
       /\ editor' = [editor EXCEPT !.state = "ready"]

(* The same without a case for the error.                                    *)
acceptOnlySuccess(job) ==
  /\ editor' =
       IF isCurrent(job.revision) /\ job.result = "done"
       THEN [editor EXCEPT !.state = "completed"] ELSE editor
  /\ UNCHANGED <<snapshot, shown>>

AcceptExport(job) ==
  /\ editor' =
       IF ~isCurrent(job.revision) THEN editor
       ELSE CASE job.result = "exists" -> [editor EXCEPT !.state = "ready",
                                             !.pending = job.kind, !.target = job.path]
              [] job.result = "error" -> [editor EXCEPT !.state = "error"]
              [] job.result = "done" -> [editor EXCEPT !.state = "completed"]
  /\ UNCHANGED <<snapshot, shown>>

AcceptInspection(job) ==
  /\ editor' = [editor EXCEPT !.state = IF job.result = "done" THEN "completed" ELSE "error"]
  /\ UNCHANGED <<snapshot, shown>>

Accept ==
  /\ ended # <<>>
  /\ LET job == jobs[Head(ended)] IN
       CASE job.kind = "prepare" -> AcceptSnapshot(job)
         [] job.kind \in {"png", "wav"} -> AcceptExport(job)
         [] job.kind = "inspect" -> AcceptInspection(job)
  /\ ended' = Tail(ended)
  /\ jobs' = [jobs EXCEPT ![Head(ended)] = Gone]
  /\ UNCHANGED <<gate, disk, foreign, scope>>

-----------------------------------------------------------------------------
(* The workers and the commands: step by step of job j.                       *)

ownerOf(job) == IF job.kind \in CommandKinds THEN "command" ELSE "editor"
nameOf(job) == <<job.path, ownerOf(job), job.attempt>>
holdsTemp(job) == job.place \in {"write", "publish", "unlink"}

firstPlace(kind) ==
  CASE kind = "prepare" -> "header"
    [] kind \in {"png", "wav"} -> "validate"
    [] kind \in {"inspect", "inspect-wav"} -> "stat"
    [] kind \in {"prepare-image", "encode-image"} -> "compare"
    [] kind = "encode-test-pattern" -> "begin"

Start(j) ==
  /\ jobs[j].place = "queued"
  /\ \A i \in 1 .. j - 1 : jobs[i].place # "queued"
  /\ Cardinality({i \in inFlight : ownerOf(jobs[i]) = "editor" /\ jobs[i].place # "queued"})
       < PoolSize
  /\ jobs' = [jobs EXCEPT ![j].place = firstPlace(jobs[j].kind)]
  /\ UNCHANGED <<ui, ended, disk, foreign, scope>>

Command(kind, path, replace) ==
  /\ \A j \in inFlight : jobs[j].kind \notin CommandKinds
  /\ Len(jobs) < scope.jobs
  /\ jobs' = Append(jobs, Job(kind, firstPlace(kind), 0, path, "picture", replace))
  /\ UNCHANGED <<ui, ended, disk, foreign, scope>>

at(j, place) == j \in DOMAIN jobs /\ jobs[j].place = place
stepFrame == UNCHANGED <<ui, foreign, scope>>

Goto(j, place) == jobs' = [jobs EXCEPT ![j].place = place] /\ UNCHANGED ended

(* A worker's watcher will signal; a command prints and exits.                *)
Over(j, result) ==
  IF ownerOf(jobs[j]) = "editor"
  THEN /\ jobs' = [jobs EXCEPT ![j].place = "over", ![j].result = result]
       /\ ended' = Append(ended, j)
  ELSE jobs' = [jobs EXCEPT ![j] = Gone] /\ UNCHANGED ended

isSame(p, q) == files[p] # NoFile /\ files[q] # NoFile /\ files[p].number = files[q].number

(* rejectSameInputOutput()                                                   *)
Compare(j) ==
  /\ at(j, "compare")
  /\ IF jobs[j].input = jobs[j].path \/ isSame(jobs[j].input, jobs[j].path)
     THEN Over(j, "error") ELSE Goto(j, "header")
  /\ UNCHANGED disk /\ stepFrame

(* readHeader(): one descriptor, closed again.                               *)
Header(j) ==
  /\ at(j, "header")
  /\ LET file == files[jobs[j].input] IN
     IF file.kind # "image" THEN Over(j, "error")
     ELSE /\ jobs' = [jobs EXCEPT ![j].place = "decode", ![j].header = file.number]
          /\ UNCHANGED ended
  /\ UNCHANGED disk /\ stepFrame

(* validateIdentity()                                                        *)
isIdentical(expected, actual) == expected = actual

(* The second descriptor and the pixels; a command goes on to its output.      *)
Decode(j) ==
  /\ at(j, "decode")
  /\ LET file == files[jobs[j].input] IN
     IF file = NoFile \/ file.kind # "image" \/ ~isIdentical(jobs[j].header, file.number)
     THEN Over(j, "error")
     ELSE IF jobs[j].kind = "prepare"
     THEN /\ jobs' = [jobs EXCEPT ![j].place = "over", ![j].result = "done",
                                  ![j].read = file.number]
          /\ ended' = Append(ended, j)
     ELSE Goto(j, "begin")
  /\ UNCHANGED disk /\ stepFrame

(* validateOutput()                                                          *)
Validate(j) ==
  /\ at(j, "validate")
  /\ LET file == files[jobs[j].path] IN
     CASE file = NoFile -> Goto(j, "begin")
       [] file # NoFile /\ isSame(jobs[j].input, jobs[j].path) -> Over(j, "error")
       [] file # NoFile /\ ~isSame(jobs[j].input, jobs[j].path) /\ ~jobs[j].replace
            -> Over(j, "exists")
       [] OTHER -> IF file.kind = "special" THEN Over(j, "error") ELSE Goto(j, "begin")
  /\ UNCHANGED disk /\ stepFrame

(* The first name that nobody has, as O_EXCL makes sure.                      *)
firstAttempt(job) == 1
freeAttempt(job) ==
  LET free == {a \in 1 .. MaxAttempts : temps[<<job.path, ownerOf(job), a>>] = NoTemp} IN
    IF free = {} THEN 0 ELSE CHOOSE a \in free : \A b \in free : a <= b

Begin(j) ==
  /\ at(j, "begin")
  /\ LET attempt == freeAttempt(jobs[j]) IN
     IF (~jobs[j].replace /\ files[jobs[j].path] # NoFile) \/ attempt = 0
     THEN Over(j, "error") /\ UNCHANGED disk
     ELSE /\ jobs' = [jobs EXCEPT ![j].place = "write", ![j].attempt = attempt]
          /\ temps' = [temps EXCEPT ![<<jobs[j].path, ownerOf(jobs[j]), attempt>>].opened = @ \cup {j}]
          /\ UNCHANGED <<ended, files>>
  /\ stepFrame

(* Everything is in the file and on the disk.                                *)
Write(j) ==
  /\ at(j, "write")
  /\ temps' = [temps EXCEPT ![nameOf(jobs[j])].written = @ \cup {j}]
  /\ Goto(j, "publish")
  /\ UNCHANGED files /\ stepFrame

fileOf(j) ==
  [kind |-> IF jobs[j].kind \in {"png", "prepare-image"} THEN "image" ELSE "wav",
   number |-> 2 + MaxForeign + j,
   whole |-> temps[nameOf(jobs[j])] = [opened |-> {j}, written |-> {j}]]

afterPublish(j) == IF jobs[j].kind = "wav" THEN Goto(j, "stat") ELSE Over(j, "done")

(* publish(): rename() replaces, link() never does.                          *)
mayAlwaysLink(path) == TRUE
mayLink(path) == files[path] = NoFile

Publish(j) ==
  /\ at(j, "publish")
  /\ LET path == jobs[j].path IN
     IF jobs[j].replace
     THEN /\ files' = [files EXCEPT ![path] = fileOf(j)]
          /\ temps' = [temps EXCEPT ![nameOf(jobs[j])] = NoTemp]
          /\ afterPublish(j)
     ELSE IF mayLink(path)
     THEN /\ files' = [files EXCEPT ![path] = fileOf(j)]
          /\ Goto(j, "unlink")
          /\ UNCHANGED temps
     ELSE /\ temps' = [temps EXCEPT ![nameOf(jobs[j])] = NoTemp]
          /\ Over(j, "error")
          /\ UNCHANGED files
  /\ stepFrame

(* The name that was linked goes away; if it cannot, so does the destination.  *)
Unlink(j) ==
  /\ at(j, "unlink")
  /\ \/ /\ temps' = [temps EXCEPT ![nameOf(jobs[j])] = NoTemp]
        /\ afterPublish(j)
        /\ UNCHANGED files
     \/ /\ files' = [files EXCEPT ![jobs[j].path] = NoFile]
        /\ temps' = [temps EXCEPT ![nameOf(jobs[j])] = Left]
        /\ Over(j, "error")
  /\ stepFrame

(* inspectFile(): lstat(), then a descriptor on the same file.                *)
Stat(j) ==
  /\ at(j, "stat")
  /\ LET file == files[jobs[j].path] IN
     IF file.kind \in {"none", "special"} THEN Over(j, "error")
     ELSE /\ jobs' = [jobs EXCEPT ![j].place = "open", ![j].header = file.number]
          /\ UNCHANGED ended
  /\ UNCHANGED disk /\ stepFrame

Open(j) ==
  /\ at(j, "open")
  /\ LET file == files[jobs[j].path] IN
       IF file.kind = "wav" /\ isIdentical(jobs[j].header, file.number)
       THEN Over(j, "done") ELSE Over(j, "error")
  /\ UNCHANGED disk /\ stepFrame

(* Bad settings or data, a full disk, an exception: the temporary goes away.   *)
Fail(j) ==
  /\ j \in inFlight /\ jobs[j].place \notin {"queued", "unlink"}
  /\ temps' = IF holdsTemp(jobs[j]) THEN [temps EXCEPT ![nameOf(jobs[j])] = NoTemp] ELSE temps
  /\ Over(j, "error")
  /\ UNCHANGED files /\ stepFrame

Step(j) ==
  \/ Compare(j) \/ Header(j) \/ Decode(j) \/ Validate(j) \/ Begin(j) \/ Write(j)
  \/ Publish(j) \/ Unlink(j) \/ Stat(j) \/ Open(j)

(* Some thread that has work goes on.                                        *)
Work == \E j \in DOMAIN jobs : Start(j) \/ Step(j)

-----------------------------------------------------------------------------
(* Everybody else.                                                           *)

Foreign(path) ==
  /\ foreign < scope.foreign
  /\ foreign' = foreign + 1
  /\ \E file \in {NoFile} \cup {UserFile(kind, 3 + foreign) : kind \in {"image", "special"}} :
       files' = [files EXCEPT ![path] = file]
  /\ UNCHANGED <<ui, jobs, ended, temps, scope>>

Next ==
  \/ SelectInput("picture")
  \/ UpdateRequest
  \/ \E kind \in scope.requests \cap {"png", "wav"}, path \in Paths : ExportTo(kind, path)
  \/ ConfirmOverwrite \/ DeclineOverwrite
  \/ "inspect" \in scope.requests /\ InspectWav("out")
  \/ Accept
  \/ \E kind \in scope.commands, replace \in BOOLEAN : Command(kind, "out", replace)
  \/ Work
  \/ \E j \in DOMAIN jobs : Fail(j)
  \/ \E path \in Paths : Foreign(path)

Spec == Init /\ [][Next]_vars

(* The threads of the pool run, and so does the event loop.                   *)
FairSpec ==
  /\ Spec
  /\ WF_vars(Accept) /\ WF_vars(Work)

-----------------------------------------------------------------------------
(* What is shown and may be exported is what was asked for last: the revision  *)
(* of the gate, of the input that is selected, from one file, in the preview.  *)
PreviewIsCurrent ==
  /\ snapshot # None =>
       /\ snapshot.revision = gate /\ shown = gate
       /\ snapshot.input = editor.input
       /\ snapshot.header = snapshot.pixels
  /\ editor.state = "ready" => snapshot # None

(* Whatever runs at once or fails: a published file was written from its first  *)
(* byte to its last by one export alone, and a temporary file that nobody works  *)
(* on any more is one whose removal failed.                                     *)
FilesAreWhole ==
  /\ \A path \in Paths : files[path].whole
  /\ \A name \in TempNames, j \in DOMAIN jobs :
       j \in temps[name].opened => holdsTemp(jobs[j]) /\ name = nameOf(jobs[j])

(* A file that is there is replaced by an export only with the overwrite        *)
(* confirmed, and removed only by the cleanup of an export that linked it.      *)
OnlyConfirmedOverwrites ==
  [][\A path \in Paths :
       files[path] # NoFile /\ files'[path] # files[path] /\ foreign' = foreign
         => \E j \in inFlight :
              /\ jobs[j].path = path /\ jobs'[j].place # jobs[j].place
              /\ \/ jobs[j].place = "publish" /\ jobs[j].replace
                 \/ jobs[j].place = "unlink" /\ files'[path] = NoFile]_vars

(* The editor does not stay busy: there is an end to every preparation, export  *)
(* and inspection, with a result that is shown.                                *)
BusyEnds == isBusy ~> ~isBusy
=============================================================================
