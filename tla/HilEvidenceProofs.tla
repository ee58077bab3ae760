--------------------------- MODULE HilEvidenceProofs ---------------------------
(***************************************************************************)
(* A stage that the evidence calls passed was confirmed and seen to pass, for   *)
(* any number of terminals, commands and mishaps and whatever hil-manifest is   *)
(* told; and the two files agree between commands that neither overlapped nor   *)
(* ended halfway.                                                             *)
(***************************************************************************)
EXTENDS HilEvidence, TLAPS

-----------------------------------------------------------------------------
(* The shape of the files and of a command at each place.                     *)

Digests == {calculateHilConfigurationDigest(c) : c \in Configurations}
Results ==
  [state : {"passed", "failed", "not-run"}, source : {"automatically-measured", "not-measured"},
   finalPttCertainty : Certainties \cup {"unknown"}, skippedReason : {""}]
ShownResults ==
  [state : {"passed", "failed", "not-run"}, source : {"automatically-measured", "not-measured"},
   finalPttCertainty : Certainties \cup {"unknown"}]
Records == [configuration : Configurations, stages : [HilStages -> Results]]
ShownConfigurations == {[f \in shownFields |-> c[f]] : c \in Configurations}
ShownRecords == [configuration : ShownConfigurations, stages : [HilStages -> ShownResults]]

RunStages == {"discovery", "ptt-unkey"}
ToldVersions == {c.pttProviderVersion : c \in Configurations}
Measuring ==
  [place : {"prompt", "measure", "unkey"}, stage : RunStages, force : {TRUE},
   digest : Digests, version : ToldVersions]
ReadingJson == [place : {"read-json"}, stage : RunStages, force : {TRUE}, result : Results]
ReadingMarkdown ==
  [place : {"read-markdown"}, stage : RunStages, force : {TRUE}, result : Results,
   json : Records]
Publishing ==
  [place : {"json", "markdown"}, stage : RunStages \cup {"manifest"}, force : BOOLEAN,
   json : Records, markdown : ShownRecords]
Commands == {NoCommand} \cup Measuring \cup ReadingJson \cup ReadingMarkdown \cup Publishing

Shapes ==
  /\ json \in Records \cup {Absent}
  /\ markdown \in ShownRecords \cup {Absent}
  /\ command \in [Terminals -> Commands]
  /\ overlapped \in BOOLEAN

-----------------------------------------------------------------------------
(* The inductive invariant.                                                   *)

isEarned(stage) == \E entry \in earned : entry[2] = stage

(* What a file calls passed was seen, for some configuration.                  *)
Supported(file) ==
  \A s \in DOMAIN file.stages \ {"manifest"} : hasPassed(file, s) => isEarned(s)

(* What a file calls passed was seen for its configuration, in order.           *)
Sound(file) ==
  \A s \in DOMAIN file.stages \ {"manifest"} : hasPassed(file, s) =>
    /\ <<calculateHilConfigurationDigest(file.configuration), s>> \in earned
    /\ s = "ptt-unkey" => hasPassed(file, "discovery")

(* What a command has in its memory is supported, too.                         *)
SupportedCommand(t) ==
  /\ command[t] \in ReadingJson \cup ReadingMarkdown /\ command[t].result.state = "passed" =>
       isEarned(command[t].stage)
  /\ command[t] \in ReadingMarkdown \cup Publishing => Supported(command[t].json)
  /\ command[t] \in Publishing => Supported(command[t].markdown)

AllSupported ==
  Supported(json) /\ Supported(markdown) /\ \A t \in Terminals : SupportedCommand(t)

(* The file has not changed since the command read it.                         *)
IsCurrent(t) ==
  /\ json \in Records
  /\ ~hasPassed(json, command[t].stage)
  /\ command[t].stage = "ptt-unkey" => hasPassed(json, "discovery")

SoundCommand(t) ==
  /\ command[t] \in Measuring =>
       IsCurrent(t) /\ command[t].digest = calculateHilConfigurationDigest(json.configuration)
  /\ command[t] \in ReadingJson =>
       /\ IsCurrent(t)
       /\ command[t].result.state = "passed" =>
            <<calculateHilConfigurationDigest(json.configuration), command[t].stage>> \in earned
  /\ command[t] \in ReadingMarkdown \cup Publishing => Sound(command[t].json)

OneAtATime ==
  \A t, u \in Terminals : command[t] # NoCommand /\ command[u] # NoCommand => t = u

SoundAlone ==
  ~overlapped => OneAtATime /\ Sound(json) /\ \A t \in Terminals : SoundCommand(t)

EvidenceInv == Shapes /\ AllSupported /\ SoundAlone

-----------------------------------------------------------------------------
(* The place of a command tells its shape.                                    *)
LEMMA PlaceTells ==
  ASSUME NEW c \in Commands
  PROVE  /\ c.place \in {"prompt", "measure", "unkey"} => c \in Measuring
         /\ c.place = "read-json" => c \in ReadingJson
         /\ c.place = "read-markdown" => c \in ReadingMarkdown
         /\ c.place \in {"json", "markdown"} => c \in Publishing
         /\ c.place # "none" <=> c # NoCommand
<1>1. c = NoCommand => c.place = "none"
  BY DEF NoCommand
<1>2. c \in Measuring => c.place \in {"prompt", "measure", "unkey"}
  BY DEF Measuring
<1>3. c \in ReadingJson => c.place = "read-json"
  BY DEF ReadingJson
<1>4. c \in ReadingMarkdown => c.place = "read-markdown"
  BY DEF ReadingMarkdown
<1>5. c \in Publishing => c.place \in {"json", "markdown"}
  BY DEF Publishing
<1> QED
  BY <1>1, <1>2, <1>3, <1>4, <1>5 DEF Commands

LEMMA NoCommandShape ==
  /\ NoCommand \in Commands
  /\ NoCommand \notin Measuring \cup ReadingJson \cup ReadingMarkdown \cup Publishing
<1>1. NoCommand \in Commands
  BY DEF Commands
<1>2. NoCommand.place = "none"
  BY DEF NoCommand
<1> QED
  BY <1>1, <1>2 DEF Measuring, ReadingJson, ReadingMarkdown, Publishing

(* The files that are there are records; nothing is in one that is not.         *)
LEMMA FileShape ==
  /\ DOMAIN Absent.stages = {}
  /\ \A file \in Records \cup ShownRecords : DOMAIN file.stages = HilStages
<1>1. DOMAIN Absent.stages = {}
  <2>1. Absent.stages = <<>>
    BY DEF Absent
  <2>2. DOMAIN <<>> = {}
    OBVIOUS
  <2> QED
    BY <2>1, <2>2
<1>2. \A file \in Records \cup ShownRecords : DOMAIN file.stages = HilStages
  BY DEF Records, ShownRecords
<1> QED
  BY <1>1, <1>2

(* Nothing is said of a file that is not there.                                *)
LEMMA AbsentIsSound ==
  /\ Supported(Absent) /\ Sound(Absent)
  /\ Supported(Absent)' /\ Sound(Absent)'
BY FileShape DEF Supported, Sound

(* What was earned stays earned.                                               *)
LEMMA EarnedStays ==
  ASSUME earned \subseteq earned'
  PROVE  /\ \A stage : isEarned(stage) => isEarned(stage)'
         /\ \A file : Supported(file) => Supported(file)'
         /\ \A file : Sound(file) => Sound(file)'
<1>1. \A stage : isEarned(stage) => isEarned(stage)'
  BY DEF isEarned
<1> QED
  BY <1>1 DEF Supported, Sound

-----------------------------------------------------------------------------
(* A command goes on, the files as they were: it suffices to look at what it     *)
(* has become.                                                                *)
LEMMA CommandStep ==
  ASSUME EvidenceInv, NEW t \in Terminals, NEW c \in Commands,
         command[t] # NoCommand, command' = [command EXCEPT ![t] = c],
         UNCHANGED <<json, markdown, overlapped>>, earned \subseteq earned',
         SupportedCommand(t)', ~overlapped => SoundCommand(t)'
  PROVE  EvidenceInv'
<1>1. Shapes'
  BY DEF EvidenceInv, Shapes
<1>2. /\ command'[t] = c
      /\ \A u \in Terminals : u # t => command'[u] = command[u]
  BY DEF EvidenceInv, Shapes
<1>3. AllSupported'
  <2>1. Supported(json)' /\ Supported(markdown)'
    BY EarnedStays DEF EvidenceInv, AllSupported, Supported
  <2>2. ASSUME NEW u \in Terminals, u # t PROVE SupportedCommand(u)'
    BY <1>2, <2>2, EarnedStays DEF EvidenceInv, AllSupported, SupportedCommand, Supported
  <2> QED
    BY <2>1, <2>2 DEF AllSupported
<1>4. SoundAlone'
  <2> SUFFICES ASSUME ~overlapped PROVE SoundAlone'
    BY DEF SoundAlone
  <2>1. OneAtATime /\ Sound(json)
    BY DEF EvidenceInv, SoundAlone
  <2>2. OneAtATime'
    BY <1>2, <2>1 DEF OneAtATime
  <2>3. Sound(json)'
    BY <2>1, EarnedStays DEF Sound
  <2>4. ASSUME NEW u \in Terminals, u # t PROVE SoundCommand(u)'
    <3>1. command[u] = NoCommand
      BY <2>1, <2>4 DEF OneAtATime
    <3>2. command'[u] = NoCommand
      BY <1>2, <2>4, <3>1
    <3> QED
      BY <3>2, NoCommandShape DEF SoundCommand
  <2> QED
    BY <2>2, <2>3, <2>4 DEF SoundAlone
<1> QED
  BY <1>1, <1>3, <1>4 DEF EvidenceInv

(* A command ends, the files as they were.                                     *)
LEMMA EndStep ==
  ASSUME EvidenceInv, NEW t \in Terminals, command[t] # NoCommand, End(t),
         UNCHANGED <<json, markdown, overlapped, earned>>
  PROVE  EvidenceInv'
<1>1. command'[t] = NoCommand
  BY DEF End, EvidenceInv, Shapes
<1>2. SupportedCommand(t)' /\ SoundCommand(t)'
  BY <1>1, NoCommandShape DEF SupportedCommand, SoundCommand
<1> QED
  BY <1>2, NoCommandShape, CommandStep DEF End

-----------------------------------------------------------------------------
(* One lemma per action: it preserves the invariant.                          *)

(* No file calls anything passed at the start of a manifest.                   *)
LEMMA ManifestShape ==
  ASSUME NEW c \in Configurations
  PROVE  /\ makeManifest(c) \in Records
         /\ serializeHilEvidenceMarkdown(makeManifest(c)) \in ShownRecords
         /\ \A s \in HilStages \ {"manifest"} :
              /\ ~hasPassed(makeManifest(c), s)
              /\ ~hasPassed(serializeHilEvidenceMarkdown(makeManifest(c)), s)
<1> DEFINE record == makeManifest(c)
<1>1. record.stages \in [HilStages -> Results] /\ record.configuration = c
  BY DEF makeManifest, StageResult, Results
<1>2. record \in Records
  BY <1>1 DEF Records, makeManifest
<1>3. serializeHilEvidenceMarkdown(record) \in ShownRecords
  <2>1. \A s \in HilStages : record.stages[s] \in Results
    BY <1>1
  <2>2. [s \in HilStages |->
          [state |-> record.stages[s].state, source |-> record.stages[s].source,
           finalPttCertainty |-> record.stages[s].finalPttCertainty]]
          \in [HilStages -> ShownResults]
    BY <2>1 DEF Results, ShownResults
  <2>3. [f \in shownFields |-> record.configuration[f]] \in ShownConfigurations
    BY <1>1 DEF ShownConfigurations
  <2> HIDE DEF record
  <2> QED
    BY <2>2, <2>3 DEF ShownRecords, serializeHilEvidenceMarkdown
<1>4. \A s \in HilStages \ {"manifest"} : record.stages[s].state = "not-run"
  BY DEF makeManifest, StageResult
<1>5. \A s \in HilStages :
        serializeHilEvidenceMarkdown(record).stages[s].state = record.stages[s].state
  BY DEF serializeHilEvidenceMarkdown
<1> QED
  BY <1>2, <1>3, <1>4, <1>5 DEF hasPassed

(* A command is entered: it is alone, or commands have overlapped.             *)
LEMMA EnterStep ==
  ASSUME EvidenceInv, NEW t \in Terminals, NEW c \in Commands, EnterCommand(t, c),
         SupportedCommand(t)', inFlightCommands = {} /\ ~overlapped => SoundCommand(t)'
  PROVE  EvidenceInv'
<1>1. /\ command' = [command EXCEPT ![t] = c] /\ command[t] = NoCommand
      /\ UNCHANGED <<json, markdown, earned>>
      /\ overlapped' = (overlapped \/ inFlightCommands # {})
  BY DEF EnterCommand, evidenceFiles
<1>2. Shapes'
  BY <1>1 DEF EvidenceInv, Shapes
<1>3. /\ command'[t] = c
      /\ \A u \in Terminals : u # t => command'[u] = command[u]
  BY <1>1 DEF EvidenceInv, Shapes
<1>4. AllSupported'
  <2>1. Supported(json)' /\ Supported(markdown)'
    BY <1>1 DEF EvidenceInv, AllSupported, Supported, isEarned
  <2>2. ASSUME NEW u \in Terminals, u # t PROVE SupportedCommand(u)'
    BY <1>1, <1>3, <2>2 DEF EvidenceInv, AllSupported, SupportedCommand, Supported, isEarned
  <2> QED
    BY <2>1, <2>2 DEF AllSupported
<1>5. SoundAlone'
  <2> SUFFICES ASSUME ~overlapped' PROVE SoundAlone'
    BY DEF SoundAlone
  <2>1. ~overlapped /\ inFlightCommands = {}
    BY <1>1
  <2>2. \A u \in Terminals : u # t => command'[u] = NoCommand
    BY <1>3, <2>1 DEF inFlightCommands
  <2>3. OneAtATime'
    BY <2>2 DEF OneAtATime
  <2>4. Sound(json)'
    BY <1>1, <2>1 DEF EvidenceInv, SoundAlone, Sound
  <2>5. ASSUME NEW u \in Terminals, u # t PROVE SoundCommand(u)'
    BY <2>2, <2>5, NoCommandShape DEF SoundCommand
  <2> QED
    BY <2>1, <2>3, <2>4, <2>5 DEF SoundAlone
<1> QED
  BY <1>2, <1>4, <1>5 DEF EvidenceInv

LEMMA EnterManifestStep ==
  ASSUME EvidenceInv, NEW t \in Terminals, EnterManifest(t)
  PROVE  EvidenceInv'
<1>1. PICK configuration \in Configurations, force \in BOOLEAN :
        EnterCommand(t, [place |-> "json", stage |-> "manifest", force |-> force,
          json |-> makeManifest(configuration),
          markdown |-> serializeHilEvidenceMarkdown(makeManifest(configuration))])
  BY DEF EnterManifest, serializeHilEvidenceJson
<1> DEFINE record == makeManifest(configuration)
           shown == serializeHilEvidenceMarkdown(record)
           c == [place |-> "json", stage |-> "manifest", force |-> force,
                 json |-> record, markdown |-> shown]
<1>2. /\ record \in Records /\ shown \in ShownRecords
      /\ \A s \in HilStages \ {"manifest"} : ~hasPassed(record, s) /\ ~hasPassed(shown, s)
  BY ManifestShape
<1>3. DOMAIN record.stages = HilStages /\ DOMAIN shown.stages = HilStages
  BY <1>2, FileShape
<1> HIDE DEF record, shown
<1>4. c \in Publishing
  BY <1>2 DEF Publishing
<1>5. command'[t] = c
  BY <1>1 DEF EvidenceInv, Shapes, EnterCommand, record, shown
<1>6. c \notin Measuring /\ c \notin ReadingJson /\ c \notin ReadingMarkdown
  BY DEF Measuring, ReadingJson, ReadingMarkdown
<1>7. Supported(record)' /\ Supported(shown)' /\ Sound(record)'
  BY <1>2, <1>3 DEF Supported, Sound, hasPassed
<1>8. SupportedCommand(t)' /\ SoundCommand(t)'
  <2>1. c.json = record /\ c.markdown = shown
    OBVIOUS
  <2>2. Supported(command[t].json)' /\ Supported(command[t].markdown)' /\ Sound(command[t].json)'
    BY <1>5, <1>7, <2>1 DEF Supported, Sound
  <2> QED
    BY <1>5, <1>6, <2>2 DEF SupportedCommand, SoundCommand
<1>9. c \in Commands
  BY <1>4 DEF Commands
<1> QED
  BY <1>1, <1>8, <1>9, EnterStep DEF record, shown

LEMMA EnterStageStep ==
  ASSUME EvidenceInv, NEW t \in Terminals, EnterStage(t)
  PROVE  EvidenceInv'
<1>1. PICK stage \in RunStages, conf \in Configurations :
        /\ exists(json)
        /\ ~hasPassed(json, stage)
        /\ stage = "ptt-unkey" => hasPassed(json, "discovery")
        /\ calculateHilConfigurationDigest(conf)
             = calculateHilConfigurationDigest(json.configuration)
        /\ EnterCommand(t, [place |-> "prompt", stage |-> stage, force |-> TRUE,
             digest |-> calculateHilConfigurationDigest(conf),
             version |-> json.configuration.pttProviderVersion])
  BY DEF EnterStage, isDigestOf, RunStages
<1> DEFINE digest == calculateHilConfigurationDigest(conf)
           c == [place |-> "prompt", stage |-> stage, force |-> TRUE, digest |-> digest,
                 version |-> json.configuration.pttProviderVersion]
<1>2. json \in Records
  BY <1>1 DEF EvidenceInv, Shapes, exists
<1>3. digest \in Digests
  BY DEF Digests
<1>4. json.configuration.pttProviderVersion \in ToldVersions
  BY <1>2 DEF Records, ToldVersions
<1> HIDE DEF digest
<1>5. c \in Measuring
  BY <1>3, <1>4 DEF Measuring
<1>6. c \notin ReadingJson /\ c \notin ReadingMarkdown /\ c \notin Publishing
  BY DEF ReadingJson, ReadingMarkdown, Publishing
<1>7. c \in Commands
  BY <1>5 DEF Commands
<1>8. command'[t] = c /\ json' = json
  BY <1>1 DEF EvidenceInv, Shapes, EnterCommand, evidenceFiles, digest
<1>9. SupportedCommand(t)' /\ SoundCommand(t)'
  <2>1. c.stage = stage /\ c.digest = digest
    OBVIOUS
  <2>2. digest = calculateHilConfigurationDigest(json.configuration)
    BY <1>1 DEF digest
  <2>3. IsCurrent(t)'
    BY <1>1, <1>2, <1>8, <2>1 DEF IsCurrent, hasPassed
  <2>4. (command[t].digest = calculateHilConfigurationDigest(json.configuration))'
    BY <1>8, <2>1, <2>2
  <2> QED
    BY <1>6, <1>8, <2>3, <2>4 DEF SupportedCommand, SoundCommand
<1> QED
  BY <1>1, <1>7, <1>9, EnterStep DEF digest

(* A command that measures goes on with what it was told.                      *)
LEMMA MeasureOnStep ==
  ASSUME EvidenceInv, NEW t \in Terminals, command[t] \in Measuring,
         NEW place \in {"prompt", "measure", "unkey"}, GoTo(t, place),
         UNCHANGED <<json, markdown, overlapped, earned>>
  PROVE  EvidenceInv'
<1> DEFINE c == [command[t] EXCEPT !.place = place]
<1>1. c \in Measuring /\ c.stage = command[t].stage /\ c.digest = command[t].digest
  BY DEF Measuring
<1>2. command' = [command EXCEPT ![t] = c]
  BY DEF GoTo
<1> HIDE DEF c
<1>3. command'[t] = c
  BY <1>2 DEF EvidenceInv, Shapes
<1>4. c \notin ReadingJson /\ c \notin ReadingMarkdown /\ c \notin Publishing
  BY <1>1 DEF Measuring, ReadingJson, ReadingMarkdown, Publishing
<1>5. SupportedCommand(t)'
  BY <1>3, <1>4 DEF SupportedCommand
<1>6. ~overlapped => SoundCommand(t)'
  BY <1>1, <1>3, <1>4 DEF EvidenceInv, SoundAlone, SoundCommand, IsCurrent, hasPassed
<1>7. c \in Commands /\ command[t] # NoCommand
  BY <1>1, NoCommandShape DEF Commands
<1> QED
  BY <1>2, <1>5, <1>6, <1>7, CommandStep

(* A result: if it is "passed", it has been earned.                            *)
LEMMA ResultStep ==
  ASSUME EvidenceInv, NEW t \in Terminals, command[t] \in Measuring,
         NEW state \in {"passed", "failed"}, NEW certainty \in Certainties \cup {"unknown"},
         NEW isSeen \in BOOLEAN, state = "passed" => isSeen,
         PublishResult(t, state, certainty, isSeen),
         UNCHANGED <<json, markdown, overlapped>>
  PROVE  EvidenceInv'
<1> DEFINE result == StageResult(state, "automatically-measured", certainty)
           c == [place |-> "read-json", stage |-> command[t].stage, force |-> TRUE,
                 result |-> result]
<1>1. result \in Results /\ result.state = state
  BY DEF StageResult, Results
<1> HIDE DEF result
<1>2. command[t].stage \in RunStages
  BY DEF Measuring
<1>3. c \in ReadingJson /\ c.stage = command[t].stage /\ c.result = result
  BY <1>1, <1>2 DEF ReadingJson
<1>4. command' = [command EXCEPT ![t] = c] /\ earned \subseteq earned'
  BY DEF PublishResult, result
<1>5. isSeen => <<command[t].digest, command[t].stage>> \in earned'
  BY DEF PublishResult
<1> HIDE DEF c
<1>6. command'[t] = c
  BY <1>4 DEF EvidenceInv, Shapes
<1>7. c \notin Measuring /\ c \notin ReadingMarkdown /\ c \notin Publishing
  BY <1>3 DEF Measuring, ReadingJson, ReadingMarkdown, Publishing
<1>8. isSeen => isEarned(command[t].stage)'
  BY <1>3, <1>5, <1>6 DEF isEarned
<1>9. SupportedCommand(t)'
  BY <1>1, <1>3, <1>6, <1>7, <1>8 DEF SupportedCommand
<1>10. ~overlapped => SoundCommand(t)'
  <2> SUFFICES ASSUME ~overlapped PROVE SoundCommand(t)'
    OBVIOUS
  <2>1. IsCurrent(t) /\ command[t].digest = calculateHilConfigurationDigest(json.configuration)
    BY DEF EvidenceInv, SoundAlone, SoundCommand
  <2>2. IsCurrent(t)'
    BY <1>3, <1>6, <2>1 DEF IsCurrent, hasPassed
  <2>3. (command[t].result.state = "passed" =>
          <<calculateHilConfigurationDigest(json.configuration), command[t].stage>> \in earned)'
    BY <1>1, <1>3, <1>5, <1>6, <2>1
  <2> QED
    BY <1>6, <1>7, <2>2, <2>3 DEF SoundCommand
<1>11. c \in Commands /\ command[t] # NoCommand
  BY <1>3, NoCommandShape DEF Commands
<1> QED
  BY <1>4, <1>9, <1>10, <1>11, CommandStep

LEMMA ConfirmStep ==
  ASSUME EvidenceInv, NEW t \in Terminals, Confirm(t)
  PROVE  EvidenceInv'
<1>1. command[t] \in Measuring
  BY PlaceTells DEF Confirm, isCommandAt, EvidenceInv, Shapes
<1>2. UNCHANGED <<json, markdown, overlapped, earned>> /\ (GoTo(t, "measure") \/ End(t))
  BY DEF Confirm, commandFrame, evidenceFiles
<1>3. command[t] # NoCommand
  BY <1>1, NoCommandShape
<1> QED
  BY <1>1, <1>2, <1>3, MeasureOnStep, EndStep

LEMMA DiscoverStep ==
  ASSUME EvidenceInv, NEW t \in Terminals, Discover(t)
  PROVE  EvidenceInv'
<1>1. command[t] \in Measuring
  BY PlaceTells DEF Discover, isCommandAt, EvidenceInv, Shapes
<1>2. UNCHANGED <<json, markdown, overlapped>>
  BY DEF Discover, measureFrame, commandFrame, evidenceFiles
<1>3. command[t] # NoCommand
  BY <1>1, NoCommandShape
<1>4. \/ Throw(t)
      \/ PublishResult(t, "passed", "unknown", TRUE)
      \/ PublishResult(t, "failed", "unknown", FALSE)
  <2>1. CASE PublishResult(t, "failed", "unknown", FALSE)
    BY <2>1
  <2>2. ASSUME NEW opaque \in Identities, NEW devices \in DeviceLists,
               IF opaque = "" THEN Throw(t)
               ELSE PublishResult(t, IF isOneExactMatch(devices, opaque)
                                     THEN "passed" ELSE "failed",
                                  "unknown", isOneExactMatch(devices, opaque))
        PROVE  \/ Throw(t)
               \/ PublishResult(t, "passed", "unknown", TRUE)
               \/ PublishResult(t, "failed", "unknown", FALSE)
    <3> DEFINE isFound == isOneExactMatch(devices, opaque)
    <3>1. isFound \in BOOLEAN
      BY DEF isOneExactMatch
    <3> HIDE DEF isFound
    <3>2. CASE opaque = ""
      BY <2>2, <3>2
    <3>3. CASE opaque # "" /\ isFound
      BY <2>2, <3>1, <3>3 DEF isFound, PublishResult
    <3>4. CASE opaque # "" /\ ~isFound
      BY <2>2, <3>1, <3>4 DEF isFound, PublishResult
    <3> QED
      BY <3>1, <3>2, <3>3, <3>4
  <2> QED
    BY <2>1, <2>2 DEF Discover
<1>5. CASE Throw(t)
  BY <1>2, <1>3, <1>5, EndStep DEF Throw
<1>6. CASE PublishResult(t, "passed", "unknown", TRUE)
  BY <1>1, <1>2, <1>6, ResultStep
<1>7. CASE PublishResult(t, "failed", "unknown", FALSE)
  BY <1>1, <1>2, <1>7, ResultStep
<1> QED
  BY <1>4, <1>5, <1>6, <1>7

LEMMA QueryStep ==
  ASSUME EvidenceInv, NEW t \in Terminals, Query(t)
  PROVE  EvidenceInv'
<1>1. command[t] \in Measuring /\ command[t] # NoCommand
  BY PlaceTells, NoCommandShape DEF Query, isCommandAt, EvidenceInv, Shapes
<1>2. UNCHANGED <<json, markdown, overlapped>>
  BY DEF Query, measureFrame, commandFrame, evidenceFiles
<1>3. \/ Throw(t)
      \/ PublishResult(t, "passed", "definitely-unkeyed", TRUE)
      \/ GoTo(t, "unkey") /\ UNCHANGED earned
  BY DEF Query
<1>4. CASE Throw(t)
  BY <1>1, <1>2, <1>4, EndStep DEF Throw
<1>5. CASE PublishResult(t, "passed", "definitely-unkeyed", TRUE)
  BY <1>1, <1>2, <1>5, ResultStep DEF Certainties
<1>6. CASE GoTo(t, "unkey") /\ UNCHANGED earned
  BY <1>1, <1>2, <1>6, MeasureOnStep
<1> QED
  BY <1>3, <1>4, <1>5, <1>6

LEMMA UnkeyStep ==
  ASSUME EvidenceInv, NEW t \in Terminals, Unkey(t)
  PROVE  EvidenceInv'
<1>1. command[t] \in Measuring /\ command[t] # NoCommand
  BY PlaceTells, NoCommandShape DEF Unkey, isCommandAt, EvidenceInv, Shapes
<1>2. UNCHANGED <<json, markdown, overlapped>>
  BY DEF Unkey, measureFrame, commandFrame, evidenceFiles
<1>3. Throw(t) \/ PublishResult(t, "passed", "definitely-unkeyed", TRUE)
  <2> SUFFICES ASSUME NEW certainty \in Certainties, isUnkeyed(certainty),
                      PublishResult(t, "passed", "definitely-unkeyed",
                                    certainty = "definitely-unkeyed")
               PROVE  PublishResult(t, "passed", "definitely-unkeyed", TRUE)
    BY DEF Unkey
  <2>1. certainty = "definitely-unkeyed"
    BY DEF isUnkeyed
  <2> QED
    BY <2>1
<1>4. CASE Throw(t)
  BY <1>1, <1>2, <1>4, EndStep DEF Throw
<1>5. CASE PublishResult(t, "passed", "definitely-unkeyed", TRUE)
  BY <1>1, <1>2, <1>5, ResultStep DEF Certainties
<1> QED
  BY <1>3, <1>4, <1>5

(* What a patch leaves and what it changes.                                    *)
LEMMA PatchJsonShape ==
  ASSUME NEW file \in Records, NEW stage \in RunStages, NEW result \in Results
  PROVE  LET patched == patchJson(file, stage, result) IN
         /\ patched \in Records
         /\ patched.configuration = file.configuration
         /\ \A s \in HilStages :
              patched.stages[s] = IF s = stage THEN result ELSE file.stages[s]
<1> DEFINE stages == [file.stages EXCEPT ![stage] = result]
<1>1. stage \in HilStages
  BY DEF RunStages, HilStages
<1>2. /\ stages \in [HilStages -> Results]
      /\ \A s \in HilStages : stages[s] = IF s = stage THEN result ELSE file.stages[s]
  BY <1>1 DEF Records
<1>3. patchJson(file, stage, result) = [file EXCEPT !.stages = stages]
  BY DEF patchJson
<1> HIDE DEF stages
<1>4. /\ [file EXCEPT !.stages = stages] \in Records
      /\ [file EXCEPT !.stages = stages].configuration = file.configuration
      /\ [file EXCEPT !.stages = stages].stages = stages
  BY <1>2 DEF Records
<1> QED
  BY <1>2, <1>3, <1>4

LEMMA PatchMarkdownShape ==
  ASSUME NEW file \in ShownRecords, NEW stage \in RunStages, NEW result \in Results
  PROVE  LET patched == patchMarkdown(file, stage, result) IN
         /\ patched \in ShownRecords
         /\ patched.configuration = file.configuration
         /\ \A s \in HilStages :
              /\ patched.stages[s].state
                   = IF s = stage THEN result.state ELSE file.stages[s].state
              /\ patched.stages[s].source
                   = IF s = stage THEN result.source ELSE file.stages[s].source
<1> DEFINE shown == [state |-> result.state, source |-> result.source,
                     finalPttCertainty |-> "unknown"]
           stages == [file.stages EXCEPT ![stage] = shown]
<1>1. stage \in HilStages
  BY DEF RunStages, HilStages
<1>2. shown \in ShownResults /\ shown.state = result.state /\ shown.source = result.source
  BY DEF Results, ShownResults
<1>3. patchMarkdown(file, stage, result) = [file EXCEPT !.stages = stages]
  BY DEF patchMarkdown
<1> HIDE DEF shown
<1>4. /\ stages \in [HilStages -> ShownResults]
      /\ \A s \in HilStages : stages[s] = IF s = stage THEN shown ELSE file.stages[s]
  BY <1>1, <1>2 DEF ShownRecords
<1> HIDE DEF stages
<1>5. /\ [file EXCEPT !.stages = stages] \in ShownRecords
      /\ [file EXCEPT !.stages = stages].configuration = file.configuration
      /\ [file EXCEPT !.stages = stages].stages = stages
  BY <1>4 DEF ShownRecords
<1> QED
  BY <1>2, <1>3, <1>4, <1>5

LEMMA ReadJsonStep ==
  ASSUME EvidenceInv, NEW t \in Terminals, ReadJson(t)
  PROVE  EvidenceInv'
<1>1. command[t] \in ReadingJson /\ command[t] # NoCommand
  BY PlaceTells, NoCommandShape DEF ReadJson, isCommandAt, EvidenceInv, Shapes
<1>2. UNCHANGED <<json, markdown, overlapped, earned>>
  BY DEF ReadJson, commandFrame, evidenceFiles
<1>3. CASE ~exists(json)
  BY <1>1, <1>2, <1>3, EndStep DEF ReadJson
<1>4. CASE exists(json)
  <2> DEFINE stage == command[t].stage
             result == command[t].result
             file == patchJson(json, stage, result)
             c == [place |-> "read-markdown", stage |-> stage, force |-> TRUE,
                   result |-> result, json |-> file]
  <2>1. json \in Records
    BY <1>4 DEF EvidenceInv, Shapes, exists
  <2>2. stage \in RunStages /\ result \in Results
    BY <1>1 DEF ReadingJson
  <2>3. /\ file \in Records
        /\ file.configuration = json.configuration
        /\ \A s \in HilStages : file.stages[s] = IF s = stage THEN result ELSE json.stages[s]
    BY <2>1, <2>2, PatchJsonShape
  <2>4. command' = [command EXCEPT ![t] = c]
    BY <1>4 DEF ReadJson
  <2>5. result.state = "passed" => isEarned(stage)
    BY <1>1 DEF EvidenceInv, AllSupported, SupportedCommand
  <2>6. ~overlapped =>
          /\ ~hasPassed(json, stage)
          /\ stage = "ptt-unkey" => hasPassed(json, "discovery")
          /\ result.state = "passed" =>
               <<calculateHilConfigurationDigest(json.configuration), stage>> \in earned
    BY <1>1 DEF EvidenceInv, SoundAlone, SoundCommand, IsCurrent
  <2> HIDE DEF stage, result, file
  <2>7. DOMAIN file.stages = HilStages /\ DOMAIN json.stages = HilStages
    BY <2>1, <2>3, FileShape
  <2>8. Supported(file)
    BY <2>3, <2>5, <2>7 DEF EvidenceInv, AllSupported, Supported, hasPassed
  <2>9. ~overlapped => Sound(file)
    <3> SUFFICES ASSUME ~overlapped, NEW s \in HilStages \ {"manifest"}, hasPassed(file, s)
                 PROVE  /\ <<calculateHilConfigurationDigest(file.configuration), s>> \in earned
                        /\ s = "ptt-unkey" => hasPassed(file, "discovery")
      BY <2>7 DEF Sound
    <3>1. Sound(json)
      BY DEF EvidenceInv, SoundAlone
    <3>2. "discovery" \in HilStages
      BY DEF HilStages
    <3>3. CASE s = stage
      BY <2>3, <2>6, <3>2, <3>3 DEF hasPassed
    <3>4. CASE s # stage
      <4>1. hasPassed(json, s)
        BY <2>3, <3>4 DEF hasPassed
      <4>2. /\ <<calculateHilConfigurationDigest(json.configuration), s>> \in earned
            /\ s = "ptt-unkey" => hasPassed(json, "discovery")
        BY <2>7, <3>1, <4>1 DEF Sound
      <4>3. s = "ptt-unkey" => stage # "discovery"
        BY <2>6, <4>2
      <4> QED
        BY <2>3, <3>2, <4>2, <4>3 DEF hasPassed
    <3> QED
      BY <3>3, <3>4
  <2>10. c \in ReadingMarkdown /\ c.stage = stage /\ c.result = result /\ c.json = file
    BY <2>2, <2>3 DEF ReadingMarkdown
  <2> HIDE DEF c
  <2>11. command'[t] = c
    BY <2>4 DEF EvidenceInv, Shapes
  <2>12. c \notin Measuring /\ c \notin ReadingJson /\ c \notin Publishing
    BY <2>10 DEF Measuring, ReadingJson, ReadingMarkdown, Publishing
  <2>13. SupportedCommand(t)'
    BY <1>2, <2>5, <2>8, <2>10, <2>11, <2>12 DEF SupportedCommand, Supported, isEarned
  <2>14. ~overlapped => SoundCommand(t)'
    BY <1>2, <2>9, <2>10, <2>11, <2>12 DEF SoundCommand, Sound
  <2>15. c \in Commands
    BY <2>10 DEF Commands
  <2> QED
    BY <1>1, <1>2, <2>4, <2>13, <2>14, <2>15, CommandStep
<1> QED
  BY <1>3, <1>4

LEMMA ReadMarkdownStep ==
  ASSUME EvidenceInv, NEW t \in Terminals, ReadMarkdown(t)
  PROVE  EvidenceInv'
<1>1. command[t] \in ReadingMarkdown /\ command[t] # NoCommand
  BY PlaceTells, NoCommandShape DEF ReadMarkdown, isCommandAt, EvidenceInv, Shapes
<1>2. UNCHANGED <<json, markdown, overlapped, earned>>
  BY DEF ReadMarkdown, commandFrame, evidenceFiles
<1>3. CASE ~exists(markdown)
  BY <1>1, <1>2, <1>3, EndStep DEF ReadMarkdown
<1>4. CASE exists(markdown)
  <2> DEFINE stage == command[t].stage
             result == command[t].result
             record == command[t].json
             file == patchMarkdown(markdown, stage, result)
             c == [place |-> "json", stage |-> stage, force |-> TRUE, json |-> record,
                   markdown |-> file]
  <2>1. markdown \in ShownRecords
    BY <1>4 DEF EvidenceInv, Shapes, exists
  <2>2. stage \in RunStages /\ result \in Results /\ record \in Records
    BY <1>1 DEF ReadingMarkdown
  <2>3. /\ file \in ShownRecords
        /\ \A s \in HilStages :
             file.stages[s].state = IF s = stage THEN result.state ELSE markdown.stages[s].state
    BY <2>1, <2>2, PatchMarkdownShape
  <2>4. command' = [command EXCEPT ![t] = c]
    BY <1>4 DEF ReadMarkdown
  <2>5. (result.state = "passed" => isEarned(stage)) /\ Supported(record)
    BY <1>1 DEF EvidenceInv, AllSupported, SupportedCommand
  <2>6. ~overlapped => Sound(record)
    BY <1>1 DEF EvidenceInv, SoundAlone, SoundCommand
  <2> HIDE DEF stage, result, record, file
  <2>7. DOMAIN file.stages = HilStages /\ DOMAIN markdown.stages = HilStages
    BY <2>1, <2>3, FileShape
  <2>8. Supported(file)
    BY <2>3, <2>5, <2>7 DEF EvidenceInv, AllSupported, Supported, hasPassed
  <2>9. c \in Publishing /\ c.json = record /\ c.markdown = file
    BY <2>2, <2>3 DEF Publishing
  <2> HIDE DEF c
  <2>10. command'[t] = c
    BY <2>4 DEF EvidenceInv, Shapes
  <2>11. c \notin Measuring /\ c \notin ReadingJson /\ c \notin ReadingMarkdown
    BY <2>9 DEF Measuring, ReadingJson, ReadingMarkdown, Publishing
  <2>12. SupportedCommand(t)'
    BY <1>2, <2>5, <2>8, <2>9, <2>10, <2>11 DEF SupportedCommand, Supported, isEarned
  <2>13. ~overlapped => SoundCommand(t)'
    BY <1>2, <2>6, <2>9, <2>10, <2>11 DEF SoundCommand, Sound
  <2>14. c \in Commands
    BY <2>9 DEF Commands
  <2> QED
    BY <1>1, <1>2, <2>4, <2>12, <2>13, <2>14, CommandStep
<1> QED
  BY <1>3, <1>4

(* Files are replaced by what the command has in its memory, or taken away.     *)
LEMMA FilesStep ==
  ASSUME EvidenceInv, NEW t \in Terminals, command[t] \in Publishing,
         json' \in {json, Absent, command[t].json},
         markdown' \in {markdown, Absent, command[t].markdown},
         End(t) \/ GoTo(t, "markdown"),
         UNCHANGED <<overlapped, earned>>
  PROVE  EvidenceInv'
<1> DEFINE next == [command[t] EXCEPT !.place = "markdown"]
<1>1. /\ next \in Publishing
      /\ next.json = command[t].json /\ next.markdown = command[t].markdown
  BY DEF Publishing
<1>2. command' = [command EXCEPT ![t] = NoCommand] \/ command' = [command EXCEPT ![t] = next]
  BY DEF End, GoTo
<1> HIDE DEF next
<1>3. PICK c \in {NoCommand, next} : command' = [command EXCEPT ![t] = c]
  BY <1>2
<1>4. /\ command'[t] = c
      /\ \A u \in Terminals : u # t => command'[u] = command[u]
  BY <1>3 DEF EvidenceInv, Shapes
<1>5. command[t].json \in Records /\ command[t].markdown \in ShownRecords
  BY DEF Publishing
<1>6. Shapes'
  <2>1. c \in Commands
    BY <1>1, NoCommandShape DEF Commands
  <2>2. command' \in [Terminals -> Commands]
    BY <1>3, <2>1 DEF EvidenceInv, Shapes
  <2> QED
    BY <1>5, <2>2 DEF EvidenceInv, Shapes
<1>7. c \notin Measuring /\ c \notin ReadingJson /\ c \notin ReadingMarkdown
  BY <1>1, NoCommandShape DEF Measuring, ReadingJson, ReadingMarkdown, Publishing
<1>8. c \in Publishing => c.json = command[t].json /\ c.markdown = command[t].markdown
  BY <1>1, NoCommandShape
<1>9. AllSupported'
  <2>1. Supported(command[t].json) /\ Supported(command[t].markdown)
    BY DEF EvidenceInv, AllSupported, SupportedCommand
  <2>2. Supported(json)' /\ Supported(markdown)'
    BY <2>1, AbsentIsSound DEF EvidenceInv, AllSupported, Supported, isEarned
  <2>3. SupportedCommand(t)'
    BY <1>4, <1>7, <1>8, <2>1 DEF SupportedCommand, Supported, isEarned
  <2>4. ASSUME NEW u \in Terminals, u # t PROVE SupportedCommand(u)'
    BY <1>4, <2>4 DEF EvidenceInv, AllSupported, SupportedCommand, Supported, isEarned
  <2> QED
    BY <2>2, <2>3, <2>4 DEF AllSupported
<1>10. SoundAlone'
  <2> SUFFICES ASSUME ~overlapped PROVE SoundAlone'
    BY DEF SoundAlone
  <2>1. OneAtATime /\ Sound(json) /\ Sound(command[t].json)
    BY DEF EvidenceInv, SoundAlone, SoundCommand
  <2>2. command[t] # NoCommand
    BY NoCommandShape
  <2>3. \A u \in Terminals : u # t => command'[u] = NoCommand
    BY <1>4, <2>1, <2>2 DEF OneAtATime
  <2>4. OneAtATime'
    BY <2>3 DEF OneAtATime
  <2>5. Sound(json)'
    BY <2>1, AbsentIsSound DEF Sound
  <2>6. SoundCommand(t)'
    BY <1>4, <1>7, <1>8, <2>1 DEF SoundCommand, Sound
  <2>7. ASSUME NEW u \in Terminals, u # t PROVE SoundCommand(u)'
    BY <2>3, <2>7, NoCommandShape DEF SoundCommand
  <2> QED
    BY <2>4, <2>5, <2>6, <2>7 DEF SoundAlone
<1> QED
  BY <1>6, <1>9, <1>10 DEF EvidenceInv

LEMMA PublishJsonStep ==
  ASSUME EvidenceInv, NEW t \in Terminals, PublishJson(t)
  PROVE  EvidenceInv'
<1>1. command[t] \in Publishing
  BY PlaceTells DEF PublishJson, isCommandAt, EvidenceInv, Shapes
<1>2. /\ json' \in {json, Absent, command[t].json}
      /\ markdown' \in {markdown, Absent, command[t].markdown}
      /\ End(t) \/ GoTo(t, "markdown")
      /\ UNCHANGED <<overlapped, earned>>
  BY DEF PublishJson, commandFrame
<1> QED
  BY <1>1, <1>2, FilesStep

LEMMA PublishMarkdownStep ==
  ASSUME EvidenceInv, NEW t \in Terminals, PublishMarkdown(t)
  PROVE  EvidenceInv'
<1>1. command[t] \in Publishing
  BY PlaceTells DEF PublishMarkdown, isCommandAt, EvidenceInv, Shapes
<1>2. /\ json' \in {json, Absent, command[t].json}
      /\ markdown' \in {markdown, Absent, command[t].markdown}
      /\ End(t)
      /\ UNCHANGED <<overlapped, earned>>
  BY DEF PublishMarkdown, commandFrame
<1> QED
  BY <1>1, <1>2, FilesStep

LEMMA KilledStep ==
  ASSUME EvidenceInv, NEW t \in Terminals, Killed(t)
  PROVE  EvidenceInv'
BY EndStep DEF Killed, commandFrame, evidenceFiles

-----------------------------------------------------------------------------
LEMMA InvInit == EvidenceInit => EvidenceInv
<1> SUFFICES ASSUME EvidenceInit PROVE EvidenceInv
  OBVIOUS
<1>1. \A t \in Terminals : command[t] = NoCommand
  BY DEF EvidenceInit
<1>2. Shapes
  BY NoCommandShape DEF EvidenceInit, Shapes
<1>3. AllSupported
  BY <1>1, NoCommandShape, AbsentIsSound DEF EvidenceInit, AllSupported, SupportedCommand
<1>4. SoundAlone
  BY <1>1, NoCommandShape, AbsentIsSound
     DEF EvidenceInit, SoundAlone, SoundCommand, OneAtATime
<1> QED
  BY <1>2, <1>3, <1>4 DEF EvidenceInv

LEMMA InvStep == EvidenceInv /\ [EvidenceNext]_evidenceVars => EvidenceInv'
<1> SUFFICES ASSUME EvidenceInv, [EvidenceNext]_evidenceVars PROVE EvidenceInv'
  OBVIOUS
<1>1. CASE UNCHANGED evidenceVars
  <2>1. UNCHANGED <<json, markdown, command, earned, overlapped>>
    BY <1>1 DEF evidenceVars, evidenceFiles
  <2> QED
    BY <2>1 DEF EvidenceInv, Shapes, AllSupported, SupportedCommand, Supported, isEarned,
                SoundAlone, SoundCommand, Sound, IsCurrent, OneAtATime
<1>2. CASE EvidenceNext
  BY <1>2, EnterManifestStep, EnterStageStep, ConfirmStep, DiscoverStep, QueryStep, UnkeyStep,
     ReadJsonStep, ReadMarkdownStep, PublishJsonStep, PublishMarkdownStep, KilledStep
  DEF EvidenceNext
<1> QED
  BY <1>1, <1>2

(* The invariant is one of every behaviour.                                    *)
THEOREM EvidenceInvCorrect == EvidenceSpec => []EvidenceInv
BY InvInit, InvStep, PTL DEF EvidenceSpec

LEMMA InvImpliesEarned == EvidenceInv => EvidenceIsEarned
<1> SUFFICES ASSUME EvidenceInv,
                    NEW file \in {json, markdown}, NEW s \in DOMAIN file.stages \ {"manifest"},
                    hasPassed(file, s)
             PROVE  /\ \E entry \in earned : entry[2] = s
                    /\ ~overlapped /\ file = json =>
                         /\ <<calculateHilConfigurationDigest(json.configuration), s>> \in earned
                         /\ s = "ptt-unkey" => hasPassed(json, "discovery")
  BY DEF EvidenceIsEarned
<1>1. Supported(file)
  BY DEF EvidenceInv, AllSupported
<1>2. isEarned(s)
  BY <1>1 DEF Supported
<1>3. ASSUME ~overlapped, file = json
      PROVE  /\ <<calculateHilConfigurationDigest(json.configuration), s>> \in earned
             /\ s = "ptt-unkey" => hasPassed(json, "discovery")
  <2>1. Sound(json)
    BY <1>3 DEF EvidenceInv, SoundAlone
  <2> QED
    BY <1>3, <2>1 DEF Sound
<1> QED
  BY <1>2, <1>3 DEF isEarned

(* A stage that either file calls passed was confirmed and seen to pass; and,    *)
(* as long as no two commands overlap, for the configuration of the evidence and  *)
(* after the sound device was found.  For every set of terminals and of          *)
(* configurations, and however many commands, failures and kills there are        *)
(* (hil_commands.cpp:304-448, hil_evidence.cpp:916-961).                          *)
THEOREM EvidenceIsEarnedHolds == EvidenceSpec => []EvidenceIsEarned
BY EvidenceInvCorrect, InvImpliesEarned, PTL

-----------------------------------------------------------------------------
(* The two files.                                                            *)

(* Two files that tell the same.                                              *)
Twins(first, second) ==
  /\ exists(first) <=> exists(second)
  /\ exists(first) =>
       /\ \A f \in shownFields : first.configuration[f] = second.configuration[f]
       /\ \A s \in HilStages :
            /\ first.stages[s].state = second.stages[s].state
            /\ first.stages[s].source = second.stages[s].source

(* The first file has been replaced, the second not yet.                      *)
isHalfway(t) == isCommandAt(t, "markdown")

(* What a command has in its memory goes together: a manifest always, a result  *)
(* if the files it was read from did.  A manifest that is not forced found no    *)
(* files.                                                                     *)
PairedCommand(t) ==
  /\ isCommandAt(t, "read-markdown") =>
       command[t].json = patchJson(json, command[t].stage, command[t].result)
  /\ isCommandAt(t, "json") \/ isHalfway(t) =>
       /\ command[t].stage = "manifest" \/ ~torn => Twins(command[t].json, command[t].markdown)
       /\ ~command[t].force => markdown = Absent /\ (isHalfway(t) \/ json = Absent)
  /\ isHalfway(t) => json = command[t].json

PairedAlone ==
  ~overlapped =>
    /\ ~torn => Twins(json, markdown) \/ \E t \in Terminals : isHalfway(t)
    /\ \A t \in Terminals : PairedCommand(t)

-----------------------------------------------------------------------------
(* A lone command decides alone whether the files agree.                       *)
LEMMA PairedStep ==
  ASSUME EvidenceInv, NEW t \in Terminals, NEW c, command' = [command EXCEPT ![t] = c],
         ~overlapped' => \A u \in Terminals \ {t} : command[u] = NoCommand,
         ~overlapped' => PairedCommand(t)',
         ~overlapped' /\ ~torn' => Twins(json', markdown') \/ c.place = "markdown"
  PROVE  PairedAlone'
<1>1. /\ command'[t] = c
      /\ \A u \in Terminals \ {t} : command'[u] = command[u]
  BY DEF EvidenceInv, Shapes
<1> SUFFICES ASSUME ~overlapped'
             PROVE  /\ (~torn => Twins(json, markdown) \/ \E u \in Terminals : isHalfway(u))'
                    /\ \A u \in Terminals : PairedCommand(u)'
  BY DEF PairedAlone
<1>2. (~torn => Twins(json, markdown) \/ \E u \in Terminals : isHalfway(u))'
  BY <1>1 DEF isHalfway, isCommandAt
<1>3. ASSUME NEW u \in Terminals \ {t} PROVE PairedCommand(u)'
  <2>1. command'[u].place = "none"
    BY <1>1 DEF NoCommand
  <2> QED
    BY <2>1 DEF PairedCommand, isHalfway, isCommandAt
<1> QED
  BY <1>2, <1>3

(* Before it, a command that runs alone found the files alike, or is halfway.   *)
LEMMA AloneBefore ==
  ASSUME EvidenceInv, PairedAlone, NEW t \in Terminals, command[t] # NoCommand, ~overlapped
  PROVE  /\ \A u \in Terminals \ {t} : command[u] = NoCommand
         /\ ~torn => Twins(json, markdown) \/ isHalfway(t)
         /\ PairedCommand(t)
<1>1. \A u \in Terminals \ {t} : command[u] = NoCommand
  BY DEF EvidenceInv, SoundAlone, OneAtATime
<1>2. \A u \in Terminals \ {t} : ~isHalfway(u)
  BY <1>1 DEF isHalfway, isCommandAt, NoCommand
<1> QED
  BY <1>1, <1>2 DEF PairedAlone

(* A step that leaves the files and what is in memory for them.                *)
LEMMA QuietStep ==
  ASSUME EvidenceInv, PairedAlone, NEW t \in Terminals, command[t] # NoCommand, ~isHalfway(t),
         NEW c, command' = [command EXCEPT ![t] = c],
         c.place \in {"none", "prompt", "measure", "unkey", "read-json"},
         UNCHANGED <<json, markdown, overlapped, torn>>
  PROVE  PairedAlone'
<1>1. command'[t] = c
  BY DEF EvidenceInv, Shapes
<1>2. PairedCommand(t)'
  BY <1>1 DEF PairedCommand, isHalfway, isCommandAt
<1> QED
  BY <1>2, AloneBefore, PairedStep

(* A command comes in between others, or finds the files as the last one left    *)
(* them.                                                                      *)
LEMMA PairedEnter ==
  ASSUME EvidenceInv, PairedAlone, NEW t \in Terminals, NEW c, EnterCommand(t, c),
         c.place # "markdown", ~overlapped' => PairedCommand(t)'
  PROVE  PairedAlone'
<1>1. /\ command' = [command EXCEPT ![t] = c] /\ UNCHANGED <<json, markdown, torn>>
      /\ overlapped' = (overlapped \/ inFlightCommands # {})
  BY DEF EnterCommand, evidenceFiles
<1>2. ~overlapped' => ~overlapped /\ \A u \in Terminals : command[u] = NoCommand
  BY <1>1 DEF inFlightCommands
<1>3. ~overlapped' => \A u \in Terminals : ~isHalfway(u)
  BY <1>2 DEF isHalfway, isCommandAt, NoCommand
<1>4. ~overlapped' /\ ~torn' => Twins(json', markdown')
  BY <1>1, <1>2, <1>3 DEF PairedAlone
<1> QED
  BY <1>1, <1>2, <1>4, PairedStep

(* A record that is there is not the one that is not.                          *)
LEMMA RecordsExist == \A file \in Records \cup ShownRecords : exists(file)
BY FileShape DEF exists, HilStages

(* A manifest and what is shown of it tell the same.                           *)
LEMMA ManifestTwins ==
  ASSUME NEW configuration \in Configurations
  PROVE  Twins(makeManifest(configuration),
               serializeHilEvidenceMarkdown(makeManifest(configuration)))
<1> DEFINE record == makeManifest(configuration)
           shown == serializeHilEvidenceMarkdown(record)
<1>1. exists(record) /\ exists(shown)
  BY ManifestShape, RecordsExist
<1>2. \A f \in shownFields : record.configuration[f] = shown.configuration[f]
  BY DEF serializeHilEvidenceMarkdown
<1>3. \A s \in HilStages :
        /\ record.stages[s].state = shown.stages[s].state
        /\ record.stages[s].source = shown.stages[s].source
  BY DEF serializeHilEvidenceMarkdown
<1> QED
  BY <1>1, <1>2, <1>3 DEF Twins

LEMMA PairedEnterManifest ==
  ASSUME EvidenceInv, PairedAlone, NEW t \in Terminals, EnterManifest(t)
  PROVE  PairedAlone'
<1>1. PICK configuration \in Configurations, force \in BOOLEAN :
        /\ force \/ (~exists(json) /\ ~exists(markdown))
        /\ EnterCommand(t, [place |-> "json", stage |-> "manifest", force |-> force,
             json |-> makeManifest(configuration),
             markdown |-> serializeHilEvidenceMarkdown(makeManifest(configuration))])
  BY DEF EnterManifest, serializeHilEvidenceJson
<1> DEFINE record == makeManifest(configuration)
           shown == serializeHilEvidenceMarkdown(record)
           c == [place |-> "json", stage |-> "manifest", force |-> force,
                 json |-> record, markdown |-> shown]
<1>2. Twins(record, shown)
  BY ManifestTwins
<1> HIDE DEF record, shown
<1>3. command'[t] = c /\ UNCHANGED <<json, markdown>>
  BY <1>1 DEF EvidenceInv, Shapes, EnterCommand, evidenceFiles, record, shown
<1>4. /\ c.place = "json" /\ c.force = force
      /\ c.json = record /\ c.markdown = shown
  OBVIOUS
<1> HIDE DEF c
<1>5. ~force => json = Absent /\ markdown = Absent
  BY <1>1 DEF exists
<1>6. PairedCommand(t)'
  BY <1>2, <1>3, <1>4, <1>5 DEF PairedCommand, isHalfway, isCommandAt
<1> QED
  BY <1>1, <1>4, <1>6, PairedEnter DEF c, record, shown

LEMMA PairedEnterStage ==
  ASSUME EvidenceInv, PairedAlone, NEW t \in Terminals, EnterStage(t)
  PROVE  PairedAlone'
<1>1. PICK stage \in RunStages, conf \in Configurations :
        EnterCommand(t, [place |-> "prompt", stage |-> stage, force |-> TRUE,
          digest |-> calculateHilConfigurationDigest(conf),
          version |-> json.configuration.pttProviderVersion])
  BY DEF EnterStage, RunStages
<1> DEFINE c == [place |-> "prompt", stage |-> stage, force |-> TRUE,
                 digest |-> calculateHilConfigurationDigest(conf),
                 version |-> json.configuration.pttProviderVersion]
<1>2. c.place = "prompt"
  OBVIOUS
<1>3. EnterCommand(t, c)
  BY <1>1
<1> HIDE DEF c
<1>4. command'[t] = c
  BY <1>3 DEF EvidenceInv, Shapes, EnterCommand
<1>5. PairedCommand(t)'
  BY <1>2, <1>4 DEF PairedCommand, isHalfway, isCommandAt
<1> QED
  BY <1>2, <1>3, <1>5, PairedEnter

(* A prompt, a measurement, a result.                                         *)
LEMMA PairedMeasure ==
  ASSUME EvidenceInv, PairedAlone, NEW t \in Terminals,
         Confirm(t) \/ Discover(t) \/ Query(t) \/ Unkey(t)
  PROVE  PairedAlone'
<1>1. command[t] \in Measuring /\ command[t] # NoCommand /\ ~isHalfway(t)
  <2>1. command[t].place \in {"prompt", "measure", "unkey"}
    BY DEF Confirm, Discover, Query, Unkey, isCommandAt
  <2> QED
    BY <2>1, PlaceTells DEF EvidenceInv, Shapes, isHalfway, isCommandAt
<1>2. UNCHANGED <<json, markdown, overlapped, torn>>
  BY DEF Confirm, Discover, Query, Unkey, measureFrame, commandFrame, evidenceFiles
<1>3. ASSUME NEW place \in {"prompt", "measure", "unkey"}, GoTo(t, place) PROVE PairedAlone'
  <2> DEFINE c == [command[t] EXCEPT !.place = place]
  <2>1. c.place = place
    BY <1>1 DEF Measuring
  <2>2. command' = [command EXCEPT ![t] = c]
    BY <1>3 DEF GoTo
  <2> HIDE DEF c
  <2> QED
    BY <1>1, <1>2, <2>1, <2>2, QuietStep
<1>4. ASSUME End(t) PROVE PairedAlone'
  BY <1>1, <1>2, <1>4, QuietStep DEF End, NoCommand
<1>5. ASSUME NEW state, NEW certainty, NEW isSeen, PublishResult(t, state, certainty, isSeen)
      PROVE  PairedAlone'
  <2> DEFINE c == [place |-> "read-json", stage |-> command[t].stage, force |-> TRUE,
                   result |-> StageResult(state, "automatically-measured", certainty)]
  <2>1. command' = [command EXCEPT ![t] = c] /\ c.place = "read-json"
    BY <1>5 DEF PublishResult
  <2> HIDE DEF c
  <2> QED
    BY <1>1, <1>2, <2>1, QuietStep
<1>6. CASE Confirm(t)
  BY <1>3, <1>4, <1>6 DEF Confirm
<1>7. CASE Discover(t)
  BY <1>4, <1>5, <1>7 DEF Discover, Throw
<1>8. CASE Query(t)
  BY <1>3, <1>4, <1>5, <1>8 DEF Query, Throw
<1>9. CASE Unkey(t)
  BY <1>4, <1>5, <1>9 DEF Unkey, Throw
<1> QED
  BY <1>6, <1>7, <1>8, <1>9

LEMMA PairedReadJson ==
  ASSUME EvidenceInv, PairedAlone, NEW t \in Terminals, ReadJson(t)
  PROVE  PairedAlone'
<1>1. command[t] # NoCommand /\ ~isHalfway(t)
  BY DEF ReadJson, isHalfway, isCommandAt, NoCommand
<1>2. UNCHANGED <<json, markdown, overlapped, torn>>
  BY DEF ReadJson, commandFrame, evidenceFiles
<1>3. CASE ~exists(json)
  BY <1>1, <1>2, <1>3, QuietStep DEF ReadJson, End, NoCommand
<1>4. CASE exists(json)
  <2> DEFINE stage == command[t].stage
             result == command[t].result
             file == patchJson(json, stage, result)
             c == [place |-> "read-markdown", stage |-> stage, force |-> TRUE,
                   result |-> result, json |-> file]
  <2>1. command' = [command EXCEPT ![t] = c]
    BY <1>4 DEF ReadJson
  <2>2. c.place = "read-markdown" /\ c.json = patchJson(json, c.stage, c.result)
    OBVIOUS
  <2> HIDE DEF c
  <2>3. command'[t] = c
    BY <2>1 DEF EvidenceInv, Shapes
  <2>4. PairedCommand(t)'
    BY <1>2, <2>2, <2>3 DEF PairedCommand, isHalfway, isCommandAt
  <2> QED
    BY <1>1, <1>2, <2>1, <2>4, AloneBefore, PairedStep
<1> QED
  BY <1>3, <1>4

(* One result put into two files that tell the same.                           *)
LEMMA PatchedTwins ==
  ASSUME NEW first \in Records, NEW second \in ShownRecords, Twins(first, second),
         NEW stage \in RunStages, NEW result \in Results
  PROVE  Twins(patchJson(first, stage, result), patchMarkdown(second, stage, result))
<1> DEFINE patched == patchJson(first, stage, result)
           shown == patchMarkdown(second, stage, result)
<1>1. /\ patched \in Records
      /\ patched.configuration = first.configuration
      /\ \A s \in HilStages :
           patched.stages[s] = IF s = stage THEN result ELSE first.stages[s]
  BY PatchJsonShape
<1>2. /\ shown \in ShownRecords
      /\ shown.configuration = second.configuration
      /\ \A s \in HilStages :
           /\ shown.stages[s].state
                = IF s = stage THEN result.state ELSE second.stages[s].state
           /\ shown.stages[s].source
                = IF s = stage THEN result.source ELSE second.stages[s].source
  BY PatchMarkdownShape
<1> HIDE DEF patched, shown
<1>3. /\ exists(patched) /\ exists(shown) /\ exists(first)
  BY <1>1, <1>2, RecordsExist
<1>4. Twins(patched, shown)
  BY <1>1, <1>2, <1>3 DEF Twins
<1> QED
  BY <1>4 DEF patched, shown

LEMMA PairedReadMarkdown ==
  ASSUME EvidenceInv, PairedAlone, NEW t \in Terminals, ReadMarkdown(t)
  PROVE  PairedAlone'
<1>1. command[t] \in ReadingMarkdown /\ command[t] # NoCommand /\ ~isHalfway(t)
  BY PlaceTells DEF ReadMarkdown, isHalfway, isCommandAt, NoCommand, EvidenceInv, Shapes
<1>2. UNCHANGED <<json, markdown, overlapped, torn>>
  BY DEF ReadMarkdown, commandFrame, evidenceFiles
<1>3. CASE ~exists(markdown)
  BY <1>1, <1>2, <1>3, QuietStep DEF ReadMarkdown, End, NoCommand
<1>4. CASE exists(markdown)
  <2> DEFINE stage == command[t].stage
             result == command[t].result
             record == command[t].json
             file == patchMarkdown(markdown, stage, result)
             c == [place |-> "json", stage |-> stage, force |-> TRUE, json |-> record,
                   markdown |-> file]
  <2>1. stage \in RunStages /\ result \in Results
    BY <1>1 DEF ReadingMarkdown
  <2>2. ~overlapped /\ ~torn => Twins(record, file)
    <3> SUFFICES ASSUME ~overlapped, ~torn PROVE Twins(record, file)
      OBVIOUS
    <3>1. Twins(json, markdown) /\ record = patchJson(json, stage, result)
      BY <1>1, AloneBefore DEF ReadMarkdown, PairedCommand
    <3>2. json \in Records /\ markdown \in ShownRecords
      BY <1>4, <3>1 DEF Twins, exists, EvidenceInv, Shapes
    <3> QED
      BY <2>1, <3>1, <3>2, PatchedTwins
  <2>3. command' = [command EXCEPT ![t] = c]
    BY <1>4 DEF ReadMarkdown
  <2> HIDE DEF stage, result, record, file
  <2>4. c.place = "json" /\ c.force = TRUE /\ c.json = record /\ c.markdown = file
    OBVIOUS
  <2> HIDE DEF c
  <2>5. command'[t] = c
    BY <2>3 DEF EvidenceInv, Shapes
  <2>6. c.stage = stage /\ stage # "manifest"
    BY <2>1 DEF c, RunStages
  <2>7. ~overlapped' => PairedCommand(t)'
    BY <1>2, <2>2, <2>4, <2>5, <2>6 DEF PairedCommand, isHalfway, isCommandAt
  <2> QED
    BY <1>1, <1>2, <2>3, <2>7, AloneBefore, PairedStep
<1> QED
  BY <1>3, <1>4

LEMMA PairedPublishJson ==
  ASSUME EvidenceInv, PairedAlone, NEW t \in Terminals, PublishJson(t)
  PROVE  PairedAlone'
<1>1. command[t] \in Publishing /\ command[t] # NoCommand /\ ~isHalfway(t)
  BY PlaceTells DEF PublishJson, isHalfway, isCommandAt, NoCommand, EvidenceInv, Shapes
<1>2. UNCHANGED <<markdown, overlapped>>
  BY DEF PublishJson, commandFrame
<1>3. CASE End(t) /\ UNCHANGED <<json, torn>>
  BY <1>1, <1>2, <1>3, QuietStep DEF End, NoCommand
<1>4. CASE End(t) /\ torn' = TRUE
  <2>1. command'[t] = NoCommand
    BY <1>4 DEF End, EvidenceInv, Shapes
  <2>2. PairedCommand(t)'
    BY <2>1 DEF PairedCommand, isHalfway, isCommandAt, NoCommand
  <2> QED
    BY <1>1, <1>2, <1>4, <2>2, AloneBefore, PairedStep DEF End
<1>5. CASE json' = command[t].json /\ GoTo(t, "markdown") /\ torn' = torn
  <2> DEFINE c == [command[t] EXCEPT !.place = "markdown"]
  <2>1. /\ c.place = "markdown" /\ c.stage = command[t].stage /\ c.force = command[t].force
        /\ c.json = command[t].json /\ c.markdown = command[t].markdown
    BY <1>1 DEF Publishing
  <2>2. command' = [command EXCEPT ![t] = c]
    BY <1>5 DEF GoTo
  <2> HIDE DEF c
  <2>3. command'[t] = c
    BY <2>2 DEF EvidenceInv, Shapes
  <2>4. ~overlapped => PairedCommand(t)
    BY <1>1, AloneBefore
  <2>5. ~overlapped' => PairedCommand(t)'
    BY <1>2, <1>5, <2>1, <2>3, <2>4 DEF PairedCommand, isHalfway, isCommandAt, PublishJson
  <2> QED
    BY <1>1, <1>2, <2>1, <2>2, <2>5, AloneBefore, PairedStep
<1> QED
  BY <1>3, <1>4, <1>5 DEF PublishJson

LEMMA PairedPublishMarkdown ==
  ASSUME EvidenceInv, PairedAlone, NEW t \in Terminals, PublishMarkdown(t)
  PROVE  PairedAlone'
<1>1. command[t] # NoCommand /\ isHalfway(t)
  BY DEF PublishMarkdown, isHalfway, isCommandAt, NoCommand
<1>2. command' = [command EXCEPT ![t] = NoCommand] /\ overlapped' = overlapped
  BY DEF PublishMarkdown, commandFrame, End
<1>3. command'[t] = NoCommand
  BY <1>2 DEF EvidenceInv, Shapes
<1>4. PairedCommand(t)'
  BY <1>3 DEF PairedCommand, isHalfway, isCommandAt, NoCommand
<1>5. ASSUME ~overlapped, ~torn' PROVE Twins(json', markdown')
  <2>1. PairedCommand(t)
    BY <1>1, <1>5, AloneBefore
  <2>2. /\ json = command[t].json
        /\ command[t].stage = "manifest" \/ ~torn => Twins(command[t].json, command[t].markdown)
        /\ ~command[t].force => markdown = Absent
    BY <1>1, <2>1 DEF PairedCommand
  <2>3. CASE /\ markdown' = command[t].markdown /\ json' = json
             /\ torn' = (torn /\ command[t].stage # "manifest")
    BY <1>5, <2>2, <2>3
  <2>4. CASE ~command[t].force /\ json' = Absent /\ markdown' = markdown
    BY <2>2, <2>4 DEF Twins, exists
  <2>5. ASSUME json' = json PROVE exists(json') <=> exists(json)
    BY <2>5 DEF exists
  <2> QED
    BY <1>5, <2>2, <2>3, <2>4, <2>5 DEF PublishMarkdown, mayPublish, mayLinkAndFail, exists
<1> QED
  BY <1>1, <1>2, <1>4, <1>5, AloneBefore, PairedStep

LEMMA PairedKilled ==
  ASSUME EvidenceInv, PairedAlone, NEW t \in Terminals, Killed(t)
  PROVE  PairedAlone'
<1>1. /\ command[t] # NoCommand
      /\ command' = [command EXCEPT ![t] = NoCommand]
      /\ UNCHANGED <<json, markdown, overlapped>>
      /\ torn' = (torn \/ isHalfway(t))
  BY DEF Killed, commandFrame, evidenceFiles, End, isHalfway
<1>2. command'[t] = NoCommand
  BY <1>1 DEF EvidenceInv, Shapes
<1>3. PairedCommand(t)'
  BY <1>2 DEF PairedCommand, isHalfway, isCommandAt, NoCommand
<1> QED
  BY <1>1, <1>3, AloneBefore, PairedStep

(* No files and no command at first, and every step keeps it.                  *)
LEMMA PairedInit == EvidenceInit => PairedAlone
BY DEF EvidenceInit, PairedAlone, PairedCommand, Twins, exists, isHalfway, isCommandAt, NoCommand

LEMMA PairedNext == EvidenceInv /\ PairedAlone /\ [EvidenceNext]_evidenceVars => PairedAlone'
<1> SUFFICES ASSUME EvidenceInv, PairedAlone, [EvidenceNext]_evidenceVars PROVE PairedAlone'
  OBVIOUS
<1>1. CASE UNCHANGED evidenceVars
  BY <1>1 DEF evidenceVars, evidenceFiles, PairedAlone, PairedCommand, isHalfway, isCommandAt
<1>2. CASE EvidenceNext
  BY <1>2, PairedEnterManifest, PairedEnterStage, PairedMeasure, PairedReadJson,
     PairedReadMarkdown, PairedPublishJson, PairedPublishMarkdown, PairedKilled DEF EvidenceNext
<1> QED
  BY <1>1, <1>2

(* Between commands the two files tell the same unless commands overlapped or   *)
(* one ended halfway, for every set of terminals, configurations and devices     *)
(* (hil_evidence.cpp:819-855, 916-961).                                         *)
THEOREM PairAgreesHolds == EvidenceSpec => []PairAgrees
<1>1. PairedAlone => PairAgrees
  <2> SUFFICES ASSUME PairedAlone, inFlightCommands = {}, ~overlapped, ~torn
               PROVE  Twins(json, markdown)
    BY DEF PairAgrees, Twins
  <2>1. \A t \in Terminals : ~isHalfway(t)
    BY DEF inFlightCommands, isHalfway, isCommandAt, NoCommand
  <2> QED
    BY <2>1 DEF PairedAlone
<1> QED
  BY <1>1, PairedInit, PairedNext, EvidenceInvCorrect, PTL DEF EvidenceSpec
=============================================================================
