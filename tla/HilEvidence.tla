------------------------------ MODULE HilEvidence ------------------------------
(***************************************************************************)
(* The evidence of the hardware tests: m2j-evidence-v1.json and .md in one    *)
(* directory, written by hil-manifest and changed by hil-stage                *)
(* (apps/cli/hil_commands.cpp, src/app/hil_evidence.cpp).  Every command is a  *)
(* process; nothing locks the directory, so the commands of two terminals      *)
(* interleave at each file they read, rename or link, and while one of them     *)
(* waits at its prompt.  A digest is the fields it is computed over: SHA-256     *)
(* is taken to be injective, also in the twelve digits of it that a phrase        *)
(* shows; the build is one in which ptt-unkey is armed.                         *)
(***************************************************************************)
EXTENDS Integers, Sequences, FiniteSets

CONSTANTS
  Terminals,       \* where commands are entered
  MaxCommands,     \* bound on the commands entered
  MaxMishaps,      \* bound on files that cannot be published and on kills
  Configurations,  \* what hil-manifest is told
  Identities,      \* what --playback-id selects; "" when it is malformed
  Versions,        \* what --flrig-version says
  DeviceLists      \* what a refresh of the backend finds, or an error: <<>>

ASSUME EvidenceBoundsAssumption ==
  MaxCommands \in Nat /\ MaxMishaps \in Nat /\ IsFiniteSet(Terminals)

VARIABLES
  json,        \* m2j-evidence-v1.json
  markdown,    \* m2j-evidence-v1.md
  command,     \* terminal -> the command it runs
  entered,     \* number of commands entered
  mishaps,     \* number of failures and kills
  earned,      \* <<digest, stage>> confirmed at the prompt and then seen to pass
  overlapped,  \* two commands ran at the same time
  torn         \* a command ended between the two files

evidenceFiles == <<json, markdown>>
evidenceVars == <<evidenceFiles, command, entered, mishaps, earned, overlapped, torn>>

HilStages == {"manifest", "discovery", "audio-calibration", "ptt-unkey", "keyed-silence",
              "full-sstv", "controlled-fault", "gui-compositor"}
isKeyedStage(stage) == stage \in {"keyed-silence", "full-sstv", "controlled-fault"}

-----------------------------------------------------------------------------
(* The record.                                                             *)

digestFields == {"playbackIdentity", "hasIdentityCollision", "selectedChannel", "channelCount",
                 "pttProvider", "pttProviderVersion", "pttAddress", "pttPort", "frameCount",
                 "gainDbfs"}
calculateHilConfigurationDigest(configuration) == [f \in digestFields |-> configuration[f]]

StageResult(state, source, certainty) ==
  [state |-> state, source |-> source, finalPttCertainty |-> certainty, skippedReason |-> ""]

makeManifest(configuration) ==
  [configuration |-> configuration,
   stages |-> [s \in HilStages |->
     IF s = "manifest" THEN StageResult("passed", "automatically-measured", "unknown")
                       ELSE StageResult("not-run", "not-measured", "unknown")]]

isValidConfiguration(c) ==
  /\ c.hasBoundedTexts
  /\ c.pttProvider \in {"mock", "flrig", "rigctld"}
  /\ c.pttAddress \in {"127.0.0.1", "::1"}
  /\ c.pttPort # 0
  /\ c.gainDbfs \in -60 .. -6
  /\ c.channelCount # 0 /\ c.selectedChannel < c.channelCount
  /\ c.frameCount # 0

validateHilEvidence(record) ==
  /\ isValidConfiguration(record.configuration)
  /\ \A s \in DOMAIN record.stages :
       LET result == record.stages[s] IN
       /\ result.state = "skipped" => result.skippedReason # ""
       /\ isKeyedStage(s) /\ result.state = "passed" =>
            result.finalPttCertainty = "definitely-unkeyed"

(* A file with nothing in it stands for one that does not exist.             *)
Absent == [configuration |-> [hasBoundedTexts |-> FALSE], stages |-> <<>>]
exists(file) == file # Absent

serializeHilEvidenceJson(record) == record
shownFields == {"playbackIdentity", "selectedChannel", "channelCount", "pttProvider",
                "pttProviderVersion", "pttAddress", "pttPort", "radioModel"}
serializeHilEvidenceMarkdown(record) ==
  [configuration |-> [f \in shownFields |-> record.configuration[f]],
   stages |-> [s \in HilStages |->
     [state |-> record.stages[s].state, source |-> record.stages[s].source,
      finalPttCertainty |-> record.stages[s].finalPttCertainty]]]

hasPassed(record, stage) == record.stages[stage].state = "passed"

-----------------------------------------------------------------------------
(* The permit of one command: an authorizer lives no longer than its prompt.  *)

hilStageConfirmationPhrase(stage, digest) == <<stage, digest>>
noPermit == [nonce |-> 0]
authorize(nextNonce, stage, digest, phrase, hasChecklist) ==
  IF stage = "manifest" \/ (hasChecklist /\ phrase = hilStageConfirmationPhrase(stage, digest))
  THEN [nonce |-> nextNonce, stage |-> stage, digest |-> digest] ELSE noPermit
mayConsume(held, permit, stage, digest) ==
  held # noPermit /\ permit.nonce = held.nonce /\ permit.stage = stage
    /\ permit.digest = digest /\ held.digest = digest

confirmInteractive(stage, digest, phrase) ==
  /\ phrase = hilStageConfirmationPhrase(stage, digest)
  /\ LET permit == authorize(1, stage, digest, phrase, TRUE) IN
     permit # noPermit /\ mayConsume(permit, permit, stage, digest)

-----------------------------------------------------------------------------
NoCommand == [place |-> "none"]
inFlightCommands == {t \in Terminals : command[t] # NoCommand}
isCommandAt(t, place) == command[t].place = place

EnterCommand(t, what) ==
  /\ entered < MaxCommands
  /\ command[t] = NoCommand
  /\ entered' = entered + 1
  /\ overlapped' = (overlapped \/ inFlightCommands # {})
  /\ command' = [command EXCEPT ![t] = what]
  /\ UNCHANGED <<evidenceFiles, mishaps, earned, torn>>

commandFrame == UNCHANGED <<entered, overlapped>>
GoTo(t, place) == command' = [command EXCEPT ![t].place = place]
End(t) == command' = [command EXCEPT ![t] = NoCommand]

(* publishHilEvidence() up to its first file.  What it refuses changes nothing. *)
EnterManifest(t) ==
  \E configuration \in Configurations, force \in BOOLEAN :
    LET record == makeManifest(configuration) IN
    /\ validateHilEvidence(record)
    /\ force \/ (~exists(json) /\ ~exists(markdown))
    /\ EnterCommand(t, [place |-> "json", stage |-> "manifest", force |-> force,
                 json |-> serializeHilEvidenceJson(record),
                 markdown |-> serializeHilEvidenceMarkdown(record)])

anyDigest(digest) == TRUE
isDigestOf(digest) == digest = calculateHilConfigurationDigest(json.configuration)

(* runHilStage() up to its prompt: the file is read once.                     *)
EnterStage(t) ==
  \E stage \in {"discovery", "ptt-unkey"}, c \in Configurations :
    LET digest == calculateHilConfigurationDigest(c) IN
    /\ exists(json)
    /\ hasPassed(json, "manifest") /\ ~hasPassed(json, stage)
    /\ stage = "ptt-unkey" => hasPassed(json, "discovery")
    /\ isDigestOf(digest)
    /\ EnterCommand(t, [place |-> "prompt", stage |-> stage, force |-> TRUE, digest |-> digest,
                 version |-> json.configuration.pttProviderVersion])

(* The operator types the phrase, or the command ends.                        *)
Confirm(t) ==
  /\ isCommandAt(t, "prompt")
  /\ \E phrase \in {<<command[t].stage, command[t].digest>>, <<"no", {}>>} :
       IF confirmInteractive(command[t].stage, command[t].digest, phrase)
       THEN GoTo(t, "measure") ELSE End(t)
  /\ UNCHANGED <<evidenceFiles, mishaps, earned, torn>>
  /\ commandFrame

(* A result goes to publishHilStageResult(); it is earned if what was seen is.    *)
PublishResult(t, state, certainty, isEarned) ==
  /\ command' = [command EXCEPT ![t] =
       [place |-> "read-json", stage |-> @.stage, force |-> TRUE,
        result |-> StageResult(state, "automatically-measured", certainty)]]
  /\ earned' = earned \cup
       (IF isEarned THEN {<<command[t].digest, command[t].stage>>} ELSE {})
Throw(t) == End(t) /\ UNCHANGED earned
measureFrame == UNCHANGED <<evidenceFiles, mishaps, torn>> /\ commandFrame

(* One persistent device that is not the default and not one of two.           *)
isOneExactMatch(devices, opaque) ==
  LET matches == {i \in DOMAIN devices :
                    devices[i].direction = "playback" /\ devices[i].opaque = opaque} IN
  \E i \in matches :
    /\ \A j \in matches : i <= j
    /\ devices[i].stability = "persistent"
    /\ ~devices[i].isDefault /\ ~devices[i].hasIdentityCollision
    /\ ~\E j \in matches : j > i /\ devices[j].stability = devices[i].stability

Discover(t) ==
  /\ isCommandAt(t, "measure") /\ command[t].stage = "discovery"
  /\ \/ \E opaque \in Identities, devices \in DeviceLists :
          LET isFound == isOneExactMatch(devices, opaque) IN
          IF opaque = "" THEN Throw(t)
          ELSE PublishResult(t, IF isFound THEN "passed" ELSE "failed", "unknown", isFound)
     \/ PublishResult(t, "failed", "unknown", FALSE)
  /\ measureFrame

Certainties == {"definitely-unkeyed", "definitely-keyed", "indeterminate"}
mayBeUnkeyed(certainty) == certainty # "definitely-keyed"
isUnkeyed(certainty) == certainty = "definitely-unkeyed"

(* A query answered "unkeyed" is enough; otherwise the rig is unkeyed next.     *)
Query(t) ==
  /\ isCommandAt(t, "measure") /\ command[t].stage = "ptt-unkey"
  /\ \E version \in Versions, certainty \in Certainties :
       IF version # command[t].version THEN Throw(t)
       ELSE IF certainty = "definitely-unkeyed"
            THEN PublishResult(t, "passed", "definitely-unkeyed", TRUE)
       ELSE GoTo(t, "unkey") /\ UNCHANGED earned
  /\ measureFrame

(* PttSupervisor::unkey(); a rig that may stay keyed leaves no record.         *)
Unkey(t) ==
  /\ isCommandAt(t, "unkey")
  /\ \E certainty \in Certainties :
       IF isUnkeyed(certainty)
       THEN PublishResult(t, "passed", "definitely-unkeyed", certainty = "definitely-unkeyed")
       ELSE Throw(t)
  /\ measureFrame

-----------------------------------------------------------------------------
(* publishHilStageResult(): each file is read, changed in one place, replaced. *)

patchJson(file, stage, result) == [file EXCEPT !.stages[stage] = result]
patchAlwaysPassed(file, stage, result) ==
  [file EXCEPT !.stages[stage] =
    [state |-> "passed", source |-> result.source, finalPttCertainty |-> "unknown"]]
patchMarkdown(file, stage, result) ==
  [file EXCEPT !.stages[stage] =
    [state |-> result.state, source |-> result.source, finalPttCertainty |-> "unknown"]]

ReadJson(t) ==
  /\ isCommandAt(t, "read-json")
  /\ IF exists(json)
     THEN command' = [command EXCEPT ![t] =
            [place |-> "read-markdown", stage |-> @.stage, force |-> TRUE, result |-> @.result,
             json |-> patchJson(json, @.stage, @.result)]]
     ELSE End(t)
  /\ UNCHANGED <<evidenceFiles, mishaps, earned, torn>>
  /\ commandFrame

ReadMarkdown(t) ==
  /\ isCommandAt(t, "read-markdown")
  /\ IF exists(markdown)
     THEN command' = [command EXCEPT ![t] =
            [place |-> "json", stage |-> @.stage, force |-> TRUE, json |-> @.json,
             markdown |-> patchMarkdown(markdown, @.stage, @.result)]]
     ELSE End(t)
  /\ UNCHANGED <<evidenceFiles, mishaps, earned, torn>>
  /\ commandFrame

(* publishAtomicText(): forced, rename() replaces; otherwise link() does not.   *)
mayPublish(t, file) == command[t].force \/ ~exists(file)
(* link() has worked and the temporary name cannot be removed: still an error.  *)
mayLinkAndFail(t) == ~command[t].force
Mishap == mishaps < MaxMishaps /\ mishaps' = mishaps + 1

PublishJson(t) ==
  /\ isCommandAt(t, "json")
  /\ \/ /\ mayPublish(t, json)
        /\ json' = command[t].json
        /\ GoTo(t, "markdown")
        /\ UNCHANGED <<mishaps, torn>>
     \/ /\ ~mayPublish(t, json)
        /\ End(t)
        /\ UNCHANGED <<json, mishaps, torn>>
     \/ /\ mayPublish(t, json) /\ Mishap
        /\ \/ UNCHANGED <<json, torn>>
           \/ mayLinkAndFail(t) /\ json' = command[t].json /\ torn' = TRUE
        /\ End(t)
  /\ UNCHANGED <<markdown, earned>>
  /\ commandFrame

(* A manifest that was not forced takes the first file back, whose it may be,    *)
(* unless remove() throws.  (After a lost race that leaves what Killed leaves.)  *)
PublishMarkdown(t) ==
  /\ isCommandAt(t, "markdown")
  /\ \/ /\ mayPublish(t, markdown)
        /\ markdown' = command[t].markdown
        /\ torn' = (torn /\ command[t].stage # "manifest")
        /\ UNCHANGED <<json, mishaps>>
     \/ /\ ~mayPublish(t, markdown)
        /\ json' = Absent
        /\ UNCHANGED <<markdown, mishaps, torn>>
     \/ /\ mayPublish(t, markdown) /\ Mishap
        /\ json' \in IF command[t].force THEN {json} ELSE {Absent, json}
        /\ \/ UNCHANGED markdown /\ torn' = (torn \/ command[t].force \/ exists(json'))
           \/ mayLinkAndFail(t) /\ markdown' = command[t].markdown /\ torn' = TRUE
  /\ End(t)
  /\ UNCHANGED earned
  /\ commandFrame

(* The process is killed.                                                   *)
Killed(t) ==
  /\ command[t] # NoCommand
  /\ Mishap
  /\ torn' = (torn \/ isCommandAt(t, "markdown"))
  /\ End(t)
  /\ UNCHANGED <<evidenceFiles, earned>>
  /\ commandFrame

EvidenceInit ==
  /\ json = Absent /\ markdown = Absent
  /\ command = [t \in Terminals |-> NoCommand]
  /\ entered = 0 /\ mishaps = 0
  /\ earned = {} /\ overlapped = FALSE /\ torn = FALSE

EvidenceNext ==
  \E t \in Terminals :
    \/ EnterManifest(t) \/ EnterStage(t) \/ Confirm(t)
    \/ Discover(t) \/ Query(t) \/ Unkey(t)
    \/ ReadJson(t) \/ ReadMarkdown(t) \/ PublishJson(t) \/ PublishMarkdown(t)
    \/ Killed(t)

EvidenceSpec == EvidenceInit /\ [][EvidenceNext]_evidenceVars

-----------------------------------------------------------------------------
(* A stage that the evidence calls passed was confirmed at the prompt and seen   *)
(* to pass, whatever the commands of other terminals did in between and         *)
(* wherever one was killed.  As long as no two commands overlap, it was          *)
(* confirmed for the very configuration the evidence describes, and the rig was   *)
(* only unkeyed after the sound device had been found                           *)
(* (hil_commands.cpp:304-448, hil_evidence.cpp:916-961).                        *)
EvidenceIsEarned ==
  \A file \in {json, markdown} : \A s \in DOMAIN file.stages \ {"manifest"} :
    hasPassed(file, s) =>
      /\ \E entry \in earned : entry[2] = s
      /\ ~overlapped /\ file = json =>
           /\ <<calculateHilConfigurationDigest(json.configuration), s>> \in earned
           /\ s = "ptt-unkey" => hasPassed(json, "discovery")

(* Between commands the two files tell the same: they are both there or neither, *)
(* of one configuration, with the same result and source for every stage; unless   *)
(* commands overlapped, or one ended after the first file and no manifest replaced  *)
(* both since (hil_evidence.cpp:819-855, 916-961).                                *)
PairAgrees ==
  inFlightCommands = {} /\ ~overlapped /\ ~torn =>
    /\ exists(json) <=> exists(markdown)
    /\ exists(json) =>
         /\ \A f \in shownFields : json.configuration[f] = markdown.configuration[f]
         /\ \A s \in HilStages :
              /\ json.stages[s].state = markdown.stages[s].state
              /\ json.stages[s].source = markdown.stages[s].source
=============================================================================
