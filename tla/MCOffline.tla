------------------------------- MODULE MCOffline -------------------------------
(***************************************************************************)
(* OfflineEditor, OfflineJob and HilEvidence for model checking.  They share no *)
(* state, so a behaviour is one of the editor and the commands, one piece of     *)
(* work, or one of the evidence of the hardware tests.                          *)
(***************************************************************************)
EXTENDS OfflineEditor, OfflineJob, HilEvidence

VARIABLE program

allVars == <<vars, jobVars, evidenceVars, program>>

(* The others do not care which files the editor would find.                   *)
MCInit ==
  /\ Init /\ OfflineJobInit /\ EvidenceInit
  /\ program \in {"editor", "job", "evidence"}
  /\ program # "editor" => files["out"] = NoFile /\ scope.jobs = MaxJobs

MCNext ==
  /\ \/ program = "editor" /\ Next /\ UNCHANGED <<jobVars, evidenceVars>>
     \/ program = "job" /\ OfflineJobNext /\ UNCHANGED <<vars, evidenceVars>>
     \/ program = "evidence" /\ EvidenceNext /\ UNCHANGED <<vars, jobVars>>
  /\ UNCHANGED program

(* The fairness of OfflineEditor.                                            *)
MCSpec == MCInit /\ [][MCNext]_allVars /\ WF_vars(Accept) /\ WF_vars(Work)

-----------------------------------------------------------------------------
Scope(revisions, nrOfJobs, others, requests, commands) ==
  [revisions |-> revisions, jobs |-> nrOfJobs, foreign |-> others,
   requests |-> requests, commands |-> commands]

(* Many requests, many writers of one file, and others who change the files.     *)
MCScopes ==
  {Scope(3, 4, 0, {"png", "inspect"}, {}),
   Scope(2, 3, 0, {"png", "wav"}, {"prepare-image"}),
   Scope(2, 2, 1, RequestKinds, CommandKinds)}

Tone(numerator, denominator, frequencyHz, amplitude) ==
  ToneEvent(Duration(numerator, denominator), frequencyHz, amplitude)

(* At 8000 Hz: events of one and a half frames and of less than one.           *)
MCMelodies ==
  {<<Tone(3, 16000, 1500, 80), Tone(3, 16000, 2300, 80), Tone(1, 20000, 1200, 0),
     Tone(3, 16000, 1900, 80)>>,
   <<Tone(1, 20000, 1500, 0), Tone(1, 16000, 1500, 0), Tone(1, 16000, 1500, 0)>>,
   <<Tone(1, 20000, 1500, 80)>>,
   <<Tone(1, 4000, 4000, 80)>>}
MCScalars == [d \in {-61, -60, -6, 0} |->
  CASE d = -61 -> 1 [] d = -60 -> 1 [] d = -6 -> 501 [] d = 0 -> 1000]
MCLevels == {<<-1, 1>>, <<1, 3>>, <<1, 1>>}

Pcm(sampleRate, channels, bits, byteRate) ==
  [audioFormat |-> 1, channels |-> channels, sampleRate |-> sampleRate, byteRate |-> byteRate,
   blockAlignment |-> 2, bitsPerSample |-> bits]
MCSamples == {-32768, 5, 32767}
MCFormats == {Pcm(8000, 1, 16, 16000), Pcm(8000, 2, 16, 16000), Pcm(8001, 1, 16, 16002)}
MCLimits == [maximumInputBytes |-> 60, maximumUnknownChunkBytes |-> 2, maximumChunkCount |-> 4]

grey == <<96, 96, 96>>
OnePixel(place, colour) ==
  [width |-> 4, height |-> 4, pixels |-> [i \in 0 .. 15 |-> IF i = place THEN colour ELSE grey]]
MCSampleFrames ==
  {OnePixel(place, colour) : place \in 0 .. 15,
     colour \in {<<255, 0, 0>>, <<0, 255, 0>>, <<0, 0, 255>>, <<255, 255, 255>>, <<0, 0, 0>>}}
    \cup {makeDiagnosticPattern(24, 24), makeDiagnosticPattern(32, 40)}

(* "M6VPN", "a _", blanks, and ten characters.                                 *)
MCIdentifiers == {<<77, 54, 86, 80, 78>>, <<97, 32, 95>>, <<32, 32>>, [i \in 1 .. 10 |-> 65]}

MCSourceSizes ==
  ({1, 319, 320, 641, 1281, 2561, 5121} \X {1, 240, 257, 497, 1985, 3969})
    \cup {<<16384, 1>>, <<1, 16384>>, <<16384, 3907>>, <<16385, 16>>}
CropOf(x, y, width, height) == [x |-> x, y |-> y, width |-> width, height |-> height]
MCCrops == {CropOf(0, 0, 0, 1), CropOf(300, 0, 20, 240), CropOf(0, 500, 2561, 1)}
Told(identity, radio, address, channels, gain, isBounded) ==
  [hasBoundedTexts |-> isBounded, playbackIdentity |-> identity, hasIdentityCollision |-> FALSE,
   selectedChannel |-> 0, channelCount |-> channels, pttProvider |-> "flrig",
   pttProviderVersion |-> "2.0", pttAddress |-> address, pttPort |-> 12345,
   frameCount |-> 1, gainDbfs |-> gain, radioModel |-> radio]
(* The first two have one digest; the last three are refused.                   *)
MCConfigurations ==
  {Told("usb", "G90", "::1", 2, -6, TRUE), Told("usb", "IC-705", "::1", 2, -6, TRUE),
   Told("hdmi", "G90", "::1", 2, -60, TRUE), Told("usb", "G90", "::1", 0, -6, TRUE),
   Told("usb", "G90", "::1", 2, -5, TRUE), Told("usb", "G90", "rig", 2, -6, FALSE)}
Device(opaque, stability, isDefault, hasIdentityCollision) ==
  [direction |-> "playback", opaque |-> opaque, stability |-> stability,
   isDefault |-> isDefault, hasIdentityCollision |-> hasIdentityCollision]
MCDeviceLists ==
  {<<>>, <<Device("usb", "persistent", FALSE, FALSE)>>,
   <<Device("usb", "persistent", FALSE, FALSE), Device("usb", "persistent", FALSE, FALSE)>>,
   <<Device("usb", "session", FALSE, FALSE)>>}
=============================================================================
