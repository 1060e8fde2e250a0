---------------------------- MODULE MCVoiceWorker ----------------------------
(* Instances of VoiceWorker: two tracks of two frames, one with a known     *)
(* duration, and two volume levels.                                         *)
EXTENDS VoiceWorker

MCTimed == {1}
MCVolumes == {50, 100}
==============================================================================
