---------------------------- MODULE MCVoiceDevice ----------------------------
EXTENDS VoiceDevice
=============================================================================
