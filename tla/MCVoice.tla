---------------------------------- MODULE MCVoice ----------------------------------
(***************************************************************************)
(* The places a spoken conversation lives in, side by side in one run: the *)
(* manager of its sessions, the driver of one, the speech on its way to a   *)
(* satellite, and the satellite.  They share no state: a behaviour picks one, the others rest as they begin.   *)
(***************************************************************************)
EXTENDS VoiceSessions, VoiceCalls, SpeechCredit, Satellite

VARIABLE place

VoiceInit ==
    /\ place \in {"sessions", "calls", "speech", "satellite"}
    /\ TalkInit /\ CallInit /\ CreditInit /\ SatInit

Still(p, v) == IF place = p THEN TRUE ELSE UNCHANGED v

VoiceNext ==
    /\ \/ place = "sessions" /\ TalkNext
       \/ place = "calls" /\ CallNext
       \/ place = "speech" /\ CreditNext
       \/ place = "satellite" /\ SatNext
    /\ UNCHANGED place
    /\ Still("sessions", talkVars) /\ Still("calls", callVars)
    /\ Still("speech", creditVars) /\ Still("satellite", satVars)

voiceVars == <<place, talkVars, callVars, creditVars, satVars>>

\* Where a part begins nothing has been asked of it yet, and no fair step of it is enabled.
VoiceSpec == VoiceInit /\ [][VoiceNext]_voiceVars /\ TalkFairness /\ CallFairness /\ SatFairness
=============================================================================
