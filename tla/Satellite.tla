----------------------------- MODULE Satellite -----------------------------
(***************************************************************************)
(* The state machine of a voice satellite (satellite/main/state/state.c)   *)
(* between the tasks that post to its queue: radio, socket, wake word,     *)
(* voice detector, speaker and clock.  The machine's own task takes one    *)
(* event at a time and commands the drivers on the way out of a state and  *)
(* into the next.  At the other end is the daemon, as serve/voice.go       *)
(* behaves for one board.                                                  *)
(*                                                                         *)
(* Of time only this is kept: whether the limit of the state the board is  *)
(* in has passed since it was entered.  Of audio: whether any waits to be  *)
(* played.  The ring of lights, the credit for audio and barge-in, which   *)
(* the build switches off (BARGE_IN_LOCAL), are left out.                  *)
(***************************************************************************)
EXTENDS Naturals, Sequences

CONSTANTS
    SatDepth,       \* QUEUE_DEPTH of the machine's loop
    SatLossy,       \* the loop may be full when something is posted
    MaxSentences    \* bound: sentences a person ends

ASSUME SatelliteAssumption == SatDepth \in Nat \ {0} /\ SatLossy \in BOOLEAN /\ MaxSentences \in Nat

VARIABLES
    satState,       \* the state of the machine
    satFacts,       \* has_address, has_link, acked, hang_up_after_speaking: those that hold
    satLate,        \* the limit of this state has passed since it was entered
    satDrivers,     \* uplink, gate, wakeword, amp: the drivers that are on
    satQueue,       \* the events of the loop
    satNet,         \* address, socket: those the board has
    satSpeaker,     \* waiting: audio queued, playing, refill: the speaker's task and its flags
    satTalk,        \* the daemon's session: none, called (voice.wake is on its way), open, asking
    satStale,       \* the daemon still has a session when the next voice.wake is on its way
    satSentences    \* sentences ended so far

satVars == <<satState, satFacts, satLate, satDrivers, satQueue, satNet, satSpeaker, satTalk,
             satStale, satSentences>>

Conversation == {"listening", "thinking", "speaking", "approval"}
SatStates == Conversation \cup {"boot", "no-network", "no-daemon", "fault", "idle", "capture"}
RemoteStates == {"says idle", "says listening", "says approval"}
SatEvents == RemoteStates \cup
    {"net-up", "net-down", "link-up", "link-down", "link-rejected", "mic-dead", "unprovisioned", "wake",
     "voice-end", "playback-start", "playback-end", "tick", "capture-start", "capture-stop"}

SatInit ==
    /\ satState = "boot" /\ satFacts = {} /\ satLate = FALSE
    /\ satDrivers = {"wakeword"}
    /\ satQueue = <<>>
    /\ satNet = {} /\ satSpeaker = {}
    /\ satTalk = "none" /\ satStale = FALSE /\ satSentences = 0

SatTypeOK ==
    /\ satState \in SatStates
    /\ satFacts \subseteq {"address", "link", "acked", "hang-up"}
    /\ satLate \in BOOLEAN /\ satStale \in BOOLEAN
    /\ satDrivers \subseteq {"uplink", "gate", "wakeword", "amp"}
    /\ satQueue \in Seq(SatEvents) /\ Len(satQueue) <= SatDepth
    /\ satNet \subseteq {"address", "socket"}
    /\ satSpeaker \subseteq {"waiting", "playing", "refill"}
    /\ satTalk \in {"none", "called", "open", "asking"}
    /\ satSentences \in 0..MaxSentences

InConversation == satState \in Conversation

-----------------------------------------------------------------------------
(* state_post never waits: an event that finds the queue full is gone.  In  *)
(* the behaviours without loss the queue is deep enough.                    *)
Queued(q, ev) == IF Len(q) < SatDepth THEN Append(q, ev) ELSE q
HasRoomFor(q, n) == SatLossy \/ Len(q) + n <= SatDepth
\* Fault: nobody counts the events.
PostUnbounded(ev) == satQueue' = Append(satQueue, ev)

Post(ev) == HasRoomFor(satQueue, 1) /\ satQueue' = Queued(satQueue, ev)

(* leave and enter, for a step that does move the machine: a recording only *)
(* opens the uplink; a conversation opens it, raises the amplifier and      *)
(* empties the speaker's queue at both ends; the wake word is off for both, *)
(* and the microphone is silenced while the board speaks.                   *)
Left(from, to) ==
    CASE from = "capture" -> (satDrivers \ {"uplink"}) \cup {"wakeword"}
      [] from \in Conversation /\ to \notin Conversation ->
             (satDrivers \ {"uplink", "amp"}) \cup {"wakeword"}
      [] OTHER -> satDrivers
\* Fault: the gate is lifted where a sentence may follow, and nowhere else.
GatedUntilListening(drivers, from, to) ==
    IF to = "speaking" THEN drivers \cup {"gate"}
    ELSE IF to = "listening" THEN drivers \ {"gate"} ELSE drivers

Gated(drivers, from, to) ==
    IF to = "speaking" THEN drivers \cup {"gate"}
    ELSE IF from = "speaking" THEN drivers \ {"gate"} ELSE drivers
Entered(drivers, from, to) ==
    CASE to = "capture" -> (drivers \ {"wakeword", "gate"}) \cup {"uplink"}
      [] to \in Conversation /\ from \notin Conversation -> (drivers \ {"wakeword"}) \cup {"uplink", "amp"}
      [] OTHER -> drivers
Crosses(from, to) == (from \in Conversation) # (to \in Conversation)

\* audio_out_flush: the queue is emptied and the speaker's task will notice.
Flushed == (satSpeaker \ {"waiting"}) \cup {"refill"}

(* go(to), while the facts become those given. *)
Go(to, facts) ==
    /\ satState' = to
    /\ IF to = satState
         THEN satFacts' = facts /\ UNCHANGED <<satLate, satDrivers, satSpeaker>>
         ELSE /\ satLate' = FALSE
              /\ satDrivers' = Entered(Gated(Left(satState, to), satState, to), satState, to)
              /\ satSpeaker' = IF Crosses(satState, to) THEN Flushed ELSE satSpeaker
              /\ satFacts' = IF to \in Conversation /\ ~InConversation
                               THEN facts \ {"acked", "hang-up"} ELSE facts
Stay(facts) == Go(satState, facts)

-----------------------------------------------------------------------------
(* What each event does; the daemon hears of a wake word in any state. *)

Faulted(ev) == ev \in {"unprovisioned", "link-rejected", "mic-dead"} /\ Go("fault", satFacts)

NetDown(ev) == ev = "net-down" /\ Go("no-network", satFacts \ {"address", "link"})

LinkDown(ev) ==
    /\ ev = "link-down"
    /\ Go(IF "address" \in satFacts THEN "no-daemon" ELSE "no-network", satFacts \ {"link"})

NetUp(ev) ==
    /\ ev = "net-up"
    /\ Go(IF satState \in {"boot", "no-network"} THEN "no-daemon" ELSE satState,
          satFacts \cup {"address"})

LinkUp(ev) ==
    /\ ev = "link-up"
    /\ Go(IF InConversation THEN satState ELSE "idle", satFacts \cup {"link"})

Wake(ev) ==
    /\ ev = "wake"
    /\ Go(IF "link" \in satFacts /\ satState = "idle" THEN "listening" ELSE satState, satFacts)

VoiceEnd(ev) ==
    /\ ev = "voice-end"
    /\ Go(IF satState = "listening" THEN "thinking" ELSE satState, satFacts)

PlaybackStart(ev) ==
    /\ ev = "playback-start"
    /\ Go(IF InConversation THEN "speaking" ELSE satState, satFacts)

PlaybackEnd(ev) ==
    /\ ev = "playback-end"
    /\ IF satState # "speaking" THEN Stay(satFacts)
       ELSE Go(IF "hang-up" \in satFacts THEN "idle" ELSE "listening", satFacts \ {"hang-up"})

\* Fault: an idle that comes while the speaker runs is not kept.
RemoteIdleUnkept(ev) ==
    /\ ev = "says idle"
    /\ IF InConversation /\ "acked" \in satFacts /\ satState # "speaking"
         THEN Go("idle", satFacts) ELSE Stay(satFacts)

\* An idle is obeyed once this conversation is confirmed, and held while the speaker runs.
RemoteIdle(ev) ==
    /\ ev = "says idle"
    /\ CASE ~InConversation \/ "acked" \notin satFacts -> Stay(satFacts)
         [] InConversation /\ "acked" \in satFacts /\ satState = "speaking" ->
                Stay(satFacts \cup {"hang-up"})
         [] OTHER -> Go("idle", satFacts)

RemoteState(ev) ==
    /\ ev \in {"says listening", "says approval"}
    /\ IF ~InConversation THEN Stay(satFacts)
       ELSE IF ev = "says listening" THEN Go("listening", satFacts \cup {"acked"})
       ELSE Go("approval", satFacts)

Capture(ev) ==
    \/ ev = "capture-start" /\ Go(IF satState = "idle" THEN "capture" ELSE satState, satFacts)
    \/ ev = "capture-stop" /\ Go(IF satState = "capture" THEN "idle" ELSE satState, satFacts)

\* The answers that never came.
Tick(ev) ==
    /\ ev = "tick"
    /\ Go(IF ~satLate THEN satState
          ELSE IF satState = "listening" /\ "acked" \notin satFacts THEN "idle"
          ELSE IF satState = "thinking" THEN "listening"
          ELSE IF satState = "capture" THEN "idle" ELSE satState, satFacts)

(* on_sat of main.c, after the machine's own handler: voice.wake goes out  *)
(* if the socket is up.  It starts a session in the daemon, which stops    *)
(* the one it may still have.                                              *)
CallsDaemon(ev) ==
    IF ev = "wake" /\ "socket" \in satNet
      THEN satTalk' = "called" /\ satStale' = (satTalk \in {"open", "asking"} \/ satStale)
      ELSE UNCHANGED <<satTalk, satStale>>

Handle ==
    /\ satQueue # <<>>
    /\ satQueue' = Tail(satQueue)
    /\ LET ev == Head(satQueue)
       IN  /\ CallsDaemon(ev)
           /\ IF satState = "fault" THEN Stay(satFacts)
              ELSE \/ Faulted(ev) \/ NetDown(ev) \/ LinkDown(ev) \/ NetUp(ev) \/ LinkUp(ev)
                   \/ Wake(ev) \/ VoiceEnd(ev) \/ PlaybackStart(ev) \/ PlaybackEnd(ev)
                   \/ RemoteIdle(ev) \/ RemoteState(ev) \/ Capture(ev) \/ Tick(ev)
    /\ UNCHANGED <<satNet, satSentences>>

-----------------------------------------------------------------------------
(* The tasks around the machine. *)

GetAddress ==
    /\ "address" \notin satNet /\ Post("net-up")
    /\ satNet' = satNet \cup {"address"}
    /\ UNCHANGED <<satState, satFacts, satLate, satDrivers, satSpeaker, satTalk, satStale,
                   satSentences>>

LoseAddress ==
    /\ "address" \in satNet /\ Post("net-down")
    /\ satNet' = satNet \ {"address"}
    /\ UNCHANGED <<satState, satFacts, satLate, satDrivers, satSpeaker, satTalk, satStale,
                   satSentences>>

Connect ==
    /\ satNet = {"address"} /\ Post("link-up")
    /\ satNet' = satNet \cup {"socket"}
    /\ UNCHANGED <<satState, satFacts, satLate, satDrivers, satSpeaker, satTalk, satStale,
                   satSentences>>

(* The socket goes: what was queued for it is thrown away, and the daemon  *)
(* ends the session of a device that has no connection (endVoice).         *)
Disconnect ==
    /\ "socket" \in satNet /\ Post("link-down")
    /\ satNet' = satNet \ {"socket"} /\ satTalk' = "none" /\ satStale' = FALSE
    /\ UNCHANGED <<satState, satFacts, satLate, satDrivers, satSpeaker, satSentences>>

(* The daemon closes it with code 4401: this board's token is no longer good. *)
Reject ==
    /\ "socket" \in satNet /\ HasRoomFor(satQueue, 2)
    /\ satQueue' = Queued(Queued(satQueue, "link-rejected"), "link-down")
    /\ satNet' = satNet \ {"socket"} /\ satTalk' = "none" /\ satStale' = FALSE
    /\ UNCHANGED <<satState, satFacts, satLate, satDrivers, satSpeaker, satSentences>>

\* The front end's loop; a person says the wake word again only when the first had its effect.
SayWakeWord ==
    /\ "wakeword" \in satDrivers /\ \A i \in 1..Len(satQueue) : satQueue[i] # "wake"
    /\ Post("wake")
    /\ UNCHANGED <<satState, satFacts, satLate, satDrivers, satNet, satSpeaker, satTalk,
                   satStale, satSentences>>

EndSentence ==
    /\ satSentences < MaxSentences /\ Post("voice-end")
    /\ satSentences' = satSentences + 1
    /\ UNCHANGED <<satState, satFacts, satLate, satDrivers, satNet, satSpeaker, satTalk,
                   satStale>>

\* The front end's loop exits, or there are no credentials in flash.
Breaks ==
    /\ satState # "fault" /\ satQueue = <<>>
    /\ Post("mic-dead") \/ Post("unprovisioned")
    /\ UNCHANGED <<satState, satFacts, satLate, satDrivers, satNet, satSpeaker, satTalk, satStale,
                   satSentences>>

\* The clock of the machine, where a limit is counted; a second tick tells no more than the first.
TimePasses ==
    /\ ~satLate /\ satState \in {"listening", "thinking", "capture"}
    /\ satLate' = TRUE
    /\ UNCHANGED <<satState, satFacts, satDrivers, satQueue, satNet, satSpeaker, satTalk,
                   satStale, satSentences>>

TickPosts ==
    /\ satLate /\ \A i \in 1..Len(satQueue) : satQueue[i] # "tick"
    /\ Post("tick")
    /\ UNCHANGED <<satState, satFacts, satLate, satDrivers, satNet, satSpeaker, satTalk,
                   satStale, satSentences>>

(* drain_task: a flush ends what plays, audio that waits starts the         *)
(* speaker, and a queue that stays empty ends it.                           *)
NoticeFlush ==
    /\ "refill" \in satSpeaker
    /\ satSpeaker' = satSpeaker \ {"refill", "playing"}
    /\ IF "playing" \in satSpeaker THEN Post("playback-end") ELSE UNCHANGED satQueue
    /\ UNCHANGED <<satState, satFacts, satLate, satDrivers, satNet, satTalk, satStale,
                   satSentences>>

StartPlaying ==
    /\ satSpeaker = {"waiting"} /\ Post("playback-start")
    /\ satSpeaker' = {"waiting", "playing"}
    /\ UNCHANGED <<satState, satFacts, satLate, satDrivers, satNet, satTalk, satStale,
                   satSentences>>

PlayRest ==
    /\ satSpeaker = {"waiting", "playing"} /\ satSpeaker' = {"playing"}
    /\ UNCHANGED <<satState, satFacts, satLate, satDrivers, satQueue, satNet, satTalk,
                   satStale, satSentences>>

RunDry ==
    /\ satSpeaker = {"playing"} /\ Post("playback-end")
    /\ satSpeaker' = {}
    /\ UNCHANGED <<satState, satFacts, satLate, satDrivers, satNet, satTalk, satStale,
                   satSentences>>

-----------------------------------------------------------------------------
(* The daemon, over the socket. *)

(* voiceWake: the session that is still there is stopped, and says so; then *)
(* the new one is confirmed.                                                *)
DaemonAnswersWake ==
    /\ satTalk = "called"
    /\ HasRoomFor(satQueue, IF satStale THEN 2 ELSE 1)
    /\ satQueue' = Queued(IF satStale THEN Queued(satQueue, "says idle") ELSE satQueue, "says listening")
    /\ satTalk' = "open" /\ satStale' = FALSE
    /\ UNCHANGED <<satState, satFacts, satLate, satDrivers, satNet, satSpeaker, satSentences>>

\* The message was refused by a full queue, or the daemon has no voice configured.
WakeIsLost ==
    /\ satTalk = "called" /\ ~satStale /\ satTalk' = "none"
    /\ UNCHANGED <<satState, satFacts, satLate, satDrivers, satQueue, satNet, satSpeaker,
                   satStale, satSentences>>

DaemonSpeaks ==
    /\ satTalk \in {"open", "asking"}
    /\ satSpeaker' = satSpeaker \cup {"waiting"}
    /\ UNCHANGED <<satState, satFacts, satLate, satDrivers, satQueue, satNet, satTalk,
                   satStale, satSentences>>

DaemonInterrupts ==
    /\ satTalk \in {"open", "asking"}
    /\ satSpeaker' = Flushed
    /\ UNCHANGED <<satState, satFacts, satLate, satDrivers, satQueue, satNet, satTalk,
                   satStale, satSentences>>

\* deviceSink.Waiting, around a call's wait for a person.
DaemonAsks ==
    /\ satTalk = "open" /\ Post("says approval") /\ satTalk' = "asking"
    /\ UNCHANGED <<satState, satFacts, satLate, satDrivers, satNet, satSpeaker, satStale,
                   satSentences>>

DaemonIsAnswered ==
    /\ satTalk = "asking" /\ Post("says listening") /\ satTalk' = "open"
    /\ UNCHANGED <<satState, satFacts, satLate, satDrivers, satNet, satSpeaker, satStale,
                   satSentences>>

\* Hung up, silent for too long, out of its budget: the session says so when it is over.
DaemonHangsUp ==
    /\ satTalk = "open" /\ Post("says idle") /\ satTalk' = "none"
    /\ UNCHANGED <<satState, satFacts, satLate, satDrivers, satNet, satSpeaker, satStale,
                   satSentences>>

\* Enrolment: a device asks for a recording, and for its end.
DaemonRecords ==
    /\ "socket" \in satNet
    /\ \A i \in 1..Len(satQueue) : satQueue[i] \notin {"capture-start", "capture-stop"}
    /\ Post("capture-start") \/ (satState = "capture" /\ Post("capture-stop"))
    /\ UNCHANGED <<satState, satFacts, satLate, satDrivers, satNet, satSpeaker, satTalk,
                   satStale, satSentences>>

-----------------------------------------------------------------------------
SpeakerStep == NoticeFlush \/ StartPlaying \/ PlayRest \/ RunDry
BoardStep ==
    \/ GetAddress \/ LoseAddress \/ Connect \/ Disconnect \/ Reject \/ SayWakeWord \/ EndSentence
    \/ Breaks \/ TimePasses \/ TickPosts
DaemonStep ==
    \/ DaemonAnswersWake \/ WakeIsLost \/ DaemonSpeaks \/ DaemonInterrupts \/ DaemonAsks
    \/ DaemonIsAnswered \/ DaemonHangsUp \/ DaemonRecords

SatNext == Handle \/ SpeakerStep \/ BoardStep \/ DaemonStep
SatSpec == SatInit /\ [][SatNext]_satVars

\* The tasks of the board run and its clock ticks; a voice.wake arrives or does not.
SatFairness ==
    /\ WF_satVars(Handle) /\ SF_satVars(SpeakerStep)
    /\ WF_satVars(TimePasses) /\ SF_satVars(TickPosts)
    /\ WF_satVars(DaemonAnswersWake \/ WakeIsLost)
SatFairSpec == SatSpec /\ SatFairness
-----------------------------------------------------------------------------
(* However a state is left, the drivers are as the state the board is in    *)
(* needs them: sound leaves the room only in a conversation or a recording, *)
(* the wake word is off exactly then, the amplifier is up in conversations  *)
(* alone, and the microphone is silenced while the board says it speaks.    *)
DriversFollowTheState ==
    /\ "uplink" \in satDrivers <=> satState \in Conversation \cup {"capture"}
    /\ "wakeword" \in satDrivers <=> satState \notin Conversation \cup {"capture"}
    /\ "amp" \in satDrivers <=> InConversation
    /\ "gate" \in satDrivers <=> satState = "speaking"

(* A board whose daemon has no session for it is not left in a conversation *)
(* nobody hears, where its wake word is off, whichever way the session      *)
(* ended or never began; and no recording lasts for ever.                   *)
BoardIsReleased ==
    /\ (satTalk = "none" /\ InConversation) ~> (satTalk # "none" \/ ~InConversation)
    /\ satState = "capture" ~> satState # "capture"

(* The satellite, as a whole.                                              *)
SatelliteHolds == SatTypeOK /\ DriversFollowTheState
=============================================================================
