---------------------------- MODULE SpeechCredit ----------------------------
(***************************************************************************)
(* The flow control of speech to a satellite: the sink of a session        *)
(* (internal/serve/voice.go) sends what the device has said it can take,   *)
(* and the device (satellite/main) says so again for every frame that      *)
(* leaves its ring.  Every frame's worth of room is at one place: granted, *)
(* on its way to the speaker as a frame, on its way back as a credit, or   *)
(* gone.  Amounts are in frames of 20 ms, the unit of both ends.           *)
(*                                                                         *)
(* An interrupt may empty the ring at any later moment: where it comes     *)
(* among the frames on the wire changes what is heard, not the amounts.    *)
(***************************************************************************)
EXTENDS Integers

CONSTANTS
    Room,           \* frames the ring of the device holds
    SockRoom,       \* frames the audio queue of a connection holds
    MaxBacklog,     \* frames a sink may hold before it ends the session
    MaxWakes        \* bound: conversations begun

ASSUME CreditAssumption == {Room, SockRoom, MaxBacklog, MaxWakes} \subseteq Nat

Places == {"credit",   \* deviceSink.credit
           "hand",     \* the frame run has taken and not yet queued
           "late",     \* frames a session that is over may still send
           "queue",    \* conn.audio
           "wire",     \* the socket, from the daemon's write to the device's callback
           "ring",     \* the device's playback ring
           "codec",    \* the chunk the drain task is writing
           "freed",    \* audio_out's counter
           "taken",    \* read by the credit task, not yet sent
           "grants",   \* voice.credit messages ahead of any voice.wake on its way
           "behind",   \* voice.credit messages behind one
           "cut",      \* history: thrown away by an interrupt, in the socket's queue
           "missed"}   \* history: lost in any other way

VARIABLES
    room,           \* how much is at each place
    backlog,        \* deviceSink.backlog: speech that nothing was charged for yet
    talkOpen,       \* the daemon has a session for the device
    boardIn,        \* the device is in a conversation
    wakeSent,       \* a voice.wake is on its way
    linked,         \* the device has a connection
    flushDue,       \* a voice.interrupt is on its way
    wakes,          \* conversations begun
    clean,          \* history: nothing of an earlier conversation was left at the last wake
    overflowed      \* history: the ring had no room for a frame since

creditVars == <<room, backlog, talkOpen, boardIn, wakeSent, linked, flushDue, wakes, clean, overflowed>>

CreditInit ==
    /\ room = [p \in Places |-> 0]
    /\ backlog = 0 /\ talkOpen = FALSE /\ boardIn = FALSE /\ wakeSent = FALSE /\ flushDue = FALSE
    /\ linked = TRUE /\ wakes = 0 /\ clean = TRUE /\ overflowed = FALSE

CreditTypeOK ==
    /\ room \in [Places -> Nat] /\ backlog \in Nat /\ wakes \in 0..MaxWakes
    /\ {talkOpen, boardIn, wakeSent, linked, flushDue, clean, overflowed} \subseteq BOOLEAN
    /\ room["hand"] <= 1 /\ room["codec"] <= 1 /\ room["queue"] <= SockRoom /\ room["ring"] <= Room

-----------------------------------------------------------------------------
Move(from, to, n) ==
    /\ room[from] >= n /\ n > 0
    /\ room' = [room EXCEPT ![from] = @ - n, ![to] = @ + n]
Steady == UNCHANGED <<talkOpen, boardIn, wakeSent, linked, flushDue, wakes, clean>>

(* Play, on the driver's loop: it never waits, and a full backlog ends the session. *)
Speak ==
    /\ talkOpen
    /\ IF backlog >= MaxBacklog THEN talkOpen' = FALSE /\ UNCHANGED backlog
                                ELSE backlog' = backlog + 1 /\ UNCHANGED talkOpen
    /\ UNCHANGED <<room, boardIn, wakeSent, linked, flushDue, wakes, clean, overflowed>>

(* run: a frame is charged under the lock, queued outside it, and dropped   *)
(* when the session is over or the device has no connection.  A sink that   *)
(* is closed goes on for as long as it has speech and credit: done is only  *)
(* looked at between two grants.                                            *)
TakeFrame ==
    /\ backlog > 0 /\ room["hand"] = 0 /\ Move("credit", "hand", 1)
    /\ backlog' = backlog - 1
    /\ UNCHANGED overflowed /\ Steady
QueueFrame ==
    /\ linked /\ room["queue"] < SockRoom
    /\ Move("hand", "queue", 1) \/ Move("late", "queue", 1)
    /\ UNCHANGED <<backlog, overflowed>> /\ Steady
DropFrame ==
    /\ (~(talkOpen /\ linked) /\ Move("hand", "missed", 1)) \/ Move("late", "missed", 1)
    /\ UNCHANGED <<backlog, overflowed>> /\ Steady
WriteFrame == linked /\ Move("queue", "wire", 1) /\ UNCHANGED <<backlog, overflowed>> /\ Steady

(* on_audio: the write into the ring does not wait. *)
Receive ==
    /\ IF room["ring"] < Room
         THEN Move("wire", "ring", 1) /\ UNCHANGED overflowed
         ELSE Move("wire", "missed", 1) /\ overflowed' = TRUE
    /\ UNCHANGED backlog /\ Steady

(* drain_task: credited only once the samples have gone. *)
PlayChunk ==
    /\ room["codec"] = 0 /\ Move("ring", "codec", 1)
    /\ UNCHANGED <<backlog, overflowed>> /\ Steady
Played == Move("codec", "freed", 1) /\ UNCHANGED <<backlog, overflowed>> /\ Steady

(* credit_task, and the queue of the link, which may have no room. *)
TakeFreed ==
    /\ room["taken"] = 0 /\ Move("freed", "taken", room["freed"])
    /\ UNCHANGED <<backlog, overflowed>> /\ Steady
SendCredit ==
    /\ \/ linked /\ Move("taken", IF wakeSent THEN "behind" ELSE "grants", room["taken"])
       \/ Move("taken", "missed", room["taken"])
    /\ UNCHANGED <<backlog, overflowed>> /\ Steady

(* voice.credit, on the connection's read loop. *)
Grant == Move("grants", "credit", room["grants"]) /\ UNCHANGED <<backlog, overflowed>> /\ Steady

(* Interrupt: the backlog and the queue of the socket are thrown away. *)
Interrupt ==
    /\ talkOpen /\ backlog' = 0 /\ flushDue' = TRUE
    /\ room' = [room EXCEPT !["cut"] = @ + room["queue"], !["queue"] = 0]
    /\ UNCHANGED <<talkOpen, boardIn, wakeSent, linked, wakes, clean, overflowed>>

\* Fault: only what reached the speaker is credited.
RingFlushedUncredited == [room EXCEPT !["ring"] = 0]

(* audio_out_flush: what is discarded is as free as what was played. *)
RingFlushed == [room EXCEPT !["freed"] = @ + room["ring"], !["ring"] = 0]
InterruptArrives ==
    /\ flushDue /\ flushDue' = FALSE /\ room' = RingFlushed
    /\ UNCHANGED <<backlog, talkOpen, boardIn, wakeSent, linked, wakes, clean, overflowed>>

(* A flush and take_freed, on the way into a conversation and out of it:    *)
(* credit for a finished session belongs to nobody.                         *)
Emptied(r) == [r EXCEPT !["missed"] = @ + r["ring"] + r["freed"], !["ring"] = 0, !["freed"] = 0]

(* Nothing is left of earlier conversations: no frame on its way, nor one that may be sent. *)
NothingLeft ==
    /\ \A p \in {"hand", "late", "queue", "wire", "codec", "taken", "grants"} : room[p] = 0
    /\ ~talkOpen /\ (backlog = 0 \/ room["credit"] = 0)

(* SAT_EV_WAKE: voice.wake, and the whole ring granted behind it;  *)
(* both are taken to find room in the queue of the link.                    *)
WakeSink ==
    /\ linked /\ ~boardIn /\ ~wakeSent /\ wakes < MaxWakes
    /\ boardIn' = TRUE /\ wakeSent' = TRUE /\ wakes' = wakes + 1
    /\ clean' = NothingLeft /\ overflowed' = FALSE
    /\ room' = [Emptied(room) EXCEPT !["behind"] = Room, !["cut"] = 0, !["missed"] = 0]
    /\ UNCHANGED <<backlog, talkOpen, linked, flushDue>>

(* voiceWake: a new sink without credit takes the place of the last one,    *)
(* which keeps what it may still send.                                      *)
Least(a, b) == IF a <= b THEN a ELSE b
NewSession ==
    /\ wakeSent /\ room["grants"] = 0
    /\ wakeSent' = FALSE /\ talkOpen' = TRUE /\ backlog' = 0
    /\ room' = [room EXCEPT !["late"] = @ + room["hand"] + Least(room["credit"], backlog),
                            !["hand"] = 0, !["credit"] = 0,
                            !["grants"] = room["behind"], !["behind"] = 0]
    /\ UNCHANGED <<boardIn, linked, flushDue, wakes, clean, overflowed>>

(* The conversation ends at the daemon, or on the board: neither waits for the other. *)
EndTalk ==
    /\ talkOpen /\ talkOpen' = FALSE
    /\ UNCHANGED <<room, backlog, boardIn, wakeSent, linked, flushDue, wakes, clean, overflowed>>
BoardLeaves ==
    /\ boardIn /\ boardIn' = FALSE /\ room' = Emptied(room)
    /\ UNCHANGED <<backlog, talkOpen, wakeSent, linked, flushDue, wakes, clean, overflowed>>

(* The link is lost with everything on it, and with it the board's conversation. *)
LinkDrops ==
    /\ linked /\ linked' = FALSE
    /\ boardIn' = FALSE /\ wakeSent' = FALSE /\ flushDue' = FALSE
    /\ LET r == Emptied(room) IN
       room' = [r EXCEPT !["missed"] = @ + r["queue"] + r["wire"] + r["grants"] + r["behind"],
                         !["queue"] = 0, !["wire"] = 0, !["grants"] = 0, !["behind"] = 0]
    /\ UNCHANGED <<backlog, talkOpen, wakes, clean, overflowed>>

LinkReturns ==
    /\ ~linked /\ linked' = TRUE
    /\ UNCHANGED <<room, backlog, talkOpen, boardIn, wakeSent, flushDue, wakes, clean, overflowed>>

CreditNext ==
    \/ Speak \/ TakeFrame \/ QueueFrame \/ DropFrame \/ WriteFrame
    \/ Receive \/ PlayChunk \/ Played \/ TakeFreed \/ SendCredit \/ Grant
    \/ Interrupt \/ InterruptArrives \/ WakeSink \/ NewSession \/ EndTalk \/ BoardLeaves \/ LinkDrops \/ LinkReturns

CreditSpec == CreditInit /\ [][CreditNext]_creditVars
-----------------------------------------------------------------------------
OnItsWay == room["hand"] + room["late"] + room["queue"] + room["wire"] + room["ring"] + room["codec"]
            + room["freed"] + room["taken"] + room["grants"] + room["behind"]

(* "Overflow is structurally impossible" (credit_task): the ring has room   *)
(* for every frame that comes, in a conversation that began with nothing of *)
(* an earlier one left on the way, whatever was interrupted, lost or ended. *)
NeverOverflows == clean => ~overflowed

(* Room is never lost in silence: while the two sides agree on a            *)
(* conversation, what is granted, on its way or gone is the whole ring.     *)
RoomIsKept ==
    clean /\ boardIn /\ ~wakeSent => room["credit"] + OnItsWay + room["cut"] + room["missed"] = Room

CreditHolds == CreditTypeOK /\ NeverOverflows /\ RoomIsKept

(* What the flush credits back for (audio_out_flush): else the sender goes  *)
(* on believing the ring holds what was thrown away, and in the end "it has *)
(* no room left to send into and the conversation goes quiet".  With        *)
(* nothing on its way and nothing lost there is room for what is to be      *)
(* said.  The frames an interrupt takes back from the queue of the socket   *)
(* were charged, the device never sees them, and nothing credits them:      *)
(* "The credit stays", says Interrupt, of the backlog alone.                *)
NeverStarves ==
    clean /\ boardIn /\ ~wakeSent /\ talkOpen /\ OnItsWay = 0 /\ room["missed"] = 0
    => backlog = 0 \/ room["credit"] > 0
=============================================================================
