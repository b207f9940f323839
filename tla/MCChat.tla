---------------------------------- MODULE MCChat ----------------------------------
(***************************************************************************)
(* A chat in one run: in a calm one three messages, one of them a wake's,  *)
(* go through one session that nothing closes; in another two of them meet *)
(* the reaper or a delete, and the shutdown, and a second session.         *)
(***************************************************************************)
EXTENDS ChatManager

CONSTANTS m1, m2, m3,           \* messages; m2 is a wake's
          s1, s2                \* sessions

VARIABLE calm

ChatInit == Init /\ calm \in BOOLEAN

\* Bounds: writes of turns fail in the calm chat alone, where the history of
\* them matters; a chat that is closed has two messages, and one end besides
\* the shutdown.
ChatNext ==
    /\ Next /\ UNCHANGED calm
    /\ calm => life'[s2] = "unborn" /\ aged' = {} /\ deleter' = "idle" /\ shut' = "open"
    /\ ~calm => /\ proc'[m3] = "new" /\ unsaved' = {}
                /\ file # None => UNCHANGED groupless
                /\ \A x \in Inputs : Touch(x) => file' # None
    /\ deleter' # "idle" => aged' = {}

chatVars == <<vars, calm>>

\* No step that is fair is bounded: submissions and what happens to a chat are, and
\* a write that may not fail may still succeed.
ChatSpec == ChatInit /\ [][ChatNext]_chatVars /\ Fairness

(* When nothing closes the session: the tool groups of the file follow its *)
(* turns, and a lone message is shown while it is under way.               *)
CalmChatIsWhole == calm => ToolsFollowTurns /\ QuestionIsShown

(* When nothing closes the session: every message is answered.             *)
CalmChatAnswers == calm => SubmittedIsAnswered

(* In the other: a chat that is closed, by whatever path, is in the end.   *)
ClosedChatEnds == ~calm => ClosingEnds
=============================================================================
