------------------------------- MODULE MCDevices -------------------------------
(***************************************************************************)
(* What a screen sees of the daemon, checked side by side in one run: an   *)
(* approval across a reconnect, the list of the chats, a chat, and the     *)
(* terminal, once for its questions and once for its keyboard.  They share *)
(* no state: a behaviour picks one, the others rest as they begin.         *)
(***************************************************************************)
EXTENDS HitlBroker, ChatLists, Conversation, Terminal, TLC

CONSTANTS
    c1, c2, d1,
    q1, q2,
    r1, r2,
    k1, k2,             \* the calls that ask in the terminal
    FewKeys             \* bound: keys while both of them ask

VARIABLE part

OneDevice == c1 :> d1 @@ c2 :> d1

\* The questions are alike: the first one is q1.
Asked(q) == loop'.q = {q} \/ Contains(inputs', q) \/ \E i \in DOMAIN saved' : saved'[i].q = {q}
\* The second question meets turns of one round and no notice; one turn may be aborted, if the
\* chat is opened once.
SecondIsSmall ==
    /\ Asked(q2) => loop'.round < 2 /\ notices' = 0 /\ Cardinality(cut') <= 1
    /\ Asked(q2) /\ opens' = MaxOpens => cut' = {}

\* The runs are alike: the first one is r1.
InTurn == record[r1] = NoRecord /\ record[r2] = NoRecord => record'[r2] = NoRecord
\* A device that has come back meets no turn of the second run under way.
SecondIsQuiet == \A s \in Screens : lines'[s] = MaxLines => asked'[r2] = 0

\* While both calls ask, nobody else writes or deletes a conversation of the terminal.
StoreIsOurs == keys' = keys => UNCHANGED stored
\* Somebody else writes in the conversation that is on screen.
ElsewhereIsHere == keys' = keys => stored' \ stored \subseteq OnScreen(panes)

DevicesInit ==
    /\ part \in {"approval", "lists", "conversation", "asks", "keyboard"}
    /\ BrokerInit /\ ListInit /\ TerminalInit
    /\ ConversationInit /\ (part = "conversation" \/ screen.kind = "phone")

Rest(p, v) == IF part = p THEN TRUE ELSE UNCHANGED v

DevicesNext ==
    /\ \/ part = "approval" /\ BrokerNext /\ link'[c2] = "up"
       \/ part = "lists" /\ ListNext /\ InTurn /\ SecondIsQuiet
       \/ part = "conversation" /\ ConversationNext /\ (Asked(q2) => Asked(q1)) /\ SecondIsSmall
       \/ part = "asks" /\ TerminalNext /\ (stage' = "running" => keys' <= FewKeys) /\ StoreIsOurs
       \/ part = "keyboard" /\ TerminalNext /\ question'[k2] = "quiet" /\ ElsewhereIsHere
    /\ UNCHANGED part
    /\ Rest("approval", hitlVars) /\ Rest("lists", listVars) /\ Rest("conversation", conversationVars)
    /\ (part \in {"asks", "keyboard"} \/ UNCHANGED terminalVars)

devicesVars == <<part, hitlVars, listVars, conversationVars, terminalVars>>

DevicesSpec == DevicesInit /\ [][DevicesNext]_devicesVars
=============================================================================
