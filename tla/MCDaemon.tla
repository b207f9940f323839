--------------------------------- MODULE MCDaemon ---------------------------------
(***************************************************************************)
(* Parts of the daemon that share no state with one another, checked side  *)
(* by side in one run: a behaviour picks one, the others rest as they      *)
(* begin.  A turn is taken apart into the tree of its runs and its clock.  *)
(***************************************************************************)
EXTENDS Mailbox, Registry, RunTree, TurnClock, Household, Knowledge,
        Library, Mirrors, TLC

CONSTANTS c1, c2,               \* the calls of a round
          l1, l2,               \* lookups of the catalog
          home                  \* the default workspace

VARIABLE part

Parts == {"mailbox", "registry", "tree", "clock", "household", "knowledge",
          "library", "mirrors"}

\* The workspaces change where the list of the agents is looked at, a name that is restored
\* late is met where the plugins' is, a phone switches in two domains and reconnects in one.
BeginsPlain == domain = "skills" /\ stored = [p \in Apps |-> None] /\ spaces = [w \in SpaceNames |-> "open"]
BeginsSmall ==
    /\ domain = "plugins" \/ stored = [p \in Apps |-> None]
    /\ domain = "agents" \/ spaces = [w \in SpaceNames |-> "open"]
StaysSmall ==
    /\ domain # "agents" => UNCHANGED spaces
    /\ domain \notin {"skills", "agents"} => counts'.visits = 0
    /\ domain # "reminders" => counts'.sockets < 2

\* The lookups are alike: when none is under way, l1 is the one that begins.
InTurn == stage = [r \in Lookups |-> "away"] => stage'[l2] = "away"

DaemonInit ==
    /\ part \in Parts
    /\ MailInit /\ RegInit /\ TreeInit /\ ClockInit /\ HomeInit /\ LibraryInit
    /\ KnowledgeInit /\ (part = "knowledge" \/ folder = Empty)
    /\ MirrorInit /\ (IF part = "mirrors" THEN BeginsSmall ELSE BeginsPlain)

Rest(p, v) == IF part = p THEN TRUE ELSE UNCHANGED v

DaemonNext ==
    /\ \/ part = "mailbox" /\ MailNext
       \/ part = "registry" /\ RegNext
       \/ part = "tree" /\ TreeNext
       \/ part = "clock" /\ ClockNext
       \/ part = "household" /\ HomeNext
       \/ part = "knowledge" /\ KnowledgeNext
       \/ part = "library" /\ LibraryNext /\ InTurn
       \/ part = "mirrors" /\ MirrorNext /\ StaysSmall
    /\ UNCHANGED part
    /\ Rest("mailbox", mailVars) /\ Rest("registry", regVars)
    /\ Rest("tree", treeVars) /\ Rest("clock", clockVars) /\ Rest("household", homeVars)
    /\ Rest("knowledge", knowledgeVars) /\ Rest("library", libraryVars)
    /\ Rest("mirrors", mirrorVars)

daemonVars == <<part, mailVars, regVars, treeVars, clockVars, homeVars, knowledgeVars,
                libraryVars, mirrorVars>>

DaemonSpec == DaemonInit /\ [][DaemonNext]_daemonVars
=============================================================================
