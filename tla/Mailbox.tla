------------------------------ MODULE Mailbox ------------------------------
(***************************************************************************)
(* The kept IMAP connection of a workspace (internal/mail).  Turns call    *)
(* list, search and read from any number of goroutines; Mailbox.mu is held *)
(* across the whole operation, the dial and the one retry included.  An    *)
(* idle timer closes the connection; it may already have gone off, and be  *)
(* waiting for mu, when an operation uses the connection again.            *)
(*                                                                         *)
(* An operation selects a folder, then fetches from the folder that is     *)
(* selected.  What the messages say is left out.                           *)
(***************************************************************************)
EXTENDS Naturals, FiniteSets

CONSTANTS
    Readers,        \* the calls of list, search and read that may be under way
    Folders,        \* the folders they name
    MaxDials,       \* bound: connections dialled
    MaxArms         \* bound: times the idle timer is armed

ASSUME MailAssumption == MaxDials \in Nat /\ MaxArms \in Nat

VARIABLES
    mailCall,       \* per call: where it is, its folder, whether it has selected it
    mailConn,       \* Mailbox.conn by number, 0 for nil
    mailDials,      \* connections dialled so far
    mailOpen,       \* the sessions the server counts
    mailFolder,     \* the folder selected on the kept connection
    mailGen,        \* Mailbox.gen
    mailTimer,      \* the generation the running idle timer was armed with, 0 if none runs
    mailFired,      \* the generations of the timers that went off and wait for mu
    mailClosed,     \* Mailbox.closed
    mailUsed        \* history: Mailbox.gen when the connection was last taken into use

mailVars == <<mailCall, mailConn, mailDials, mailOpen, mailFolder, mailGen, mailTimer, mailFired,
              mailClosed, mailUsed>>

NoFolder == "no folder"
Resting == [at |-> "resting", folder |-> NoFolder, selected |-> FALSE]
\* On the connection that was kept, on one just dialled, on its second try.
Running == {"kept", "fresh", "retry"}

MailInit ==
    /\ mailCall = [r \in Readers |-> Resting]
    /\ mailConn = 0 /\ mailDials = 0 /\ mailOpen = {} /\ mailFolder = NoFolder
    /\ mailGen = 0 /\ mailTimer = 0 /\ mailFired = {}
    /\ mailClosed = FALSE /\ mailUsed = 0

MailTypeOK ==
    /\ mailCall \in [Readers -> {Resting} \cup
           [at : Running, folder : Folders, selected : BOOLEAN]]
    /\ mailDials \in 0..MaxDials /\ mailConn \in 0..mailDials /\ mailOpen \subseteq 1..mailDials
    /\ mailFolder \in Folders \cup {NoFolder}
    /\ mailGen \in 0..MaxArms /\ mailTimer \in 0..mailGen /\ mailFired \subseteq 1..mailGen
    /\ mailClosed \in BOOLEAN /\ mailUsed \in 0..mailGen

-----------------------------------------------------------------------------
\* mu is held exactly while an operation runs; everything else is one critical section.
MuIsFree == \A r \in Readers : mailCall[r] = Resting

(* An operation takes the kept connection; it is unused no longer. *)
UseKept(r, f) ==
    /\ MuIsFree /\ ~mailClosed /\ mailConn # 0
    /\ mailGen < MaxArms
    /\ mailCall' = [mailCall EXCEPT ![r] = [at |-> "kept", folder |-> f, selected |-> FALSE]]
    /\ mailUsed' = mailGen
    /\ UNCHANGED <<mailConn, mailDials, mailOpen, mailFolder, mailGen, mailTimer, mailFired,
                   mailClosed>>

(* There is none: it dials.  Without a password, or when the dial fails, *)
(* it returns and nothing has changed.                                   *)
UseFresh(r, f) ==
    /\ MuIsFree /\ ~mailClosed /\ mailConn = 0
    /\ mailGen < MaxArms /\ mailDials < MaxDials
    /\ mailDials' = mailDials + 1 /\ mailConn' = mailDials' /\ mailOpen' = mailOpen \cup {mailConn'}
    /\ mailFolder' = NoFolder
    /\ mailCall' = [mailCall EXCEPT ![r] = [at |-> "fresh", folder |-> f, selected |-> FALSE]]
    /\ mailUsed' = mailGen
    /\ UNCHANGED <<mailGen, mailTimer, mailFired, mailClosed>>

Select(r) ==
    /\ mailCall[r].at \in Running /\ ~mailCall[r].selected
    /\ mailFolder' = mailCall[r].folder
    /\ mailCall' = [mailCall EXCEPT ![r].selected = TRUE]
    /\ UNCHANGED <<mailConn, mailDials, mailOpen, mailGen, mailTimer, mailFired, mailClosed, mailUsed>>

(* armIdleLocked, with the connection it finds: the running timer is       *)
(* stopped, and a new one takes the next generation if a connection is     *)
(* kept.                                                                   *)
Arm(conn) ==
    IF conn = 0 THEN mailTimer' = 0 /\ UNCHANGED mailGen
                ELSE mailGen' = mailGen + 1 /\ mailTimer' = mailGen'

Drop == mailConn' = 0 /\ mailOpen' = mailOpen \ {mailConn}

Release(r) == mailCall' = [mailCall EXCEPT ![r] = Resting]

(* The operation succeeds, or fails for a reason that is not the transport. *)
Finish(r) ==
    /\ mailCall[r].at \in Running
    /\ Arm(mailConn) /\ Release(r)
    /\ UNCHANGED <<mailConn, mailDials, mailOpen, mailFolder, mailFired, mailClosed, mailUsed>>

(* The transport fails on a connection this very call dialled, at the first *)
(* or the second try: it goes, and the reaper with it.                      *)
FailFresh(r) ==
    /\ mailCall[r].at \in {"fresh", "retry"}
    /\ Drop /\ Arm(0) /\ Release(r)
    /\ UNCHANGED <<mailDials, mailFolder, mailFired, mailClosed, mailUsed>>

(* It fails on the connection that was kept: dial again, run once more. *)
Redial(r) ==
    /\ mailCall[r].at = "kept"
    /\ mailDials < MaxDials
    /\ mailDials' = mailDials + 1 /\ mailConn' = mailDials'
    /\ mailOpen' = (mailOpen \ {mailConn}) \cup {mailConn'}
    /\ mailFolder' = NoFolder
    /\ mailCall' = [mailCall EXCEPT ![r].at = "retry", ![r].selected = FALSE]
    /\ UNCHANGED <<mailGen, mailTimer, mailFired, mailClosed, mailUsed>>

(* That dial fails: the call returns at once, past armIdleLocked. *)
RedialFails(r) ==
    /\ mailCall[r].at = "kept"
    /\ Drop /\ Release(r)
    /\ UNCHANGED <<mailDials, mailFolder, mailGen, mailTimer, mailFired, mailClosed, mailUsed>>

TimerFires ==
    /\ mailTimer # 0
    /\ mailFired' = mailFired \cup {mailTimer} /\ mailTimer' = 0
    /\ UNCHANGED <<mailCall, mailConn, mailDials, mailOpen, mailFolder, mailGen, mailClosed, mailUsed>>

\* Fault: the reaper does not look at the generation.
ReapUnchecked(g) ==
    /\ MuIsFree /\ g \in mailFired
    /\ mailFired' = mailFired \ {g}
    /\ Drop
    /\ UNCHANGED <<mailCall, mailDials, mailFolder, mailGen, mailTimer, mailClosed, mailUsed>>

(* The timer's function gets mu: it drops nothing if the connection was *)
(* handed out again since.                                              *)
Reap(g) ==
    /\ MuIsFree /\ g \in mailFired
    /\ mailFired' = mailFired \ {g}
    /\ IF g = mailGen THEN Drop ELSE UNCHANGED <<mailConn, mailOpen>>
    /\ UNCHANGED <<mailCall, mailDials, mailFolder, mailGen, mailTimer, mailClosed, mailUsed>>

CloseMailbox ==
    /\ MuIsFree /\ ~mailClosed
    /\ mailClosed' = TRUE /\ mailTimer' = 0
    /\ Drop
    /\ UNCHANGED <<mailCall, mailDials, mailFolder, mailGen, mailFired, mailUsed>>

Operation(r) ==
    \/ Select(r) \/ Finish(r) \/ FailFresh(r) \/ Redial(r) \/ RedialFails(r)

MailNext ==
    \/ \E r \in Readers, f \in Folders : UseKept(r, f) \/ UseFresh(r, f)
    \/ \E r \in Readers : Operation(r)
    \/ TimerFires
    \/ \E g \in mailFired : Reap(g)
    \/ CloseMailbox

MailSpec == MailInit /\ [][MailNext]_mailVars
-----------------------------------------------------------------------------
(* A connection that is kept while nobody holds mu is watched: a timer     *)
(* armed after its last use runs, or has gone off and only waits for mu.   *)
(* Without it the daemon would hold a session for a mailbox nobody reads   *)
(* until the next operation, if there is one.                              *)
KeptIsWatched ==
    MuIsFree /\ mailConn # 0 => mailTimer = mailGen \/ mailGen \in mailFired

(* The reaper closes only a connection nobody used since its timer was     *)
(* armed: one that went off during an operation finds the generation moved. *)
ReapsOnlyTheUnused ==
    [][\A g \in mailFired : Reap(g) /\ mailConn' # mailConn => g > mailUsed]_mailVars

(* The server never counts a second session of this workspace, and none    *)
(* once the mailbox is closed, whatever fails and is dialled again.        *)
OneSession ==
    /\ mailOpen = {mailConn} \ {0}
    /\ mailClosed => mailOpen = {}

(* A fetch reads the folder its own call named. *)
ReadsItsFolder ==
    \A r \in Readers : mailCall[r].at \in Running /\ mailCall[r].selected
                          => mailFolder = mailCall[r].folder

(* The kept connection: watched, alone, closed only when it is unused, and  *)
(* never read in another call's folder.                                     *)
MailboxHolds ==
    [](MailTypeOK /\ KeptIsWatched /\ OneSession /\ ReadsItsFolder) /\ ReapsOnlyTheUnused
=============================================================================
