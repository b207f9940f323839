----------------------------- MODULE MCApprovals -----------------------------
(***************************************************************************)
(* The two halves of an approval, side by side in one run: the broker that *)
(* asks the devices, and the gate that decides when to ask and remembers   *)
(* the answer.  They meet in gate.Approver alone, of which the broker is   *)
(* one: a behaviour picks one half, the other rests as it begins.          *)
(***************************************************************************)
EXTENDS HitlBroker, Gate, TLC

CONSTANTS c1, c2, d1, d2,
          chat, voice,          \* workers: runs of the code somebody attends
          brash,                \* worker: a run whose approver ignores the ceiling
          api,                  \* action: reaching one host
          gApi, gAll            \* grants: the host, and its domain

VARIABLE half

TwoDevices == c1 :> d1 @@ c2 :> d2

MCCovers  == {<<gApi, api>>, <<gAll, api>>}
MCExact   == api :> gApi
MCSuggest == api :> {gAll}

AskFor(recall) == api :> [decision |-> "ask", recall |-> recall]

\* policy(), voicePolicy() with the net kind asked, and a policy that caps the host
\* at the session.
MCPolicy == (chat :> AskFor(RecallAlways)) @@ (voice :> AskFor(RecallNever))
         @@ (brash :> AskFor(RecallSession))

ApprovalInit == half \in {"broker", "gate"} /\ BrokerInit /\ GateInit

ApprovalNext ==
    /\ \/ half = "broker" /\ BrokerNext /\ UNCHANGED gateVars
       \/ half = "gate" /\ GateNext /\ UNCHANGED hitlVars
    /\ UNCHANGED half

\* The broker begins with nothing registered, where no fair step of it is enabled.
ApprovalSpec == ApprovalInit /\ [][ApprovalNext]_<<half, hitlVars, gateVars>> /\ Fairness
=============================================================================
