------------------------------- MODULE MCWorkspace -------------------------------
(***************************************************************************)
(* Four sides of a workspace that share no state here, in one run.  Two    *)
(* that Close has to bring to rest: the timers, turns and plugins, and the *)
(* background loop.  Two that change what it is made of: the folders of    *)
(* its extensions, and the credential of one.  A behaviour picks one side, *)
(* the others rest as they begin.                                          *)
(***************************************************************************)
EXTENDS Lifetime, SchedulerLoop, Credentials, Extensions, TLC

CONSTANTS r, w,     \* timers: a reminder and a wake
          e1        \* an extension of the catalog

VARIABLE side

MCPackage == e1 :> <<"script", "plugin", "mcp">>

WorkspaceInit ==
    /\ side \in {"lifetime", "background", "credentials", "extensions"}
    /\ LifetimeInit /\ SchedInit /\ CredentialInit /\ ExtensionInit

Idles(s, v) == IF side = s THEN TRUE ELSE UNCHANGED v

WorkspaceNext ==
    /\ \/ side = "lifetime" /\ LifetimeNext
       \/ side = "background" /\ SchedNext
       \/ side = "credentials" /\ CredentialNext
       \/ side = "extensions" /\ ExtensionNext
    /\ Idles("lifetime", vars) /\ Idles("background", schedVars)
    /\ Idles("credentials", credentialVars) /\ Idles("extensions", extensionVars)
    /\ UNCHANGED side

workspaceVars == <<side, vars, schedVars, credentialVars, extensionVars>>

\* The side that rests is as it begins, where no fair step of it is enabled.
WorkspaceSpec ==
    /\ WorkspaceInit /\ [][WorkspaceNext]_workspaceVars
    /\ Fairness /\ SchedFairness
=============================================================================
