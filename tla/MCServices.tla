----------------------------- MODULE MCServices -----------------------------
(* Two services of the kernel that share no state: a behaviour is one of the    *)
(* OAuth service or one of the scheduler, on which two plugins use the same     *)
(* schedule id.                                                                 *)
EXTENDS OAuthGrants, SchedulerCore

CONSTANTS graphs, bots, daily, r1, r2, r3

VARIABLE service

ServicesInit == OAuthInit /\ Init /\ service \in {"oauth", "scheduler"}

ServicesNext ==
  \/ service = "oauth" /\ OAuthNext /\ UNCHANGED <<service, vars>>
  \/ service = "scheduler" /\ Next /\ UNCHANGED <<service, grantVars>>

ServicesSpec ==
  /\ ServicesInit /\ [][ServicesNext]_<<service, grantVars, vars>>
  /\ OAuthFairness
  /\ WF_vars(Tick) /\ \A r \in Registration : WF_vars(Fire(r))
=============================================================================
