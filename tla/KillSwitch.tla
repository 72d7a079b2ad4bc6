------------------------------ MODULE KillSwitch ------------------------------
(***************************************************************************)
(* The L2 kill switch: the set of suspended tenants every request handler  *)
(* shares through AppState (lib.rs).  It lives in memory only, so a        *)
(* restart of the gateway forgets it.  The modules of the handlers that    *)
(* consult it, or should, extend this one.                                 *)
(***************************************************************************)
CONSTANT Tenants

VARIABLE suspended      \* tenant ids under suspension

KillSwitchTypeOK == suspended \subseteq Tenants

KillSwitchInit == suspended = {}

\* POST /admin/v1/tenants/:id/suspend
SuspendTenant(t) == suspended' = suspended \cup {t}

\* DELETE /admin/v1/tenants/:id/suspend
ResumeTenant(t) == suspended' = suspended \ {t}

\* A new process starts from AppState::new.
ForgetSuspensions == suspended' = {}
===============================================================================
