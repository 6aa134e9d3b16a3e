----------------------------- MODULE Conditions -----------------------------
(***************************************************************************)
(* The status conditions of a machine: the "living condition set" of       *)
(* knative with the dependents MachineLaunched, MachineRegistered and      *)
(* MachineInitialized and the top-level condition Ready.                   *)
(*                                                                         *)
(* A condition is abstracted to its status and to the part of its reason   *)
(* that some controller looks at:                                          *)
(*   launched     "Blocked" is False with a message that the termination   *)
(*                controller takes for a permanent failure                 *)
(*   registered   the two reasons of False are told apart, because a       *)
(*                change of reason restarts LastTransitionTime             *)
(*   initialized, ready   "NotReady" is False with reason NodeNotReady     *)
(* regOld and readyOld say that registrationTTL (15 minutes) has passed    *)
(* since the last transition of MachineRegistered, and 10 minutes since    *)
(* the last transition of a Ready = False with reason NodeNotReady.        *)
(***************************************************************************)

Launched    == {"Nil", "False", "Blocked", "True"}
Registered  == {"Nil", "NotLaunched", "NodeNotFound", "True"}
Initialized == {"Nil", "False", "NotReady", "True"}
Ready       == {"Nil", "Other", "NotReady", "True"}

Conds == [launched: Launched, registered: Registered, initialized: Initialized,
          ready: Ready, regOld: BOOLEAN, readyOld: BOOLEAN]

NoConds == [launched |-> "Nil", registered |-> "Nil", initialized |-> "Nil",
            ready |-> "Nil", regOld |-> FALSE, readyOld |-> FALSE]

\* SetCondition: LastTransitionTime is kept when nothing but the time differs.
SetReady(c, v) ==
    [c EXCEPT !.ready = v, !.readyOld = @ /\ c.ready = v]

SetRegistered(c, v) ==
    [c EXCEPT !.registered = v, !.regOld = @ /\ c.registered = v]

AllTrue(c) ==
    c.launched = "True" /\ c.registered = "True" /\ c.initialized = "True"

\* recomputeHappiness: a False or missing dependent makes Ready not True, with
\* the reason of the dependent that changed last; otherwise Ready becomes True.
RecomputeHappiness(c) ==
    SetReady(c, IF AllTrue(c) THEN "True"
                ELSE IF c.initialized = "NotReady" THEN "NotReady"
                ELSE "Other")

MarkLaunched(c)         == RecomputeHappiness([c EXCEPT !.launched = "True"])
MarkRegistered(c)       == RecomputeHappiness(SetRegistered(c, "True"))
MarkInitialized(c)      == RecomputeHappiness([c EXCEPT !.initialized = "True"])
\* Variant: the heartbeat sets Ready without looking at the dependents.
MarkReadyBlindly(c)     == SetReady(c, "True")
\* MarkTrue("Ready"): Ready is set True first and recomputed afterwards, so for
\* a machine with an unhappy dependent it becomes False again, as if just now.
MarkReady(c)            == RecomputeHappiness(SetReady(c, "True"))

\* Variant: the condition becomes Unknown.
MarkLaunchUnknown(c, v) == SetReady([c EXCEPT !.launched = "Unknown"], "Other")
\* MarkFalse of a dependent also makes Ready False, with the same reason.
MarkNotLaunched(c, v)   == SetReady([c EXCEPT !.launched = v], "Other")
MarkNotRegistered(c, v) == SetReady(SetRegistered(c, v), "Other")
MarkNotInitialized(c, v) ==
    SetReady([c EXCEPT !.initialized = v],
             IF v = "NotReady" THEN "NotReady" ELSE "Other")
\* Variant: every missing heartbeat restarts LastTransitionTime.
MarkNotReadyAgain(c)    == [c EXCEPT !.ready = "NotReady", !.readyOld = FALSE]
MarkNotReady(c)         == SetReady(c, "NotReady")

\* A patch replaces the whole list of conditions cur by new.  Time does not run
\* backwards: a MachineRegistered that stays as it is stays as old as it is.  For
\* Ready, which both writers set, the new list may carry a later transition: it
\* counts as young, and the clock may make it old again at once.
Overwrite(cur, new) ==
    [new EXCEPT !.regOld = @ \/ (cur.regOld /\ cur.registered = new.registered)]
=============================================================================
