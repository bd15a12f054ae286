----------------------------- MODULE IrqSources ------------------------------
(***************************************************************************)
(* A type of an interrupt source (amdgpu_irq.c): its users count           *)
(* themselves in and out, the first and the last one set the hardware, and *)
(* a GPU reset, after which the hardware has forgotten, sets it again.     *)
(***************************************************************************)
EXTENDS Integers, FiniteSets

CONSTANTS
    Users,
    MaxLosses  \* bound on the GPU resets

ASSUME IrqAssumption == IsFiniteSet(Users) /\ MaxLosses \in Nat

VARIABLES
    irq_enabled,    \* ddev->irq_enabled
    enabled_types,  \* the count of the users
    hw_enabled,     \* the hardware sends the interrupt
    user,           \* per user: where it is
    losses          \* the GPU resets, and whether the last one still has to set the hardware

irqVars == <<irq_enabled, enabled_types, hw_enabled, user, losses>>

IrqInit ==
    /\ irq_enabled = TRUE /\ enabled_types = 0 /\ hw_enabled = FALSE
    /\ user = [u \in Users |-> "off"]
    /\ losses = [n |-> 0, resume |-> FALSE]

\* amdgpu_irq_get: the first user goes on to amdgpu_irq_update
amdgpu_irq_get(u) ==
    /\ irq_enabled /\ user[u] = "off"
    /\ enabled_types' = enabled_types + 1
    /\ user' = [user EXCEPT ![u] = IF enabled_types + 1 = 1 THEN "enable" ELSE "on"]
    /\ UNCHANGED <<irq_enabled, hw_enabled, losses>>

\* amdgpu_irq_put: so does the last one
amdgpu_irq_put(u) ==
    /\ irq_enabled /\ user[u] = "on"
    /\ enabled_types' = enabled_types - 1
    /\ user' = [user EXCEPT ![u] = IF enabled_types - 1 = 0 THEN "disable" ELSE "off"]
    /\ UNCHANGED <<irq_enabled, hw_enabled, losses>>

\* mutant: the count is looked at before the lock is taken
EnabledBefore(u) == user[u] = "enable"

amdgpu_irq_enabled(u) == irq_enabled /\ enabled_types # 0

\* amdgpu_irq_update: under the lock, the hardware is set to what the count says now
amdgpu_irq_update(u) ==
    /\ user[u] \in {"enable", "disable"}
    /\ hw_enabled' = amdgpu_irq_enabled(u)
    /\ user' = [user EXCEPT ![u] = IF @ = "enable" THEN "on" ELSE "off"]
    /\ UNCHANGED <<irq_enabled, enabled_types, losses>>

\* a GPU reset
Lose ==
    /\ losses.n < MaxLosses /\ ~losses.resume
    /\ hw_enabled' = FALSE
    /\ losses' = [n |-> losses.n + 1, resume |-> TRUE]
    /\ UNCHANGED <<irq_enabled, enabled_types, user>>

amdgpu_irq_gpu_reset_resume_helper ==
    /\ losses.resume
    /\ hw_enabled' = (irq_enabled /\ enabled_types # 0)
    /\ losses' = [losses EXCEPT !.resume = FALSE]
    /\ UNCHANGED <<irq_enabled, enabled_types, user>>

\* drm_irq_uninstall, which calls amdgpu_irq_disable_all
amdgpu_irq_uninstall ==
    /\ irq_enabled
    /\ irq_enabled' = FALSE /\ enabled_types' = 0 /\ hw_enabled' = FALSE
    /\ UNCHANGED <<user, losses>>

IrqNext ==
    \/ \E u \in Users : amdgpu_irq_get(u) \/ amdgpu_irq_put(u) \/ amdgpu_irq_update(u)
    \/ Lose \/ amdgpu_irq_gpu_reset_resume_helper \/ amdgpu_irq_uninstall

-----------------------------------------------------------------------------
(* Properties *)

\* Whenever no user is on its way to set the hardware and no reset has to restore it, the
\* interrupt is on exactly if somebody uses it, and it stays off once it is uninstalled.
EnabledExact ==
    (\A u \in Users : user[u] \in {"on", "off"}) /\ ~losses.resume =>
        (hw_enabled <=> irq_enabled /\ \E u \in Users : user[u] = "on")
=============================================================================
