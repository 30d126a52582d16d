-------------------------- MODULE SessionLifecycle --------------------------
(***************************************************************************)
(* What a session promises to the people who use it, without the passes,   *)
(* copies, conflicts and retries of the operator: it is hibernated and     *)
(* resumed, has one run at a time, and is deleted once and for good; the   *)
(* secrets that were handed over to it go before it does, never earlier.   *)
(***************************************************************************)
CONSTANTS RunIDs, NoRun, Adopted

VARIABLES
    phase,       \* "active", "deleting" or "gone"
    holding,     \* will the session take the adopted secrets with it?
    hibernated,  \* what was asked for last
    run,         \* the run in progress, NoRun for none
    secrets      \* the adopted secrets that are left

lifeVars == <<phase, holding, hibernated, run, secrets>>

LifeInit ==
    /\ phase = "active" /\ holding = FALSE
    /\ hibernated \in BOOLEAN
    /\ run = NoRun /\ secrets = Adopted

\* The session takes charge of the adopted secrets, for good.
TakeCharge ==
    /\ phase = "active" /\ ~holding
    /\ holding' = TRUE
    /\ UNCHANGED <<phase, hibernated, run, secrets>>

\* The operator hibernates too, when a limit is reached, even a session whose
\* deletion was asked for while it made up its mind.
Hibernate ==
    /\ phase # "gone" /\ ~hibernated
    /\ hibernated' = TRUE
    /\ UNCHANGED <<phase, holding, run, secrets>>

Resume ==
    /\ phase = "active" /\ hibernated
    /\ hibernated' = FALSE
    /\ UNCHANGED <<phase, holding, run, secrets>>

\* A run begins when there is none.
StartRun ==
    /\ phase # "gone" /\ run = NoRun
    /\ run' \in RunIDs
    /\ UNCHANGED <<phase, holding, hibernated, secrets>>

EndRun ==
    /\ phase # "gone" /\ run # NoRun
    /\ run' = NoRun
    /\ UNCHANGED <<phase, holding, hibernated, secrets>>

\* A session that has not taken charge of secrets is gone at once, else it
\* lasts until they are; nothing brings it back.
Delete ==
    /\ phase = "active"
    /\ IF holding
       THEN phase' = "deleting" /\ UNCHANGED <<holding, hibernated, run>>
       ELSE phase' = "gone" /\ holding' = FALSE /\ hibernated' = FALSE /\ run' = NoRun
    /\ UNCHANGED secrets

DeleteSecrets ==
    /\ phase = "deleting"
    /\ secrets' \in SUBSET secrets
    /\ UNCHANGED <<phase, holding, hibernated, run>>

Release ==
    /\ phase = "deleting" /\ secrets = {}
    /\ phase' = "gone" /\ holding' = FALSE /\ hibernated' = FALSE /\ run' = NoRun
    /\ UNCHANGED secrets

LifeNext ==
    TakeCharge \/ Hibernate \/ Resume \/ StartRun \/ EndRun \/ Delete \/ DeleteSecrets \/ Release

LifeSpec == LifeInit /\ [][LifeNext]_lifeVars
=============================================================================
