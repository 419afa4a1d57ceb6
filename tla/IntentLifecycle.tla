--------------------------- MODULE IntentLifecycle ---------------------------
(***************************************************************************)
(* What the orchestrator promises of an intent, with no request, no worker *)
(* and no network in sight: an intent takes the Sequence of its account    *)
(* when it is prepared, keeps it until it is settled, receives one signed  *)
(* artifact that no other intent has and that never changes, and once      *)
(* settled stays as it is.                                                 *)
(***************************************************************************)
EXTENDS IntentState, Naturals

CONSTANTS
    Intents, Accounts, AccountOf,
    Artifacts,      \* signed transactions
    NoArtifact

VARIABLES
    status,      \* status of each intent
    owner,       \* the intent that owns the Sequence of each account, or 0
    artifact     \* the signed artifact of each intent, or NoArtifact

lifecycleVars == <<status, owner, artifact>>

LifecycleInit ==
    /\ status = [i \in Intents |-> "CREATED"]
    /\ owner = [a \in Accounts |-> 0]
    /\ artifact = [i \in Intents |-> NoArtifact]

\* An intent without the Sequence takes a free one.
Acquire(i, to) ==
    /\ status[i] \notin SequenceActive /\ to \in SequenceActive
    /\ owner[AccountOf[i]] = 0
    /\ owner' = [owner EXCEPT ![AccountOf[i]] = i]
    /\ UNCHANGED artifact

\* Its owner moves on; the first signed status comes with the artifact.
Advance(i, to) ==
    /\ to \in SequenceActive
    /\ owner[AccountOf[i]] = i
    /\ IF status[i] \in UnsignedActive /\ to \in SignedActive
       THEN /\ artifact'[i] \in Artifacts
            /\ \A j \in Intents : artifact[j] # artifact'[i]
            /\ artifact' = [artifact EXCEPT ![i] = artifact'[i]]
       ELSE UNCHANGED artifact
    /\ UNCHANGED owner

\* Its owner is settled and gives the Sequence back.
Settle(i, to) ==
    /\ to \in TerminalStatuses
    /\ owner[AccountOf[i]] = i
    /\ owner' = [owner EXCEPT ![AccountOf[i]] = 0]
    /\ UNCHANGED artifact

LifecycleNext ==
    \E i \in Intents : \E to \in Transitions[status[i]] :
        /\ status' = [status EXCEPT ![i] = to]
        /\ Acquire(i, to) \/ Advance(i, to) \/ Settle(i, to)

LifecycleSpec == LifecycleInit /\ [][LifecycleNext]_lifecycleVars
==============================================================================
