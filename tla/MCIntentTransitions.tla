------------------------- MODULE MCIntentTransitions -------------------------
(* Two intents of one account; requests of each kind the services make, and *)
(* one the transition table forbids.                                        *)
EXTENDS IntentTransitions

MCAccountOf == [i \in Intents |-> "alice"]

Ask(from, to) == [from |-> from, to |-> to]

MCAsked == {Ask({"CREATED"}, "PREPARED"), Ask({"PREPARED"}, "SIMULATED"),
            Ask({"SIMULATED"}, "AWAITING_SIGNATURE"), Ask({"AWAITING_SIGNATURE"}, "SIGNED"),
            Ask({"SIGNED"}, "SUBMITTED"), Ask(UnsignedActive, "EXPIRED"),
            Ask(SignedActive, "VALIDATED"), Ask({"SUBMITTED"}, "REJECTED")}
==============================================================================
