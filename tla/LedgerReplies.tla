---------------------------- MODULE LedgerReplies ----------------------------
(***************************************************************************)
(* From a raw API v2 response to what the services work with: the parsers  *)
(* of src/xrpl/types.ts, the commands of src/xrpl/ledger.service.ts and    *)
(* the checks of src/xrpl/capability.service.ts.                           *)
(*                                                                         *)
(* A raw response is a record of fields.  A field the server left out is   *)
(* Absent, one of another type is Bad.  A command that throws answers Bad. *)
(***************************************************************************)
EXTENDS Naturals

CONSTANTS
    Absent,       \* undefined
    Bad,          \* a value of the wrong type, and the answer of a call that throws
    MaxAge,       \* VALIDATED_LEDGER_MAX_AGE_SECONDS
    MaxFeeDrops   \* MAX_FEE_DROPS

\* Neither is a number or a truth value.
ASSUME RepliesAssumption ==
    /\ Absent # Bad /\ MaxAge \in Nat /\ MaxFeeDrops \in Nat
    /\ \A null \in {Absent, Bad} : null \notin Nat /\ null \notin BOOLEAN

Uint(x) == IF x \in Nat THEN x ELSE Bad
OptionalUint(x) == IF x = Absent THEN Absent ELSE Uint(x)
OptionalStr(x) == IF x = Bad THEN Absent ELSE x
Str(x) == IF x = Absent THEN Bad ELSE x

\* a ?? b
Else(a, b) == IF a = Absent THEN b ELSE a

\* Mutant: any validated flag is taken for true.
IsTruthy(x) == x # Absent /\ x # FALSE

IsTrue(x) == x = TRUE

Succeeded(r) == r.error = "none"

\* LedgerService.call(), then the parser.
Call(r, parsed) == IF Succeeded(r) THEN parsed ELSE Bad

-------------------------------------------------------------------------------
(* account_info                                                            *)

\* account_flags decides, and the bit of account_data.Flags where it is missing.
DisableMasterKey(r) ==
    IF r.flag \in BOOLEAN THEN r.flag ELSE IF r.bits = Bad THEN Bad ELSE r.bits = "lsfDisableMaster"

\* A missing account_data is a missing Sequence.
ParseAccountInfo(r) ==
    LET info == [validated |-> IsTrue(r.validated),
                 index     |-> Else(OptionalUint(r.index), OptionalUint(r.currentIndex)),
                 seq       |-> Uint(r.seq),
                 regular   |-> OptionalStr(r.regular),
                 disabled  |-> DisableMasterKey(r),
                 queued    |-> Uint(Else(r.queued, 0))]
    IN  IF Bad \in {info.index, info.seq, info.disabled, info.queued} THEN Bad ELSE info

\* Absent: the account does not exist.
ValidatedAccountInfo(r) ==
    IF Succeeded(r)
    THEN LET info == ParseAccountInfo(r) IN IF info = Bad THEN Bad ELSE IF info.validated THEN info ELSE Bad
    ELSE IF r.error = "actNotFound" THEN Absent ELSE Bad

CurrentAccountInfo(r) == Call(r, ParseAccountInfo(r))

-------------------------------------------------------------------------------
(* ledger, fee, simulate, submit, tx                                       *)

\* ledger_index at either place, as a number or as a string of digits.
ParseLedger(r) == Uint(Else(r.index, r.nested))

ValidatedLedgerIndex(r) == IF IsTrue(r.validated) THEN Call(r, ParseLedger(r)) ELSE Bad

OpenLedgerFee(r) == Call(r, Str(r.fee))

\* A string of digits without a leading zero, not above the cap.
CheckFee(fee) == IF fee \in 1..MaxFeeDrops THEN fee ELSE Bad

CappedOpenLedgerFee(r) == CheckFee(OpenLedgerFee(r))

\* The engine result and the transaction the server says it ran.
ParseSimulation(r) ==
    IF Str(r.engine) = Bad THEN Bad
    ELSE [engine |-> r.engine, tx |-> IF r.tx = Bad THEN Absent ELSE r.tx]

Simulate(r) == Call(r, ParseSimulation(r))

ParseSubmit(r) == Str(r.engine)

SubmitEngineResult(r) == Call(r, ParseSubmit(r))

ParseTx(r) ==
    IF OptionalUint(r.index) = Bad THEN Bad
    ELSE [found |-> TRUE, hash |-> OptionalStr(r.hash), validated |-> IsTrue(r.validated),
          index |-> r.index, result |-> OptionalStr(r.result)]

\* txnNotFound proves something only with searched_all exactly true.
TxSearch(r) ==
    IF r.error = "txnNotFound" THEN [found |-> FALSE, searchedAll |-> IsTrue(r.searchedAll)]
    ELSE Call(r, ParseTx(r))

-------------------------------------------------------------------------------
(* server_info and server_definitions                                      *)

UsableServerStates == {"tracking", "full", "validating", "proposing"}
RequiredTransactionFormats == {"Payment", "TrustSet"}

\* Age is that of validated_ledger, Absent without one.
ParseServerInfo(r) ==
    IF Bad \in {OptionalUint(r.networkId), Str(r.state), OptionalUint(r.age)} THEN Bad ELSE r

CheckServerInfo(r, networkId) ==
    LET info == Call(r, ParseServerInfo(r))
    IN  /\ info # Bad
        /\ info.networkId = networkId /\ info.state \in UsableServerStates
        /\ info.age # Absent /\ info.age < MaxAge

\* No TRANSACTION_FORMATS is an empty set of them.
ParseServerDefinitions(r) == IF r.formats = Absent THEN {} ELSE r.formats

CheckDefinitions(r) ==
    Succeeded(r) /\ RequiredTransactionFormats \subseteq ParseServerDefinitions(r)
==============================================================================
