------------------------------- MODULE Signing -------------------------------
(***************************************************************************)
(* POST /intents/:id/signature: src/signing/signing.service.ts, with the   *)
(* artifact check of signed-blob.service.ts and the key check of           *)
(* signer-authorization.service.ts.                                        *)
(***************************************************************************)
EXTENDS Requests

\* The signer works outside the service.  GET /intents/:id shows the prepared
\* transaction from PREPARED on; the signer may sign it with any key it holds,
\* and from then on anyone holding the blob may broadcast it.
Sign ==
    /\ \E i \in Intents, k \in Keys :
          /\ row[i].seq # 0
          /\ minted' = minted \cup {[acct |-> AccountOf[i], pay |-> PayloadOf[i],
                                     seq |-> row[i].seq, lls |-> row[i].lls, key |-> k]}
    /\ UNCHANGED <<closed, chain, banned, row, proc>>

\* SignedBlobService.verify: without its signature fields the blob is the
\* prepared blob of row r, and its signature verifies.
VerifiedFor(t, i, r) ==
    /\ t.acct = AccountOf[i]
    /\ t.pay = PayloadOf[i]
    /\ t.seq = r.seq
    /\ t.lls = r.lls

\* SignerAuthorizationService.assertAuthorized: the master key unless disabled, or
\* the regular key, of the validated account.
AssertAuthorized(key) == key \in AuthorizedKeys

\* Mutant: any signature is answered with the stored one.
SettledAnswerUnchecked(local, r) ==
    CASE r.status \in {"SIGNED", "SUBMITTED", "VALIDATED"} -> Answered(local, "ok")
      [] r.status = "EXPIRED" -> Answered(local, "expired")
      [] OTHER                -> Answered(local, "error")

\* Mutant: every way an intent can end without its transaction is called expired.
SettledAnswerExpired(local, r) ==
    CASE r.status \in {"SIGNED", "SUBMITTED", "VALIDATED"} ->
             Answered(local, IF r.blob = local.blob THEN "ok" ELSE "error")
      [] r.status \in {"EXPIRED", "FAILED", "REJECTED"} -> Answered(local, "expired")
      [] OTHER -> Answered(local, "error")

\* The answer for any status but AWAITING_SIGNATURE.
SettledAnswer(local, r) ==
    CASE r.status \in {"SIGNED", "SUBMITTED", "VALIDATED"} ->
             Answered(local, IF r.blob = local.blob THEN "ok" ELSE "error")
      [] r.status = "EXPIRED" -> Answered(local, "expired")
      [] OTHER                -> Answered(local, "error")

StartAttach(c) ==
    /\ Free(c)
    /\ \E i \in Intents, t \in minted :
          LET local == [Idle EXCEPT !.op = "attach", !.id = i, !.blob = t]
          IN  IF row[i].status # "AWAITING_SIGNATURE"
              THEN Goto(c, SettledAnswer(local, row[i]))
              ELSE IF ~AssertRecovered \/ ~VerifiedFor(t, i, row[i])
              THEN Goto(c, Answered(local, "error"))
              ELSE Goto(c, [local EXCEPT !.pc = "signAccount", !.snap = row[i]])
    /\ UNCHANGED row

\* One validated account_info answers three questions in this order: is the
\* window over, may the key sign, is the Sequence still the prepared one.
ReadSigningAccount(c) ==
    /\ At(c, "signAccount")
    /\ LET r == proc[c].snap
           a == AccountOf[proc[c].id]
           decide(to, failure) ==
               Goto(c, [proc[c] EXCEPT !.pc = "sign", !.want = Decide(to, failure, 0)])
       IN  \E v \in Views :
              IF ~ExistsAt(a, v) THEN Reply(c, "error")
              ELSE IF WindowOver(v, r) THEN decide("EXPIRED", "none")
              ELSE IF ~AssertAuthorized(proc[c].blob.key) THEN Reply(c, "error")
              ELSE IF SeqAt(a, v) > r.seq THEN decide("FAILED", "SEQUENCE_CONFLICT")
              ELSE IF SeqAt(a, v) < r.seq THEN decide("FAILED", "SEQUENCE_REGRESSION")
              ELSE decide("SIGNED", "none")
    /\ UNCHANGED row

\* Only an accepted signature looks at the transition's outcome: an expiry and
\* a Sequence failure are answered as decided.
WriteSigning(c) ==
    /\ At(c, "sign")
    /\ LET i    == proc[c].id
           to   == proc[c].want.to
           new  == IF to = "SIGNED" THEN [row[i] EXCEPT !.blob = proc[c].blob]
                   ELSE [row[i] EXCEPT !.failure = proc[c].want.failure]
           said == CASE to = "SIGNED"  -> "ok"
                     [] to = "EXPIRED" -> "expired"
                     [] OTHER          -> "failed"
       IN  /\ Transition(i, {"AWAITING_SIGNATURE"}, to, new)
           /\ AfterTransition(c, TransitionResult(i, {"AWAITING_SIGNATURE"}, to, new),
                  Answered(proc[c], said),
                  IF to = "SIGNED"
                  THEN [Idle EXCEPT !.op = "attach", !.id = i, !.pc = "reloadSigned",
                                    !.blob = proc[c].blob]
                  ELSE Answered(proc[c], said))

ReloadSigning(c) ==
    /\ At(c, "reloadSigned")
    /\ LET r == row[proc[c].id]
       IN  Goto(c, IF r.status = "AWAITING_SIGNATURE" THEN Answered(proc[c], "error")
                   ELSE SettledAnswer(proc[c], r))
    /\ UNCHANGED row

Attach(c) ==
    StartAttach(c) \/ ReadSigningAccount(c) \/ WriteSigning(c) \/ ReloadSigning(c)
==============================================================================
