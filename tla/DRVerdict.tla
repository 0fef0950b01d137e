----------------------------- MODULE DRVerdict ------------------------------
(***************************************************************************)
(* The HA drill as a whole: once both clients have ended, their ledger     *)
(* files go to mq-dr-baseline, whose verdict is compared with what the     *)
(* queue manager really did.                                               *)
(***************************************************************************)
EXTENDS DRSystem, DRReport

\* Both clients have ended and their files are collected (lab/scripts/dr-run.sh
\* waits for both before it copies the ledgers).
Collected == mpc = "exited" /\ rpc \in {"done", "failed"}

Verdict == BaselineOK(appfile, watchfile)

\* "SELF-CORRECT OK" is never printed over a loss: when mq-dr-baseline lets a
\* drill through, every message the app believes it sent landed, was processed
\* and had its reply consumed, whatever failed in between.
VerdictSound ==
  Collected /\ Verdict =>
    \A k \in Seqs : sent[k] > 0 => landed[k] > 0 /\ processed[k] > 0 /\ taken[k] > 0

\* "the seq stays sent-but-unconfirmed and the reconciler honestly buckets it as
\* Ambiguous rather than claiming an unsure confirmation" (dr_flow.consumer): a
\* SENT seq whose reply was consumed by a commit the consumer could not confirm
\* is Ambiguous.
InDoubtReplyAmbiguous ==
  Collected /\ cpc = "done" =>
    \A k \in Seqs :
      sent[k] > 0 /\ received[k] = 1 /\ taken[k] = 1 /\ confirmed[k] = 0
        => classify(BaselineFacts(appfile, watchfile)[k]) = "ambiguous"
=============================================================================
