------------------------------ MODULE DRReport ------------------------------
(***************************************************************************)
(* The verdict over two ledger files (mqrc/dr/reconcile.py, classifier.py, *)
(* report.py): pure functions of what the files hold.  An app ledger is    *)
(* a record of counts per seq, [sent, confirmed]; a Watcher ledger is the  *)
(* count of RECEIVED per seq.                                              *)
(***************************************************************************)
EXTENDS Naturals

\* The healthy outcomes; the other buckets (stranded, lost_unprocessed,
\* ambiguous, duplicated) are at risk.
SAFE_BUCKETS == {"confirmed", "continued"}

sent_seqs(app)      == {k \in DOMAIN app.sent : app.sent[k] > 0}
confirmed_seqs(app) == {k \in DOMAIN app.confirmed : app.confirmed[k] > 0}

\* One record of facts for each seq the app SENT; confirmed_pre are the seqs
\* confirmed at or before the cutover.
reconcile(app, svc, secondary_present, primary_disk_present, confirmed_pre) ==
  [k \in sent_seqs(app) |->
     [app_confirmed   |-> k \in confirmed_pre,
      svc_received    |-> svc[k],
      on_secondary    |-> k \in secondary_present,
      on_primary_disk |-> k \in primary_disk_present]]

classify_no_ambiguous(f) ==
  IF f.svc_received >= 2 THEN "duplicated"
  ELSE IF f.app_confirmed THEN "confirmed"
  ELSE IF f.on_secondary THEN "continued"
  ELSE IF f.on_primary_disk THEN "stranded"
  ELSE "lost_unprocessed"

\* The first bucket whose condition holds.
classify(f) ==
  IF f.svc_received >= 2 THEN "duplicated"
  ELSE IF f.app_confirmed THEN "confirmed"
  ELSE IF f.on_secondary THEN "continued"
  ELSE IF f.svc_received = 1 THEN "ambiguous"
  ELSE IF f.on_primary_disk THEN "stranded"
  ELSE "lost_unprocessed"

\* The seqs loss_window reports on.
at_risk(facts) == {k \in DOMAIN facts : classify(facts[k]) \notin SAFE_BUCKETS}

\* Without a fault, every seq that is not CONFIRMED is a violation.
self_correctness_violations(facts) ==
  {k \in DOMAIN facts : classify(facts[k]) # "confirmed"}

\* mq-dr-baseline: no fault is assumed, so every SENT seq is taken to be on the
\* secondary, nothing on a dead primary, and no confirmation is too late.
BaselineFacts(app, svc) ==
  reconcile(app, svc, sent_seqs(app), {}, confirmed_seqs(app))

\* assert_self_correct lets the run through: "SELF-CORRECT OK".
BaselineOK(app, svc) == self_correctness_violations(BaselineFacts(app, svc)) = {}
=============================================================================
