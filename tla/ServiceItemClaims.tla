-------------------------- MODULE ServiceItemClaims --------------------------
(***************************************************************************)
(* What the comments, the documents and the tests of the repository say of *)
(* the delivery of a service item, where the handlers do otherwise.  Every *)
(* property below is refuted by a run of its own.                          *)
(***************************************************************************)
EXTENDS ServiceItem

\* With an expected version, the file a report is reviewed with is the one the
\* gateway verified for this review (comment of UpdateReportStatus).
ReviewedFileVerified ==
    [][\A c \in inflight :
         /\ c.op = "advance" /\ c.phase = "REVIEWED" /\ c.versioned /\ AppliedNow(c)
         /\ item.report = "COMPILING" /\ item'.report = "REVIEWED"
         => ledger[item.revision].file = c.file]_vars

\* An exception is left by the review of the deviation that caused it, never
\* by the review of an earlier one (comment of the DEVIATION_REVIEWED handler).
ReviewMatchesOpenDeviation ==
    [][item.status = "Exception" /\ item'.status # "Exception" =>
           \E c \in inflight : c.op = "review" /\ c.id = open /\ AppliedNow(c)]_vars

\* The deviation an item is in exception for is the one that may be reviewed
\* (same comment: the review is about the current deviation, the last one that
\* was reported).
OpenDeviationReviewable == item.status = "Exception" => Reviewable(open)

=============================================================================
