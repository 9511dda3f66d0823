---------------------------- MODULE MCReviewLoop ----------------------------
(* The review loop on small instances for TLC. *)
EXTENDS ReviewLoop

Plain == [agentic |-> FALSE, gates |-> TRUE, peer |-> FALSE,
          standby |-> FALSE, optIn |-> FALSE, spare |-> "none",
          reviewOnly |-> FALSE, evidence |-> FALSE, unread |-> FALSE]

\* Nothing, an edit, or a commit and an edit on top of it.
MCLeaves == {{}, {FALSE}, {TRUE, FALSE}}

MCConfigs ==
    { [Plain EXCEPT !.agentic = TRUE, !.spare = "spare"],
      [Plain EXCEPT !.standby = TRUE, !.spare = "standby"],
      [Plain EXCEPT !.peer = TRUE, !.unread = TRUE],
      [Plain EXCEPT !.optIn = TRUE, !.spare = "spare"],
      [Plain EXCEPT !.reviewOnly = TRUE],
      [Plain EXCEPT !.reviewOnly = TRUE, !.evidence = TRUE],
      [Plain EXCEPT !.gates = FALSE, !.evidence = TRUE] }
=============================================================================
