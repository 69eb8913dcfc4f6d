--------------------------- MODULE MCRestateCluster ---------------------------
(***************************************************************************)
(* One part of the spec moves at a time: storage together with the pod     *)
(* template, credentials, provisioning, suspension, network policies.      *)
(***************************************************************************)
EXTENDS ClusterInvariant

Basic == [size |-> 1, tmpl |-> 1, provision |-> "off", provider |-> "aws", role |-> FALSE,
          tolerations |-> 0, fenced |-> TRUE, peers |-> "unset", admin |-> TRUE]

Calm(specs) == [specs |-> specs, edits |-> 1, acts |-> {}, fails |-> {}, labelled |-> TRUE]

Storage ==
  [Calm({Basic, [Basic EXCEPT !.size = 2, !.tmpl = 2]})
     EXCEPT !.acts = {"roll"}, !.fails = {"delete", "own"}]

Credentials(cloud, tolerations, edits) ==
  LET asks == [Basic EXCEPT !.provider = cloud, !.role = TRUE]
      without == [asks EXCEPT !.role = FALSE]
  IN  [Calm({without} \cup {[asks EXCEPT !.tolerations = t] : t \in tolerations})
         EXCEPT !.edits = edits, !.fails = {"deleteJob"}]

Provisioned(answers) == {[Basic EXCEPT !.provision = answer] : answer \in answers}

Provisioning == [Calm(Provisioned({"off", "on", "misconfigured"})) EXCEPT !.fails = {"status"}]

Unlabelled == [Calm(Provisioned({"on"})) EXCEPT !.edits = 0, !.labelled = FALSE]

Suspension ==
  [Calm(Provisioned({"off", "on"})) EXCEPT !.acts = {"suspend", "delete"}, !.fails = {"suspend"}]

\* With and without provisioning, every list of peers, also where the admin port does
\* not let the operator in or nothing is fenced off.
Network ==
  [Calm({[Basic EXCEPT !.provision = "on", !.peers = peers] : peers \in {"unset", "empty", "given"}}
        \cup {[Basic EXCEPT !.peers = "empty"], [Basic EXCEPT !.peers = "given", !.admin = FALSE],
              [Basic EXCEPT !.fenced = FALSE]})
     EXCEPT !.fails = {"policies"}]

MCScenarios ==
  {Storage, Credentials("aws", {0}, 2), Credentials("gcp", {0, 1}, 1), Provisioning, Unlabelled,
   Suspension, Network}
=============================================================================
