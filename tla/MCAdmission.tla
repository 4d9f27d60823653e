------------------------------ MODULE MCAdmission ------------------------------
(* Admission on small instances: two actions, one reserved and one prohibited by
   the policy author's block, both declared by the maker's own. *)
EXTENDS Admission

AuthorsBlock == [actions |-> {"edit"}, reserved |-> {"deploy", "edit"},
                 prohibited |-> {"edit"}, obligations |-> {"log"}]
MakersBlock  == [actions |-> {"edit", "deploy"}, reserved |-> {}, prohibited |-> {},
                 obligations |-> {}]
MCBlocks == {AuthorsBlock, MakersBlock}

\* The author's pin, the maker's own, whose key is a policy author's, too, and a forgery.
MCPins == {[block |-> AuthorsBlock, signer |-> "author", author |-> "author", genuine |-> TRUE],
           [block |-> MakersBlock, signer |-> "maker", author |-> "maker", genuine |-> TRUE],
           [block |-> MakersBlock, signer |-> "author", author |-> "author", genuine |-> FALSE]}

StageReceipt(tool, action, holds, genuine) ==
  [tool |-> tool, action |-> action, holds |-> holds, genuine |-> genuine]

\* One tool reports twice on deploy, and differently; on edit there is a forgery.
MCReceipts == {StageReceipt("solver", "deploy", TRUE, TRUE),
               StageReceipt("solver", "deploy", FALSE, TRUE),
               StageReceipt("solver", "edit", TRUE, FALSE)}

HumanApproval(action, approver, reservations, genuine) ==
  [action |-> action, approver |-> approver, role |-> "lead",
   reservations |-> reservations, genuine |-> genuine]

MCApprovals == {HumanApproval("deploy", "lead", {"canary"}, TRUE),
                HumanApproval("deploy", "maker", {}, FALSE),
                HumanApproval("edit", "lead", {}, TRUE)}

MCKindOf     == [a \in Actions |-> a]
MCAuthorized == {<<"deploy", "lead", "lead">>, <<"edit", "lead", "lead">>}
MCLapsing    == {HumanApproval("deploy", "lead", {"canary"}, TRUE),
                 StageReceipt("solver", "deploy", TRUE, TRUE)}
================================================================================
