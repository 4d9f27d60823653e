------------------------------ MODULE MCSteering ------------------------------
(* Steering on small instances: an action the maker may do and one that is
   prohibited although it is reserved, too, and a kind that is only reserved. *)
EXTENDS Steering

Subject ==
  [action |-> "edit", norms |-> {<<"O", "edit">>}, text |-> FALSE, duties |-> {},
   mandate |-> "none", autonomy |-> "none", measured |-> FALSE, proxies |-> {},
   claims |-> "none"]

\* Nothing to object to; a doubt; refuted claims; everything else at once: forbidden,
\* gamed, over the ceiling and in breach of an extracted duty.  Which of these counts
\* is a matter of the planes that work.
MCContexts ==
  {[Subject EXCEPT !.claims = "supported"],
   [Subject EXCEPT !.claims = "weak", !.mandate = "served"],
   [Subject EXCEPT !.claims = "refuted"],
   [Subject EXCEPT !.norms = {<<"F", "edit">>}, !.measured = TRUE, !.proxies = {"gamed"},
                   !.autonomy = "over", !.text = TRUE, !.duties = {<<"F", "edit">>}]}
MCPlanes  == {AllPlanes}
MCWorking == {AllPlanes, AllPlanes \ {"deontic", "proxy"}, {"norm", "mandate"}}
MCRelated == {<<"edit", "edit">>}

MCKindOf == [a \in Actions |-> a]
MCBlocks == {[actions |-> {"edit"}, reserved |-> {"deploy", "share"},
              prohibited |-> {"deploy"}, obligations |-> {}]}

Holding(tool, a) == [tool |-> tool, own |-> TRUE, action |-> a, status |-> "holds"]
MCBundles ==
  {{},
   {[Holding("solver", "edit") EXCEPT !.status = "failed"]},
   {Holding("solver", "edit"), [Holding("solver", "edit") EXCEPT !.status = "failed"]},
   {Holding("solver", "edit"), Holding("audit", "edit")},
   {Holding("solver", "edit"), Holding("audit", "edit"), Holding("oversight", "edit")}}
================================================================================
