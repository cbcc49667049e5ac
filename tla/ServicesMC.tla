------------------------------ MODULE ServicesMC ------------------------------
(***************************************************************************)
(* Values for Services: two job workers and one ECM worker, whose row is   *)
(* re-enqueued by racing releases; and the lifecycle map of Promotion.     *)
(***************************************************************************)
EXTENDS Services

StateNames == {"Draft", "Review", "Pilot", "Released", "Obsolete"}

ArcsOfMap ==
    {<<"Draft", "Review">>, <<"Draft", "Released">>, <<"Draft", "Obsolete">>,
     <<"Review", "Released">>, <<"Review", "Draft">>, <<"Pilot", "Obsolete">>,
     <<"Released", "Pilot">>, <<"Released", "Obsolete">>, <<"Obsolete", "Draft">>}

PermissionOfState == [s \in StateNames |-> IF s = "Pilot" THEN "no permission" ELSE s]

\* The workflow of Obsolete ends at once, that of Review is a vote and a second one
\* after a rejection, which has no transition for another; Pilot's is broken.
FlowOfState ==
    [s \in {"Review", "Pilot", "Obsolete"} |->
        IF s = "Review" THEN "a1" ELSE IF s = "Pilot" THEN "broken" ELSE "End"]

RouteOfActivity ==
    [a \in {"a1", "a2"} |->
        IF a = "a1" THEN [Approve |-> "End", Reject |-> "a2"]
        ELSE [Approve |-> "End", Reject |-> "none"]]

OneLineage == [r \in {1} |-> 1]
=============================================================================
