----------------------------- MODULE MCAdmission -----------------------------
(* A small instance of Admission: a specification that both webhooks admit, and one
   that each refuses, for a reason of its own. *)
EXTENDS Admission

Good == [public |-> FALSE, groups |-> Groups, external |-> TRUE, internal |-> TRUE,
         subdomain |-> "fits", hostname |-> "bare", credential |-> TRUE,
         catchAll |-> FALSE, declared |-> {"id"}]

MCOneSpec == {Good}
MCSpecs == {Good, [Good EXCEPT !.declared = {}, !.subdomain = "long"]}
=============================================================================
