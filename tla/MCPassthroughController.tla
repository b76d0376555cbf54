---------------------- MODULE MCPassthroughController ----------------------
(* A small instance of PassthroughController: a model at both endpoints, or only inside. *)
EXTENDS PassthroughController

MCSpecs == {[provider |-> "openrouter", enabled |-> Endpoints],
            [provider |-> "openrouter", enabled |-> {"internal"}]}
=============================================================================
