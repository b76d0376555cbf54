---------------------------- MODULE MCClusterTLS ----------------------------
(* A small instance of ClusterTLS: an update that brings a Secret of the user's and
   moves the internal endpoint to a Gateway in the operator's own namespace. *)
EXTENDS ClusterTLS

CONSTANTS o1, o2, edge, inner, gateways, own, corp, domain

MCNamespaceOf == [g \in {edge, inner} |-> IF g = edge THEN gateways ELSE own]
MCConfigOf ==
  [o \in {o1, o2} |->
     [domain |-> domain, manageListeners |-> TRUE,
      secretName |-> IF o = o1 THEN None ELSE corp,
      gateway |-> [e \in Endpoints |-> IF o = o2 /\ e = "internal" THEN inner ELSE edge]]]
=============================================================================
