------------------------------ MODULE Routing ------------------------------
(* How frames find their way: the nodes and the hub between them (Mesh), and *)
(* the tables of the hub by itself, with a limited number of slots           *)
(* (HubRoutes).  They share no state.                                        *)
EXTENDS Mesh

CONSTANTS Addrs, Spokes, Nobody, Slots, Peers, SeenMax, Timeout, Chatty, Home, MaxOthers

VARIABLES learned, seen, peers, hushed, beatDue, statusDue, input, out, met, others

Table == INSTANCE HubRoutes WITH heard <- met

\* No address holds two of the hub's slots and no frame goes to a spoke that its
\* destination has left; with a slot for each address a frame goes where its
\* destination was heard last, the hub answers where it was asked, and the peers
\* shown online are those that were heard.
RoutesRight == Table!RoutesRight

=============================================================================
