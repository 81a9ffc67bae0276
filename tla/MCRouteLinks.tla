---------------------------- MODULE MCRouteLinks ----------------------------
\* Instances of RouteLinks for TLC; the slots are ordered, so no symmetry.
EXTENDS RouteLinks
=============================================================================
