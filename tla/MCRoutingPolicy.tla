--------------------------- MODULE MCRoutingPolicy ---------------------------
EXTENDS RoutingPolicy

\* Names the user has rules for are in at most one list, others in at most two.
MCConnections ==
  {c \in [name : Sites \union {"elsewhere"}, in : UNION {kSubset(n, Lists) : n \in 0 .. 2},
          listed : BOOLEAN, onRkn : BOOLEAN, fromRussia : BOOLEAN,
          to : {"world", "server", "private"}] :
     /\ c \in Connection
     /\ c.name # "elsewhere" => Cardinality(c.in) <= 1
     /\ c.listed \/ c.onRkn \/ c.fromRussia => Cardinality(c.in) <= 1
     /\ ~(c.listed /\ c.onRkn)}

=============================================================================
