------------------------------ MODULE MCFlowTable ------------------------------
(***************************************************************************)
(* Instances of FlowTable for TLC: a local host opens a connection to one  *)
(* outside, and one outside opens a connection to it.                      *)
(***************************************************************************)
EXTENDS FlowTable, TLC

CONSTANTS e1, e2

InAndOut == {<<1, 2>>, <<3, 1>>}

\* One engine serves both directions.
OneEngine == [src \in Endpoints |-> [dst \in Endpoints |-> e1]]
\* getEngine hashes source before destination: the directions may part.
ByDirection == [src \in Endpoints |-> [dst \in Endpoints |-> IF src < dst THEN e1 ELSE e2]]
===============================================================================
