--------------------------- MODULE MCCloudUpload ---------------------------
(* An instance of CloudUpload.  A row number stands for a primary key, so the rows of *)
(* one millisecond are numbered by ApiTypeId, not by arrival.                       *)
EXTENDS CloudUpload, TLC

CONSTANTS a, b

ThreeRows == 1..3
PairTied == [r \in ThreeRows |-> <<1, 1, 2>>[r]]
SecondParsesLater == [r \in ThreeRows |-> IF r = 2 THEN 1 ELSE 0]
EmptyOrHoled == {{}, {3}}
=============================================================================
