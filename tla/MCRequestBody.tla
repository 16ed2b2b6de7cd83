--------------------------- MODULE MCRequestBody ---------------------------
(* Small configurations for the request body.                              *)
EXTENDS RequestBody

\* Every mode, with limits that a body of MaxBody units can meet: the limit
\* of the body, the limit without files and the limit in memory are tried
\* one at a time and together.
MCConfigs ==
    [enabled : {"On", "DetectionOnly"}, action : {"Reject", "Partial"},
     bodyLimit : {3, 9}, noFilesLimit : {3, 9}, memLimit : {2},
     buffering : BOOLEAN, access : {TRUE}, keepPut : {FALSE},
     stream : {FALSE}, ctl : {{"XML"}}]
    \cup
    [enabled : {"On"}, action : {"Reject"},
     bodyLimit : {9}, noFilesLimit : {9}, memLimit : {0, 2, 9},
     buffering : {FALSE}, access : BOOLEAN, keepPut : BOOLEAN,
     stream : BOOLEAN, ctl : {{}}]

\* A rule of phase 1 selects the URL-encoded processor for another type.
CtlConfigs ==
    [enabled : {"On"}, action : {"Reject"},
     bodyLimit : {9}, noFilesLimit : {9}, memLimit : {2},
     buffering : {FALSE}, access : {TRUE}, keepPut : {FALSE},
     stream : {FALSE}, ctl : {{"URLENCODED"}}]
=============================================================================
