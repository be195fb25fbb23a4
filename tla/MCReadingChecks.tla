--------------------------- MODULE MCReadingChecks --------------------------
(***************************************************************************)
(* Eight readings: two normal ones that differ, one that has become low,   *)
(* and one for each check and for a model that says nothing.               *)
(***************************************************************************)
EXTENDS ReadingChecks

Normal(jitter) ==
    [modes |-> {"bms_connected"}, grid |-> "present", soc |-> 50, packs |-> {50}, jitter |-> jitter]

MCFrames == {
    Normal(1), Normal(2),
    [Normal(2) EXCEPT !.soc = 8],
    [Normal(1) EXCEPT !.soc = 0],
    [Normal(1) EXCEPT !.modes = @ \cup {"off_grid"}, !.grid = "absent"],
    [Normal(2) EXCEPT !.grid = "absent", !.soc = 0, !.packs = {}],
    [Normal(2) EXCEPT !.modes = {}, !.soc = Nothing, !.packs = {}],
    [modes |-> Nothing, grid |-> Nothing, soc |-> Nothing, packs |-> {}, jitter |-> 0]}
=============================================================================
