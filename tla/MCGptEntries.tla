---------------------------- MODULE MCGptEntries ----------------------------
(* GptEntries on names that extend each other, as those of the list do. *)
EXTENDS GptEntries

MCSwapList ==
    << <<"xbl">>, <<"vbmeta">>, <<"vbmeta", "_system">>, <<"xbl", "_config">> >>

MCNames ==
    {<<"xbl">>, <<"xbl", "bak">>, <<"xbl", "_config">>, <<"vbmeta">>,
     <<"vbmeta", "bak">>, <<"vbmeta", "_system">>, <<"vbmeta", "_system", "bak">>}
=============================================================================
