--------------------------- MODULE MCNodeMessages ---------------------------
(***************************************************************************)
(* Small clusters for TLC: addresses that differ, one that begins another, *)
(* and a list that is longer than what is read of the file.                *)
(***************************************************************************)
EXTENDS NodeMessages

MCAddressLists ==
  {<<<<"1">>, <<"2">>>>,
   <<<<"1">>, <<"1", "2">>>>,
   <<<<"1", "2">>, <<"1">>>>,
   <<<<"1", "2">>, <<"2", "1">>, <<"3", "1">>>>}
MCBetween == <<" ">>
=============================================================================
