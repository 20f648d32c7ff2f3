----------------------------- MODULE MCListing -----------------------------
(***************************************************************************)
(* Instances of Listing for TLC.                                           *)
(***************************************************************************)
EXTENDS Listing

NestedNames == {<<1>>, <<1, 1>>, <<1, 1, 1>>, <<1, 2>>, <<2>>}
ParentNames == {<<>>, <<1>>, <<1, 1>>}
PlainNames == {<<1>>, <<2>>, <<3>>, <<4>>}
=============================================================================
