---------------------------- MODULE MCStaticETag ----------------------------
(***************************************************************************)
(* Instances of StaticETag for TLC.                                        *)
(***************************************************************************)
EXTENDS StaticETag

CONSTANTS h1, h2

TwoFiles == <<h1, h2>>
=============================================================================
