-------------------------- MODULE MCDirectionCache --------------------------
(***************************************************************************)
(* Instances of DirectionCache for TLC.                                    *)
(***************************************************************************)
EXTENDS DirectionCache

CONSTANTS h1, h2

TwoFiles == <<h1, h2>>
=============================================================================
