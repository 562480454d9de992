-------------------------- MODULE MCChannelStatus --------------------------
(* The keys of the channel for the model checker. *)
EXTENDS ChannelStatus

CONSTANTS k1, k2

TwoKeys == <<k1, k2>>
OneKey == <<k1>>
=============================================================================
