-------------------------- MODULE MCChatRateLimiter --------------------------
(***************************************************************************)
(* Instances of ChatRateLimiter for TLC.                                    *)
(***************************************************************************)
EXTENDS ChatRateLimiter, TLC

CONSTANTS p1, p2, p3, c1, c2

CallersAndChats == Permutations({p1, p2, p3}) \cup Permutations({c1, c2})
=============================================================================
