---------------------------- MODULE RetryParams ----------------------------
(* The parameters of a retry loop: call.attempts and call.retry_delay for a  *)
(* call, voice.attempts and voice.retry_delay for a message.                *)
EXTENDS Naturals

CONSTANTS Attempts,    \* how many attempts the loop may make
          RetryDelay,  \* the pause between two of them, in ticks
          Floods       \* the FLOOD_WAITs Telegram may answer, in ticks

ASSUME AttemptsAssumption == Attempts \in Nat \ {0}
ASSUME RetryDelayAssumption == RetryDelay \in Nat
ASSUME FloodsAssumption == Floods \subseteq Nat
=============================================================================
