----------------------------- MODULE SV2Samples -----------------------------
(* Messages for SV2Wire: at least one of every type, with every option      *)
(* present and absent, and strings of length 0, 1, 255 and 256.             *)
EXTENDS Integers

Fill(n, b) == [i \in 1 .. n |-> (b + i) % 256]
U256(b) == Fill(32, b)
Big == 2147483647

OneOfEach ==
  { [t |-> "SetupConnection", protocol |-> 0, min |-> 2, max |-> 515, flags |-> 16909060,
     strs |-> <<<<1>>, << >>, <<2, 3>>, <<4>>, <<5>>>>],
    [t |-> "SetupConnectionSuccess", version |-> 258, flags |-> 16909060],
    [t |-> "SetupConnectionError", flags |-> 1, error |-> <<7, 8>>],
    [t |-> "OpenMiningChannel", req |-> 1, user |-> <<9, 9>>, hashrate |-> Big, target |-> U256(1)],
    [t |-> "OpenMiningChannelSuccess", req |-> 1, channel |-> 513, target |-> U256(2),
     extranonce |-> <<1, 2, 3>>, group |-> 4],
    [t |-> "OpenMiningChannelError", req |-> 1, error |-> << >>],
    [t |-> "NewMiningJob", channel |-> 1, job |-> 2, ntime |-> << >>, version |-> Big, root |-> U256(3)],
    [t |-> "NewMiningJob", channel |-> 1, job |-> 2, ntime |-> <<66051>>, version |-> 3, root |-> U256(4)],
    [t |-> "SetNewPrevHash", channel |-> 1, job |-> 2, prev |-> U256(5), ntime |-> Big, nbits |-> 66051],
    [t |-> "SetTarget", channel |-> 1, target |-> U256(6)],
    [t |-> "SubmitSharesStandard", channel |-> 1, seq |-> 2, job |-> 3, nonce |-> Big, ntime |-> 5,
     version |-> 6],
    [t |-> "SubmitSharesSuccess", channel |-> 1, last |-> 2, accepted |-> 3, summed |-> <<4, 5>>],
    [t |-> "SubmitSharesError", channel |-> 1, seq |-> 2, error |-> <<3>>],
    [t |-> "CloseChannel", channel |-> 1, reason |-> Fill(255, 0)],
    [t |-> "CloseChannel", channel |-> 1, reason |-> Fill(256, 0)],
    [t |-> "Unknown", type |-> 99, payload |-> <<1, 2>>],
    [t |-> "Unknown", type |-> 98, payload |-> << >>] }

Short ==
  { [t |-> "CloseChannel", channel |-> 1, reason |-> <<1>>],
    [t |-> "OpenMiningChannelError", req |-> 1, error |-> <<4>>],
    [t |-> "Unknown", type |-> 99, payload |-> << >>] }
=============================================================================
