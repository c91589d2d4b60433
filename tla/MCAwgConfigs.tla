--------------------------- MODULE MCAwgConfigs ----------------------------
(***************************************************************************)
(* The Cfg values AwgProtocol is checked with, shared by MCAwgProtocol and *)
(* MCTunnelAndForensics.                                                   *)
(*                                                                         *)
(* uint32 is scaled to 0..9.  The configurations are chosen so that a      *)
(* GetMsgType racing an installation can read Min and Max of different     *)
(* configurations both ways: Default -> A for type 3 gives Min 3 > Max 1   *)
(* (the panic of RandomSizeInRange), for type 4 gives 4..9 which reaches   *)
(* A's type 2 range; A and B differ on every type.                         *)
(***************************************************************************)
EXTENDS AwgMagicHeader

MCMaxU32 == 9

\* No junk of any kind (AwgProtocol's JunkKinds).
Zero == [k \in {"init", "response", "cookieReply", "transport"} |-> 0]

\* NewMagicHeadersUnchecked(1, 2, 3, 4), no junk: the device's default.
DefaultCfg == [IsSet |-> FALSE, junk |-> Zero, gen |-> 0,
               values |-> <<[Min |-> 1, Max |-> 1], [Min |-> 2, Max |-> 2],
                            [Min |-> 3, Max |-> 3], [Min |-> 4, Max |-> 4]>>]

\* The zero Protocol: MagicHeaders.Values is nil.
ZeroCfg == [IsSet |-> FALSE, junk |-> Zero, gen |-> 0, values |-> Nil]

CfgA == [IsSet |-> TRUE, junk |-> [Zero EXCEPT !["init"] = 2, !["transport"] = 1], gen |-> 0,
         values |-> <<[Min |-> 2, Max |-> 3], [Min |-> 5, Max |-> 6],
                      [Min |-> 0, Max |-> 1], [Min |-> 7, Max |-> 9]>>]

CfgB == [IsSet |-> TRUE, junk |-> [Zero EXCEPT !["response"] = 1, !["cookieReply"] = 3], gen |-> 0,
         values |-> <<[Min |-> 6, Max |-> 8], [Min |-> 0, Max |-> 2],
                      [Min |-> 9, Max |-> 9], [Min |-> 3, Max |-> 5]>>]

MCConfigs == {CfgA, CfgB}

MCConfigsA == {CfgA}

\* CfgA with obfuscation disabled: junk sizes configured, IsSet false.
CfgAOff == [CfgA EXCEPT !.IsSet = FALSE]

MCConfigsOff == {CfgAOff}

=============================================================================
