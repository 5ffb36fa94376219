----------------------------- MODULE MCPrivData -----------------------------
(***************************************************************************)
(* Room for two partitions, of which the defaults fill one and count two;  *)
(* one parameter's name begins with another's, and so with partitions; the *)
(* block lies in one erase block of a chip that is programmed by write     *)
(* buffer, or in two of one that is programmed word by word.               *)
(***************************************************************************)
EXTENDS PrivData

MCPrefix ==
    { <<"root", "root">>, <<"root", "rootfs">>, <<"rootfs", "rootfs">>,
      <<"xmodem", "xmodem">>, <<"xmodem", "xmodem_timeout">>,
      <<"xmodem_timeout", "xmodem_timeout">> }

MCDefaultParts == <<"rootfs">>
MCParamNames == <<"xmodem">>
MCBufferedUnits == { <<Areas>> }
MCEraseUnits == MCBufferedUnits \union { <<{"part"}, {"param", "cmd"}>> }
==============================================================================
