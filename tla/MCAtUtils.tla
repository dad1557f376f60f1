----------------------------- MODULE MCAtUtils ------------------------------
(* Two commands, the second with data, one text the modem sends on its own, *)
(* and pieces of any size. *)
EXTENDS AtUtils

MCCatchStr ==
  <<[state |-> "READ_IPD_DATA", str |-> <<"+", "I">>],
    [state |-> "READ_SIGNAL",   str |-> <<"+", "C">>],
    [state |-> "READ_OK",       str |-> <<"O", "K">>],
    [state |-> "READ_ERROR",    str |-> <<"E", "R">>],
    [state |-> "READ_SEND",     str |-> <<">", "SP">>],
    [state |-> "READ_CLOSED",   str |-> <<"C", "L", "O">>],
    [state |-> "READ_BUSY_S",   str |-> <<"B", "S">>],
    [state |-> "READ_READY",    str |-> <<"R", "D">>]>>

MCCmds == <<[data |-> FALSE, retry |-> 2], [data |-> TRUE, retry |-> 2]>>

MCCmdsOnce == <<[data |-> FALSE, retry |-> 1]>>

MCUnsolicited ==
  {<<"+", "I", "1", "0", "0", ":", "x", "O", "K", "y">>,
   <<"C", "L", "O">>, <<"B", "S">>}
=============================================================================
