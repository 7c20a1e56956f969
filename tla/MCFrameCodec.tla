---------------------------- MODULE MCFrameCodec ----------------------------
(* Bluetooth's framing, an event with room for two contacts under a device *)
(* with three, every raw value of either coordinate, and times on both     *)
(* sides of the wraps of the timestamp and of the uptime.                  *)
EXTENDS FrameCodec

MCWrap == 2 * TsWrap
MCUptimes == {8, TsWrap - 1, MCWrap + 300}
MCRails == {0}
MCSpots == {<<0, 0>>, <<-4096, 4095>>}

\* Other reports and ragged ones are refused.
ASSUME ~Decodes([Report(<<>>, 0) EXCEPT !.id = 144])
ASSUME ~Decodes([Report(<<>>, 0) EXCEPT !.len = HEADER + 5])
ASSUME ~Decodes([Report(<<>>, 0) EXCEPT !.len = HEADER - 1])
=============================================================================
