----------------------------- MODULE MCQuicLink -----------------------------
(***************************************************************************)
(* The QUIC link with the value of SMART_QUIC_STREAM_LANES that the unit   *)
(* files of the repository set at both ends.                               *)
(***************************************************************************)
EXTENDS QuicLink

\* deploy/smart-fec-quic.service:10, deploy/openwrt-smart-fec-quic.init:11
ShippedSettings == {"0"}

=============================================================================
