----------------------------- MODULE MCAudioPath -----------------------------
(* TLC instances of AudioPath. *)
EXTENDS AudioPath
MCBytes == 0..MaxPushed
=============================================================================
