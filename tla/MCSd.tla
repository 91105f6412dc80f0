-------------------------------- MODULE MCSd --------------------------------
(* The instance of SdCard: transfers of one and of two blocks. *)
EXTENDS SdCard

MCNums == {1, 2}
=============================================================================
