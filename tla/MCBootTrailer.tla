--------------------------- MODULE MCBootTrailer ---------------------------
(* The partition of one image: the row of the status bytes and the row of the *)
(* trailer of the primary slot, and the trailer of the secondary slot.        *)
EXTENDS BootTrailer

MCAreas   == {Primary, Secondary}
MCRecords == {SwapRow, Trailer(Primary), Trailer(Secondary)}
MCAreaOf  == [r \in MCRecords |-> IF r = Trailer(Secondary) THEN Secondary ELSE Primary]
MCRowOf   == [r \in MCRecords |-> IF r = SwapRow THEN 0 ELSE 1]
MCCells   == {"status", "swap_size", "swap_info", "copy_done", "image_ok", "magic"}
MCValues  == {"erased", "garbled", "set", "TEST", "PERM"}
=============================================================================
