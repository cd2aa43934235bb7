---------------------------- MODULE SdoDownloadMC ----------------------------
(* Values of the constants of SdoDownload for TLC: two runs of the program, *)
(* the second with other data of the same length, so that no size tells the *)
(* runs apart.                                                              *)
EXTENDS SdoDownload

MCDataOf == << <<1, 0, 0, 1, 1, 1, 0>>, <<0, 1, 1, 0, 0, 0, 1>> >>
=============================================================================
