------------------------------- MODULE MCTftp -------------------------------
(* TftpTransfer on files of up to two full blocks of two bytes, or four of   *)
(* one byte, with block numbers that wrap after three.                      *)
EXTENDS TftpTransfer

MCSizes == 0..4
MCAskedBlk == {0, 1}
=============================================================================
